----------------------------- MODULE MCTileSets -----------------------------
(***************************************************************************)
(* A tile set whose contents are a file and a tile set that refers to one  *)
(* more, a second one in another folder and a third one beside the output, *)
(* its content in a file named as the merger names its own.                *)
(***************************************************************************)
EXTENDS TileSets, TLC

A == <<"a", "tileset.json">>
B == <<"b", "tileset.json">>
T == <<"t.json">>
M == <<"m.json">>

DiskWith(sub) ==
    A :> Json(<<sub, Uri(<<"x.pnts">>)>>) @@
    <<"a", "x.pnts">> :> Binary("x") @@
    <<"a", "sub.json">> :> Json(<<Uri(<<"deep", "deep.json">>), Uri(<<"y.pnts">>)>>) @@
    <<"a", "y.pnts">> :> Binary("y") @@
    <<"a", "deep", "deep.json">> :> Json(<<Uri(<<"z.pnts">>)>>) @@
    <<"a", "deep", "z.pnts">> :> Binary("z") @@
    B :> Json(<<Uri(<<"w.pnts">>)>>) @@
    <<"b", "w.pnts">> :> Binary("w") @@
    T :> Json(<<SampleUri>>) @@
    <<"r.pnts">> :> Binary("t")

DisksDef ==
    {DiskWith(Uri(<<"sub.json">>)),
     DiskWith([absolute |-> TRUE, path |-> <<"a", "sub.json">>])}
JsonNamesDef == {"tileset.json", "sub.json", "deep.json", "t.json", "m.json"}
InputsDef == {<<A>>, <<A, B>>, <<T, B>>, <<M, B>>}
OutputsDef == {M, A, B}
=============================================================================
