--------------------------- MODULE MCNodeProcess ---------------------------
(***************************************************************************)
(* Three jobs of one node: each loads what the one before has saved.       *)
(* The tile is the root, one whose job holds itself only (<<0>>), or one   *)
(* whose job holds its children too (<<0, 0, 0>>, where the points are).   *)
(***************************************************************************)
EXTENDS NodeProcess, TLC

CONSTANTS p1, p2, p3, p4, p5

PointDef == {p1, p2, p3, p4, p5}

(* Four points under one child of <<0, 0, 0>>, two of them in one tile.    *)
PathDef ==
    p1 :> <<0, 0, 0, 0, 0>> @@ p2 :> <<0, 0, 0, 0, 0>> @@
    p3 :> <<0, 0, 0, 0, 1>> @@ p4 :> <<0, 0, 0, 1, 0>> @@
    p5 :> <<0, 0, 0, 0, 2>>

JobNameDef == {<<>>, <<0>>, <<0, 0, 0>>}
JobsDef == << <<{p1}, {p2, p3}>>, <<{p4}>>, <<{p5}>> >>
=============================================================================
