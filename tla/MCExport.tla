------------------------------ MODULE MCExport ------------------------------
(***************************************************************************)
(* None to four geometries, taken among boxes of several sizes: together   *)
(* in a quarter of a square, in different squares, at the end of the       *)
(* extent.                                                                 *)
(***************************************************************************)
EXTENDS Export

BoxAt(x, y, z, size, height) ==
    [min |-> <<x, y, z>>, max |-> <<x + size, y + height, z + size>>]

Boxes == {BoxAt(0, 0, 0, 1, 1), BoxAt(1, 0, 0, 0, 2), BoxAt(3, 1, 3, 1, 0),
          BoxAt(4, 0, 2, 0, 1), BoxAt(0, 0, 4, 2, 1), BoxAt(6, 0, 8, 2, 1),
          BoxAt(0, 0, 0, 0, 1), BoxAt(4, 0, 4, 0, 1)}
GeometriesDef == UNION {[1..n -> Boxes] : n \in 0..4}
=============================================================================
