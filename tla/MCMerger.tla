------------------------------ MODULE MCMerger ------------------------------
(***************************************************************************)
(* Up to three tile sets whose boxes, flat or not, are in a few places, so *)
(* that they share a corner of the quadtree, lie on a border of the whole  *)
(* box, or are the same; the first ones with a transform or without.       *)
(***************************************************************************)
EXTENDS Merger

Flat(x, y, z) == [min |-> <<x, y, z>>, max |-> <<x, y, z>>]
Cube(x, y, z, size) == [min |-> <<x, y, z>>, max |-> <<x + size, y + size, z + size>>]

Boxes ==
    {Cube(0, 0, 0, 2), Cube(1, 0, 0, 2), Cube(6, 6, 0, 2), Cube(0, 6, 2, 4),
     Flat(1, 1, 1), Flat(8, 8, 2), Flat(0, 0, 0), Cube(3, 3, 0, 1)}
Offsets == {<<0, 0, 0>>, <<2, -1, 0>>}

InputSet == [box : Boxes, transform : Offsets]
InputsDef == UNION {[1..n -> InputSet] : n \in 1..3}
=============================================================================
