----------------------------- MODULE MCConvert -----------------------------
(***************************************************************************)
(* Instances of Convert for TLC.                                           *)
(***************************************************************************)
EXTENDS ConvertProperties, TLC

CONSTANTS p1, p2, p3

(* p1 and p2 share the first octant and part in the second level, p3 is    *)
(* alone in its octant: tile 0 can keep one point and forward the other,   *)
(* be processed again and send a stored point down, while tile 1 is        *)
(* independent of it.                                                      *)
ThreePaths == (p1 :> <<0, 0>>) @@ (p2 :> <<0, 1>>) @@ (p3 :> <<1>>)

(* p1 and p2 are together down to the fifth level: their tasks skip a      *)
(* level (3 -> 5 digits), and tile 0 can keep one point and forward the    *)
(* other.                                                                  *)
DeepPaths == (p1 :> <<0, 0, 0, 0, 0>>) @@ (p2 :> <<0, 0, 0, 0, 1>>) @@ (p3 :> <<1>>)

(* Two files: the first in two chunks, the second in one.                  *)
TwoPortions == << << {p1}, {p3} >>, << {p2} >> >>
(* One file of one chunk.                                                  *)
OnePortion == << << {p1, p2, p3} >> >>
WorkerSymmetry == Permutations(Worker)
=============================================================================
