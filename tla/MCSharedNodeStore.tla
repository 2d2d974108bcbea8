------------------------- MODULE MCSharedNodeStore -------------------------
(***************************************************************************)
(* Instance of SharedNodeStore for TLC: three names, two contents of       *)
(* different sizes, a list of at most five positions and a limit that two  *)
(* entries reach.                                                          *)
(***************************************************************************)
EXTENDS SharedNodeStore, TLC

CONSTANTS small, large
SizesOfContent == (small :> 1) @@ (large :> 3)

NameSymmetry == Permutations(Name)
=============================================================================
