------------------------------- MODULE Tiling -------------------------------
(***************************************************************************)
(* What a conversion promises, whatever the number of processes: the       *)
(* points of the input files are published in tiles, a tile is written     *)
(* once and holds only points of its octant, a point is in one tile, and   *)
(* the conversion reports success only when every point has its tile.      *)
(***************************************************************************)
EXTENDS NodeNames

CONSTANTS
    Point,      \* the input points
    Path,       \* the octants of each point
    Tile        \* the names a tile can have

VARIABLES
    tiles,      \* name -> its points ({}: not written)
    status      \* "running", then "ok" or "failed"

vars == <<tiles, status>>

Pending == Point \ UNION {tiles[n] : n \in Tile}

Init ==
    /\ tiles = [n \in Tile |-> {}]
    /\ status = "running"

(* A tile may still be written after a failure: the other processes finish *)
(* what they were given.                                                   *)
Publish(n, points) ==
    /\ n # Root
    /\ tiles[n] = {}
    /\ points \subseteq Pending
    /\ \A p \in points : IsAncestor(Path[p], n)
    /\ tiles' = [tiles EXCEPT ![n] = points]
    /\ UNCHANGED status

Succeed ==
    /\ status = "running"
    /\ Pending = {}
    /\ status' = "ok"
    /\ UNCHANGED tiles

GiveUp ==
    /\ status = "running"
    /\ status' = "failed"
    /\ UNCHANGED tiles

Next ==
    \/ \E n \in Tile : \E points \in SUBSET Pending : Publish(n, points)
    \/ Succeed
    \/ GiveUp

Spec == Init /\ [][Next]_vars
=============================================================================
