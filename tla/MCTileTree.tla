----------------------------- MODULE MCTileTree -----------------------------
(***************************************************************************)
(* Two children of the root, the subtree of one three levels deep: every   *)
(* way to leave six points in the files of these nodes, where two points   *)
(* are enough not to be merged.  The points are numbered in the order of   *)
(* the nodes.                                                              *)
(***************************************************************************)
EXTENDS TileTree, Functions

NodesDef == << <<0>>, <<1>>, <<0, 0>>, <<0, 1>>, <<1, 0>>, <<0, 0, 0>>, <<0, 0, 1>> >>
NamesDef == {<<>>} \cup Range(NodesDef)
PointDef == 1..6

FilesDef(s) ==
    LET before[i \in 1..7] == IF i = 1 THEN 0 ELSE before[i - 1] + s[i - 1]
        place(n) == CHOOSE i \in 1..7 : NodesDef[i] = n
    IN  [n \in NamesDef |-> IF n = <<>> THEN {}
                            ELSE before[place(n)] + 1 .. before[place(n)] + s[place(n)]]

WrittenDef ==
    {f \in {FilesDef(s) : s \in [1..7 -> 0..3]} :
        /\ UNION {f[n] : n \in NamesDef} = PointDef
        /\ \A n, m \in NamesDef : n # m => f[n] \cap f[m] = {}
        /\ \A n \in NamesDef : Len(n) > 1 /\ f[n] # {} => f[Parent(n)] # {}}
=============================================================================
