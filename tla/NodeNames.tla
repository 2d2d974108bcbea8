----------------------------- MODULE NodeNames -----------------------------
(***************************************************************************)
(* The names of the tiles of the point tiler and the pure operators on     *)
(* them.  In the code a name is a byte string of octant digits, b"" for    *)
(* the root; here it is the sequence of those digits.                      *)
(***************************************************************************)
EXTENDS Naturals, Sequences

Digit == 0..7
NodeName == Seq(Digit)
Root == <<>>

(* point_tiler.py: is_ancestor: a name is its own ancestor.                *)
IsAncestor(node_name, ancestor) ==
    /\ Len(ancestor) <= Len(node_name)
    /\ SubSeq(node_name, 1, Len(ancestor)) = ancestor

(* point_tiler.py: is_ancestor_in_list: the root (falsy in Python) is      *)
(* everyone's ancestor.                                                    *)
IsAncestorInList(node_name, ancestors) ==
    \E a \in ancestors : a = Root \/ IsAncestor(node_name, a)

(* point_tiler.py: can_pnts_be_written.                                    *)
CanPntsBeWritten(node_name, finished_node, input_nodes, active_nodes) ==
    /\ IsAncestor(node_name, finished_node)
    /\ ~ IsAncestorInList(node_name, active_nodes)
    /\ ~ IsAncestorInList(node_name, input_nodes)

(* NodeProcess.infer_depth_from_name, on the length of the name.           *)
InferDepth(len) ==
    CASE len >= 7              -> 5
      [] len >= 5 /\ len < 7   -> 3
      [] len > 2 /\ len < 5    -> 2
      [] len >= 1 /\ len <= 2  -> 1
      [] OTHER                 -> 0

(* How many digits the tasks that a job on a name of this length creates   *)
(* add to it: NodeProcess._flush dumps the pending points of the nodes     *)
(* max_depth = InferDepth - 1 levels below the job's node (of the node     *)
(* itself for the root, whose max_depth is -1), and dump_pending_points    *)
(* names a child of the dumped node.                                       *)
ForwardLength(len) == len + (IF len = 0 THEN 1 ELSE InferDepth(len))

(* utils.py: node_name_to_path: the folders and the file of a name, 8      *)
(* digits to a folder; the file name starts with an 'r'.                   *)
SplitLen == 8
FileDigits(len) == IF len = 0 THEN 0 ELSE ((len - 1) % SplitLen) + 1
NodePath(name) ==
    LET folders == Len(name) - FileDigits(Len(name))
    IN  [ folders |-> [ i \in 1..(folders \div SplitLen) |->
                          SubSeq(name, (i - 1) * SplitLen + 1, i * SplitLen) ],
          file    |-> SubSeq(name, folders + 1, Len(name)) ]
=============================================================================
