---------------------------- MODULE NodeProcess ----------------------------
(***************************************************************************)
(* src/py3dtiles/tilers/point/node: what a worker does with the jobs of    *)
(* one node (NodeProcess.run), one job after the other, the content of the *)
(* node going back to the manager (NodeCatalog.dump) and coming again with *)
(* the next job (_load_from_store).  A job holds the subtree of the nodes  *)
(* down to InferDepth - 1 levels below its own; what falls deeper leaves   *)
(* as new tasks.                                                           *)
(*                                                                         *)
(* Abstracted: coordinates.  Of the points a grid is given, it keeps a     *)
(* part, at least one when it was empty; which ones is left open, and so   *)
(* is when a cell is too full (balance), which changes the number of cells *)
(* only.  The children of a node are flushed in any order.                 *)
(*                                                                         *)
(* The definitions whose names start with Bug are not the code's: each is  *)
(* a slip in the definition that follows it, which the properties must     *)
(* catch.                                                                  *)
(***************************************************************************)
EXTENDS JobOutputs, Sequences

CONSTANTS
    JobName,        \* the names whose jobs are modelled
    Jobs,           \* the jobs, each the sequence of its tasks
    SplitCount,     \* 20_000: a leaf with as many points gets a grid
    ForwardCount,   \* 10_000: the pending points above which a flush dumps them
    BalanceCount,   \* 100_000: a grid with more points may have too full a cell
    Deepest,        \* from this depth on spacing is under 1mm: no split
    InitialCells, MaxCells      \* 3 and 8: the cells of a grid in a direction

ASSUME NodeAssumption ==
    /\ JobName \subseteq NodeName
    /\ Jobs \in Seq(Seq((SUBSET Point) \ {{}}))
    /\ SplitCount \in Nat \ {0} /\ ForwardCount \in Nat /\ BalanceCount \in Nat
    /\ Deepest \in Nat /\ \A p \in Point : Len(Path[p]) >= Deepest
    /\ InitialCells \in Nat /\ MaxCells \in Nat /\ InitialCells <= MaxCells

(* What the manager sends (DataInv and PointInv of ConvertSafetyProofs): a *)
(* job has a task, its points are in the tile of the node, and no point    *)
(* comes twice.                                                            *)
ASSUME JobsAssumption ==
    /\ \A j \in 1..Len(Jobs) : Len(Jobs[j]) >= 1
    /\ \A j \in 1..Len(Jobs) : \A i \in 1..Len(Jobs[j]) : \A p \in Jobs[j][i] :
         \A n \in JobName : IsAncestor(Path[p], n)
    /\ \A j, k \in 1..Len(Jobs) : \A i \in 1..Len(Jobs[j]), l \in 1..Len(Jobs[k]) :
         <<j, i>> # <<k, l>> => Jobs[j][i] \cap Jobs[k][l] = {}

VARIABLES
    name,       \* the node of the jobs
    stored,     \* its content at the manager: node name -> saved node
    job,        \* the job being done, or the last one done
    stage,      \* idle, insert, flush, balance, dump
    inserted,   \* how many tasks of the job have been inserted
    nodes,      \* NodeCatalog.nodes
    node_bytes, \* NodeCatalog.node_bytes
    todo,       \* the nodes _flush has still to visit
    sent,       \* the messages of the job
    total_point_count,
    before      \* (history) the points of stored when the job began

vars == <<name, stored, job, stage, inserted, nodes, node_bytes, todo, sent,
          total_point_count, before>>

Nothing == [n \in {} |-> 0]
Tasks == Jobs[job]
MaxDepth == InferDepth(Len(name)) - 1
Depth(n) == Len(n) - Len(name)
LastTask == inserted = Len(Tasks)

-----------------------------------------------------------------------------
(* Nodes: children is not None when split is TRUE.                         *)

NewNode == [split |-> FALSE, children |-> {}, points |-> {}, grid |-> {},
            cells |-> InitialCells, pending |-> {}, dirty |-> FALSE]
GetNode(n) == IF n \in DOMAIN nodes THEN nodes[n] ELSE NewNode

(* save_to_bytes and load_from_bytes                                       *)
Saved(node) ==
    IF node.split
    THEN [split |-> TRUE, children |-> node.children, grid |-> node.grid, cells |-> node.cells,
          points |-> {}]
    ELSE [split |-> FALSE, children |-> {}, grid |-> {}, cells |-> InitialCells,
          points |-> node.points]
Load(saved) ==
    [split |-> saved.split, children |-> saved.children, points |-> saved.points,
     grid |-> saved.grid, cells |-> saved.cells, pending |-> {}, dirty |-> FALSE]

PointsIn(saved) == saved.points \cup saved.grid
StoredPoints == UNION {PointsIn(stored[n]) : n \in DOMAIN stored}

GridDirty(node, kept, balanced) == node.dirty \/ balanced = 1 \/ kept # {}

(* Of the points it is given a grid keeps those far enough from the ones   *)
(* it has, and so the first one in an empty cell.                          *)
BugKeeps(node, xyz) == SUBSET xyz
Keeps(node, xyz) == {kept \in SUBSET xyz : node.grid = {} => kept # {}}

(* A grid is balanced, it gets one more cell in each direction, when a     *)
(* cell is too full and there may be more of them.                         *)
BugMayBalance(cells, points) == cells <= MaxCells /\ Cardinality(points) > BalanceCount
MayBalance(cells, points) == cells < MaxCells /\ Cardinality(points) > BalanceCount

(* Grid.insert: the points it does not keep are pending.                   *)
GridInsert(node, xyz) ==
    UNION {{[node EXCEPT !.grid = @ \cup kept,
                         !.pending = @ \cup (xyz \ kept),
                         !.cells = @ + balanced,
                         !.dirty = GridDirty(node, kept, balanced)] :
              balanced \in {b \in {0, 1} :
                b = 1 => kept # {} /\ MayBalance(node.cells, node.grid \cup kept)}} :
           kept \in Keeps(node, xyz)}

(* Node.insert and _split: the nodes that n may become.                    *)
InsertInto(n, node, xyz) ==
    IF InferDepth(Len(name)) = 0
    THEN {[node EXCEPT !.split = TRUE, !.children = {}, !.pending = @ \cup xyz]}
    ELSE IF node.split
    THEN GridInsert(node, xyz)
    ELSE LET points == node.points \cup xyz
         IN  IF Cardinality(points) >= SplitCount /\ Len(n) < Deepest
             THEN GridInsert([node EXCEPT !.split = TRUE, !.points = {}, !.dirty = TRUE], points)
             ELSE {[node EXCEPT !.points = points, !.dirty = TRUE]}

(* _get_pending_points: the pending points by child; the node remembers    *)
(* its children.                                                           *)
Child(n, p) == SubSeq(Path[p], 1, Len(n) + 1)
PendingChildren(n) == {Child(n, p) : p \in GetNode(n).pending}
PendingOf(n, child) == {p \in GetNode(n).pending : Child(n, p) = child}

BugChildDirty(n) == GetNode(n).dirty
ChildDirty(n) == GetNode(n).dirty \/ ~ PendingChildren(n) \subseteq GetNode(n).children
WithoutPending(n) ==
    [GetNode(n) EXCEPT !.children = @ \cup PendingChildren(n),
                       !.dirty = ChildDirty(n),
                       !.pending = {}]

-----------------------------------------------------------------------------
Init ==
    /\ name \in JobName
    /\ stored = Nothing
    /\ job = 0
    /\ stage = "idle"
    /\ inserted = 0
    /\ nodes = Nothing /\ node_bytes = Nothing
    /\ todo = {}
    /\ sent = <<>>
    /\ total_point_count = 0
    /\ before = {}

(* NodeCatalog.__init__                                                    *)
StartJob ==
    /\ stage = "idle" /\ job < Len(Jobs)
    /\ job' = job + 1
    /\ stage' = "insert"
    /\ inserted' = 0
    /\ nodes' = IF stored = Nothing THEN [n \in {name} |-> NewNode]
                ELSE [n \in DOMAIN stored |-> Load(stored[n])]
    /\ node_bytes' = stored
    /\ sent' = <<>>
    /\ total_point_count' = 0
    /\ before' = StoredPoints
    /\ UNCHANGED <<name, stored, todo>>

InsertTask ==
    /\ stage = "insert"
    /\ LET task == Tasks[inserted + 1]
       IN  /\ \E node \in InsertInto(name, nodes[name], task) :
                nodes' = [nodes EXCEPT ![name] = node]
           /\ total_point_count' = total_point_count + Cardinality(task)
    /\ inserted' = inserted + 1
    /\ stage' = "flush"
    /\ todo' = {name}
    /\ UNCHANGED <<name, stored, job, node_bytes, sent, before>>

(* _flush above the deepest level: the pending points go to the children,  *)
(* all of which are visited next.                                          *)
FlushToChildren(n) ==
    /\ Depth(n) < MaxDepth
    /\ LET kids == PendingChildren(n)
           becomes(kid) == InsertInto(kid, GetNode(kid), PendingOf(n, kid))
           node == WithoutPending(n)
       IN  /\ \E new \in [kids -> UNION {becomes(kid) : kid \in kids}] :
                /\ \A kid \in kids : new[kid] \in becomes(kid)
                /\ nodes' = [m \in DOMAIN nodes \cup {n} \cup kids |->
                               IF m \in kids THEN new[m] ELSE IF m = n THEN node ELSE nodes[m]]
           /\ todo' = (todo \ {n}) \cup node.children
    /\ UNCHANGED <<sent, total_point_count>>

BugThreshold == ForwardCount
Threshold == IF LastTask THEN 0 ELSE ForwardCount

(* _flush at the deepest level: enough pending points leave as new tasks,  *)
(* any number of them after the last task.                                 *)
DumpPendingPoints(n) ==
    /\ Depth(n) >= MaxDepth
    /\ todo' = todo \ {n}
    /\ LET count == Cardinality(GetNode(n).pending)
           dumped == IF count > Threshold THEN WithoutPending(n) ELSE GetNode(n)
       IN  /\ nodes' = [m \in DOMAIN nodes \cup {n} |-> IF m = n THEN dumped ELSE nodes[m]]
           /\ IF count > Threshold
              THEN /\ \E order \in Orders(PendingChildren(n)) :
                        sent' = sent \o [i \in DOMAIN order |->
                                           NewTask(order[i], PendingOf(n, order[i]))]
                   /\ total_point_count' = total_point_count - count
              ELSE UNCHANGED <<sent, total_point_count>>

Flush ==
    /\ stage = "flush"
    /\ \E n \in todo : FlushToChildren(n) \/ DumpPendingPoints(n)
    /\ UNCHANGED <<name, stored, job, stage, inserted, node_bytes, before>>

EndFlush ==
    /\ stage = "flush" /\ todo = {}
    /\ stage' = IF LastTask THEN "balance" ELSE "insert"
    /\ UNCHANGED <<name, stored, job, inserted, nodes, node_bytes, todo, sent,
                   total_point_count, before>>

(* _balance: the nodes above the deepest level that have too full a cell.  *)
Balanced(node) == [node EXCEPT !.cells = @ + 1, !.dirty = TRUE]
Balance ==
    /\ stage = "balance"
    /\ \E full \in SUBSET {n \in DOMAIN nodes :
                             /\ Depth(n) < MaxDepth /\ nodes[n].split
                             /\ MayBalance(nodes[n].cells, nodes[n].grid)} :
         nodes' = [n \in DOMAIN nodes |-> IF n \in full THEN Balanced(nodes[n]) ELSE nodes[n]]
    /\ stage' = "dump"
    /\ UNCHANGED <<name, stored, job, inserted, node_bytes, todo, sent, total_point_count, before>>

(* NodeCatalog.dump: the nodes that have changed; the other ones keep the  *)
(* bytes they were loaded from, and those never written have none.         *)
Dumped ==
    LET changed == {n \in DOMAIN nodes : nodes[n].dirty}
    IN  [n \in DOMAIN node_bytes \cup changed |->
           IF n \in changed THEN Saved(nodes[n]) ELSE node_bytes[n]]

(* The root keeps nothing, any other node all that is left.                *)
SendProcessed ==
    /\ stage = "dump"
    /\ node_bytes' = IF name = Root THEN node_bytes ELSE Dumped
    /\ stored' = node_bytes'
    /\ sent' = Append(sent, ProcessedMessage(name, total_point_count, StoredPoints'))
    /\ stage' = "idle"
    /\ UNCHANGED <<name, job, inserted, nodes, todo, total_point_count, before>>

Next == StartJob \/ InsertTask \/ Flush \/ EndFlush \/ Balance \/ SendProcessed

Spec == Init /\ [][Next]_vars

-----------------------------------------------------------------------------
(* Properties                                                              *)

NodeRecord ==
    [split : BOOLEAN, children : SUBSET NodeName, points : SUBSET Point, grid : SUBSET Point,
     cells : InitialCells..MaxCells, pending : SUBSET Point, dirty : BOOLEAN]

(* The type of every variable: no grid ever has more than MaxCells cells,  *)
(* for which balance raises, and the nodes are those of the job's subtree. *)
TypeOK ==
    /\ name \in JobName
    /\ stage \in {"idle", "insert", "flush", "balance", "dump"}
    /\ job \in 0..Len(Jobs) /\ inserted \in Nat /\ total_point_count \in Int
    /\ DOMAIN stored \subseteq DOMAIN nodes /\ DOMAIN node_bytes \subseteq DOMAIN nodes
    /\ \A n \in DOMAIN nodes :
         /\ IsAncestor(n, name) /\ Depth(n) <= (IF MaxDepth < 0 THEN 0 ELSE MaxDepth)
         /\ nodes[n] \in NodeRecord
    /\ todo \subseteq DOMAIN nodes

Done == stage = "idle" /\ job > 0

(* A job answers what PointTiler expects of a worker: its points are all   *)
(* in the new tasks and in the content that goes back, each once, in the   *)
(* tiles they belong to, and the reported total is the difference.  The    *)
(* points pending in a node are not saved: they must all have left.        *)
OutputAllowed ==
    Done => sent \in ProcessOutputs(name, [node |-> before,
                                           tasks |-> {Tasks[i] : i \in 1..Len(Tasks)}])

(* The bytes that go back to the manager load into the nodes the worker    *)
(* has: a change without dirty would be forgotten by the next job.         *)
SavedIsCurrent ==
    Done /\ name # Root =>
      \A n \in DOMAIN nodes :
        IF n \in DOMAIN stored
        THEN Load(stored[n]) = [nodes[n] EXCEPT !.dirty = FALSE]
        ELSE nodes[n] = NewNode

(* Every node that goes back has points, so that no tile is written empty  *)
(* (pnts_writer writes one file per node), and those above the deepest     *)
(* level go back with their children, which the tile tree is built from.   *)
NodesWritable ==
    Done =>
      /\ \A n \in DOMAIN stored : PointsIn(stored[n]) # {}
      /\ \A n \in DOMAIN stored :
           Depth(n) < MaxDepth => stored[n].children \subseteq DOMAIN stored
=============================================================================
