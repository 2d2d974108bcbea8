-------------------------- MODULE NodeProcessProofs --------------------------
(***************************************************************************)
(* What a worker does with the jobs of one node, proved for any jobs, any  *)
(* points and any thresholds: what goes back to the manager is what the    *)
(* worker has, every node of it has points, and the answer to a job is one *)
(* that PointTiler expects (JobOutputs).  The last part is about the grid  *)
(* of a node (PointsGrid), wherever its points are and however the grid is *)
(* cut.                                                                    *)
(***************************************************************************)
EXTENDS NodeProcess, PointsGrid, FiniteSetTheorems, SequenceTheorems, TLAPS

-----------------------------------------------------------------------------
(* Names                                                                   *)

(* An ancestor's digits are the first digits of the name.                  *)
LEMMA AncestorDigits ==
    ASSUME NEW n \in NodeName, NEW a \in NodeName
    PROVE  IsAncestor(n, a) <=>
             /\ Len(a) <= Len(n)
             /\ \A i \in 1..Len(a) : n[i] = a[i]
<1> USE DEF NodeName
<1>1. ASSUME Len(a) <= Len(n)
      PROVE  /\ Len(SubSeq(n, 1, Len(a))) = Len(a)
             /\ SubSeq(n, 1, Len(a)) \in Seq(Digit)
             /\ \A i \in 1..Len(a) : SubSeq(n, 1, Len(a))[i] = n[i]
  BY <1>1, SubSeqProperties
<1>2. ASSUME Len(a) <= Len(n), \A i \in 1..Len(a) : n[i] = a[i]
      PROVE  SubSeq(n, 1, Len(a)) = a
  BY <1>1, <1>2, SeqEqual
<1> QED
  BY <1>1, <1>2 DEF IsAncestor

(* is_ancestor orders the names: reflexive, as its docstring says ("the    *)
(* tile 22 is ancestor of 22"), transitive and antisymmetric.              *)
LEMMA AncestorOrder ==
    ASSUME NEW a \in NodeName, NEW b \in NodeName, NEW c \in NodeName
    PROVE  /\ IsAncestor(a, a)
           /\ IsAncestor(c, b) /\ IsAncestor(b, a) => IsAncestor(c, a)
           /\ IsAncestor(a, b) /\ IsAncestor(b, a) => a = b
<1> USE DEF NodeName
<1>1. IsAncestor(a, a)
  BY AncestorDigits
<1>2. ASSUME IsAncestor(c, b), IsAncestor(b, a) PROVE IsAncestor(c, a)
  <2>1. Len(a) <= Len(b) /\ Len(b) <= Len(c)
    BY <1>2, AncestorDigits
  <2>2. \A i \in 1..Len(a) : c[i] = a[i]
    BY <1>2, <2>1, AncestorDigits
  <2> QED
    BY <2>1, <2>2, AncestorDigits
<1>3. ASSUME IsAncestor(a, b), IsAncestor(b, a) PROVE a = b
  <2>1. Len(a) = Len(b) /\ \A i \in 1..Len(a) : a[i] = b[i]
    BY <1>3, AncestorDigits
  <2> QED
    BY <2>1, SeqEqual
<1> QED
  BY <1>1, <1>2, <1>3

-----------------------------------------------------------------------------
(* The invariants                                                          *)

SavedRecord ==
    [split : BOOLEAN, children : SUBSET NodeName, grid : SUBSET Point,
     cells : InitialCells..MaxCells, points : SUBSET Point]
Top == IF MaxDepth < 0 THEN 0 ELSE MaxDepth
IsChild(c, n) == c \in NodeName /\ Len(c) = Len(n) + 1 /\ IsAncestor(c, n)
AllPoints(node) == node.points \cup node.grid \cup node.pending
InOctant(points, n) == \A p \in points : IsAncestor(Path[p], n)

(* What holds of a node by itself.                                         *)
GoodNode(n, node) ==
    /\ node \in NodeRecord
    /\ node.split => node.points = {} /\ (n = Root \/ Len(n) < Deepest)
    /\ ~ node.split => /\ node.children = {} /\ node.grid = {} /\ node.pending = {}
                       /\ node.cells = InitialCells
    /\ n = Root => node.points = {} /\ node.grid = {}
    /\ \A c \in node.children : IsChild(c, n)
    /\ InOctant(AllPoints(node), n)

StageInv ==
    /\ name \in JobName /\ job \in 0..Len(Jobs)
    /\ inserted \in Nat /\ total_point_count \in Int
    /\ stage \in {"idle", "insert", "flush", "balance", "dump"}
    /\ stage # "flush" => todo = {}
    /\ node_bytes = stored
    /\ job = 0 => stage = "idle" /\ nodes = Nothing /\ stored = Nothing
    /\ job > 0 => /\ name \in DOMAIN nodes
                  /\ inserted <= Len(Tasks)
                  /\ stage = "insert" => inserted < Len(Tasks)
                  /\ stage = "flush" => inserted > 0
                  /\ stage \in {"balance", "dump", "idle"} => LastTask

(* The nodes are a tree below the node of the job.                         *)
InTree(n) ==
    /\ n \in NodeName /\ IsAncestor(n, name) /\ Depth(n) <= Top
    /\ GoodNode(n, nodes[n])
    /\ Depth(n) < MaxDepth => nodes[n].children \subseteq DOMAIN nodes
HasPath(n) ==
    \A k \in Len(name)..(Len(n) - 1) :
      /\ SubSeq(n, 1, k) \in DOMAIN nodes
      /\ SubSeq(n, 1, k + 1) \in nodes[SubSeq(n, 1, k)].children
TreeInv ==
    /\ nodes \in [DOMAIN nodes -> NodeRecord]
    /\ todo \subseteq DOMAIN nodes
    /\ \A n \in DOMAIN nodes : InTree(n) /\ HasPath(n)

(* What the manager has is what the worker has loaded and not changed, and *)
(* between two jobs all of it.                                             *)
Same(n, node) ==
    IF n \in DOMAIN stored THEN Load(stored[n]) = node ELSE node = NewNode
BytesInv ==
    /\ stored \in [DOMAIN stored -> SavedRecord]
    /\ DOMAIN stored \subseteq DOMAIN nodes
    /\ name = Root => stored = Nothing
    /\ name # Root => \A n \in DOMAIN nodes :
         /\ ~ nodes[n].dirty => Same(n, [nodes[n] EXCEPT !.pending = {}])
         /\ stage = "idle" => /\ n \in DOMAIN stored
                              /\ Load(stored[n]) = [nodes[n] EXCEPT !.dirty = FALSE]
         /\ \/ PointsIn(nodes[n]) # {}
            \/ n = name /\ inserted = 0 /\ nodes[n] = NewNode

(* A flush still has to visit, or to pass through, each node with points   *)
(* pending that it must not leave.                                         *)
PendingInv ==
    \A n \in DOMAIN nodes :
      nodes[n].pending # {} /\ (Depth(n) < MaxDepth \/ LastTask) =>
        \E a \in todo : IsAncestor(n, a)

NodesInv == StageInv /\ TreeInv /\ BytesInv /\ PendingInv

-----------------------------------------------------------------------------
(* Names and depths                                                        *)

LEMMA NameFacts ==
    ASSUME name \in JobName
    PROVE  /\ name \in NodeName /\ Len(name) \in Nat
           /\ MaxDepth \in Int /\ Top \in Nat
           /\ InferDepth(Len(name)) \in Nat
           /\ InferDepth(Len(name)) = 0 <=> name = Root
           /\ name = Root => MaxDepth = -1 /\ Top = 0 /\ Len(name) = 0
           /\ name # Root => MaxDepth \in Nat /\ Top = MaxDepth /\ Len(name) > 0
           /\ Len(name) + Top + 1 = ForwardLength(Len(name))
<1>1. name \in NodeName /\ Len(name) \in Nat
  BY NodeAssumption DEF NodeName
<1>2. Len(name) = 0 <=> name = Root
  BY <1>1 DEF NodeName, Root
<1>3. \A k \in Nat : /\ InferDepth(k) \in Nat
                     /\ InferDepth(k) = 0 <=> k = 0
  BY DEF InferDepth
<1>4. PICK k \in Nat : k = Len(name)
  BY <1>1
<1>5. PICK d \in Nat : d = InferDepth(k) /\ (d = 0 <=> k = 0)
  BY <1>3
<1>6. MaxDepth = d - 1 /\ Top = (IF d - 1 < 0 THEN 0 ELSE d - 1)
  BY <1>4, <1>5 DEF MaxDepth, Top
<1>7. ForwardLength(k) = k + (IF k = 0 THEN 1 ELSE d)
  BY <1>5 DEF ForwardLength
<1>8. /\ name = Root => MaxDepth = -1 /\ Top = 0 /\ k = 0
      /\ name # Root => MaxDepth \in Nat /\ Top = MaxDepth /\ k > 0
  BY <1>2, <1>4, <1>5, <1>6
<1>9. k + Top + 1 = ForwardLength(k)
  BY <1>5, <1>6, <1>7
<1> QED
  BY <1>1, <1>2, <1>4, <1>5, <1>6, <1>8, <1>9

(* The child of n that a point below it belongs to.                        *)
LEMMA ChildFacts ==
    ASSUME NEW n \in NodeName, NEW p \in Point, IsAncestor(Path[p], n), Len(n) < Len(Path[p])
    PROVE  /\ Child(n, p) \in NodeName /\ IsChild(Child(n, p), n)
           /\ IsAncestor(Path[p], Child(n, p))
<1> DEFINE c == Child(n, p)
<1>1. Path[p] \in NodeName /\ Len(Path[p]) \in Nat /\ Len(n) \in Nat
  BY PathAssumption DEF NodeName
<1>2. c \in NodeName /\ Len(c) = Len(n) + 1 /\ \A i \in 1..Len(c) : c[i] = Path[p][i]
  BY <1>1 DEF Child, NodeName
<1>3. \A i \in 1..Len(n) : Path[p][i] = n[i]
  BY <1>1, AncestorDigits
<1>4. \A i \in 1..Len(n) : c[i] = n[i]
  BY <1>1, <1>2, <1>3
<1>5. IsAncestor(c, n)
  BY <1>1, <1>2, <1>4, AncestorDigits
<1>6. IsAncestor(Path[p], c)
  BY <1>1, <1>2, AncestorDigits
<1> QED
  BY <1>2, <1>5, <1>6 DEF IsChild

LEMMA ChildOfAncestor ==
    ASSUME NEW n \in NodeName, NEW c \in NodeName, NEW m \in NodeName,
           IsChild(c, n), IsAncestor(m, c)
    PROVE  SubSeq(m, 1, Len(c)) = c /\ SubSeq(m, 1, Len(n)) = n /\ IsAncestor(m, n)
  BY AncestorOrder DEF IsChild, IsAncestor

(* The prefixes of a child, below the node, are the node and its prefixes. *)
LEMMA ChildPrefixes ==
    ASSUME NEW n \in NodeName, NEW c, IsChild(c, n)
    PROVE  /\ c \in NodeName /\ Len(n) \in Nat /\ Len(c) = Len(n) + 1
           /\ SubSeq(c, 1, Len(c)) = c /\ SubSeq(c, 1, Len(n)) = n
           /\ \A k \in 0..Len(n) : SubSeq(c, 1, k) = SubSeq(n, 1, k)
           /\ SubSeq(n, 1, Len(n)) = n
           /\ c # n
<1>1. c \in NodeName /\ Len(n) \in Nat /\ Len(c) = Len(n) + 1 /\ IsAncestor(c, n)
  BY DEF IsChild, NodeName
<1>2. SubSeq(c, 1, Len(c)) = c /\ SubSeq(n, 1, Len(n)) = n
  BY AncestorOrder, <1>1 DEF IsAncestor
<1>3. SubSeq(c, 1, Len(n)) = n
  BY <1>1 DEF IsAncestor
<1>4. \A i \in 1..Len(n) : c[i] = n[i]
  BY <1>1, AncestorDigits
<1>5. ASSUME NEW k \in 0..Len(n)
      PROVE  SubSeq(c, 1, k) = SubSeq(n, 1, k)
  <2>1. \A s \in NodeName : k <= Len(s) =>
          /\ SubSeq(s, 1, k) \in Seq(Digit) /\ Len(SubSeq(s, 1, k)) = k
          /\ \A i \in 1..k : SubSeq(s, 1, k)[i] = s[i]
    BY DEF NodeName
  <2>2. \A i \in 1..k : SubSeq(c, 1, k)[i] = SubSeq(n, 1, k)[i]
    BY <1>1, <1>4, <2>1
  <2> QED
    BY <1>1, <2>1, <2>2, SeqEqual
<1> QED
  BY <1>1, <1>2, <1>3, <1>5

(* What is above a child is the child or above the node.                   *)
LEMMA AboveChild ==
    ASSUME NEW n \in NodeName, NEW c \in NodeName, NEW a \in NodeName, IsChild(c, n), IsAncestor(c, a)
    PROVE  a = c \/ IsAncestor(n, a)
<1>1. Len(a) \in Nat /\ Len(n) \in Nat /\ Len(c) = Len(n) + 1 /\ Len(a) <= Len(c)
  BY DEF IsChild, IsAncestor, NodeName
<1>2. CASE Len(a) = Len(c)
  BY <1>2, ChildPrefixes DEF IsAncestor
<1>3. CASE Len(a) <= Len(n)
  <2>1. SubSeq(c, 1, Len(a)) = SubSeq(n, 1, Len(a))
    BY <1>1, <1>3, ChildPrefixes
  <2> QED
    BY <1>3, <2>1 DEF IsAncestor
<1> QED
  BY <1>1, <1>2, <1>3

-----------------------------------------------------------------------------
(* A node and the points inserted into it                                  *)

(* No point is in two of the places of a node.                             *)
Apart(node) ==
    /\ node.points \cap node.grid = {} /\ node.points \cap node.pending = {}
    /\ node.grid \cap node.pending = {}

Grown(n, node, xyz, new) ==
    /\ GoodNode(n, new)
    /\ name # Root => new.children = node.children
    /\ AllPoints(new) = AllPoints(node) \cup xyz
    /\ Apart(node) /\ AllPoints(node) \cap xyz = {} => Apart(new)
    /\ name # Root /\ PointsIn(node) \cup xyz # {} => PointsIn(new) # {}
    /\ name # Root /\ ~ new.dirty =>
         ~ node.dirty /\ [new EXCEPT !.pending = {}] = [node EXCEPT !.pending = {}]

LEMMA GridGrows ==
    ASSUME NEW n \in NodeName, n # Root, NEW node, GoodNode(n, node), node.split,
           NEW xyz \in SUBSET Point, InOctant(xyz, n), NEW new \in GridInsert(node, xyz)
    PROVE  /\ Grown(n, node, xyz, new)
           /\ new.grid # {}
<1>1. node \in NodeRecord /\ node.points = {} /\ Len(n) < Deepest
      /\ \A c \in node.children : IsChild(c, n)
  BY DEF GoodNode
<1>2. PICK kept \in Keeps(node, xyz), balanced \in {0, 1} :
        /\ balanced = 1 => kept # {} /\ MayBalance(node.cells, node.grid \cup kept)
        /\ new = [node EXCEPT !.grid = @ \cup kept,
                              !.pending = @ \cup (xyz \ kept),
                              !.cells = @ + balanced,
                              !.dirty = GridDirty(node, kept, balanced)]
  BY DEF GridInsert
<1>3. kept \subseteq xyz /\ (node.grid = {} => kept # {})
  BY <1>2 DEF Keeps
<1>4. /\ new.split = node.split /\ new.children = node.children /\ new.points = node.points
      /\ new.grid = node.grid \cup kept /\ new.pending = node.pending \cup (xyz \ kept)
      /\ new.cells = node.cells + balanced
      /\ new.dirty = GridDirty(node, kept, balanced)
  BY <1>1, <1>2 DEF NodeRecord
<1>5. new.cells \in InitialCells..MaxCells
  BY <1>1, <1>2, <1>4, NodeAssumption DEF MayBalance, NodeRecord
<1>6. new.dirty \in BOOLEAN
  BY <1>1, <1>4 DEF GridDirty, NodeRecord
<1>7. new \in NodeRecord
  BY <1>1, <1>2, <1>3, <1>4, <1>5, <1>6 DEF NodeRecord
<1>8. AllPoints(new) = AllPoints(node) \cup xyz
  BY <1>3, <1>4 DEF AllPoints
<1>9. InOctant(AllPoints(new), n)
  BY <1>8 DEF InOctant, GoodNode
<1>10. GoodNode(n, new)
  BY <1>1, <1>4, <1>7, <1>9 DEF GoodNode
<1>11. Apart(node) /\ AllPoints(node) \cap xyz = {} => Apart(new)
  BY <1>1, <1>3, <1>4 DEF Apart, AllPoints
<1>12. new.grid # {} /\ PointsIn(new) # {}
  BY <1>3, <1>4 DEF PointsIn
<1>13. ASSUME ~ new.dirty
       PROVE  ~ node.dirty /\ [new EXCEPT !.pending = {}] = [node EXCEPT !.pending = {}]
  <2>1. ~ node.dirty /\ kept = {} /\ balanced = 0 /\ node.dirty = FALSE /\ new.dirty = FALSE
    BY <1>1, <1>2, <1>4, <1>6, <1>13 DEF GridDirty, NodeRecord
  <2>2. new.grid = node.grid /\ new.cells = node.cells
    BY <1>1, <1>4, <2>1 DEF NodeRecord
  <2> QED
    BY <1>1, <1>4, <1>7, <2>1, <2>2 DEF NodeRecord
<1> QED
  BY <1>4, <1>8, <1>10, <1>11, <1>12, <1>13 DEF Grown

(* Node.insert, of a node that is the node of the job or below it.         *)
LEMMA InsertGrows ==
    ASSUME name \in JobName,
           NEW n \in NodeName, n = Root => name = Root, name = Root => n = Root,
           NEW node, GoodNode(n, node),
           NEW xyz \in SUBSET Point, InOctant(xyz, n), NEW new \in InsertInto(n, node, xyz)
    PROVE  Grown(n, node, xyz, new)
<1>1. node \in NodeRecord /\ InOctant(AllPoints(node), n)
      /\ \A c \in node.children : IsChild(c, n)
  BY DEF GoodNode
<1>2. CASE name = Root
  <2>1. new = [node EXCEPT !.split = TRUE, !.children = {}, !.pending = @ \cup xyz]
    BY <1>2, NameFacts DEF InsertInto
  <2>2. /\ new.split = TRUE /\ new.children = {} /\ new.points = node.points
        /\ new.grid = node.grid /\ new.pending = node.pending \cup xyz
        /\ new.points = {} /\ new.grid = {}
    BY <1>1, <1>2, <2>1 DEF NodeRecord, GoodNode
  <2>3. new \in NodeRecord
    BY <1>1, <2>1, <2>2 DEF NodeRecord
  <2>4. AllPoints(new) = AllPoints(node) \cup xyz
    BY <2>2 DEF AllPoints
  <2>5. GoodNode(n, new)
    BY <1>1, <1>2, <2>2, <2>3, <2>4 DEF GoodNode, InOctant
  <2> QED
    BY <1>2, <2>2, <2>4, <2>5 DEF Grown, Apart, AllPoints
<1>3. CASE name # Root /\ node.split
  <2>1. new \in GridInsert(node, xyz)
    BY <1>3, NameFacts DEF InsertInto
  <2> QED
    BY <1>3, <2>1, GridGrows
<1>4. CASE name # Root /\ ~ node.split
  <2> DEFINE points == node.points \cup xyz
  <2>1. /\ node.children = {} /\ node.grid = {} /\ node.pending = {}
        /\ node.cells = InitialCells /\ node.points \subseteq Point
    BY <1>1, <1>4 DEF GoodNode, NodeRecord
  <2>2. AllPoints(node) = node.points /\ PointsIn(node) = node.points
        /\ InOctant(points, n) /\ points \in SUBSET Point
    BY <1>1, <2>1 DEF AllPoints, PointsIn, InOctant
  <2>3. CASE Cardinality(points) >= SplitCount /\ Len(n) < Deepest
    <3> DEFINE split == [node EXCEPT !.split = TRUE, !.points = {}, !.dirty = TRUE]
    <3>1. new \in GridInsert(split, points)
      BY <1>4, <2>3, NameFacts DEF InsertInto
    <3>2. /\ split.split = TRUE /\ split.points = {} /\ split.grid = {} /\ split.pending = {}
          /\ split.children = {} /\ split.dirty = TRUE /\ split \in NodeRecord
      BY <1>1, <2>1 DEF NodeRecord
    <3> HIDE DEF split
    <3>3. GoodNode(n, split)
      BY <1>4, <2>3, <3>2 DEF GoodNode, InOctant, AllPoints
    <3>4. Grown(n, split, points, new) /\ new.grid # {}
      BY <1>4, <2>2, <3>1, <3>2, <3>3, GridGrows
    <3>5. AllPoints(split) = {} /\ Apart(split)
      BY <3>2 DEF AllPoints, Apart
    <3>6. AllPoints(new) = AllPoints(node) \cup xyz
      BY <2>2, <3>4, <3>5 DEF Grown
    <3> QED
      BY <1>4, <2>1, <3>2, <3>4, <3>5, <3>6 DEF Grown, PointsIn
  <2>4. CASE ~ (Cardinality(points) >= SplitCount /\ Len(n) < Deepest)
    <3>1. new = [node EXCEPT !.points = points, !.dirty = TRUE]
      BY <1>4, <2>4, NameFacts DEF InsertInto
    <3>2. /\ new.split = FALSE /\ new.points = points /\ new.grid = {} /\ new.pending = {}
          /\ new.children = {} /\ new.cells = InitialCells /\ new.dirty = TRUE
      BY <1>1, <1>4, <2>1, <3>1 DEF NodeRecord
    <3>3. new \in NodeRecord
      BY <1>1, <2>2, <3>1, <3>2 DEF NodeRecord
    <3>4. AllPoints(new) = points /\ PointsIn(new) = points
      BY <3>2 DEF AllPoints, PointsIn
    <3>5. GoodNode(n, new)
      BY <1>4, <2>2, <3>2, <3>3, <3>4 DEF GoodNode
    <3> QED
      BY <2>1, <2>2, <3>2, <3>4, <3>5 DEF Grown, Apart
  <2> QED
    BY <2>3, <2>4
<1> QED
  BY <1>2, <1>3, <1>4

-----------------------------------------------------------------------------
(* A node alone: new, saved, loaded, rid of its pending points             *)

LEMMA NewNodeGood ==
    ASSUME NEW n \in NodeName
    PROVE  /\ NewNode \in NodeRecord /\ GoodNode(n, NewNode)
           /\ AllPoints(NewNode) = {} /\ PointsIn(NewNode) = {} /\ Apart(NewNode)
           /\ NewNode.pending = {} /\ NewNode.children = {} /\ NewNode.dirty = FALSE
<1>1. NewNode \in NodeRecord
  BY NodeAssumption DEF NewNode, NodeRecord
<1> QED
  BY <1>1 DEF NewNode, GoodNode, AllPoints, PointsIn, Apart, InOctant

LEMMA SavedLoads ==
    ASSUME NEW n \in NodeName, NEW node, GoodNode(n, node), node.pending = {}
    PROVE  /\ Saved(node) \in SavedRecord
           /\ Load(Saved(node)) = [node EXCEPT !.dirty = FALSE]
           /\ PointsIn(Saved(node)) = PointsIn(node)
<1>1. /\ node \in NodeRecord
      /\ node.split => node.points = {}
      /\ ~ node.split => node.children = {} /\ node.grid = {} /\ node.cells = InitialCells
  BY DEF GoodNode
<1>2. InitialCells \in InitialCells..MaxCells
  BY NodeAssumption
<1>3. node = [split |-> node.split, children |-> node.children, points |-> node.points,
              grid |-> node.grid, cells |-> node.cells, pending |-> {}, dirty |-> node.dirty]
  BY <1>1 DEF NodeRecord
<1>4. [node EXCEPT !.dirty = FALSE]
        = [split |-> node.split, children |-> node.children, points |-> node.points,
           grid |-> node.grid, cells |-> node.cells, pending |-> {}, dirty |-> FALSE]
  <2> DEFINE new == [node EXCEPT !.dirty = FALSE]
  <2>1. new \in NodeRecord
    BY <1>1 DEF NodeRecord
  <2>2. /\ new.split = node.split /\ new.children = node.children /\ new.points = node.points
        /\ new.grid = node.grid /\ new.cells = node.cells /\ new.pending = {} /\ new.dirty = FALSE
    BY <1>1 DEF NodeRecord
  <2> HIDE DEF new
  <2>3. new = [split |-> new.split, children |-> new.children, points |-> new.points,
               grid |-> new.grid, cells |-> new.cells, pending |-> new.pending, dirty |-> new.dirty]
    BY <2>1 DEF NodeRecord
  <2> QED
    BY <2>2, <2>3 DEF new
<1>5. CASE node.split
  <2>1. node.split = TRUE
    BY <1>1, <1>5 DEF NodeRecord
  <2>2. Saved(node) = [split |-> TRUE, children |-> node.children, grid |-> node.grid,
                       cells |-> node.cells, points |-> {}]
    BY <1>5 DEF Saved
  <2>3. Saved(node) \in SavedRecord
    BY <1>1, <2>2 DEF SavedRecord, NodeRecord
  <2>4. Load(Saved(node)) = [node EXCEPT !.dirty = FALSE]
    <3>1. Load(Saved(node)) = [split |-> TRUE, children |-> node.children, points |-> {},
             grid |-> node.grid, cells |-> node.cells, pending |-> {}, dirty |-> FALSE]
      BY <2>2 DEF Load
    <3> QED
      BY <1>1, <1>4, <1>5, <2>1, <3>1
  <2>5. PointsIn(Saved(node)) = PointsIn(node)
    BY <1>1, <1>5, <2>2 DEF PointsIn
  <2> QED
    BY <2>3, <2>4, <2>5
<1>6. CASE ~ node.split
  <2>1. node.split = FALSE
    BY <1>1, <1>6 DEF NodeRecord
  <2> QED
    BY <1>1, <1>2, <1>4, <1>6, <2>1 DEF Saved, Load, PointsIn, SavedRecord, NodeRecord
<1> QED
  BY <1>5, <1>6

(* dirty apart, what holds of a node.                                      *)
LEMMA CleanNode ==
    ASSUME NEW n, NEW node, GoodNode(n, node), NEW new, new = [node EXCEPT !.dirty = FALSE]
    PROVE  /\ GoodNode(n, new) /\ new \in NodeRecord /\ new.dirty = FALSE
           /\ AllPoints(new) = AllPoints(node) /\ PointsIn(new) = PointsIn(node)
           /\ Apart(node) => Apart(new)
           /\ new.children = node.children /\ new.pending = node.pending
<1>1. node \in NodeRecord
  BY DEF GoodNode
<1>2. /\ new.split = node.split /\ new.children = node.children /\ new.points = node.points
      /\ new.grid = node.grid /\ new.pending = node.pending /\ new.cells = node.cells
      /\ new.dirty = FALSE /\ new \in NodeRecord
  BY <1>1 DEF NodeRecord
<1>3. GoodNode(n, new)
  BY <1>2 DEF GoodNode, AllPoints
<1> QED
  BY <1>2, <1>3 DEF AllPoints, PointsIn, Apart

LEMMA NothingPending ==
    ASSUME NEW node \in NodeRecord, node.pending = {}
    PROVE  [node EXCEPT !.pending = {}] = node
  BY DEF NodeRecord

LEMMA LoadedFields ==
    ASSUME NEW saved \in SavedRecord
    PROVE  /\ Load(saved) \in NodeRecord /\ Load(saved).dirty = FALSE /\ Load(saved).pending = {}
           /\ PointsIn(Load(saved)) = PointsIn(saved) /\ AllPoints(Load(saved)) = PointsIn(saved)
           /\ Load(saved).children = saved.children
  BY DEF SavedRecord, Load, NodeRecord, PointsIn, AllPoints

(* The pending points of a node are in its children.                       *)
LEMMA PendingFacts ==
    ASSUME NEW n \in NodeName, n \in DOMAIN nodes, GoodNode(n, nodes[n])
    PROVE  /\ GetNode(n) = nodes[n]
           /\ \A p \in nodes[n].pending : /\ p \in Point /\ Child(n, p) \in PendingChildren(n)
                                          /\ p \in PendingOf(n, Child(n, p))
           /\ \A kid \in PendingChildren(n) :
                /\ kid \in NodeName /\ IsChild(kid, n) /\ kid # n /\ kid # Root
                /\ PendingOf(n, kid) \in SUBSET Point /\ PendingOf(n, kid) # {}
                /\ PendingOf(n, kid) \subseteq nodes[n].pending
                /\ InOctant(PendingOf(n, kid), kid)
           /\ nodes[n].pending = {} => PendingChildren(n) = {}
           /\ nodes[n].pending # {} => nodes[n].split
<1>1. GetNode(n) = nodes[n] /\ nodes[n] \in NodeRecord
  BY DEF GetNode, GoodNode
<1>2. nodes[n].pending # {} => nodes[n].split
  BY DEF GoodNode
<1>3. ASSUME NEW p \in nodes[n].pending
      PROVE  /\ p \in Point /\ Child(n, p) \in NodeName /\ IsChild(Child(n, p), n)
             /\ IsAncestor(Path[p], Child(n, p))
  <2>1. p \in Point /\ IsAncestor(Path[p], n)
    BY <1>1 DEF GoodNode, InOctant, AllPoints, NodeRecord
  <2>2. n = Root \/ Len(n) < Deepest
    BY <1>2 DEF GoodNode
  <2>3. Len(n) < Len(Path[p])
    <3>1. Len(Path[p]) >= Deepest /\ Len(Path[p]) >= 1 /\ Len(Path[p]) \in Nat /\ Deepest \in Nat
      BY <2>1, PathAssumption, NodeAssumption DEF NodeName
    <3>2. Len(n) \in Nat /\ (n = Root => Len(n) = 0)
      BY DEF NodeName, Root
    <3> QED
      BY <2>2, <3>1, <3>2
  <2> QED
    BY <2>1, <2>3, ChildFacts
<1>4. ASSUME NEW kid \in PendingChildren(n)
      PROVE  /\ kid \in NodeName /\ IsChild(kid, n) /\ kid # n /\ kid # Root
             /\ PendingOf(n, kid) \in SUBSET Point /\ PendingOf(n, kid) # {}
             /\ PendingOf(n, kid) \subseteq nodes[n].pending
             /\ InOctant(PendingOf(n, kid), kid)
  <2>1. PICK p \in nodes[n].pending : kid = Child(n, p)
    BY <1>1 DEF PendingChildren
  <2>2. kid \in NodeName /\ IsChild(kid, n) /\ p \in PendingOf(n, kid)
    BY <1>1, <1>3, <2>1 DEF PendingOf
  <2>3. kid # n
    BY <2>2, ChildPrefixes
  <2>4. kid # Root
    BY <2>2 DEF IsChild, Root, NodeName
  <2>5. PendingOf(n, kid) \subseteq nodes[n].pending
    BY <1>1 DEF PendingOf
  <2>6. InOctant(PendingOf(n, kid), kid) /\ PendingOf(n, kid) \subseteq Point
    BY <1>1, <1>3 DEF PendingOf, InOctant
  <2> QED
    BY <2>2, <2>3, <2>4, <2>5, <2>6
<1>5. \A p \in nodes[n].pending : Child(n, p) \in PendingChildren(n) /\ p \in PendingOf(n, Child(n, p))
  BY <1>1 DEF PendingChildren, PendingOf
<1>6. nodes[n].pending = {} => PendingChildren(n) = {}
  BY <1>1 DEF PendingChildren
<1> QED
  BY <1>1, <1>2, <1>3, <1>4, <1>5, <1>6

LEMMA PendingRemoved ==
    ASSUME NEW n \in NodeName, n \in DOMAIN nodes, GoodNode(n, nodes[n])
    PROVE  LET node == WithoutPending(n)
           IN  /\ GoodNode(n, node) /\ node.pending = {}
               /\ node.children = nodes[n].children \cup PendingChildren(n)
               /\ PointsIn(node) = PointsIn(nodes[n]) /\ AllPoints(node) = PointsIn(nodes[n])
               /\ Apart(nodes[n]) => Apart(node)
               /\ ~ node.dirty => /\ ~ nodes[n].dirty
                                  /\ node = [nodes[n] EXCEPT !.pending = {}]
<1>1. /\ GetNode(n) = nodes[n] /\ nodes[n] \in NodeRecord
      /\ \A kid \in PendingChildren(n) : kid \in NodeName /\ IsChild(kid, n)
      /\ nodes[n].pending = {} => PendingChildren(n) = {}
      /\ nodes[n].pending # {} => nodes[n].split
  BY PendingFacts DEF GoodNode
<1> DEFINE node == WithoutPending(n)
<1>2. node = [nodes[n] EXCEPT !.children = @ \cup PendingChildren(n),
                              !.dirty = ChildDirty(n), !.pending = {}]
  BY <1>1 DEF WithoutPending
<1>3. ChildDirty(n) \in BOOLEAN
  BY <1>1 DEF ChildDirty, NodeRecord
<1>4. /\ node.split = nodes[n].split /\ node.points = nodes[n].points /\ node.grid = nodes[n].grid
      /\ node.cells = nodes[n].cells /\ node.pending = {}
      /\ node.children = nodes[n].children \cup PendingChildren(n)
      /\ node.dirty = ChildDirty(n)
  BY <1>1, <1>2 DEF NodeRecord
<1>5. node \in NodeRecord
  BY <1>1, <1>2, <1>3, <1>4 DEF NodeRecord
<1>6. ASSUME ~ node.dirty
      PROVE  ~ nodes[n].dirty /\ node = [nodes[n] EXCEPT !.pending = {}]
  <2>1. ~ nodes[n].dirty /\ PendingChildren(n) \subseteq nodes[n].children /\ ChildDirty(n) = FALSE
    BY <1>1, <1>3, <1>4, <1>6 DEF ChildDirty
  <2>2. nodes[n].dirty = FALSE /\ node.children = nodes[n].children
    BY <1>1, <1>4, <2>1 DEF NodeRecord
  <2> QED
    BY <1>1, <1>4, <1>5, <2>1, <2>2 DEF NodeRecord
<1> HIDE DEF node
<1>7. GoodNode(n, node)
  BY <1>1, <1>4, <1>5 DEF GoodNode, InOctant, AllPoints
<1>8. /\ PointsIn(node) = PointsIn(nodes[n]) /\ AllPoints(node) = PointsIn(nodes[n])
      /\ Apart(nodes[n]) => Apart(node)
  BY <1>4 DEF PointsIn, AllPoints, Apart
<1> QED
  BY <1>4, <1>6, <1>7, <1>8 DEF node

-----------------------------------------------------------------------------
(* What the actions do to the nodes                                        *)

(* The job stays the same, and what is defined from it.                    *)
LEMMA SameJob ==
    ASSUME name' = name, job' = job
    PROVE  /\ Tasks' = Tasks /\ MaxDepth' = MaxDepth /\ Top' = Top
           /\ \A n : Depth(n)' = Depth(n)
           /\ inserted' = inserted => LastTask' = LastTask
  BY DEF Tasks, MaxDepth, Top, Depth, LastTask

LEMMA TaskFacts ==
    ASSUME StageInv, job > 0, NEW i \in 1..Len(Tasks)
    PROVE  /\ Tasks \in Seq((SUBSET Point) \ {{}}) /\ Len(Tasks) \in Nat \ {0}
           /\ Tasks[i] \in SUBSET Point /\ Tasks[i] # {} /\ InOctant(Tasks[i], name)
           /\ IsFiniteSet(Tasks[i]) /\ Cardinality(Tasks[i]) \in Nat
<1>1. Tasks = Jobs[job] /\ job \in 1..Len(Jobs) /\ name \in JobName
  BY DEF Tasks, StageInv
<1>2. Tasks \in Seq((SUBSET Point) \ {{}}) /\ Len(Tasks) \in Nat
  BY <1>1, NodeAssumption
<1>3. Len(Tasks) >= 1 /\ InOctant(Tasks[i], name)
  BY <1>1, JobsAssumption DEF InOctant
<1>4. Tasks[i] \in SUBSET Point /\ Tasks[i] # {}
  BY <1>2
<1>5. IsFiniteSet(Tasks[i]) /\ Cardinality(Tasks[i]) \in Nat
  BY <1>4, PathAssumption, FS_Subset, FS_CardinalityType
<1> QED
  BY <1>2, <1>3, <1>4, <1>5

LEMMA TreeFacts ==
    ASSUME StageInv, TreeInv, NEW n \in DOMAIN nodes
    PROVE  /\ n \in NodeName /\ IsAncestor(n, name) /\ Len(n) \in Nat
           /\ Len(name) <= Len(n) /\ Len(n) <= Len(name) + Top
           /\ nodes[n] \in NodeRecord /\ GoodNode(n, nodes[n])
           /\ Depth(n) = Len(n) - Len(name) /\ Depth(n) \in Nat
           /\ n = Root => name = Root
           /\ name = Root => n = Root
           /\ InOctant(AllPoints(nodes[n]), n) /\ AllPoints(nodes[n]) \in SUBSET Point
           /\ IsFiniteSet(AllPoints(nodes[n]))
<1>1. /\ n \in NodeName /\ IsAncestor(n, name) /\ Depth(n) <= Top
      /\ nodes[n] \in NodeRecord /\ GoodNode(n, nodes[n])
      /\ name \in JobName
  BY DEF TreeInv, InTree, StageInv
<1>2. Len(n) \in Nat /\ Len(name) <= Len(n) /\ Depth(n) = Len(n) - Len(name)
  BY <1>1 DEF IsAncestor, NodeName, Depth
<1>3. Len(n) <= Len(name) + Top /\ Depth(n) \in Nat
  BY <1>1, <1>2, NameFacts
<1>4. n = Root => name = Root
  BY <1>1, <1>2, NameFacts DEF Root, NodeName
<1>5. name = Root => n = Root
  BY <1>1, <1>2, <1>3, NameFacts DEF Root, NodeName
<1>6. InOctant(AllPoints(nodes[n]), n) /\ AllPoints(nodes[n]) \in SUBSET Point
  BY <1>1 DEF GoodNode, AllPoints, NodeRecord
<1>7. IsFiniteSet(AllPoints(nodes[n]))
  BY <1>6, PathAssumption, FS_Subset
<1> QED
  BY <1>1, <1>2, <1>3, <1>4, <1>5, <1>6, <1>7

(* The nodes above a node stay above it.                                   *)
LEMMA PathsKept ==
    ASSUME TreeInv, name' = name, DOMAIN nodes \subseteq DOMAIN nodes',
           \A m \in DOMAIN nodes : nodes[m].children \subseteq nodes'[m].children
    PROVE  \A n \in DOMAIN nodes : HasPath(n)'
  BY DEF TreeInv, HasPath

InsertEffect(task, new) ==
    /\ task \in SUBSET Point /\ task # {} /\ InOctant(task, name) /\ IsFiniteSet(task)
    /\ Cardinality(task) \in Nat
    /\ inserted + 1 \in 1..Len(Tasks) /\ task = Tasks[inserted + 1]
    /\ name \in DOMAIN nodes /\ Grown(name, nodes[name], task, new)
    /\ nodes' = [nodes EXCEPT ![name] = new]
    /\ total_point_count' = total_point_count + Cardinality(task)
    /\ inserted' = inserted + 1 /\ inserted \in Nat
    /\ job > 0 /\ todo = {} /\ stage' = "flush" /\ todo' = {name}
    /\ UNCHANGED <<name, stored, job, node_bytes, sent, before>>

LEMMA InsertTaskEffect ==
    ASSUME NodesInv, InsertTask
    PROVE  \E task, new : InsertEffect(task, new)
<1>1. /\ stage = "insert" /\ name \in JobName /\ job > 0 /\ inserted \in Nat /\ inserted < Len(Tasks)
      /\ name \in DOMAIN nodes /\ todo = {}
  BY DEF NodesInv, StageInv, InsertTask
<1>2. inserted + 1 \in 1..Len(Tasks)
  <2>1. Len(Tasks) \in Nat
    BY <1>1, NodeAssumption DEF NodesInv, StageInv, Tasks
  <2> QED
    BY <1>1, <2>1
<1>3. PICK task : task = Tasks[inserted + 1]
  OBVIOUS
<1>4. /\ task \in SUBSET Point /\ task # {} /\ InOctant(task, name)
      /\ IsFiniteSet(task) /\ Cardinality(task) \in Nat
  BY <1>1, <1>2, <1>3, TaskFacts DEF NodesInv
<1>5. PICK new \in InsertInto(name, nodes[name], task) : nodes' = [nodes EXCEPT ![name] = new]
  BY <1>3 DEF InsertTask
<1>6. GoodNode(name, nodes[name]) /\ name \in NodeName
  BY <1>1, TreeFacts DEF NodesInv
<1>7. Grown(name, nodes[name], task, new)
  BY <1>1, <1>4, <1>5, <1>6, InsertGrows
<1>8. total_point_count' = total_point_count + Cardinality(task)
  BY <1>3 DEF InsertTask
<1>9. /\ inserted' = inserted + 1 /\ stage' = "flush" /\ todo' = {name}
      /\ UNCHANGED <<name, stored, job, node_bytes, sent, before>>
  BY DEF InsertTask
<1> QED
  BY <1>1, <1>2, <1>3, <1>4, <1>5, <1>7, <1>8, <1>9 DEF InsertEffect

(* A flush of node n gives its pending points to the children kids.        *)
SpreadEffect(n, kids) ==
    /\ n \in DOMAIN nodes /\ n \in todo /\ stage = "flush" /\ name # Root
    /\ Depth(n) < MaxDepth /\ kids = PendingChildren(n)
    /\ \A kid \in kids :
         /\ kid \in NodeName /\ IsChild(kid, n) /\ kid # n /\ kid # Root
         /\ PendingOf(n, kid) \in SUBSET Point /\ PendingOf(n, kid) # {}
         /\ PendingOf(n, kid) \subseteq nodes[n].pending
         /\ GoodNode(kid, GetNode(kid)) /\ Grown(kid, GetNode(kid), PendingOf(n, kid), nodes'[kid])
    /\ \A p \in nodes[n].pending : \E kid \in kids : p \in PendingOf(n, kid)
    /\ \A kid, k \in kids : kid # k => PendingOf(n, kid) \cap PendingOf(n, k) = {}
    /\ DOMAIN nodes' = DOMAIN nodes \cup kids
    /\ nodes' \in [DOMAIN nodes' -> NodeRecord]
    /\ nodes'[n] = WithoutPending(n)
    /\ \A m \in DOMAIN nodes : m # n /\ m \notin kids => nodes'[m] = nodes[m]
    /\ kids \subseteq nodes'[n].children /\ nodes[n].children \subseteq nodes'[n].children
    /\ nodes'[n].children = nodes[n].children \cup kids
    /\ todo' = (todo \ {n}) \cup nodes'[n].children
    /\ UNCHANGED <<name, stored, job, stage, inserted, node_bytes, before, sent, total_point_count>>

LEMMA SpreadHasEffect ==
    ASSUME NodesInv, stage = "flush", NEW n \in todo, FlushToChildren(n),
           UNCHANGED <<name, stored, job, stage, inserted, node_bytes, before>>
    PROVE  SpreadEffect(n, PendingChildren(n))
<1>1. PICK kids : kids = PendingChildren(n)
  OBVIOUS
<1> DEFINE becomes(kid) == InsertInto(kid, GetNode(kid), PendingOf(n, kid))
<1>2. PICK new \in [kids -> UNION {becomes(kid) : kid \in kids}] :
        /\ \A kid \in kids : new[kid] \in becomes(kid)
        /\ nodes' = [m \in DOMAIN nodes \cup {n} \cup kids |->
                       IF m \in kids THEN new[m] ELSE IF m = n THEN WithoutPending(n) ELSE nodes[m]]
  BY <1>1 DEF FlushToChildren
<1>3. /\ Depth(n) < MaxDepth /\ todo' = (todo \ {n}) \cup WithoutPending(n).children
      /\ UNCHANGED <<sent, total_point_count>>
  BY DEF FlushToChildren
<1>4. /\ n \in DOMAIN nodes /\ n \in NodeName /\ name \in JobName /\ GoodNode(n, nodes[n])
      /\ Depth(n) \in Nat /\ Len(n) \in Nat
  <2>1. n \in DOMAIN nodes /\ name \in JobName
    BY DEF NodesInv, TreeInv, StageInv
  <2> QED
    BY <2>1, TreeFacts DEF NodesInv
<1>5. name # Root
  BY <1>3, <1>4, NameFacts
<1>6. /\ GetNode(n) = nodes[n]
      /\ \A p \in nodes[n].pending : \E kid \in kids : p \in PendingOf(n, kid)
      /\ \A kid \in kids :
           /\ kid \in NodeName /\ IsChild(kid, n) /\ kid # n /\ kid # Root
           /\ PendingOf(n, kid) \in SUBSET Point /\ PendingOf(n, kid) # {}
           /\ PendingOf(n, kid) \subseteq nodes[n].pending
           /\ InOctant(PendingOf(n, kid), kid)
  BY <1>1, <1>4, PendingFacts
<1>7. \A kid, k \in kids : kid # k => PendingOf(n, kid) \cap PendingOf(n, k) = {}
  BY DEF PendingOf
<1>8. DOMAIN nodes' = DOMAIN nodes \cup kids /\ n \notin kids
  BY <1>2, <1>4, <1>6
<1>9. nodes'[n] = WithoutPending(n)
  BY <1>2, <1>8, <1>4
<1>10. \A m \in DOMAIN nodes : m # n /\ m \notin kids => nodes'[m] = nodes[m]
  BY <1>2
<1>11. ASSUME NEW kid \in kids
       PROVE  GoodNode(kid, GetNode(kid)) /\ Grown(kid, GetNode(kid), PendingOf(n, kid), nodes'[kid])
  <2>1. kid \in NodeName /\ kid # Root /\ PendingOf(n, kid) \in SUBSET Point
        /\ InOctant(PendingOf(n, kid), kid)
    BY <1>6
  <2>2. GoodNode(kid, GetNode(kid))
    BY <2>1, NewNodeGood, TreeFacts DEF GetNode, NodesInv
  <2>3. nodes'[kid] \in InsertInto(kid, GetNode(kid), PendingOf(n, kid))
    BY <1>2
  <2> QED
    BY <1>4, <1>5, <2>1, <2>2, <2>3, InsertGrows
<1>12. /\ nodes'[n].children = nodes[n].children \cup kids
       /\ GoodNode(n, nodes'[n])
  BY <1>1, <1>4, <1>9, PendingRemoved
<1>13. \A m \in DOMAIN nodes' : nodes'[m] \in NodeRecord
  <2>1. \A m \in kids : nodes'[m] \in NodeRecord
    BY <1>11 DEF Grown, GoodNode
  <2>2. nodes'[n] \in NodeRecord
    BY <1>12 DEF GoodNode
  <2>3. \A m \in DOMAIN nodes : nodes[m] \in NodeRecord
    BY DEF NodesInv, TreeInv
  <2> QED
    BY <1>8, <1>10, <2>1, <2>2, <2>3
<1>14. nodes' \in [DOMAIN nodes' -> NodeRecord]
  BY <1>2, <1>13
<1>15. todo' = (todo \ {n}) \cup nodes'[n].children
  BY <1>3, <1>9
<1>16. SpreadEffect(n, kids)
  <2>1. /\ n \in DOMAIN nodes /\ n \in todo /\ stage = "flush" /\ name # Root
        /\ Depth(n) < MaxDepth /\ kids = PendingChildren(n)
        /\ UNCHANGED <<name, stored, job, stage, inserted, node_bytes, before, sent, total_point_count>>
    BY <1>1, <1>3, <1>4, <1>5
  <2> QED
    BY <1>6, <1>7, <1>8, <1>9, <1>10, <1>11, <1>12, <1>14, <1>15, <2>1 DEF SpreadEffect
<1> QED
  BY <1>1, <1>16

(* The pending points of node n, at the deepest level, leave or stay.      *)
LeaveEffect(n) ==
    /\ nodes' = [nodes EXCEPT ![n] = WithoutPending(n)]
    /\ \E order \in Orders(PendingChildren(n)) :
         sent' = sent \o [i \in DOMAIN order |-> NewTask(order[i], PendingOf(n, order[i]))]
    /\ total_point_count' = total_point_count - Cardinality(nodes[n].pending)
StayEffect(n) ==
    /\ UNCHANGED <<nodes, sent, total_point_count>>
    /\ LastTask => nodes[n].pending = {}
DumpEffect(n) ==
    /\ n \in DOMAIN nodes /\ n \in todo /\ stage = "flush"
    /\ Depth(n) >= MaxDepth /\ Len(n) = Len(name) + Top
    /\ todo' = todo \ {n}
    /\ LeaveEffect(n) \/ StayEffect(n)
    /\ UNCHANGED <<name, stored, job, stage, inserted, node_bytes, before>>

LEMMA DumpHasEffect ==
    ASSUME NodesInv, stage = "flush", NEW n \in todo, DumpPendingPoints(n),
           UNCHANGED <<name, stored, job, stage, inserted, node_bytes, before>>
    PROVE  DumpEffect(n)
<1>1. n \in DOMAIN nodes /\ name \in JobName
  BY DEF NodesInv, TreeInv, StageInv
<1>2. /\ n \in NodeName /\ GoodNode(n, nodes[n]) /\ IsFiniteSet(AllPoints(nodes[n]))
      /\ Len(n) \in Nat /\ Len(name) <= Len(n) /\ Len(n) <= Len(name) + Top
      /\ Depth(n) = Len(n) - Len(name)
  BY <1>1, TreeFacts DEF NodesInv
<1>3. Depth(n) >= MaxDepth /\ todo' = todo \ {n}
  BY DEF DumpPendingPoints
<1>4. Len(n) = Len(name) + Top
  <2>1. CASE name = Root
    BY <1>1, <1>2, <2>1, NameFacts
  <2>2. CASE name # Root
    BY <1>1, <1>2, <1>3, <2>2, NameFacts
  <2> QED
    BY <2>1, <2>2
<1>5. GetNode(n) = nodes[n] /\ nodes \in [DOMAIN nodes -> NodeRecord]
  BY <1>1, <1>2, PendingFacts DEF NodesInv, TreeInv
<1> DEFINE count == Cardinality(nodes[n].pending)
<1>6. /\ IsFiniteSet(nodes[n].pending) /\ count \in Nat
      /\ count = 0 => nodes[n].pending = {}
  BY <1>2, FS_Subset, FS_CardinalityType, FS_EmptySet DEF AllPoints
<1>7. CASE count > Threshold
  <2>1. nodes' = [m \in DOMAIN nodes \cup {n} |-> IF m = n THEN WithoutPending(n) ELSE nodes[m]]
    BY <1>5, <1>7 DEF DumpPendingPoints
  <2>2. nodes' = [nodes EXCEPT ![n] = WithoutPending(n)]
    BY <1>1, <1>5, <2>1
  <2>3. /\ \E order \in Orders(PendingChildren(n)) :
             sent' = sent \o [i \in DOMAIN order |-> NewTask(order[i], PendingOf(n, order[i]))]
        /\ total_point_count' = total_point_count - count
    BY <1>5, <1>7 DEF DumpPendingPoints
  <2> QED
    BY <1>1, <1>3, <1>4, <2>2, <2>3 DEF DumpEffect, LeaveEffect
<1>8. CASE ~ count > Threshold
  <2>1. nodes' = [m \in DOMAIN nodes \cup {n} |-> IF m = n THEN nodes[n] ELSE nodes[m]]
    BY <1>5, <1>8 DEF DumpPendingPoints
  <2>2. nodes' = nodes
    BY <1>1, <1>5, <2>1
  <2>3. UNCHANGED <<sent, total_point_count>>
    BY <1>5, <1>8 DEF DumpPendingPoints
  <2>4. LastTask => nodes[n].pending = {}
    BY <1>6, <1>8 DEF Threshold
  <2> QED
    BY <1>1, <1>3, <1>4, <2>2, <2>3, <2>4 DEF DumpEffect, StayEffect
<1> QED
  BY <1>7, <1>8

-----------------------------------------------------------------------------
(* The first invariants, action by action                                  *)

LEMMA InitNodes == Init => NodesInv
<1> SUFFICES ASSUME Init PROVE NodesInv
  OBVIOUS
<1>1. DOMAIN nodes = {} /\ DOMAIN stored = {} /\ nodes = Nothing /\ stored = Nothing
  BY DEF Init, Nothing
<1>2. Len(Jobs) \in Nat
  BY NodeAssumption
<1>3. StageInv
  BY <1>2 DEF Init, StageInv
<1>4. TreeInv
  BY <1>1 DEF Init, TreeInv, Nothing
<1>5. BytesInv
  BY <1>1 DEF BytesInv, Nothing
<1>6. PendingInv
  BY <1>1 DEF PendingInv
<1> QED
  BY <1>3, <1>4, <1>5, <1>6 DEF NodesInv

(* A job starts with the nodes that the job before it left, not dirty, or  *)
(* with a new one.                                                         *)
StartEffect ==
    /\ job' \in 1..Len(Jobs) /\ job' = job + 1 /\ stage = "idle"
    /\ stage' = "insert" /\ inserted' = 0 /\ todo = {}
    /\ sent' = <<>> /\ total_point_count' = 0 /\ before' = StoredPoints
    /\ node_bytes' = stored /\ UNCHANGED <<name, stored, todo>>
    /\ \/ stored = Nothing /\ nodes' = [n \in {name} |-> NewNode]
       \/ /\ name # Root /\ job > 0 /\ stored # Nothing
          /\ nodes' \in [DOMAIN nodes -> NodeRecord] /\ DOMAIN stored = DOMAIN nodes
          /\ \A n \in DOMAIN nodes : /\ nodes'[n] = [nodes[n] EXCEPT !.dirty = FALSE]
                                     /\ nodes'[n] = Load(stored[n])

LEMMA StartHasEffect ==
    ASSUME NodesInv, StartJob
    PROVE  StartEffect
<1>1. /\ stage = "idle" /\ job \in Nat /\ job < Len(Jobs) /\ Len(Jobs) \in Nat /\ todo = {}
      /\ name \in JobName
  BY NodeAssumption DEF NodesInv, StageInv, StartJob
<1>2. /\ job' \in 1..Len(Jobs) /\ job' = job + 1 /\ stage' = "insert" /\ inserted' = 0
      /\ sent' = <<>> /\ total_point_count' = 0 /\ before' = StoredPoints
      /\ node_bytes' = stored /\ UNCHANGED <<name, stored, todo>>
  BY <1>1 DEF StartJob
<1>3. CASE stored = Nothing
  <2>1. nodes' = [n \in {name} |-> NewNode]
    BY <1>3 DEF StartJob
  <2> QED
    BY <1>1, <1>2, <1>3, <2>1 DEF StartEffect
<1>4. CASE stored # Nothing
  <2>1. nodes' = [n \in DOMAIN stored |-> Load(stored[n])]
    BY <1>4 DEF StartJob
  <2>2. name # Root /\ job > 0
    BY <1>1, <1>4 DEF NodesInv, BytesInv, StageInv
  <2>3. /\ DOMAIN stored \subseteq DOMAIN nodes
        /\ \A n \in DOMAIN nodes : /\ n \in DOMAIN stored
                                   /\ Load(stored[n]) = [nodes[n] EXCEPT !.dirty = FALSE]
    BY <1>1, <2>2 DEF NodesInv, BytesInv
  <2>4. DOMAIN stored = DOMAIN nodes
    BY <2>3
  <2>5. \A n \in DOMAIN nodes : [nodes[n] EXCEPT !.dirty = FALSE] \in NodeRecord
    BY DEF NodesInv, TreeInv, NodeRecord
  <2>6. \A n \in DOMAIN nodes : /\ nodes'[n] = [nodes[n] EXCEPT !.dirty = FALSE]
                                /\ nodes'[n] = Load(stored[n])
    BY <2>1, <2>3, <2>4
  <2>7. nodes' \in [DOMAIN nodes -> NodeRecord]
    BY <2>1, <2>4, <2>5, <2>6
  <2> QED
    BY <1>1, <1>2, <1>4, <2>2, <2>4, <2>6, <2>7 DEF StartEffect
<1> QED
  BY <1>3, <1>4

LEMMA StartNodes ==
    ASSUME NodesInv, StartJob
    PROVE  NodesInv'
<1>1. StartEffect
  BY StartHasEffect
<1>2. /\ name \in JobName /\ name \in NodeName /\ Len(name) \in Nat /\ Top \in Nat
      /\ stored \in [DOMAIN stored -> SavedRecord]
  BY NameFacts DEF NodesInv, StageInv, BytesInv
<1>3. name \in DOMAIN nodes'
  <2>1. job > 0 => name \in DOMAIN nodes
    BY DEF NodesInv, StageInv
  <2> QED
    BY <1>1, <2>1 DEF StartEffect
<1>4. StageInv'
  <2>1. Len(Tasks') \in Nat /\ Len(Tasks') >= 1
    BY <1>1, NodeAssumption, JobsAssumption DEF StartEffect, Tasks
  <2>2. job' \in 0..Len(Jobs) /\ job' > 0
    BY <1>1, NodeAssumption DEF StartEffect
  <2> QED
    BY <1>1, <1>2, <1>3, <2>1, <2>2 DEF StartEffect, StageInv, NodesInv
<1>5. CASE stored = Nothing /\ nodes' = [n \in {name} |-> NewNode]
  <2>1. DOMAIN nodes' = {name} /\ nodes'[name] = NewNode /\ DOMAIN stored = {}
    BY <1>5 DEF Nothing
  <2>2. /\ NewNode \in NodeRecord /\ GoodNode(name, NewNode) /\ PointsIn(NewNode) = {}
        /\ NewNode.pending = {} /\ NewNode.children = {} /\ NewNode.dirty = FALSE
    BY <1>2, NewNodeGood
  <2>3. IsAncestor(name, name)
    BY <1>2, AncestorOrder
  <2>4. TreeInv'
    <3>1. InTree(name)'
      <4>1. Depth(name)' <= Top'
        BY <1>1, <1>2, NodeAssumption DEF StartEffect, Depth, Top, MaxDepth
      <4> QED
        BY <1>1, <1>2, <2>1, <2>2, <2>3, <4>1 DEF InTree, StartEffect
    <3>2. HasPath(name)'
      BY <1>1, <1>2 DEF StartEffect, HasPath
    <3>3. nodes' \in [DOMAIN nodes' -> NodeRecord] /\ todo' \subseteq DOMAIN nodes'
      BY <1>1, <1>5, <2>1, <2>2 DEF StartEffect
    <3> QED
      BY <1>1, <2>1, <3>1, <3>2, <3>3 DEF TreeInv, StartEffect
  <2>5. BytesInv'
    <3>1. [nodes'[name] EXCEPT !.pending = {}] = NewNode
      BY <2>1, <2>2, NothingPending
    <3>3. stored' = stored /\ name' = name /\ stage' = "insert" /\ inserted' = 0
      BY <1>1 DEF StartEffect
    <3>2. ASSUME NEW n \in DOMAIN nodes'
          PROVE  n = name /\ nodes'[n] = NewNode /\ Same(n, [nodes[n] EXCEPT !.pending = {}])'
      <4>1. n = name /\ n \notin DOMAIN stored'
        BY <2>1, <3>3
      <4>2. [nodes'[n] EXCEPT !.pending = {}] = NewNode
        BY <3>1, <4>1
      <4> QED
        BY <2>1, <4>1, <4>2 DEF Same
    <3>4. stored' \in [DOMAIN stored' -> SavedRecord] /\ DOMAIN stored' \subseteq DOMAIN nodes'
      BY <1>2, <2>1, <3>3
    <3> QED
      BY <1>5, <3>2, <3>3, <3>4 DEF BytesInv
  <2>6. PendingInv'
    BY <2>1, <2>2 DEF PendingInv
  <2> QED
    BY <1>4, <2>4, <2>5, <2>6 DEF NodesInv
<1>6. CASE /\ name # Root /\ job > 0 /\ stored # Nothing
           /\ nodes' \in [DOMAIN nodes -> NodeRecord] /\ DOMAIN stored = DOMAIN nodes
           /\ \A n \in DOMAIN nodes : /\ nodes'[n] = [nodes[n] EXCEPT !.dirty = FALSE]
                                      /\ nodes'[n] = Load(stored[n])
  <2>1. DOMAIN nodes' = DOMAIN nodes
    BY <1>6
  <2>2. \A n \in DOMAIN nodes :
          /\ GoodNode(n, nodes'[n]) /\ nodes'[n].dirty = FALSE /\ nodes'[n].pending = {}
          /\ PointsIn(nodes'[n]) = PointsIn(nodes[n])
          /\ nodes'[n].children = nodes[n].children
    <3> SUFFICES ASSUME NEW n \in DOMAIN nodes
                 PROVE  /\ GoodNode(n, nodes'[n]) /\ nodes'[n].dirty = FALSE /\ nodes'[n].pending = {}
                        /\ PointsIn(nodes'[n]) = PointsIn(nodes[n])
                        /\ nodes'[n].children = nodes[n].children
      OBVIOUS
    <3>1. GoodNode(n, nodes[n])
      BY TreeFacts DEF NodesInv
    <3>2. nodes'[n].pending = {}
      <4>1. n \in DOMAIN stored /\ stored[n] \in SavedRecord
        BY <1>2, <1>6
      <4>2. Load(stored[n]).pending = {}
        BY DEF Load
      <4> QED
        BY <1>6, <4>2
    <3>3. PICK new : new = nodes'[n]
      OBVIOUS
    <3>4. PICK node : node = nodes[n]
      OBVIOUS
    <3>5. new = [node EXCEPT !.dirty = FALSE]
      BY <1>6, <3>3, <3>4
    <3>6. /\ GoodNode(n, new) /\ new.dirty = FALSE /\ PointsIn(new) = PointsIn(node)
          /\ new.children = node.children
      <4>1. GoodNode(n, node)
        BY <3>1, <3>4
      <4> QED
        BY <3>5, <4>1, CleanNode
    <3> QED
      BY <3>2, <3>3, <3>4, <3>6
  <2>3. TreeInv'
    <3>1. UNCHANGED name /\ MaxDepth' = MaxDepth /\ Top' = Top /\ \A n : Depth(n)' = Depth(n)
      BY <1>1 DEF StartEffect, MaxDepth, Top, Depth
    <3>2. \A n \in DOMAIN nodes : InTree(n)'
      <4>1. \A n \in DOMAIN nodes : InTree(n)
        BY DEF NodesInv, TreeInv
      <4> SUFFICES ASSUME NEW n \in DOMAIN nodes PROVE InTree(n)'
        OBVIOUS
      <4>2. InTree(n) /\ GoodNode(n, nodes'[n]) /\ nodes'[n].children = nodes[n].children
        BY <2>2, <4>1
      <4>3. Depth(n)' <= Top' /\ n \in NodeName /\ IsAncestor(n, name)'
        BY <3>1, <4>2 DEF InTree
      <4>4. (Depth(n) < MaxDepth)' => nodes'[n].children \subseteq DOMAIN nodes'
        BY <2>1, <3>1, <4>2 DEF InTree
      <4> QED
        BY <4>2, <4>3, <4>4 DEF InTree
    <3>3. \A n \in DOMAIN nodes : HasPath(n)'
      BY <2>1, <2>2, <3>1, PathsKept DEF NodesInv
    <3>4. todo' \subseteq DOMAIN nodes'
      BY <1>1 DEF StartEffect
    <3> QED
      BY <1>6, <2>1, <3>2, <3>3, <3>4 DEF TreeInv
  <2>4. BytesInv'
    <3>1. /\ stored' \in [DOMAIN stored' -> SavedRecord] /\ DOMAIN stored' \subseteq DOMAIN nodes'
          /\ name' # Root /\ stage' = "insert"
      BY <1>1, <1>2, <1>6, <2>1 DEF StartEffect
    <3>2. ASSUME NEW n \in DOMAIN nodes
          PROVE  Same(n, [nodes[n] EXCEPT !.pending = {}])'
      <4>1. nodes'[n] \in NodeRecord /\ nodes'[n].pending = {}
        BY <1>6, <2>2
      <4>2. [nodes'[n] EXCEPT !.pending = {}] = nodes'[n]
        BY <4>1 DEF NodeRecord
      <4>3. stored' = stored
        BY <1>1 DEF StartEffect
      <4> QED
        BY <1>6, <4>2, <4>3 DEF Same
    <3>3. \A n \in DOMAIN nodes : PointsIn(nodes[n]) # {}
      <4>1. \A n \in DOMAIN nodes : PointsIn(nodes[n]) # {} \/ inserted = 0
        BY <1>6 DEF NodesInv, BytesInv
      <4>2. inserted # 0
        <5>1. stage = "idle" => inserted = Len(Tasks)
          BY <1>6 DEF NodesInv, StageInv, LastTask
        <5>2. Len(Tasks) \in Nat \ {0}
          <6>1. job \in 1..Len(Jobs)
            BY <1>6, NodeAssumption DEF NodesInv, StageInv
          <6> QED
            BY <6>1, NodeAssumption, JobsAssumption DEF Tasks
        <5> QED
          BY <1>1, <5>1, <5>2 DEF StartEffect
      <4> QED
        BY <4>1, <4>2
    <3> QED
      BY <2>1, <2>2, <3>1, <3>2, <3>3 DEF BytesInv
  <2>5. PendingInv'
    BY <2>1, <2>2 DEF PendingInv
  <2> QED
    BY <1>4, <2>3, <2>4, <2>5 DEF NodesInv
<1> QED
  BY <1>1, <1>5, <1>6 DEF StartEffect

LEMMA InsertNodes ==
    ASSUME NodesInv, InsertTask
    PROVE  NodesInv'
<1>1. PICK task, new : InsertEffect(task, new)
  BY InsertTaskEffect
<1>2. /\ name' = name /\ job' = job /\ stored' = stored /\ stage' = "flush" /\ todo' = {name}
      /\ inserted' = inserted + 1 /\ inserted \in Nat /\ inserted + 1 \in 1..Len(Tasks)
      /\ name \in DOMAIN nodes /\ task # {} /\ job > 0 /\ node_bytes' = node_bytes
      /\ nodes' = [nodes EXCEPT ![name] = new]
      /\ total_point_count' = total_point_count + Cardinality(task) /\ Cardinality(task) \in Nat
      /\ Grown(name, nodes[name], task, new)
  BY <1>1 DEF InsertEffect
<1>3. /\ Tasks' = Tasks /\ MaxDepth' = MaxDepth /\ Top' = Top /\ \A n : Depth(n)' = Depth(n)
  BY <1>2, SameJob
<1>4. nodes \in [DOMAIN nodes -> NodeRecord] /\ new \in NodeRecord /\ GoodNode(name, new)
  BY <1>2 DEF NodesInv, TreeInv, Grown, GoodNode
<1>5. /\ DOMAIN nodes' = DOMAIN nodes /\ nodes'[name] = new
      /\ \A n \in DOMAIN nodes : n # name => nodes'[n] = nodes[n]
      /\ nodes' \in [DOMAIN nodes -> NodeRecord]
  BY <1>2, <1>4
<1>6. StageInv'
  <2>1. Len(Tasks) \in Nat
    BY <1>2, TaskFacts DEF NodesInv
  <2>2. /\ name \in JobName /\ job \in 0..Len(Jobs) /\ total_point_count \in Int /\ node_bytes = stored
    BY DEF NodesInv, StageInv
  <2> QED
    BY <1>2, <1>3, <1>5, <2>1, <2>2 DEF StageInv
<1>7. TreeInv'
  <2>1. ASSUME NEW n \in DOMAIN nodes
        PROVE  InTree(n)'
    <3>1. InTree(n)
      BY DEF NodesInv, TreeInv
    <3>2. GoodNode(n, nodes'[n])
      BY <1>4, <1>5, <3>1 DEF InTree
    <3>3. Depth(n) < MaxDepth => nodes'[n].children \subseteq DOMAIN nodes
      <4>1. CASE name = Root
        BY <4>1, NameFacts, TreeFacts DEF NodesInv, StageInv
      <4>2. CASE name # Root
        BY <1>2, <1>5, <3>1, <4>2 DEF InTree, Grown
      <4> QED
        BY <4>1, <4>2
    <3>4. (Depth(n) < MaxDepth)' => nodes'[n].children \subseteq DOMAIN nodes'
      BY <1>3, <1>5, <3>3
    <3>5. Depth(n)' <= Top' /\ n \in NodeName /\ IsAncestor(n, name)'
      BY <1>2, <1>3, <3>1 DEF InTree
    <3> QED
      BY <3>2, <3>4, <3>5 DEF InTree
  <2>2. \A n \in DOMAIN nodes : HasPath(n)'
    <3>1. CASE name = Root
      <4>1. \A n \in DOMAIN nodes : n = Root /\ Len(name) = 0 /\ Len(n) = 0
        BY <3>1, TreeFacts, NameFacts DEF NodesInv, StageInv
      <4> QED
        BY <1>2, <4>1 DEF HasPath
    <3>2. CASE name # Root
      <4>1. \A m \in DOMAIN nodes : nodes[m].children \subseteq nodes'[m].children
        BY <1>2, <1>5, <3>2 DEF Grown
      <4> QED
        BY <1>2, <1>5, <4>1, PathsKept DEF NodesInv
    <3> QED
      BY <3>1, <3>2
  <2> QED
    BY <1>2, <1>5, <2>1, <2>2 DEF TreeInv
<1>8. BytesInv'
  <2>1. /\ stored \in [DOMAIN stored -> SavedRecord] /\ DOMAIN stored \subseteq DOMAIN nodes
        /\ name = Root => stored = Nothing
    BY DEF NodesInv, BytesInv
  <2>2. ASSUME name # Root, NEW n \in DOMAIN nodes
        PROVE  /\ ~ nodes'[n].dirty => Same(n, [nodes[n] EXCEPT !.pending = {}])'
               /\ PointsIn(nodes'[n]) # {}
    <3>1. /\ ~ nodes[n].dirty => Same(n, [nodes[n] EXCEPT !.pending = {}])
          /\ PointsIn(nodes[n]) # {} \/ n = name
      BY <2>2 DEF NodesInv, BytesInv
    <3>2. CASE n = name
      <4>1. ~ new.dirty => /\ ~ nodes[name].dirty
                           /\ [new EXCEPT !.pending = {}] = [nodes[name] EXCEPT !.pending = {}]
        BY <1>2, <2>2 DEF Grown
      <4>2. PointsIn(new) # {}
        BY <1>2, <2>2 DEF Grown
      <4> QED
        BY <1>2, <1>5, <3>1, <3>2, <4>1, <4>2 DEF Same
    <3>3. CASE n # name
      BY <1>2, <1>5, <3>1, <3>3 DEF Same
    <3> QED
      BY <3>2, <3>3
  <2> QED
    BY <1>2, <1>5, <2>1, <2>2 DEF BytesInv
<1>9. PendingInv'
  BY <1>2, <1>5, TreeFacts DEF PendingInv, NodesInv
<1> QED
  BY <1>6, <1>7, <1>8, <1>9 DEF NodesInv

LEMMA SpreadNodes ==
    ASSUME NodesInv, NEW n, NEW kids, SpreadEffect(n, kids)
    PROVE  NodesInv'
<1>1. /\ n \in DOMAIN nodes /\ n \in todo /\ stage = "flush" /\ name # Root
      /\ Depth(n) < MaxDepth /\ kids = PendingChildren(n) /\ n \notin kids
      /\ \A kid \in kids :
           /\ kid \in NodeName /\ IsChild(kid, n) /\ kid # n
           /\ PendingOf(n, kid) # {}
           /\ GoodNode(kid, GetNode(kid)) /\ Grown(kid, GetNode(kid), PendingOf(n, kid), nodes'[kid])
      /\ DOMAIN nodes' = DOMAIN nodes \cup kids
      /\ nodes' \in [DOMAIN nodes' -> NodeRecord]
      /\ nodes'[n] = WithoutPending(n)
      /\ \A m \in DOMAIN nodes : m # n /\ m \notin kids => nodes'[m] = nodes[m]
      /\ nodes'[n].children = nodes[n].children \cup kids
      /\ todo' = (todo \ {n}) \cup nodes'[n].children
  BY DEF SpreadEffect
<1>2. /\ name' = name /\ job' = job /\ stored' = stored /\ stage' = stage /\ inserted' = inserted
      /\ node_bytes' = node_bytes /\ total_point_count' = total_point_count
  BY DEF SpreadEffect
<1>3. /\ Tasks' = Tasks /\ MaxDepth' = MaxDepth /\ Top' = Top /\ \A m : Depth(m)' = Depth(m)
      /\ LastTask' = LastTask
  BY <1>2, SameJob
<1>4. StageInv'
  BY <1>1, <1>2, <1>3 DEF NodesInv, StageInv
<1>5. /\ n \in NodeName /\ Len(n) \in Nat /\ GoodNode(n, nodes[n]) /\ IsAncestor(n, name)
      /\ name \in JobName /\ name \in NodeName /\ Len(name) \in Nat /\ Len(name) <= Len(n)
      /\ MaxDepth \in Nat /\ Top = MaxDepth
  BY <1>1, TreeFacts, NameFacts DEF NodesInv, StageInv
<1>6. /\ GoodNode(n, nodes'[n]) /\ nodes'[n].pending = {}
      /\ PointsIn(nodes'[n]) = PointsIn(nodes[n])
      /\ ~ nodes'[n].dirty => ~ nodes[n].dirty /\ nodes'[n] = [nodes[n] EXCEPT !.pending = {}]
  BY <1>1, <1>5, PendingRemoved
<1>7. \A kid \in kids :
        /\ kid \in NodeName /\ kid # Root /\ Len(kid) = Len(n) + 1 /\ IsAncestor(kid, name)
        /\ GoodNode(kid, nodes'[kid]) /\ nodes'[kid].children = GetNode(kid).children
        /\ PointsIn(nodes'[kid]) # {}
  <2> SUFFICES ASSUME NEW kid \in kids
               PROVE  /\ kid \in NodeName /\ kid # Root /\ Len(kid) = Len(n) + 1 /\ IsAncestor(kid, name)
                      /\ GoodNode(kid, nodes'[kid]) /\ nodes'[kid].children = GetNode(kid).children
                      /\ PointsIn(nodes'[kid]) # {}
    OBVIOUS
  <2>1. kid \in NodeName /\ Len(kid) = Len(n) + 1 /\ IsAncestor(kid, n)
    BY <1>1 DEF IsChild
  <2>2. kid # Root
    BY <1>5, <2>1 DEF Root, NodeName
  <2>3. IsAncestor(kid, name)
    BY <1>5, <2>1, AncestorOrder
  <2> QED
    BY <1>1, <2>1, <2>2, <2>3 DEF Grown
<1>8. \A m \in DOMAIN nodes : nodes[m].children \subseteq nodes'[m].children
  <2>1. \A kid \in kids : kid \in DOMAIN nodes => GetNode(kid) = nodes[kid]
    BY DEF GetNode
  <2> QED
    BY <1>1, <1>7, <2>1
<1>9. nodes'[n].children \subseteq DOMAIN nodes'
  BY <1>1 DEF NodesInv, TreeInv, InTree
<1>10. TreeInv'
  <2>1. todo' \subseteq DOMAIN nodes'
    BY <1>1, <1>9 DEF NodesInv, TreeInv
  <2>2. ASSUME NEW m \in DOMAIN nodes'
        PROVE  /\ m \in NodeName /\ IsAncestor(m, name) /\ Depth(m) <= Top
               /\ GoodNode(m, nodes'[m])
               /\ Depth(m) < MaxDepth => nodes'[m].children \subseteq DOMAIN nodes'
    <3>1. CASE m \in kids
      <4>1. Depth(m) <= Top
        BY <1>1, <1>5, <1>7, <3>1 DEF Depth
      <4>2. Depth(m) < MaxDepth => nodes'[m].children \subseteq DOMAIN nodes'
        <5>1. CASE m \in DOMAIN nodes
          BY <1>1, <1>7, <3>1, <5>1 DEF NodesInv, TreeInv, InTree, GetNode
        <5>2. CASE m \notin DOMAIN nodes
          BY <1>7, <3>1, <5>2 DEF GetNode, NewNode
        <5> QED
          BY <5>1, <5>2
      <4> QED
        BY <1>7, <3>1, <4>1, <4>2
    <3>2. CASE m = n
      BY <1>1, <1>5, <1>6, <1>9, <3>2 DEF NodesInv, TreeInv, InTree
    <3>3. CASE m \notin kids /\ m # n
      <4>1. m \in DOMAIN nodes /\ nodes'[m] = nodes[m] /\ InTree(m)
        BY <1>1, <3>3 DEF NodesInv, TreeInv
      <4> QED
        BY <1>1, <4>1 DEF InTree
    <3> QED
      BY <3>1, <3>2, <3>3
  <2>3. \A m \in DOMAIN nodes' : InTree(m)'
    BY <1>2, <1>3, <2>2 DEF InTree
  <2>4. ASSUME NEW m \in DOMAIN nodes'
        PROVE  HasPath(m)'
    <3>1. CASE m \in DOMAIN nodes
      BY <1>1, <1>2, <1>8, <3>1, PathsKept DEF NodesInv
    <3>2. CASE m \in kids
      <4>1. HasPath(n)'
        BY <1>1, <1>2, <1>8, PathsKept DEF NodesInv
      <4>2. \A k \in Len(name)..(Len(n) - 1) :
              /\ SubSeq(n, 1, k) \in DOMAIN nodes'
              /\ SubSeq(n, 1, k + 1) \in nodes'[SubSeq(n, 1, k)].children
        BY <1>2, <4>1 DEF HasPath
      <4>3. /\ SubSeq(m, 1, Len(m)) = m /\ SubSeq(m, 1, Len(n)) = n /\ Len(m) = Len(n) + 1
            /\ \A k \in 0..Len(n) : SubSeq(m, 1, k) = SubSeq(n, 1, k)
        BY <1>1, <1>5, <3>2, ChildPrefixes
      <4>4. ASSUME NEW k \in Len(name)..(Len(m) - 1)
            PROVE  /\ SubSeq(m, 1, k) \in DOMAIN nodes'
                   /\ SubSeq(m, 1, k + 1) \in nodes'[SubSeq(m, 1, k)].children
        <5>1. CASE k = Len(n)
          BY <1>1, <3>2, <4>3, <5>1
        <5>2. CASE k # Len(n)
          <6>1. k \in Len(name)..(Len(n) - 1) /\ k \in 0..Len(n) /\ k + 1 \in 0..Len(n)
            <7>1. \A a, b \in Nat : \A j \in a..((b + 1) - 1) :
                    j # b => j \in a..(b - 1) /\ j \in 0..b /\ j + 1 \in 0..b
              OBVIOUS
            <7> QED
              BY <1>5, <4>3, <5>2, <7>1
          <6> QED
            BY <4>2, <4>3, <6>1
        <5> QED
          BY <5>1, <5>2
      <4> QED
        BY <1>2, <4>4 DEF HasPath
    <3> QED
      BY <1>1, <3>1, <3>2
  <2> QED
    BY <1>1, <2>1, <2>3, <2>4 DEF TreeInv
<1>11. BytesInv'
  <2>1. /\ stored \in [DOMAIN stored -> SavedRecord] /\ DOMAIN stored \subseteq DOMAIN nodes
    BY DEF NodesInv, BytesInv
  <2>2. \A m \in DOMAIN nodes : ~ nodes[m].dirty => Same(m, [nodes[m] EXCEPT !.pending = {}])
    BY <1>1 DEF NodesInv, BytesInv
  <2>5. \A m \in DOMAIN nodes : PointsIn(nodes[m]) # {} \/ inserted = 0
    BY <1>1 DEF NodesInv, BytesInv
  <2>3. inserted > 0 /\ inserted \in Nat
    BY <1>1 DEF NodesInv, StageInv, TreeInv, Nothing
  <2>4. ASSUME NEW m \in DOMAIN nodes'
        PROVE  /\ ~ nodes'[m].dirty => Same(m, [nodes'[m] EXCEPT !.pending = {}])
               /\ PointsIn(nodes'[m]) # {}
    <3>1. CASE m \in kids
      <4>1. ~ nodes'[m].dirty =>
              /\ ~ GetNode(m).dirty
              /\ [nodes'[m] EXCEPT !.pending = {}] = [GetNode(m) EXCEPT !.pending = {}]
        BY <1>1, <3>1 DEF Grown
      <4>2. ~ GetNode(m).dirty => Same(m, [GetNode(m) EXCEPT !.pending = {}])
        <5>1. CASE m \in DOMAIN nodes
          BY <2>2, <5>1 DEF GetNode
        <5>2. CASE m \notin DOMAIN nodes
          <6>1. GetNode(m) = NewNode /\ m \notin DOMAIN stored
            BY <2>1, <5>2 DEF GetNode
          <6>2. [NewNode EXCEPT !.pending = {}] = NewNode
            BY <1>5, NewNodeGood, NothingPending
          <6> QED
            BY <6>1, <6>2 DEF Same
        <5> QED
          BY <5>1, <5>2
      <4> QED
        BY <1>7, <3>1, <4>1, <4>2
    <3>2. CASE m = n
      <4>1. PointsIn(nodes'[m]) # {}
        <5>1. PointsIn(nodes[n]) # {}
          BY <1>1, <2>3, <2>5
        <5> QED
          BY <1>6, <3>2, <5>1
      <4>2. ASSUME ~ nodes'[n].dirty
            PROVE  Same(n, [nodes'[n] EXCEPT !.pending = {}])
        <5>1. nodes'[n] \in NodeRecord
          BY <1>1
        <5>2. [nodes'[n] EXCEPT !.pending = {}] = [nodes[n] EXCEPT !.pending = {}]
          BY <1>6, <4>2, <5>1, NothingPending
        <5> QED
          BY <1>1, <1>6, <2>2, <4>2, <5>2
      <4> QED
        BY <3>2, <4>1, <4>2
    <3>3. CASE m \notin kids /\ m # n
      BY <1>1, <2>2, <2>3, <2>5, <3>3
    <3> QED
      BY <3>1, <3>2, <3>3
  <2>6. \A m \in DOMAIN nodes' : ~ nodes'[m].dirty => Same(m, [nodes[m] EXCEPT !.pending = {}])'
    BY <1>2, <2>4 DEF Same
  <2> QED
    BY <1>1, <1>2, <2>1, <2>4, <2>6 DEF BytesInv
<1>12. PendingInv'
  <2>1. ASSUME NEW m \in DOMAIN nodes', nodes'[m].pending # {}, Depth(m) < MaxDepth \/ LastTask
        PROVE  \E a \in todo' : IsAncestor(m, a)
    <3>1. CASE m \in kids
      BY <1>1, <1>7, <3>1, AncestorOrder
    <3>2. CASE m \notin kids
      <4>1. m # n /\ m \in DOMAIN nodes /\ nodes'[m] = nodes[m]
        BY <1>1, <1>6, <2>1, <3>2
      <4>2. PICK a \in todo : IsAncestor(m, a)
        BY <2>1, <4>1 DEF NodesInv, PendingInv
      <4>3. CASE a = n
        <5>1. m \in NodeName /\ Len(m) \in Nat /\ Len(n) < Len(m) /\ SubSeq(m, 1, Len(n)) = n
          <6>1. m \in NodeName /\ Len(m) \in Nat /\ Len(n) <= Len(m) /\ SubSeq(m, 1, Len(n)) = n
            BY <4>1, <4>2, <4>3, TreeFacts DEF NodesInv, IsAncestor
          <6>2. Len(m) = Len(n) => SubSeq(m, 1, Len(n)) = m
            BY <6>1, AncestorOrder DEF IsAncestor
          <6> QED
            BY <1>5, <4>1, <6>1, <6>2
        <5>2. HasPath(m)
          BY <4>1 DEF NodesInv, TreeInv
        <5> DEFINE c == SubSeq(m, 1, Len(n) + 1)
        <5>3. c \in nodes[n].children
          <6>1. Len(n) \in Len(name)..(Len(m) - 1)
            BY <1>5, <5>1
          <6> QED
            BY <5>1, <5>2, <6>1 DEF HasPath
        <5>4. c \in todo'
          BY <1>1, <5>3
        <5>5. IsAncestor(m, c)
          <6>1. Len(c) = Len(n) + 1
            BY <1>5, <5>1 DEF NodeName
          <6> QED
            BY <1>5, <5>1, <6>1 DEF IsAncestor
        <5> QED
          BY <5>4, <5>5
      <4>4. CASE a # n
        BY <1>1, <4>2, <4>4
      <4> QED
        BY <4>3, <4>4
    <3> QED
      BY <3>1, <3>2
  <2> QED
    BY <1>3, <2>1 DEF PendingInv
<1> QED
  BY <1>4, <1>10, <1>11, <1>12 DEF NodesInv

(* Nodes that change in what they know only: nodes keep their place in the *)
(* tree when they keep their children, or get some at the deepest level.   *)
LEMMA TreeKept ==
    ASSUME StageInv, TreeInv, name' = name, todo' \subseteq todo,
           nodes' \in [DOMAIN nodes -> NodeRecord],
           \A m \in DOMAIN nodes :
             /\ GoodNode(m, nodes'[m])
             /\ nodes[m].children \subseteq nodes'[m].children
             /\ Depth(m) < MaxDepth => nodes'[m].children = nodes[m].children
    PROVE  TreeInv'
<1>1. DOMAIN nodes' = DOMAIN nodes
  OBVIOUS
<1>2. MaxDepth' = MaxDepth /\ Top' = Top /\ \A m : Depth(m)' = Depth(m)
  BY DEF MaxDepth, Top, Depth
<1>3. \A m \in DOMAIN nodes : HasPath(m)'
  BY <1>1, PathsKept
<1>4. ASSUME NEW m \in DOMAIN nodes
      PROVE  InTree(m)'
  <2>1. InTree(m)
    BY DEF TreeInv
  <2>2. Depth(m)' <= Top' /\ m \in NodeName /\ IsAncestor(m, name)'
    BY <1>2, <2>1 DEF InTree
  <2>3. (Depth(m) < MaxDepth)' => nodes'[m].children \subseteq DOMAIN nodes'
    BY <1>1, <1>2, <2>1 DEF InTree
  <2> QED
    BY <2>2, <2>3 DEF InTree
<1> QED
  BY <1>1, <1>3, <1>4 DEF TreeInv

LEMMA DumpNodes ==
    ASSUME NodesInv, NEW n, DumpEffect(n)
    PROVE  NodesInv'
<1>1. /\ n \in DOMAIN nodes /\ n \in todo /\ stage = "flush"
      /\ Depth(n) >= MaxDepth /\ Len(n) = Len(name) + Top
      /\ todo' = todo \ {n} /\ stage' = stage
      /\ name' = name /\ job' = job /\ stored' = stored /\ inserted' = inserted
      /\ node_bytes' = node_bytes
      /\ LeaveEffect(n) \/ StayEffect(n)
  BY DEF DumpEffect
<1>2. /\ Tasks' = Tasks /\ MaxDepth' = MaxDepth /\ Top' = Top /\ \A m : Depth(m)' = Depth(m)
      /\ LastTask' = LastTask
  BY <1>1, SameJob
<1>3. /\ n \in NodeName /\ Len(n) \in Nat /\ GoodNode(n, nodes[n]) /\ name \in JobName
      /\ IsFiniteSet(AllPoints(nodes[n])) /\ Depth(n) \in Nat /\ MaxDepth \in Int
      /\ nodes \in [DOMAIN nodes -> NodeRecord]
  BY <1>1, TreeFacts, NameFacts DEF NodesInv, StageInv, TreeInv
<1>4. Cardinality(nodes[n].pending) \in Nat
  BY <1>3, FS_Subset, FS_CardinalityType DEF AllPoints
<1>5. total_point_count' \in Int
  <2>1. total_point_count \in Int
    BY DEF NodesInv, StageInv
  <2> QED
    BY <1>1, <1>4, <2>1 DEF LeaveEffect, StayEffect
<1>6. /\ GoodNode(n, WithoutPending(n)) /\ WithoutPending(n).pending = {}
      /\ nodes[n].children \subseteq WithoutPending(n).children
      /\ PointsIn(WithoutPending(n)) = PointsIn(nodes[n])
      /\ ~ WithoutPending(n).dirty => /\ ~ nodes[n].dirty
                                      /\ WithoutPending(n) = [nodes[n] EXCEPT !.pending = {}]
      /\ WithoutPending(n) \in NodeRecord
  BY <1>1, <1>3, PendingRemoved DEF GoodNode
<1>7. /\ DOMAIN nodes' = DOMAIN nodes /\ nodes' \in [DOMAIN nodes -> NodeRecord]
      /\ \A m \in DOMAIN nodes : m # n => nodes'[m] = nodes[m]
      /\ nodes'[n] = WithoutPending(n) \/ (nodes'[n] = nodes[n] /\ (LastTask => nodes[n].pending = {}))
  <2>1. CASE LeaveEffect(n)
    <3>1. nodes' = [nodes EXCEPT ![n] = WithoutPending(n)]
      BY <2>1 DEF LeaveEffect
    <3> QED
      BY <1>1, <1>3, <1>6, <3>1
  <2>2. CASE StayEffect(n)
    BY <1>1, <1>3, <2>2 DEF StayEffect
  <2> QED
    BY <1>1, <2>1, <2>2
<1>8. StageInv'
  BY <1>1, <1>2, <1>5, <1>7 DEF NodesInv, StageInv
<1>9. TreeInv'
  <2>1. ASSUME NEW m \in DOMAIN nodes
        PROVE  /\ GoodNode(m, nodes'[m])
               /\ nodes[m].children \subseteq nodes'[m].children
               /\ Depth(m) < MaxDepth => nodes'[m].children = nodes[m].children
    <3>1. CASE m = n
      BY <1>1, <1>3, <1>6, <1>7, <3>1
    <3>2. CASE m # n
      BY <1>7, <3>2, TreeFacts DEF NodesInv
    <3> QED
      BY <3>1, <3>2
  <2> QED
    BY <1>1, <1>7, <2>1, TreeKept DEF NodesInv
<1>10. BytesInv'
  <2>1. /\ stored \in [DOMAIN stored -> SavedRecord] /\ DOMAIN stored \subseteq DOMAIN nodes
        /\ name = Root => stored = Nothing
    BY DEF NodesInv, BytesInv
  <2>2. ASSUME name # Root, NEW m \in DOMAIN nodes
        PROVE  /\ ~ nodes'[m].dirty => Same(m, [nodes'[m] EXCEPT !.pending = {}])
               /\ PointsIn(nodes'[m]) # {}
    <3>1. ~ nodes[m].dirty => Same(m, [nodes[m] EXCEPT !.pending = {}])
      BY <2>2 DEF NodesInv, BytesInv
    <3>2. PointsIn(nodes[m]) # {}
      <4>1. PointsIn(nodes[m]) # {} \/ inserted = 0
        BY <2>2 DEF NodesInv, BytesInv
      <4>2. inserted # 0
        BY <1>1 DEF NodesInv, StageInv, Nothing
      <4> QED
        BY <4>1, <4>2
    <3>3. CASE m = n /\ nodes'[n] = WithoutPending(n)
      <4>1. ASSUME ~ nodes'[m].dirty
            PROVE  Same(m, [nodes'[m] EXCEPT !.pending = {}])
        <5>1. ~ nodes[n].dirty /\ nodes'[n] = [nodes[n] EXCEPT !.pending = {}]
          BY <1>6, <3>3, <4>1
        <5>2. [nodes'[n] EXCEPT !.pending = {}] = nodes'[n]
          BY <1>6, <3>3, NothingPending
        <5> QED
          BY <3>1, <3>3, <5>1, <5>2
      <4> QED
        BY <1>6, <3>2, <3>3, <4>1
    <3>4. CASE nodes'[m] = nodes[m]
      BY <3>1, <3>2, <3>4
    <3> QED
      BY <1>7, <3>3, <3>4
  <2>3. ASSUME name # Root, NEW m \in DOMAIN nodes, ~ nodes'[m].dirty
        PROVE  Same(m, [nodes[m] EXCEPT !.pending = {}])'
    BY <1>1, <2>2, <2>3 DEF Same
  <2> QED
    BY <1>1, <1>7, <2>1, <2>2, <2>3 DEF BytesInv
<1>11. PendingInv'
  <2>1. ASSUME NEW m \in DOMAIN nodes, nodes'[m].pending # {}, Depth(m) < MaxDepth \/ LastTask
        PROVE  \E a \in todo' : IsAncestor(m, a)
    <3>1. m # n /\ nodes'[m] = nodes[m]
      <4>1. m # n
        BY <1>1, <1>3, <1>6, <1>7, <2>1
      <4> QED
        BY <1>7, <4>1
    <3>2. PICK a \in todo : IsAncestor(m, a)
      BY <2>1, <3>1 DEF NodesInv, PendingInv
    <3>3. m \in NodeName /\ Len(m) \in Nat /\ Len(m) <= Len(name) + Top /\ Top \in Nat /\ Len(name) \in Nat
      BY <1>3, TreeFacts, NameFacts DEF NodesInv
    <3>4. a # n
      <4>1. IsAncestor(m, n) => Len(m) = Len(n)
        BY <1>1, <1>3, <3>3 DEF IsAncestor
      <4>2. IsAncestor(m, n) /\ Len(m) = Len(n) => m = n
        BY <1>3, <3>3, AncestorOrder DEF IsAncestor
      <4> QED
        BY <3>1, <3>2, <4>1, <4>2
    <3> QED
      BY <1>1, <3>2, <3>4
  <2> QED
    BY <1>2, <1>7, <2>1 DEF PendingInv
<1> QED
  BY <1>8, <1>9, <1>10, <1>11 DEF NodesInv

LEMMA EndFlushNodes ==
    ASSUME NodesInv, EndFlush
    PROVE  NodesInv'
<1>1. /\ stage = "flush" /\ todo = {} /\ stage' = (IF LastTask THEN "balance" ELSE "insert")
      /\ UNCHANGED <<name, stored, job, inserted, nodes, node_bytes, todo, total_point_count>>
  BY DEF EndFlush
<1>2. /\ Tasks' = Tasks /\ MaxDepth' = MaxDepth /\ Top' = Top /\ \A m : Depth(m)' = Depth(m)
      /\ LastTask' = LastTask
  BY <1>1, SameJob
<1>3. job > 0 => Len(Tasks) \in Nat
  <2>1. job \in 0..Len(Jobs)
    BY DEF NodesInv, StageInv
  <2> QED
    BY <2>1, NodeAssumption DEF Tasks
<1>4. StageInv'
  <2>1. stage' = "insert" => ~ LastTask
    BY <1>1
  <2>2. stage' = "balance" => LastTask
    BY <1>1
  <2>3. stage' \in {"balance", "insert"}
    BY <1>1
  <2>4. StageInv
    BY DEF NodesInv
  <2>5. job # 0
    BY <1>1, <2>4 DEF StageInv
  <2> HIDE DEF LastTask
  <2>6. job > 0 => /\ name \in DOMAIN nodes /\ inserted <= Len(Tasks)
                   /\ stage' = "insert" => inserted < Len(Tasks)
    BY <1>3, <2>1, <2>4 DEF StageInv, LastTask
  <2> QED
    BY <1>1, <1>2, <2>2, <2>3, <2>4, <2>5, <2>6 DEF StageInv
<1>5. TreeInv'
  BY <1>1, <1>2 DEF NodesInv, TreeInv, InTree, HasPath
<1>6. BytesInv'
  BY <1>1 DEF NodesInv, BytesInv, Same
<1>7. PendingInv'
  BY <1>1, <1>2 DEF NodesInv, PendingInv
<1> QED
  BY <1>4, <1>5, <1>6, <1>7 DEF NodesInv

(* After the last flush nothing is pending.                                *)
LEMMA NonePending ==
    ASSUME NodesInv, stage \in {"balance", "dump"}, NEW n \in DOMAIN nodes
    PROVE  nodes[n].pending = {} /\ job > 0 /\ inserted > 0 /\ LastTask /\ name \in DOMAIN nodes
<1>1. todo = {} /\ job > 0 /\ LastTask /\ name \in DOMAIN nodes
  BY DEF NodesInv, StageInv
<1>2. nodes[n].pending = {}
  BY <1>1 DEF NodesInv, PendingInv
<1>3. job \in 1..Len(Jobs)
  BY <1>1, NodeAssumption DEF NodesInv, StageInv
<1>4. inserted > 0
  BY <1>1, <1>3, NodeAssumption, JobsAssumption DEF LastTask, Tasks
<1> QED
  BY <1>1, <1>2, <1>4

(* A node balanced: one more cell, and to be saved.                        *)
LEMMA BalancedFacts ==
    ASSUME NEW n, NEW node, GoodNode(n, node), node.split, MayBalance(node.cells, node.grid),
           NEW new, new = Balanced(node)
    PROVE  /\ GoodNode(n, new) /\ new.dirty = TRUE
           /\ PointsIn(new) = PointsIn(node) /\ AllPoints(new) = AllPoints(node)
           /\ Apart(node) => Apart(new)
           /\ new.children = node.children /\ new.pending = node.pending
<1>1. node \in NodeRecord
  BY DEF GoodNode
<1>2. /\ new.split = node.split /\ new.children = node.children /\ new.points = node.points
      /\ new.grid = node.grid /\ new.pending = node.pending /\ new.cells = node.cells + 1
      /\ new.dirty = TRUE
  BY <1>1 DEF NodeRecord, Balanced
<1>3. node.cells + 1 \in InitialCells..MaxCells
  BY <1>1, NodeAssumption DEF NodeRecord, MayBalance
<1>4. new \in NodeRecord
  BY <1>1, <1>3 DEF NodeRecord, Balanced
<1>5. GoodNode(n, new)
  BY <1>2, <1>4 DEF GoodNode, AllPoints
<1> QED
  BY <1>2, <1>5 DEF AllPoints, PointsIn, Apart

BalanceEffect ==
    /\ stage = "balance" /\ stage' = "dump"
    /\ nodes' \in [DOMAIN nodes -> NodeRecord]
    /\ \A n \in DOMAIN nodes :
         /\ GoodNode(n, nodes'[n]) /\ nodes'[n].pending = {} /\ nodes[n].pending = {}
         /\ PointsIn(nodes'[n]) = PointsIn(nodes[n]) /\ AllPoints(nodes'[n]) = AllPoints(nodes[n])
         /\ Apart(nodes[n]) => Apart(nodes'[n])
         /\ nodes'[n].children = nodes[n].children
         /\ nodes'[n].dirty \/ nodes'[n] = nodes[n]
    /\ UNCHANGED <<name, stored, job, inserted, node_bytes, todo, sent, total_point_count, before>>

LEMMA BalanceHasEffect ==
    ASSUME NodesInv, Balance
    PROVE  BalanceEffect
<1>1. /\ stage = "balance" /\ stage' = "dump"
      /\ UNCHANGED <<name, stored, job, inserted, node_bytes, todo, sent, total_point_count, before>>
  BY DEF Balance
<1>2. PICK full \in SUBSET {n \in DOMAIN nodes :
                              /\ Depth(n) < MaxDepth /\ nodes[n].split
                              /\ MayBalance(nodes[n].cells, nodes[n].grid)} :
        nodes' = [n \in DOMAIN nodes |-> IF n \in full THEN Balanced(nodes[n]) ELSE nodes[n]]
  BY DEF Balance
<1>3. ASSUME NEW n \in DOMAIN nodes
      PROVE  /\ GoodNode(n, nodes'[n]) /\ nodes'[n].pending = {} /\ nodes[n].pending = {}
             /\ PointsIn(nodes'[n]) = PointsIn(nodes[n]) /\ AllPoints(nodes'[n]) = AllPoints(nodes[n])
             /\ Apart(nodes[n]) => Apart(nodes'[n])
             /\ nodes'[n].children = nodes[n].children
             /\ nodes'[n].dirty \/ nodes'[n] = nodes[n]
  <2>1. nodes[n].pending = {} /\ GoodNode(n, nodes[n])
    BY <1>1, NonePending, TreeFacts DEF NodesInv
  <2>2. CASE n \in full
    <3>1. nodes'[n] = Balanced(nodes[n]) /\ nodes[n].split /\ MayBalance(nodes[n].cells, nodes[n].grid)
      BY <1>2, <2>2
    <3>2. PICK node, new : node = nodes[n] /\ new = nodes'[n]
      OBVIOUS
    <3>3. GoodNode(n, node) /\ node.split /\ MayBalance(node.cells, node.grid) /\ new = Balanced(node)
      BY <2>1, <3>1, <3>2
    <3>4. /\ GoodNode(n, new) /\ new.dirty = TRUE
          /\ PointsIn(new) = PointsIn(node) /\ AllPoints(new) = AllPoints(node)
          /\ Apart(node) => Apart(new)
          /\ new.children = node.children /\ new.pending = node.pending
      BY <3>3, BalancedFacts
    <3> QED
      BY <2>1, <3>2, <3>4
  <2>3. CASE n \notin full
    <3>1. nodes'[n] = nodes[n]
      BY <1>2, <2>3
    <3> QED
      BY <2>1, <3>1
  <2> QED
    BY <2>2, <2>3
<1>4. nodes' \in [DOMAIN nodes -> NodeRecord]
  BY <1>2, <1>3 DEF GoodNode
<1> QED
  BY <1>1, <1>3, <1>4 DEF BalanceEffect

LEMMA BalanceNodes ==
    ASSUME NodesInv, BalanceEffect
    PROVE  NodesInv'
<1>1. /\ stage = "balance" /\ stage' = "dump" /\ nodes' \in [DOMAIN nodes -> NodeRecord]
      /\ DOMAIN nodes' = DOMAIN nodes
      /\ UNCHANGED <<name, stored, job, inserted, node_bytes, todo, total_point_count>>
  BY DEF BalanceEffect
<1>2. /\ Tasks' = Tasks /\ MaxDepth' = MaxDepth /\ Top' = Top /\ \A m : Depth(m)' = Depth(m)
      /\ LastTask' = LastTask
  BY <1>1, SameJob
<1>3. StageInv'
  BY <1>1, <1>2 DEF NodesInv, StageInv
<1>4. TreeInv'
  <2>1. \A m \in DOMAIN nodes : GoodNode(m, nodes'[m]) /\ nodes'[m].children = nodes[m].children
    BY DEF BalanceEffect
  <2> QED
    BY <1>1, <2>1, TreeKept DEF NodesInv
<1>5. BytesInv'
  <2>1. /\ stored \in [DOMAIN stored -> SavedRecord] /\ DOMAIN stored \subseteq DOMAIN nodes
        /\ name = Root => stored = Nothing
    BY DEF NodesInv, BytesInv
  <2>2. ASSUME name # Root, NEW m \in DOMAIN nodes
        PROVE  /\ ~ nodes'[m].dirty => Same(m, [nodes[m] EXCEPT !.pending = {}])'
               /\ PointsIn(nodes'[m]) # {}
    <3>1. ~ nodes[m].dirty => Same(m, [nodes[m] EXCEPT !.pending = {}])
      BY <2>2 DEF NodesInv, BytesInv
    <3>2. PointsIn(nodes[m]) # {} \/ inserted = 0
      BY <2>2 DEF NodesInv, BytesInv
    <3>3. inserted > 0
      BY <1>1, NonePending
    <3>4. PointsIn(nodes'[m]) = PointsIn(nodes[m]) /\ (nodes'[m].dirty \/ nodes'[m] = nodes[m])
      BY DEF BalanceEffect
    <3> QED
      BY <1>1, <3>1, <3>2, <3>3, <3>4 DEF Same
  <2> QED
    BY <1>1, <2>1, <2>2 DEF BytesInv
<1>6. PendingInv'
  <2>1. \A m \in DOMAIN nodes : nodes'[m].pending = {}
    BY DEF BalanceEffect
  <2> QED
    BY <1>1, <2>1 DEF PendingInv
<1> QED
  BY <1>3, <1>4, <1>5, <1>6 DEF NodesInv

(* What goes back to the manager: every node the worker has.               *)
SendEffect ==
    /\ stage = "dump" /\ stage' = "idle"
    /\ UNCHANGED <<name, job, inserted, nodes, todo, total_point_count, before>>
    /\ node_bytes' = stored'
    /\ sent' = Append(sent, ProcessedMessage(name, total_point_count, StoredPoints'))
    /\ name = Root => stored' = Nothing
    /\ name # Root => /\ stored' \in [DOMAIN nodes -> SavedRecord]
                      /\ \A n \in DOMAIN nodes :
                           /\ Load(stored'[n]) = [nodes[n] EXCEPT !.dirty = FALSE]
                           /\ PointsIn(stored'[n]) = PointsIn(nodes[n])
                           /\ PointsIn(nodes[n]) # {}

LEMMA SendHasEffect ==
    ASSUME NodesInv, SendProcessed
    PROVE  SendEffect
<1>1. /\ stage = "dump" /\ stage' = "idle"
      /\ UNCHANGED <<name, job, inserted, nodes, todo, total_point_count, before>>
      /\ node_bytes' = stored' /\ node_bytes = stored
      /\ sent' = Append(sent, ProcessedMessage(name, total_point_count, StoredPoints'))
      /\ node_bytes' = IF name = Root THEN node_bytes ELSE Dumped
  BY DEF SendProcessed, NodesInv, StageInv
<1>2. ASSUME name = Root
      PROVE  stored' = Nothing
  BY <1>1, <1>2 DEF NodesInv, BytesInv
<1>3. ASSUME name # Root
      PROVE  /\ stored' \in [DOMAIN nodes -> SavedRecord]
             /\ \A n \in DOMAIN nodes :
                  /\ Load(stored'[n]) = [nodes[n] EXCEPT !.dirty = FALSE]
                  /\ PointsIn(stored'[n]) = PointsIn(nodes[n])
                  /\ PointsIn(nodes[n]) # {}
  <2> DEFINE changed == {n \in DOMAIN nodes : nodes[n].dirty}
  <2>1. stored' = [n \in DOMAIN stored \cup changed |->
                     IF n \in changed THEN Saved(nodes[n]) ELSE stored[n]]
    BY <1>1, <1>3 DEF Dumped
  <2>2. /\ stored \in [DOMAIN stored -> SavedRecord] /\ DOMAIN stored \subseteq DOMAIN nodes
        /\ \A n \in DOMAIN nodes : ~ nodes[n].dirty => Same(n, [nodes[n] EXCEPT !.pending = {}])
    BY <1>3 DEF NodesInv, BytesInv
  <2>3. \A n \in DOMAIN nodes : PointsIn(nodes[n]) # {} \/ inserted = 0
    BY <1>3 DEF NodesInv, BytesInv
  <2>4. ASSUME NEW n \in DOMAIN nodes
        PROVE  /\ PointsIn(nodes[n]) # {} /\ nodes[n].pending = {} /\ GoodNode(n, nodes[n])
               /\ nodes[n] \in NodeRecord /\ n \in NodeName
    BY <1>1, <2>3, NonePending, TreeFacts DEF NodesInv
  <2>5. ASSUME NEW n \in DOMAIN nodes
        PROVE  /\ n \in DOMAIN stored \cup changed
               /\ stored'[n] \in SavedRecord
               /\ Load(stored'[n]) = [nodes[n] EXCEPT !.dirty = FALSE]
               /\ PointsIn(stored'[n]) = PointsIn(nodes[n])
    <3>1. CASE n \in changed
      <4>1. stored'[n] = Saved(nodes[n])
        BY <2>1, <3>1
      <4>2. PICK node : node = nodes[n]
        OBVIOUS
      <4>3. /\ Saved(node) \in SavedRecord /\ Load(Saved(node)) = [node EXCEPT !.dirty = FALSE]
            /\ PointsIn(Saved(node)) = PointsIn(node)
        BY <2>4, <4>2, SavedLoads
      <4> QED
        BY <3>1, <4>1, <4>2, <4>3
    <3>2. CASE n \notin changed
      <4>1. ~ nodes[n].dirty /\ nodes[n].dirty = FALSE
        BY <2>4, <3>2 DEF NodeRecord
      <4>2. [nodes[n] EXCEPT !.pending = {}] = nodes[n]
        BY <2>4, NothingPending
      <4>3. Same(n, nodes[n])
        BY <2>2, <4>1, <4>2
      <4>4. n \in DOMAIN stored
        <5>1. n \notin DOMAIN stored => nodes[n] = NewNode
          BY <4>3 DEF Same
        <5>2. PointsIn(nodes[n]) # {} /\ PointsIn(NewNode) = {}
          BY <2>4, NewNodeGood
        <5> QED
          BY <5>1, <5>2
      <4>5. stored'[n] = stored[n] /\ Load(stored[n]) = nodes[n] /\ stored[n] \in SavedRecord
        BY <2>1, <2>2, <3>2, <4>3, <4>4 DEF Same
      <4>6. [nodes[n] EXCEPT !.dirty = FALSE] = nodes[n]
        BY <2>4, <4>1 DEF NodeRecord
      <4> QED
        BY <4>4, <4>5, <4>6, LoadedFields
    <3> QED
      BY <3>1, <3>2
  <2>6. DOMAIN stored \cup changed = DOMAIN nodes
    BY <2>2, <2>5
  <2>7. stored' \in [DOMAIN nodes -> SavedRecord]
    <3>1. DOMAIN stored' = DOMAIN nodes
      BY <2>1, <2>6
    <3>2. stored' = [n \in DOMAIN nodes |-> stored'[n]]
      BY <2>1, <2>6
    <3> QED
      BY <2>5, <3>1, <3>2
  <2> QED
    BY <2>4, <2>5, <2>7
<1> QED
  BY <1>1, <1>2, <1>3 DEF SendEffect

LEMMA SendNodes ==
    ASSUME NodesInv, SendEffect
    PROVE  NodesInv'
<1>1. /\ stage = "dump" /\ stage' = "idle" /\ name' = name /\ job' = job /\ nodes' = nodes
      /\ UNCHANGED <<inserted, todo, total_point_count>> /\ node_bytes' = stored'
  BY DEF SendEffect
<1>2. /\ Tasks' = Tasks /\ MaxDepth' = MaxDepth /\ Top' = Top /\ \A m : Depth(m)' = Depth(m)
      /\ LastTask' = LastTask
  BY <1>1, SameJob
<1>3. StageInv'
  BY <1>1, <1>2 DEF NodesInv, StageInv
<1>4. TreeInv'
  BY <1>1, <1>2 DEF NodesInv, TreeInv, InTree, HasPath
<1>5. BytesInv'
  <2>1. CASE name = Root
    BY <1>1, <2>1 DEF BytesInv, SendEffect, Nothing
  <2>2. CASE name # Root
    <3>1. /\ stored' \in [DOMAIN nodes -> SavedRecord] /\ DOMAIN stored' = DOMAIN nodes
          /\ \A n \in DOMAIN nodes : /\ Load(stored'[n]) = [nodes[n] EXCEPT !.dirty = FALSE]
                                     /\ PointsIn(nodes[n]) # {}
      BY <2>2 DEF SendEffect
    <3>2. ASSUME NEW n \in DOMAIN nodes, ~ nodes[n].dirty
          PROVE  Same(n, [nodes[n] EXCEPT !.pending = {}])'
      <4>1. nodes[n] \in NodeRecord /\ nodes[n].pending = {}
        BY <1>1, NonePending, TreeFacts DEF NodesInv
      <4>2. [nodes[n] EXCEPT !.pending = {}] = nodes[n]
        BY <4>1, NothingPending
      <4>3. [nodes[n] EXCEPT !.dirty = FALSE] = nodes[n]
        BY <3>2, <4>1 DEF NodeRecord
      <4> QED
        BY <1>1, <3>1, <4>2, <4>3 DEF Same
    <3> QED
      BY <1>1, <2>2, <3>1, <3>2 DEF BytesInv
  <2> QED
    BY <2>1, <2>2
<1>6. PendingInv'
  BY <1>1, <1>2 DEF NodesInv, PendingInv
<1> QED
  BY <1>3, <1>4, <1>5, <1>6 DEF NodesInv

LEMMA SameNodes ==
    ASSUME NodesInv, UNCHANGED vars
    PROVE  NodesInv'
<1>1. UNCHANGED <<name, stored, job, stage, inserted, nodes, node_bytes, todo, total_point_count>>
  BY DEF vars
<1>2. /\ Tasks' = Tasks /\ MaxDepth' = MaxDepth /\ Top' = Top /\ \A m : Depth(m)' = Depth(m)
      /\ LastTask' = LastTask
  BY <1>1, SameJob
<1>3. StageInv'
  BY <1>1, <1>2 DEF NodesInv, StageInv
<1>4. TreeInv'
  BY <1>1, <1>2 DEF NodesInv, TreeInv, InTree, HasPath
<1>5. BytesInv'
  BY <1>1 DEF NodesInv, BytesInv, Same
<1>6. PendingInv'
  BY <1>1, <1>2 DEF NodesInv, PendingInv
<1> QED
  BY <1>3, <1>4, <1>5, <1>6 DEF NodesInv

(* The steps, by what they do.                                             *)
NodeStep ==
    \/ StartEffect
    \/ \E task, new : InsertEffect(task, new)
    \/ \E n, kids : SpreadEffect(n, kids)
    \/ \E n : DumpEffect(n)
    \/ EndFlush
    \/ BalanceEffect
    \/ SendEffect
    \/ UNCHANGED vars

LEMMA StepNodes ==
    ASSUME NodesInv, [Next]_vars
    PROVE  NodeStep /\ NodesInv'
<1>1. CASE StartJob
  BY <1>1, StartHasEffect, StartNodes DEF NodeStep
<1>2. CASE InsertTask
  BY <1>2, InsertTaskEffect, InsertNodes DEF NodeStep
<1>3. CASE Flush
  <2>1. PICK n \in todo : FlushToChildren(n) \/ DumpPendingPoints(n)
    BY <1>3 DEF Flush
  <2>2. stage = "flush" /\ UNCHANGED <<name, stored, job, stage, inserted, node_bytes, before>>
    BY <1>3 DEF Flush
  <2>3. CASE FlushToChildren(n)
    <3>1. SpreadEffect(n, PendingChildren(n))
      BY <2>2, <2>3, SpreadHasEffect
    <3> QED
      BY <3>1, SpreadNodes DEF NodeStep
  <2>4. CASE DumpPendingPoints(n)
    <3>1. DumpEffect(n)
      BY <2>2, <2>4, DumpHasEffect
    <3> QED
      BY <3>1, DumpNodes DEF NodeStep
  <2> QED
    BY <2>1, <2>3, <2>4
<1>4. CASE EndFlush
  BY <1>4, EndFlushNodes DEF NodeStep
<1>5. CASE Balance
  BY <1>5, BalanceHasEffect, BalanceNodes DEF NodeStep
<1>6. CASE SendProcessed
  BY <1>6, SendHasEffect, SendNodes DEF NodeStep
<1>7. CASE UNCHANGED vars
  BY <1>7, SameNodes DEF NodeStep
<1> QED
  BY <1>1, <1>2, <1>3, <1>4, <1>5, <1>6, <1>7 DEF Next

LEMMA NodesInvariant == Spec => []NodesInv
<1>1. NodesInv /\ [Next]_vars => NodesInv'
  BY StepNodes
<1> QED
  BY <1>1, InitNodes, PTL DEF Spec

(* Every variable keeps its type: no grid ever has more than MaxCells      *)
(* cells, and no node is outside the subtree of the job (NodeProcess.run,  *)
(* Grid.balance).                                                          *)
THEOREM NodeProcessTypeOK == Spec => []TypeOK
<1>1. NodesInv => TypeOK
  <2> SUFFICES ASSUME NodesInv PROVE TypeOK
    OBVIOUS
  <2>1. /\ name \in JobName /\ stage \in {"idle", "insert", "flush", "balance", "dump"}
        /\ job \in 0..Len(Jobs) /\ inserted \in Nat /\ total_point_count \in Int
        /\ node_bytes = stored
    BY DEF NodesInv, StageInv
  <2>2. DOMAIN stored \subseteq DOMAIN nodes
    BY DEF NodesInv, BytesInv
  <2>3. todo \subseteq DOMAIN nodes
    BY DEF NodesInv, TreeInv
  <2>4. ASSUME NEW n \in DOMAIN nodes
        PROVE  /\ IsAncestor(n, name) /\ Depth(n) <= (IF MaxDepth < 0 THEN 0 ELSE MaxDepth)
               /\ nodes[n] \in NodeRecord
    BY DEF NodesInv, TreeInv, InTree, Top
  <2> QED
    BY <2>1, <2>2, <2>3, <2>4 DEF TypeOK
<1> QED
  BY <1>1, NodesInvariant, PTL

(* The bytes that go back to the manager are those of the nodes as the     *)
(* worker leaves them: NodeCatalog.dump writes a node when it is dirty     *)
(* only, and every change that save_to_bytes would keep makes it dirty.    *)
THEOREM NodeProcessSavedIsCurrent == Spec => []SavedIsCurrent
<1>1. NodesInv => SavedIsCurrent
  <2> SUFFICES ASSUME NodesInv, Done, name # Root, NEW n \in DOMAIN nodes
               PROVE  IF n \in DOMAIN stored
                      THEN Load(stored[n]) = [nodes[n] EXCEPT !.dirty = FALSE]
                      ELSE nodes[n] = NewNode
    BY DEF SavedIsCurrent
  <2>1. stage = "idle"
    BY DEF Done
  <2> QED
    BY <2>1 DEF NodesInv, BytesInv
<1> QED
  BY <1>1, NodesInvariant, PTL

(* No node goes back without points, and none above the deepest level      *)
(* without its children: Grid.insert keeps the first point of an empty     *)
(* cell, and _flush visits the children that got points.                   *)
THEOREM NodeProcessNodesWritable == Spec => []NodesWritable
<1>1. NodesInv => NodesWritable
  <2> SUFFICES ASSUME NodesInv, Done PROVE NodesWritable
    BY DEF NodesWritable
  <2>1. stage = "idle" /\ job > 0
    BY DEF Done
  <2>2. /\ stored \in [DOMAIN stored -> SavedRecord] /\ DOMAIN stored \subseteq DOMAIN nodes
        /\ name = Root => stored = Nothing
    BY DEF NodesInv, BytesInv
  <2>3. CASE name = Root
    BY <2>2, <2>3 DEF NodesWritable, Nothing
  <2>4. CASE name # Root
    <3>1. ASSUME NEW n \in DOMAIN nodes
          PROVE  /\ n \in DOMAIN stored /\ PointsIn(stored[n]) = PointsIn(nodes[n])
                 /\ stored[n].children = nodes[n].children
      <4>1. n \in DOMAIN stored /\ Load(stored[n]) = [nodes[n] EXCEPT !.dirty = FALSE]
        BY <2>1, <2>4 DEF NodesInv, BytesInv
      <4>2. PICK node, new : node = nodes[n] /\ new = Load(stored[n])
        OBVIOUS
      <4>3. GoodNode(n, node) /\ new = [node EXCEPT !.dirty = FALSE]
        BY <4>1, <4>2, TreeFacts DEF NodesInv
      <4>4. PointsIn(new) = PointsIn(node) /\ new.children = node.children
        BY <4>3, CleanNode
      <4>5. PointsIn(Load(stored[n])) = PointsIn(stored[n]) /\ Load(stored[n]).children = stored[n].children
        BY <2>2, <4>1, LoadedFields
      <4> QED
        BY <4>1, <4>2, <4>4, <4>5
    <3>2. \A n \in DOMAIN nodes : PointsIn(nodes[n]) # {} \/ inserted = 0
      BY <2>4 DEF NodesInv, BytesInv
    <3>3. inserted # 0
      <4>1. inserted = Len(Tasks)
        BY <2>1 DEF NodesInv, StageInv, LastTask
      <4>2. job \in 1..Len(Jobs)
        BY <2>1, NodeAssumption DEF NodesInv, StageInv
      <4> QED
        BY <4>1, <4>2, NodeAssumption, JobsAssumption DEF Tasks
    <3>4. \A n \in DOMAIN nodes : Depth(n) < MaxDepth => nodes[n].children \subseteq DOMAIN nodes
      BY DEF NodesInv, TreeInv, InTree
    <3> QED
      BY <2>2, <3>1, <3>2, <3>3, <3>4 DEF NodesWritable
  <2> QED
    BY <2>3, <2>4
<1> QED
  BY <1>1, NodesInvariant, PTL

-----------------------------------------------------------------------------
(* The points: each of those given is in one place of one node, or left.   *)

Held == UNION {AllPoints(nodes[n]) : n \in DOMAIN nodes}
ApartInv ==
    \A n \in DOMAIN nodes :
      /\ Apart(nodes[n])
      /\ \A m \in DOMAIN nodes : m # n => AllPoints(nodes[m]) \cap AllPoints(nodes[n]) = {}

LEMMA StartHeld ==
    ASSUME NodesInv, ApartInv, StartEffect
    PROVE  ApartInv' /\ Held' = StoredPoints
<1>1. stored \in [DOMAIN stored -> SavedRecord] /\ name \in NodeName
  BY NameFacts DEF NodesInv, BytesInv, StageInv
<1>2. CASE stored = Nothing /\ nodes' = [n \in {name} |-> NewNode]
  <2>1. DOMAIN nodes' = {name} /\ nodes'[name] = NewNode
    BY <1>2
  <2>2. AllPoints(NewNode) = {} /\ Apart(NewNode)
    BY <1>1, NewNodeGood
  <2>3. ApartInv'
    BY <2>1, <2>2 DEF ApartInv
  <2>4. Held' = {} /\ StoredPoints = {}
    BY <1>2, <2>1, <2>2 DEF Held, StoredPoints, Nothing
  <2> QED BY <2>3, <2>4
<1>3. CASE /\ nodes' \in [DOMAIN nodes -> NodeRecord] /\ DOMAIN stored = DOMAIN nodes
           /\ \A n \in DOMAIN nodes : /\ nodes'[n] = [nodes[n] EXCEPT !.dirty = FALSE]
                                      /\ nodes'[n] = Load(stored[n])
  <2>1. ASSUME NEW n \in DOMAIN nodes
        PROVE  /\ AllPoints(nodes'[n]) = AllPoints(nodes[n])
               /\ Apart(nodes[n]) => Apart(nodes'[n])
               /\ AllPoints(nodes'[n]) = PointsIn(stored[n])
    <3>1. GoodNode(n, nodes[n])
      BY TreeFacts DEF NodesInv
    <3>2. AllPoints(nodes'[n]) = PointsIn(stored[n])
      BY <1>1, <1>3, LoadedFields
    <3>3. PICK node, new : node = nodes[n] /\ new = nodes'[n]
      OBVIOUS
    <3>4. GoodNode(n, node) /\ new = [node EXCEPT !.dirty = FALSE]
      BY <1>3, <3>1, <3>3
    <3>5. AllPoints(new) = AllPoints(node) /\ (Apart(node) => Apart(new))
      BY <3>4, CleanNode
    <3> QED BY <3>2, <3>3, <3>5
  <2>2. DOMAIN nodes' = DOMAIN nodes
    BY <1>3
  <2>3. ApartInv'
    BY <2>1, <2>2 DEF ApartInv
  <2>4. Held' = StoredPoints
    BY <1>3, <2>1, <2>2 DEF Held, StoredPoints
  <2> QED BY <2>3, <2>4
<1> QED BY <1>2, <1>3 DEF StartEffect

LEMMA InsertHeld ==
    ASSUME NodesInv, ApartInv, NEW task, NEW new, InsertEffect(task, new), task \cap Held = {}
    PROVE  ApartInv' /\ Held' = Held \cup task
<1>1. /\ name \in DOMAIN nodes /\ Grown(name, nodes[name], task, new)
      /\ nodes' = [nodes EXCEPT ![name] = new]
  BY DEF InsertEffect
<1>2. /\ DOMAIN nodes' = DOMAIN nodes /\ nodes'[name] = new
      /\ \A m \in DOMAIN nodes : m # name => nodes'[m] = nodes[m]
  BY <1>1 DEF NodesInv, TreeInv
<1>3. \A m \in DOMAIN nodes : AllPoints(nodes[m]) \cap task = {}
  BY DEF Held
<1>4. AllPoints(new) = AllPoints(nodes[name]) \cup task /\ Apart(new)
  BY <1>1, <1>3 DEF Grown, ApartInv
<1>5. ApartInv'
  BY <1>1, <1>2, <1>3, <1>4 DEF ApartInv
<1>6. Held' = Held \cup task
  BY <1>1, <1>2, <1>4 DEF Held
<1> QED BY <1>5, <1>6

LEMMA SpreadHeld ==
    ASSUME NodesInv, ApartInv, NEW n, NEW kids, SpreadEffect(n, kids)
    PROVE  ApartInv' /\ Held' = Held
<1>1. /\ n \in DOMAIN nodes /\ n \notin kids
      /\ \A kid \in kids :
           /\ kid \in NodeName /\ PendingOf(n, kid) \subseteq nodes[n].pending
           /\ Grown(kid, GetNode(kid), PendingOf(n, kid), nodes'[kid])
      /\ \A p \in nodes[n].pending : \E kid \in kids : p \in PendingOf(n, kid)
      /\ \A kid, k \in kids : kid # k => PendingOf(n, kid) \cap PendingOf(n, k) = {}
      /\ DOMAIN nodes' = DOMAIN nodes \cup kids
      /\ nodes'[n] = WithoutPending(n)
      /\ \A m \in DOMAIN nodes : m # n /\ m \notin kids => nodes'[m] = nodes[m]
  BY DEF SpreadEffect
<1>2. n \in NodeName /\ GoodNode(n, nodes[n])
  BY <1>1, TreeFacts DEF NodesInv
<1>3. AllPoints(nodes'[n]) = PointsIn(nodes[n]) /\ Apart(nodes'[n])
  BY <1>1, <1>2, PendingRemoved DEF ApartInv
<1>4. AllPoints(nodes[n]) = PointsIn(nodes[n]) \cup nodes[n].pending
      /\ PointsIn(nodes[n]) \cap nodes[n].pending = {}
  BY <1>1 DEF AllPoints, PointsIn, Apart, ApartInv
<1>5. ASSUME NEW kid \in kids
      PROVE  /\ kid \in DOMAIN nodes => GetNode(kid) = nodes[kid]
             /\ kid \notin DOMAIN nodes => AllPoints(GetNode(kid)) = {}
             /\ Apart(GetNode(kid))
             /\ AllPoints(GetNode(kid)) \cap AllPoints(nodes[n]) = {}
             /\ \A m \in DOMAIN nodes : m # kid => AllPoints(GetNode(kid)) \cap AllPoints(nodes[m]) = {}
  <2>1. CASE kid \in DOMAIN nodes
    BY <1>1, <2>1 DEF GetNode, ApartInv
  <2>2. CASE kid \notin DOMAIN nodes
    BY <1>1, <2>2, NewNodeGood DEF GetNode
  <2> QED BY <2>1, <2>2
<1>6. ASSUME NEW kid \in kids
      PROVE  /\ AllPoints(nodes'[kid]) = AllPoints(GetNode(kid)) \cup PendingOf(n, kid)
             /\ Apart(nodes'[kid])
  <2>1. AllPoints(GetNode(kid)) \cap PendingOf(n, kid) = {}
    BY <1>1, <1>4, <1>5
  <2> QED BY <1>1, <1>5, <2>1 DEF Grown
<1>7. ASSUME NEW kid \in kids, NEW k \in kids, kid # k
      PROVE  AllPoints(GetNode(kid)) \cap AllPoints(GetNode(k)) = {}
  <2>1. CASE k \in DOMAIN nodes
    BY <1>5, <1>7, <2>1
  <2>2. CASE k \notin DOMAIN nodes
    BY <1>5, <2>2
  <2> QED BY <2>1, <2>2
<1>8. ASSUME NEW kid \in kids, NEW k \in kids, kid # k
      PROVE  AllPoints(nodes'[kid]) \cap AllPoints(nodes'[k]) = {}
  <2>1. PendingOf(n, kid) \cap PendingOf(n, k) = {}
    BY <1>1, <1>8
  <2>2. /\ PendingOf(n, kid) \subseteq AllPoints(nodes[n])
        /\ PendingOf(n, k) \subseteq AllPoints(nodes[n])
    BY <1>1, <1>4
  <2>3. /\ AllPoints(GetNode(kid)) \cap AllPoints(nodes[n]) = {}
        /\ AllPoints(GetNode(k)) \cap AllPoints(nodes[n]) = {}
    BY <1>5
  <2>4. AllPoints(GetNode(kid)) \cap AllPoints(GetNode(k)) = {}
    BY <1>7, <1>8
  <2> QED BY <1>6, <2>1, <2>2, <2>3, <2>4
<1>9. ASSUME NEW kid \in kids, NEW m \in DOMAIN nodes, m \notin kids
      PROVE  AllPoints(nodes'[kid]) \cap AllPoints(nodes'[m]) = {}
  <2>1. AllPoints(GetNode(kid)) \cap AllPoints(nodes[m]) = {}
    BY <1>5, <1>9
  <2>2. CASE m = n
    BY <1>1, <1>3, <1>4, <1>6, <2>1, <2>2
  <2>3. CASE m # n
    <3>1. nodes'[m] = nodes[m]
      BY <1>1, <1>9, <2>3
    <3>2. AllPoints(nodes[n]) \cap AllPoints(nodes[m]) = {}
      BY <1>1, <2>3 DEF ApartInv
    <3> QED BY <1>1, <1>4, <1>6, <2>1, <3>1, <3>2
  <2> QED BY <2>2, <2>3
<1>10. ASSUME NEW l \in DOMAIN nodes, NEW m \in DOMAIN nodes, l \notin kids, m \notin kids, l # m
       PROVE  AllPoints(nodes'[l]) \cap AllPoints(nodes'[m]) = {}
  <2>1. AllPoints(nodes'[l]) \subseteq AllPoints(nodes[l])
    BY <1>1, <1>3, <1>4, <1>10
  <2>2. AllPoints(nodes'[m]) \subseteq AllPoints(nodes[m])
    BY <1>1, <1>3, <1>4, <1>10
  <2>3. AllPoints(nodes[l]) \cap AllPoints(nodes[m]) = {}
    BY <1>10 DEF ApartInv
  <2> QED BY <2>1, <2>2, <2>3
<1>11. ASSUME NEW m \in DOMAIN nodes'
       PROVE  Apart(nodes'[m])
  BY <1>1, <1>3, <1>6 DEF ApartInv
<1>12. ASSUME NEW l \in DOMAIN nodes', NEW m \in DOMAIN nodes', l # m
       PROVE  AllPoints(nodes'[l]) \cap AllPoints(nodes'[m]) = {}
  <2>1. CASE l \in kids /\ m \in kids
    BY <1>8, <1>12, <2>1
  <2>2. CASE l \in kids /\ m \notin kids
    BY <1>1, <1>9, <2>2
  <2>3. CASE l \notin kids /\ m \in kids
    BY <1>1, <1>9, <2>3
  <2>4. CASE l \notin kids /\ m \notin kids
    BY <1>1, <1>10, <1>12, <2>4
  <2> QED BY <2>1, <2>2, <2>3, <2>4
<1>13. ApartInv'
  BY <1>11, <1>12 DEF ApartInv
<1>14. ASSUME NEW m \in DOMAIN nodes'
       PROVE  AllPoints(nodes'[m]) \subseteq Held
  <2>1. AllPoints(nodes[n]) \subseteq Held
    BY <1>1 DEF Held
  <2>2. CASE m \in kids
    <3>1. AllPoints(GetNode(m)) \subseteq Held
      BY <1>5, <2>2 DEF Held
    <3> QED BY <1>1, <1>4, <1>6, <2>1, <2>2, <3>1
  <2>3. CASE m = n
    BY <1>3, <1>4, <2>1, <2>3
  <2>4. CASE m \notin kids /\ m # n
    BY <1>1, <2>4 DEF Held
  <2> QED BY <2>2, <2>3, <2>4
<1>15. ASSUME NEW m \in DOMAIN nodes, NEW p \in AllPoints(nodes[m])
       PROVE  \E k \in DOMAIN nodes' : p \in AllPoints(nodes'[k])
  <2>1. CASE m \in kids
    BY <1>1, <1>5, <1>6, <2>1
  <2>2. CASE m = n /\ p \in nodes[n].pending
    BY <1>1, <1>6, <2>2
  <2>3. CASE m = n /\ p \notin nodes[n].pending
    BY <1>1, <1>3, <1>4, <2>3
  <2>4. CASE m \notin kids /\ m # n
    BY <1>1, <2>4
  <2> QED BY <2>1, <2>2, <2>3, <2>4
<1>16. Held' = UNION {AllPoints(nodes'[m]) : m \in DOMAIN nodes'}
  BY DEF Held, AllPoints
<1>17. Held' \subseteq Held
  BY <1>14, <1>16
<1>18. Held \subseteq Held'
  BY <1>15, <1>16 DEF Held
<1> QED BY <1>13, <1>17, <1>18

(* Node n keeps the points that are not pending in it.                     *)
LEMMA LeaveHeld ==
    ASSUME NodesInv, ApartInv, NEW n, DumpEffect(n), LeaveEffect(n)
    PROVE  /\ ApartInv' /\ Held' = Held \ nodes[n].pending
           /\ nodes[n].pending \subseteq Held
<1>1. n \in DOMAIN nodes /\ nodes' = [nodes EXCEPT ![n] = WithoutPending(n)]
  BY DEF DumpEffect, LeaveEffect
<1>2. n \in NodeName /\ GoodNode(n, nodes[n])
  BY <1>1, TreeFacts DEF NodesInv
<1>3. /\ DOMAIN nodes' = DOMAIN nodes /\ nodes'[n] = WithoutPending(n)
      /\ \A m \in DOMAIN nodes : m # n => nodes'[m] = nodes[m]
  BY <1>1 DEF NodesInv, TreeInv
<1>4. AllPoints(nodes'[n]) = PointsIn(nodes[n]) /\ Apart(nodes'[n])
  BY <1>1, <1>2, <1>3, PendingRemoved DEF ApartInv
<1>5. /\ AllPoints(nodes[n]) = PointsIn(nodes[n]) \cup nodes[n].pending
      /\ PointsIn(nodes[n]) \cap nodes[n].pending = {}
  BY <1>1 DEF AllPoints, PointsIn, Apart, ApartInv
<1>6. \A m \in DOMAIN nodes : /\ Apart(nodes'[m])
                              /\ AllPoints(nodes'[m]) = AllPoints(nodes[m]) \ nodes[n].pending
  <2> SUFFICES ASSUME NEW m \in DOMAIN nodes
               PROVE  Apart(nodes'[m]) /\ AllPoints(nodes'[m]) = AllPoints(nodes[m]) \ nodes[n].pending
    OBVIOUS
  <2>1. CASE m = n
    BY <1>4, <1>5, <2>1
  <2>2. CASE m # n
    <3>1. AllPoints(nodes[n]) \cap AllPoints(nodes[m]) = {} /\ Apart(nodes[m])
      BY <1>1, <2>2 DEF ApartInv
    <3> QED BY <1>3, <1>5, <2>2, <3>1
  <2> QED BY <2>1, <2>2
<1>7. ApartInv'
  BY <1>3, <1>6 DEF ApartInv
<1>8. Held' = Held \ nodes[n].pending
  BY <1>3, <1>6 DEF Held
<1> QED BY <1>1, <1>5, <1>7, <1>8 DEF Held

LEMMA BalanceHeld ==
    ASSUME ApartInv, BalanceEffect
    PROVE  ApartInv' /\ Held' = Held
<1>1. /\ DOMAIN nodes' = DOMAIN nodes
      /\ \A n \in DOMAIN nodes : /\ AllPoints(nodes'[n]) = AllPoints(nodes[n])
                                 /\ Apart(nodes[n]) => Apart(nodes'[n])
  BY DEF BalanceEffect
<1> QED BY <1>1 DEF ApartInv, Held

LEMMA HeldSame ==
    ASSUME ApartInv, nodes' = nodes
    PROVE  ApartInv' /\ Held' = Held
  BY DEF ApartInv, Held

-----------------------------------------------------------------------------
(* Orders, and one sequence after the other                                *)

LEMMA DistinctCount ==
    ASSUME NEW S, NEW n \in Nat, NEW f \in [1..n -> S],
           \A i, j \in 1..n : f[i] = f[j] => i = j,
           \A x \in S : \E i \in 1..n : f[i] = x
    PROVE  IsFiniteSet(S) /\ Cardinality(S) = n
<1>1. f \in Bijection(1..n, S)
  BY DEF Bijection, Injection, Surjection, IsInjective
<1>2. ExistsBijection(1..n, S)
  BY <1>1 DEF ExistsBijection
<1>3. IsFiniteSet(1..n)
  BY FS_Interval
<1> QED BY <1>2, <1>3, FS_CountingElements, FS_Bijection

LEMMA OrderFacts ==
    ASSUME NEW S, IsFiniteSet(S), NEW order \in Orders(S)
    PROVE  /\ order \in Seq(S) /\ DOMAIN order = 1..Len(order) /\ Len(order) \in Nat
           /\ \A i, j \in DOMAIN order : order[i] = order[j] => i = j
           /\ \A x \in S : \E i \in DOMAIN order : order[i] = x
<1>1. Cardinality(S) \in Nat
  BY FS_CardinalityType
<1>2. PICK n \in Nat : n = Cardinality(S)
  BY <1>1
<1>3. order \in [1..n -> S] /\ \A i, j \in DOMAIN order : order[i] = order[j] => i = j
  BY <1>2 DEF Orders
<1>4. order \in Seq(S) /\ Len(order) = n
  BY <1>3
<1>5. order \in Injection(1..n, S)
  BY <1>3 DEF Injection, IsInjective
<1>6. IsFiniteSet(1..n) /\ Cardinality(1..n) = n
  <2>1. IsFiniteSet(1..n) /\ Cardinality(1..n) = IF 1 > n THEN 0 ELSE n - 1 + 1
    BY FS_Interval
  <2> QED BY <2>1
<1>7. order \in Surjection(1..n, S)
  BY <1>2, <1>5, <1>6, FS_Injection
<1> QED BY <1>3, <1>4, <1>7 DEF Surjection

LEMMA ConcatFacts ==
    ASSUME NEW S, NEW s \in Seq(S), NEW t \in Seq(S)
    PROVE  /\ s \o t \in Seq(S) /\ Len(s) \in Nat /\ Len(t) \in Nat
           /\ Len(s \o t) = Len(s) + Len(t)
           /\ DOMAIN s = 1..Len(s) /\ DOMAIN t = 1..Len(t)
           /\ DOMAIN (s \o t) = 1..(Len(s) + Len(t))
           /\ \A i \in 1..Len(s) : i \in DOMAIN (s \o t) /\ (s \o t)[i] = s[i]
           /\ \A i \in 1..Len(t) : /\ Len(s) + i \in DOMAIN (s \o t)
                                   /\ (s \o t)[Len(s) + i] = t[i]
           /\ \A k \in DOMAIN (s \o t) :
                k \in 1..Len(s) \/ \E i \in 1..Len(t) : k = Len(s) + i
<1>1. /\ s \o t \in Seq(S) /\ Len(s) \in Nat /\ Len(t) \in Nat
      /\ Len(s \o t) = Len(s) + Len(t)
  OBVIOUS
<1>2. /\ DOMAIN s = 1..Len(s) /\ DOMAIN t = 1..Len(t)
      /\ DOMAIN (s \o t) = 1..(Len(s) + Len(t))
  BY <1>1
<1>3. \A i \in 1..Len(s) : i \in DOMAIN (s \o t) /\ (s \o t)[i] = s[i]
  BY <1>1
<1>4. \A i \in 1..Len(t) : /\ Len(s) + i \in DOMAIN (s \o t)
                           /\ (s \o t)[Len(s) + i] = t[i]
  BY <1>1
<1>5. ASSUME NEW k \in DOMAIN (s \o t), k \notin 1..Len(s)
      PROVE  \E i \in 1..Len(t) : k = Len(s) + i
  <2>1. k - Len(s) \in 1..Len(t) /\ k = Len(s) + (k - Len(s))
    BY <1>1, <1>2, <1>5
  <2> QED BY <2>1
<1> QED BY <1>1, <1>2, <1>3, <1>4, <1>5

(* Points that two sets do not share are counted twice by no one.          *)
LEMMA PointCount ==
    ASSUME NEW S \in SUBSET Point, NEW T \in SUBSET Point, S \cap T = {}
    PROVE  /\ Cardinality(S) \in Nat /\ Cardinality(T) \in Nat
           /\ Cardinality(S \cup T) = Cardinality(S) + Cardinality(T)
<1>1. IsFiniteSet(S) /\ IsFiniteSet(T)
  BY PathAssumption, FS_Subset
<1>2. Cardinality(S) \in Nat /\ Cardinality(T) \in Nat
  BY <1>1, FS_CardinalityType
<1>3. Cardinality(S \cup T) = Cardinality(S) + Cardinality(T) - Cardinality(S \cap T)
  BY <1>1, FS_Union
<1>4. Cardinality(S \cap T) = 0
  BY FS_EmptySet
<1> QED BY <1>2, <1>3, <1>4

-----------------------------------------------------------------------------
(* The points that have left, task after task                              *)

Inserted(k) == UNION {Tasks[i] : i \in 1..k}
Given == before \cup Inserted(inserted)
Earlier(j) == UNION {UNION {Jobs[i][k] : k \in 1..Len(Jobs[i])} : i \in 1..j}
Near(p) == SubSeq(Path[p], 1, Len(name) + Top)

(* No node that the flush has still to visit is below another one.         *)
FrontInv == \A a, b \in todo : IsAncestor(a, b) => a = b

(* What the node holds when a job begins comes from the jobs before it.    *)
BeforeInv ==
    /\ stage = "idle" => StoredPoints \subseteq Earlier(job)
    /\ stage # "idle" => before \subseteq Earlier(job - 1)

(* The flush after task i has forwarded flush[i]: points given by then,    *)
(* that had not left; the worker holds the other ones.                     *)
FlushesSoFar(flush) ==
    /\ flush \in [1..Len(Tasks) -> SUBSET Point]
    /\ \A i \in 1..Len(Tasks) : i > inserted => flush[i] = {}
    /\ \A i \in 1..Len(Tasks) :
         /\ flush[i] \subseteq before \cup Inserted(i)
         /\ \A j \in 1..(i - 1) : flush[i] \cap flush[j] = {}
         /\ \A p \in flush[i] : CanForward(name, p)
    /\ Held = Given \ Forwarded(flush)
    /\ total_point_count = Cardinality(Inserted(inserted)) - Cardinality(Forwarded(flush))
    /\ stage = "flush" => \A p \in flush[inserted] : \A a \in todo : ~ IsAncestor(Near(p), a)

(* One message per flush and target, in the order of the flushes.          *)
TaskMessage == [type : {"NEW_TASK"}, name : NodeName, points : SUBSET Point]
Pairs(flush) == UNION {{<<i, TargetOf(name, p)>> : p \in flush[i]} : i \in DOMAIN flush}
PointsTo(flush, pair) == {p \in flush[pair[1]] : TargetOf(name, p) = pair[2]}
SentSoFar(flush, order) ==
    /\ order \in Seq(Pairs(flush))
    /\ \A i, j \in DOMAIN order : order[i] = order[j] => i = j
    /\ \A pair \in Pairs(flush) : \E i \in DOMAIN order : order[i] = pair
    /\ \A i, j \in DOMAIN order : i < j => order[i][1] <= order[j][1]
    /\ sent \in Seq(TaskMessage) /\ Len(sent) = Len(order)
    /\ \A i \in DOMAIN order : sent[i] = NewTask(order[i][2], PointsTo(flush, order[i]))

FlowInv ==
    job > 0 /\ stage # "idle" =>
      \E flush, order : FlushesSoFar(flush) /\ SentSoFar(flush, order)
OutInv == ApartInv /\ FrontInv /\ BeforeInv /\ FlowInv /\ OutputAllowed

LEMMA FlushFacts ==
    ASSUME NEW flush, FlushesSoFar(flush), job > 0, StageInv
    PROVE  /\ DOMAIN flush = 1..Len(Tasks)
           /\ Forwarded(flush) \subseteq Given /\ Forwarded(flush) \subseteq Point
           /\ Held \subseteq Given /\ Held \cap Forwarded(flush) = {}
           /\ \A i \in DOMAIN flush : flush[i] \subseteq Forwarded(flush)
           /\ Forwarded(flush) \cup Held = Given
<1>1. DOMAIN flush = 1..Len(Tasks) /\ Len(Tasks) \in Nat /\ inserted \in Nat
  BY NodeAssumption DEF FlushesSoFar, StageInv, Tasks
<1>2. \A i \in DOMAIN flush : flush[i] \subseteq Given
  <2> SUFFICES ASSUME NEW i \in 1..Len(Tasks), NEW p \in flush[i]
               PROVE  p \in Given
    BY <1>1
  <2>1. i <= inserted
    BY <1>1 DEF FlushesSoFar
  <2>2. p \in before \cup Inserted(i)
    BY DEF FlushesSoFar
  <2>3. \A j \in 1..i : j \in 1..inserted
    BY <1>1, <2>1
  <2> QED BY <2>2, <2>3 DEF Given, Inserted
<1>3. Held = Given \ Forwarded(flush) /\ \A i \in DOMAIN flush : flush[i] \subseteq Point
  BY <1>1 DEF FlushesSoFar
<1> QED BY <1>1, <1>2, <1>3 DEF Forwarded

(* The points of a task are new to the worker.                             *)
LEMMA TaskIsNew ==
    ASSUME StageInv, BeforeInv, stage # "idle", job > 0, NEW k \in 1..Len(Tasks),
           k > inserted
    PROVE  Tasks[k] \cap Given = {}
<1>1. job \in 1..Len(Jobs) /\ inserted \in Nat /\ Tasks = Jobs[job] /\ Len(Tasks) \in Nat
      /\ inserted <= Len(Tasks)
  BY NodeAssumption DEF StageInv, Tasks
<1>2. \A i \in 1..inserted : Tasks[k] \cap Tasks[i] = {}
  <2> SUFFICES ASSUME NEW i \in 1..inserted
               PROVE  Tasks[k] \cap Tasks[i] = {}
    OBVIOUS
  <2>1. i \in 1..Len(Jobs[job]) /\ <<job, k>> # <<job, i>> /\ k \in 1..Len(Jobs[job])
    BY <1>1
  <2> QED BY <1>1, <2>1, JobsAssumption
<1>3. Tasks[k] \cap Earlier(job - 1) = {}
  <2> SUFFICES ASSUME NEW j \in 1..(job - 1), NEW i \in 1..Len(Jobs[j])
               PROVE  Tasks[k] \cap Jobs[j][i] = {}
    BY DEF Earlier
  <2>1. j \in 1..Len(Jobs) /\ <<job, k>> # <<j, i>> /\ k \in 1..Len(Jobs[job])
    BY <1>1
  <2> QED BY <1>1, <2>1, JobsAssumption
<1>4. before \subseteq Earlier(job - 1)
  BY DEF BeforeInv
<1> QED BY <1>2, <1>3, <1>4 DEF Given, Inserted

LEMMA StartOut ==
    ASSUME NodesInv, OutInv, StartEffect
    PROVE  OutInv'
<1>1. /\ job \in Nat /\ job' = job + 1 /\ job' \in 1..Len(Jobs) /\ stage = "idle"
      /\ stage' = "insert" /\ inserted' = 0 /\ todo' = {} /\ name' = name
      /\ sent' = <<>> /\ total_point_count' = 0 /\ before' = StoredPoints
  BY DEF StartEffect, NodesInv, StageInv
<1>2. ApartInv' /\ Held' = StoredPoints
  BY StartHeld DEF OutInv
<1>3. FrontInv' /\ OutputAllowed'
  BY <1>1 DEF FrontInv, OutputAllowed, Done
<1>4. BeforeInv'
  <2>1. job' - 1 = job
    BY <1>1
  <2>2. before' \subseteq Earlier(job)
    BY <1>1 DEF BeforeInv, OutInv
  <2>3. Earlier(job - 1)' = Earlier(job)
    BY <2>1 DEF Earlier
  <2> QED BY <1>1, <2>2, <2>3 DEF BeforeInv
<1>5. Tasks' = Jobs[job'] /\ Len(Tasks') \in Nat
  BY <1>1, NodeAssumption DEF Tasks
<1>a. PICK flush : flush = [i \in 1..Len(Tasks') |-> {}]
  OBVIOUS
<1>6. Forwarded(flush) = {} /\ Inserted(inserted)' = {} /\ Given' = before'
  BY <1>1, <1>a DEF Forwarded, Inserted, Given
<1>7. Cardinality({}) = 0
  BY FS_EmptySet
<1>8. FlushesSoFar(flush)'
  <2>1. Held' = Given' \ Forwarded(flush)
    BY <1>1, <1>2, <1>6
  <2>2. total_point_count' = Cardinality(Inserted(inserted)') - Cardinality(Forwarded(flush))
    <3>1. Cardinality(Inserted(inserted)') = 0 /\ Cardinality(Forwarded(flush)) = 0
      BY <1>6, <1>7, Zenon
    <3> QED BY <1>1, <3>1
  <2>3. Forwarded(flush)' = Forwarded(flush)
    BY DEF Forwarded
  <2> QED BY <1>1, <1>5, <1>a, <2>1, <2>2, <2>3 DEF FlushesSoFar
<1>9. Pairs(flush)' = {}
  BY <1>5, <1>a DEF Pairs
<1>10. SentSoFar(flush, <<>>)'
  BY <1>1, <1>9 DEF SentSoFar
<1>11. FlowInv'
  BY <1>8, <1>10 DEF FlowInv
<1> QED BY <1>2, <1>3, <1>4, <1>11 DEF OutInv

LEMMA InsertOut ==
    ASSUME NodesInv, OutInv, NEW task, NEW new, InsertEffect(task, new)
    PROVE  OutInv'
<1>1. /\ stage' = "flush" /\ todo = {} /\ todo' = {name} /\ name' = name
      /\ job' = job /\ job > 0 /\ before' = before /\ sent' = sent
      /\ inserted' = inserted + 1 /\ inserted \in Nat /\ inserted + 1 \in 1..Len(Tasks)
      /\ task = Tasks[inserted + 1] /\ task \in SUBSET Point
      /\ total_point_count' = total_point_count + Cardinality(task)
      /\ StageInv
  BY DEF InsertEffect, NodesInv, StageInv
<1>a. job > 0 /\ stage # "idle" /\ FlowInv
  <2>1. ~ LastTask /\ Len(Tasks) \in Nat
    BY <1>1, NodeAssumption DEF LastTask, Tasks, StageInv
  <2> QED BY <1>1, <2>1 DEF OutInv, StageInv
<1>2. PICK flush, order : FlushesSoFar(flush) /\ SentSoFar(flush, order)
  BY <1>a DEF FlowInv
<1>3. /\ DOMAIN flush = 1..Len(Tasks)
      /\ Forwarded(flush) \subseteq Given /\ Held \subseteq Given
      /\ Held = Given \ Forwarded(flush)
      /\ flush \in [1..Len(Tasks) -> SUBSET Point]
      /\ \A i \in 1..Len(Tasks) : i > inserted => flush[i] = {}
  BY <1>1, <1>2, FlushFacts DEF FlushesSoFar
<1>4. task \cap Given = {}
  <2>1. inserted + 1 > inserted
    BY <1>1
  <2> QED BY <1>1, <1>a, <2>1, TaskIsNew DEF OutInv
<1>5. ApartInv' /\ Held' = Held \cup task
  BY <1>3, <1>4, InsertHeld DEF OutInv
<1>6. Tasks' = Tasks /\ Top' = Top
  BY <1>1, SameJob
<1>7. Inserted(inserted)' = Inserted(inserted) \cup task
  <2>1. 1..(inserted + 1) = (1..inserted) \cup {inserted + 1}
    BY <1>1
  <2> QED BY <1>1, <1>6, <2>1 DEF Inserted
<1>8. Given' = Given \cup task
  BY <1>1, <1>7 DEF Given
<1>9. \A i : Inserted(i)' = Inserted(i)
  BY <1>6 DEF Inserted
<1>10. total_point_count' = Cardinality(Inserted(inserted)') - Cardinality(Forwarded(flush))
  <2>1. Inserted(inserted) \in SUBSET Point
    BY <1>1, TaskFacts DEF Inserted
  <2>2. Inserted(inserted) \cap task = {}
    BY <1>4 DEF Given
  <2>3. /\ Cardinality(Inserted(inserted)) \in Nat /\ Cardinality(task) \in Nat
        /\ Cardinality(Inserted(inserted)') = Cardinality(Inserted(inserted)) + Cardinality(task)
    BY <1>1, <1>7, <2>1, <2>2, PointCount
  <2>4. Cardinality(Forwarded(flush)) \in Nat
    <3>1. Forwarded(flush) \in SUBSET Point
      BY <1>3 DEF Forwarded
    <3> QED BY <3>1, PathAssumption, FS_Subset, FS_CardinalityType
  <2>5. total_point_count = Cardinality(Inserted(inserted)) - Cardinality(Forwarded(flush))
    BY <1>2 DEF FlushesSoFar
  <2> QED BY <1>1, <2>3, <2>4, <2>5
<1>11. FlushesSoFar(flush)'
  <2>1. Held' = Given' \ Forwarded(flush)
    BY <1>3, <1>4, <1>5, <1>8
  <2>2. \A i \in 1..Len(Tasks) : i > inserted' => flush[i] = {}
    BY <1>1, <1>3
  <2>3. flush[inserted'] = {}
    BY <1>1, <1>3
  <2>4. \A i \in 1..Len(Tasks) :
         /\ flush[i] \subseteq before \cup Inserted(i)
         /\ \A j \in 1..(i - 1) : flush[i] \cap flush[j] = {}
         /\ \A p \in flush[i] : CanForward(name, p)
    BY <1>2 DEF FlushesSoFar
  <2>5. Forwarded(flush)' = Forwarded(flush) /\ \A p : CanForward(name, p)' = CanForward(name, p)
    BY <1>1 DEF Forwarded, CanForward
  <2> QED BY <1>1, <1>3, <1>6, <1>9, <1>10, <2>1, <2>2, <2>3, <2>4, <2>5 DEF FlushesSoFar
<1>12. SentSoFar(flush, order)'
  <2>1. /\ Pairs(flush)' = Pairs(flush)
        /\ \A pair : PointsTo(flush, pair)' = PointsTo(flush, pair)
    BY <1>1 DEF Pairs, PointsTo, TargetOf
  <2> QED BY <1>1, <1>2, <2>1 DEF SentSoFar
<1>13. FlowInv'
  BY <1>11, <1>12 DEF FlowInv
<1>14. FrontInv' /\ OutputAllowed'
  BY <1>1 DEF FrontInv, OutputAllowed, Done
<1>15. BeforeInv'
  BY <1>1, <1>a DEF OutInv, BeforeInv, Earlier
<1> QED BY <1>5, <1>13, <1>14, <1>15 DEF OutInv

(* A step that keeps the points, the task and the messages.                *)
LEMMA FlowKept ==
    ASSUME StageInv, FlowInv, job > 0, stage # "idle",
           UNCHANGED <<name, job, inserted, before, sent, total_point_count>>,
           Held' = Held,
           stage' = "flush" =>
             stage = "flush" /\ \A a \in todo', m \in NodeName :
               IsAncestor(m, a) => \E b \in todo : IsAncestor(m, b)
    PROVE  FlowInv'
<1>1. PICK flush, order : FlushesSoFar(flush) /\ SentSoFar(flush, order)
  BY DEF FlowInv
<1>2. Tasks' = Tasks /\ Top' = Top
  BY SameJob
<1>3. /\ Given' = Given /\ Forwarded(flush)' = Forwarded(flush)
      /\ \A i : Inserted(i)' = Inserted(i) /\ Inserted(inserted)' = Inserted(inserted)
      /\ \A p : /\ CanForward(name, p)' = CanForward(name, p) /\ TargetOf(name, p)' = TargetOf(name, p)
                /\ Near(p)' = Near(p)
  BY <1>2 DEF Given, Inserted, Forwarded, CanForward, TargetOf, Near
<1>4. /\ Pairs(flush)' = Pairs(flush)
      /\ \A pair : PointsTo(flush, pair)' = PointsTo(flush, pair)
  BY <1>3 DEF Pairs, PointsTo
<1>5. SentSoFar(flush, order)'
  BY <1>1, <1>4 DEF SentSoFar
<1>6. ASSUME stage' = "flush", NEW p \in flush[inserted], NEW a \in todo'
      PROVE  ~ IsAncestor(Near(p), a)
  <2>1. Near(p) \in NodeName
    <3>1. inserted \in 1..Len(Tasks)
      BY <1>6, NodeAssumption DEF StageInv, Tasks
    <3>2. p \in Point /\ CanForward(name, p)
      BY <1>1, <3>1 DEF FlushesSoFar
    <3>3. /\ Len(name) \in Nat /\ Top \in Nat /\ Len(name) + Top + 1 = ForwardLength(Len(name))
          /\ Path[p] \in Seq(Digit)
      BY <3>2, NameFacts, PathAssumption DEF StageInv, NodeName
    <3>4. Len(name) + Top <= Len(Path[p]) /\ Len(name) + Top \in Nat
      BY <3>2, <3>3 DEF CanForward
    <3> QED BY <3>3, <3>4 DEF Near, NodeName
  <2>2. SUFFICES ASSUME NEW b \in todo, IsAncestor(Near(p), b) PROVE FALSE
    BY <1>6, <2>1
  <2> QED BY <1>1, <1>6, <2>2 DEF FlushesSoFar
<1>7. FlushesSoFar(flush)'
  <2>1. /\ Held' = Given' \ Forwarded(flush)'
        /\ total_point_count' = Cardinality(Inserted(inserted)') - Cardinality(Forwarded(flush)')
    BY <1>1, <1>3 DEF FlushesSoFar
  <2>2. stage' = "flush" => \A p \in flush[inserted'] : \A a \in todo' : ~ IsAncestor(Near(p)', a)
    BY <1>3, <1>6
  <2>3. /\ flush \in [1..Len(Tasks) -> SUBSET Point]
        /\ \A i \in 1..Len(Tasks) : i > inserted => flush[i] = {}
        /\ \A i \in 1..Len(Tasks) :
             /\ flush[i] \subseteq before \cup Inserted(i)
             /\ \A j \in 1..(i - 1) : flush[i] \cap flush[j] = {}
             /\ \A p \in flush[i] : CanForward(name, p)
    BY <1>1 DEF FlushesSoFar
  <2> QED BY <1>2, <1>3, <2>1, <2>2, <2>3 DEF FlushesSoFar
<1> QED BY <1>5, <1>7 DEF FlowInv

LEMMA SpreadOut ==
    ASSUME NodesInv, OutInv, NEW n, NEW kids, SpreadEffect(n, kids)
    PROVE  OutInv'
<1>1. /\ n \in DOMAIN nodes /\ n \in todo /\ stage = "flush"
      /\ nodes'[n] = WithoutPending(n)
      /\ todo' = (todo \ {n}) \cup nodes'[n].children
      /\ UNCHANGED <<name, stored, job, stage, inserted, before, sent, total_point_count>>
  BY DEF SpreadEffect
<1>2. /\ n \in NodeName /\ GoodNode(n, nodes[n]) /\ job > 0 /\ StageInv
      /\ \A a \in todo : a \in NodeName
  <2>1. \A a \in todo : a \in DOMAIN nodes
    BY DEF NodesInv, TreeInv
  <2> QED BY <1>1, <2>1, TreeFacts DEF NodesInv, StageInv
<1>3. \A c \in nodes'[n].children : c \in NodeName /\ IsChild(c, n) /\ IsAncestor(c, n)
  <2>1. GoodNode(n, nodes'[n])
    BY <1>1, <1>2, PendingRemoved
  <2> QED BY <2>1 DEF GoodNode, IsChild
<1>4. FrontInv'
  <2> SUFFICES ASSUME NEW a \in todo', NEW b \in todo', IsAncestor(a, b)
               PROVE  a = b
    BY DEF FrontInv
  <2>1. a \in NodeName /\ b \in NodeName
    BY <1>1, <1>2, <1>3
  <2>2. \A c, d \in todo : IsAncestor(c, d) => c = d
    BY DEF OutInv, FrontInv
  <2>3. CASE a \in todo \ {n} /\ b \in todo \ {n}
    BY <2>2, <2>3
  <2>4. CASE a \in nodes'[n].children /\ b \in nodes'[n].children
    <3>1. Len(a) = Len(b) /\ SubSeq(a, 1, Len(a)) = a
      BY <1>2, <1>3, <2>4, ChildPrefixes
    <3> QED BY <3>1 DEF IsAncestor
  <2>5. CASE a \in nodes'[n].children /\ b \in todo \ {n}
    <3>1. a = b \/ IsAncestor(n, b)
      BY <1>2, <1>3, <2>1, <2>5, AboveChild
    <3> QED BY <1>1, <2>2, <2>5, <3>1
  <2>6. CASE a \in todo \ {n} /\ b \in nodes'[n].children
    <3>1. IsAncestor(a, n)
      BY <1>2, <1>3, <2>1, <2>6, AncestorOrder
    <3> QED BY <1>1, <2>2, <2>6, <3>1
  <2> QED BY <1>1, <2>3, <2>4, <2>5, <2>6
<1>5. ApartInv' /\ Held' = Held
  BY SpreadHeld DEF OutInv
<1>6. FlowInv'
  <2>1. ASSUME NEW a \in todo', NEW m \in NodeName, IsAncestor(m, a)
        PROVE  \E b \in todo : IsAncestor(m, b)
    <3>1. CASE a \in nodes'[n].children
      BY <1>1, <1>2, <1>3, <2>1, <3>1, AncestorOrder
    <3> QED BY <1>1, <2>1, <3>1
  <2>2. UNCHANGED <<name, job, inserted, before, sent, total_point_count>> /\ stage # "idle"
    BY <1>1
  <2> QED BY <1>1, <1>2, <1>5, <2>1, <2>2, FlowKept DEF OutInv
<1>7. BeforeInv' /\ OutputAllowed'
  BY <1>1 DEF OutInv, BeforeInv, OutputAllowed, Done, Earlier
<1> QED BY <1>4, <1>5, <1>6, <1>7 DEF OutInv

LEMMA StayOut ==
    ASSUME NodesInv, OutInv, NEW n, DumpEffect(n), StayEffect(n)
    PROVE  OutInv'
<1>1. /\ todo' = todo \ {n} /\ stage = "flush" /\ nodes' = nodes
      /\ UNCHANGED <<name, stored, job, stage, inserted, before>>
      /\ UNCHANGED <<sent, total_point_count>>
  BY DEF DumpEffect, StayEffect
<1>2. job > 0 /\ StageInv /\ stage # "idle"
  BY <1>1 DEF NodesInv, StageInv
<1>3. ApartInv' /\ Held' = Held
  BY <1>1, HeldSame DEF OutInv
<1>4. FrontInv'
  BY <1>1 DEF OutInv, FrontInv
<1>5. UNCHANGED <<name, job, inserted, before, sent, total_point_count>>
  BY <1>1
<1>6. FlowInv'
  BY <1>1, <1>2, <1>3, <1>5, FlowKept DEF OutInv
<1>7. BeforeInv' /\ OutputAllowed'
  BY <1>1 DEF OutInv, BeforeInv, OutputAllowed, Done, Earlier
<1> QED BY <1>3, <1>4, <1>6, <1>7 DEF OutInv

LEMMA EndFlushOut ==
    ASSUME NodesInv, OutInv, EndFlush
    PROVE  OutInv'
<1>1. /\ stage = "flush" /\ stage' \in {"balance", "insert"} /\ nodes' = nodes /\ todo' = todo
      /\ UNCHANGED <<name, job, inserted, before, sent, total_point_count>>
  BY DEF EndFlush
<1>2. job > 0 /\ StageInv /\ stage # "idle" /\ stage' # "idle" /\ stage' # "flush"
  BY <1>1 DEF NodesInv, StageInv
<1>3. ApartInv' /\ Held' = Held
  BY <1>1, HeldSame DEF OutInv
<1>4. FrontInv'
  BY <1>1 DEF OutInv, FrontInv
<1>5. FlowInv'
  BY <1>1, <1>2, <1>3, FlowKept DEF OutInv
<1>6. BeforeInv' /\ OutputAllowed'
  BY <1>1, <1>2 DEF OutInv, BeforeInv, OutputAllowed, Done, Earlier
<1> QED BY <1>3, <1>4, <1>5, <1>6 DEF OutInv

LEMMA BalanceOut ==
    ASSUME NodesInv, OutInv, BalanceEffect
    PROVE  OutInv'
<1>1. /\ stage = "balance" /\ stage' = "dump" /\ todo' = todo
      /\ UNCHANGED <<name, job, inserted, before, sent, total_point_count>>
  BY DEF BalanceEffect
<1>2. job > 0 /\ StageInv /\ stage # "idle" /\ stage' # "idle" /\ stage' # "flush"
  BY <1>1 DEF NodesInv, StageInv
<1>3. ApartInv' /\ Held' = Held
  BY BalanceHeld DEF OutInv
<1>4. FrontInv'
  BY <1>1 DEF OutInv, FrontInv
<1>5. FlowInv'
  BY <1>1, <1>2, <1>3, FlowKept DEF OutInv
<1>6. BeforeInv' /\ OutputAllowed'
  BY <1>1, <1>2 DEF OutInv, BeforeInv, OutputAllowed, Done, Earlier
<1> QED BY <1>3, <1>4, <1>5, <1>6 DEF OutInv

LEMMA SameOut ==
    ASSUME NodesInv, OutInv, UNCHANGED vars
    PROVE  OutInv'
<1>1. /\ UNCHANGED <<name, job, inserted, before, sent, total_point_count>>
      /\ UNCHANGED <<stored, stage, nodes, todo>>
  BY DEF vars
<1>2. ApartInv' /\ Held' = Held
  BY <1>1, HeldSame DEF OutInv
<1>3. FrontInv'
  BY <1>1 DEF OutInv, FrontInv
<1>4. FlowInv'
  <2>1. CASE job > 0 /\ stage # "idle"
    BY <1>1, <1>2, <2>1, FlowKept DEF OutInv, NodesInv
  <2>2. CASE ~ (job > 0 /\ stage # "idle")
    BY <1>1, <2>2 DEF FlowInv
  <2> QED BY <2>1, <2>2
<1>5. BeforeInv'
  BY <1>1 DEF OutInv, BeforeInv, Earlier, StoredPoints, PointsIn
<1>6. OutputAllowed'
  <2>1. Tasks' = Tasks
    BY <1>1, SameJob
  <2>2. \A J : ProcessOutputs(name, J)' = ProcessOutputs(name, J)
    BY <1>1
  <2> QED BY <1>1, <2>1, <2>2 DEF OutInv, OutputAllowed, Done
<1> QED BY <1>2, <1>3, <1>4, <1>5, <1>6 DEF OutInv

(* The pending points of a node at the deepest level, as a flush of task   *)
(* number inserted: they go to the children of the node, which no message  *)
(* of that flush is for yet.                                               *)
LEMMA LeaveTargets ==
    ASSUME NodesInv, NEW n, DumpEffect(n), NEW flush, FlushesSoFar(flush)
    PROVE  /\ inserted \in DOMAIN flush
           /\ nodes[n].pending \in SUBSET Point
           /\ \A p \in nodes[n].pending :
                /\ CanForward(name, p) /\ TargetOf(name, p) = Child(n, p) /\ Near(p) = n
           /\ \A p \in nodes[n].pending : \A q \in flush[inserted] :
                TargetOf(name, p) # TargetOf(name, q)
<1>1. /\ n \in DOMAIN nodes /\ n \in todo /\ stage = "flush" /\ Len(n) = Len(name) + Top
  BY DEF DumpEffect
<1>2. /\ n \in NodeName /\ GoodNode(n, nodes[n]) /\ name \in JobName /\ job > 0
      /\ inserted \in Nat /\ inserted > 0 /\ inserted <= Len(Tasks) /\ Len(Tasks) \in Nat
  BY <1>1, TreeFacts, NodeAssumption DEF NodesInv, StageInv, Tasks
<1>3. inserted \in DOMAIN flush /\ inserted \in 1..Len(Tasks)
  BY <1>2 DEF FlushesSoFar
<1>4. /\ Len(name) \in Nat /\ Top \in Nat /\ Len(name) + Top + 1 = ForwardLength(Len(name))
      /\ ForwardLength(Len(name)) = Len(n) + 1 /\ Len(n) \in Nat
  BY <1>1, <1>2, NameFacts
<1>5. ASSUME NEW p \in nodes[n].pending
      PROVE  /\ p \in Point /\ Child(n, p) \in NodeName /\ IsChild(Child(n, p), n)
             /\ IsAncestor(Path[p], Child(n, p)) /\ IsAncestor(Path[p], n)
  <2>1. /\ p \in Point /\ Child(n, p) \in PendingChildren(n) /\ p \in PendingOf(n, Child(n, p))
    BY <1>1, <1>2, PendingFacts
  <2>2. /\ Child(n, p) \in NodeName /\ IsChild(Child(n, p), n)
        /\ InOctant(PendingOf(n, Child(n, p)), Child(n, p))
    BY <1>1, <1>2, <2>1, PendingFacts
  <2>3. IsAncestor(Path[p], n)
    BY <1>2 DEF GoodNode, InOctant, AllPoints
  <2> QED BY <2>1, <2>2, <2>3 DEF InOctant
<1>6. ASSUME NEW p \in nodes[n].pending
      PROVE  /\ CanForward(name, p) /\ TargetOf(name, p) = Child(n, p) /\ Near(p) = n
  <2>1. Len(Child(n, p)) = Len(n) + 1 /\ Len(Child(n, p)) <= Len(Path[p])
    BY <1>5 DEF IsChild, IsAncestor
  <2>2. CanForward(name, p)
    BY <1>4, <2>1 DEF CanForward
  <2>3. TargetOf(name, p) = Child(n, p)
    BY <1>4 DEF TargetOf, Child
  <2>4. Near(p) = n
    BY <1>1, <1>5 DEF Near, IsAncestor
  <2> QED BY <2>2, <2>3, <2>4
<1>7. ASSUME NEW p \in nodes[n].pending, NEW q \in flush[inserted],
             TargetOf(name, p) = TargetOf(name, q)
      PROVE  FALSE
  <2>1. q \in Point /\ CanForward(name, q)
    BY <1>3 DEF FlushesSoFar
  <2>2. PICK c \in NodeName : c = Child(n, p)
    BY <1>5
  <2>3. c = SubSeq(Path[q], 1, ForwardLength(Len(name))) /\ IsChild(c, n)
        /\ Len(c) = ForwardLength(Len(name))
    BY <1>4, <1>5, <1>6, <1>7, <2>2 DEF TargetOf, IsChild
  <2>4. IsAncestor(Path[q], c)
    BY <2>1, <2>3 DEF IsAncestor, CanForward
  <2>5. Path[q] \in NodeName
    BY <2>1, PathAssumption
  <2>6. Near(q) = n
    BY <1>1, <1>2, <2>3, <2>4, <2>5, ChildOfAncestor DEF Near
  <2>7. IsAncestor(n, n)
    BY <1>2, AncestorOrder
  <2> QED BY <1>1, <2>6, <2>7 DEF FlushesSoFar
<1>8. nodes[n].pending \in SUBSET Point
  BY <1>5
<1> QED BY <1>3, <1>6, <1>7, <1>8

LEMMA LeaveFlush ==
    ASSUME NodesInv, OutInv, NEW n, DumpEffect(n), LeaveEffect(n),
           NEW flush, FlushesSoFar(flush),
           NEW new, new = [flush EXCEPT ![inserted] = @ \cup nodes[n].pending]
    PROVE  FlushesSoFar(new)'
<1>1. /\ n \in DOMAIN nodes /\ n \in todo /\ stage = "flush" /\ todo' = todo \ {n}
      /\ UNCHANGED <<name, stored, job, stage, inserted, before>>
      /\ total_point_count' = total_point_count - Cardinality(nodes[n].pending)
  BY DEF DumpEffect, LeaveEffect
<1>2. job > 0 /\ StageInv /\ inserted \in Nat /\ n \in NodeName /\ \A a \in todo : a \in NodeName
  <2>1. \A a \in todo : a \in DOMAIN nodes
    BY DEF NodesInv, TreeInv
  <2> QED BY <1>1, <2>1, TreeFacts DEF NodesInv, StageInv
<1>3. PICK P : P = nodes[n].pending
  OBVIOUS
<1>4. /\ inserted \in DOMAIN flush /\ P \in SUBSET Point
      /\ \A p \in P : CanForward(name, p) /\ Near(p) = n
  BY <1>3, LeaveTargets
<1>5. /\ DOMAIN flush = 1..Len(Tasks) /\ Forwarded(flush) \subseteq Point
      /\ \A i \in DOMAIN flush : flush[i] \subseteq Forwarded(flush)
      /\ Held \cap Forwarded(flush) = {} /\ Held \subseteq Given
  BY <1>2, FlushFacts
<1>6. ApartInv' /\ Held' = Held \ P /\ P \subseteq Held
  BY <1>3, LeaveHeld DEF OutInv
<1>7. /\ flush \in [1..Len(Tasks) -> SUBSET Point]
      /\ \A i \in 1..Len(Tasks) : i > inserted => flush[i] = {}
      /\ \A i \in 1..Len(Tasks) :
           /\ flush[i] \subseteq before \cup Inserted(i)
           /\ \A j \in 1..(i - 1) : flush[i] \cap flush[j] = {}
           /\ \A p \in flush[i] : CanForward(name, p)
      /\ Held = Given \ Forwarded(flush)
      /\ total_point_count = Cardinality(Inserted(inserted)) - Cardinality(Forwarded(flush))
      /\ \A p \in flush[inserted] : \A a \in todo : ~ IsAncestor(Near(p), a)
  BY <1>1 DEF FlushesSoFar
<1>8. /\ new \in [1..Len(Tasks) -> SUBSET Point] /\ DOMAIN new = 1..Len(Tasks)
      /\ new[inserted] = flush[inserted] \cup P
      /\ \A i \in 1..Len(Tasks) : i # inserted => new[i] = flush[i]
  BY <1>3, <1>4, <1>5, <1>7
<1>9. /\ Tasks' = Tasks /\ Given' = Given /\ Forwarded(new)' = Forwarded(new)
      /\ \A i : Inserted(i)' = Inserted(i) /\ Inserted(inserted)' = Inserted(inserted)
      /\ \A p : CanForward(name, p)' = CanForward(name, p) /\ Near(p)' = Near(p)
  <2>1. Tasks' = Tasks /\ Top' = Top
    BY <1>1, SameJob
  <2> QED BY <1>1, <2>1 DEF Given, Inserted, Forwarded, CanForward, Near
<1>10. Forwarded(new) = Forwarded(flush) \cup P
  BY <1>4, <1>5, <1>8 DEF Forwarded
<1>11. P \subseteq before \cup Inserted(inserted) /\ P \cap Forwarded(flush) = {}
  BY <1>5, <1>6 DEF Given
<1>12. ASSUME NEW i \in 1..Len(Tasks)
       PROVE  /\ new[i] \subseteq before \cup Inserted(i)
              /\ \A j \in 1..(i - 1) : new[i] \cap new[j] = {}
              /\ \A p \in new[i] : CanForward(name, p)
              /\ i > inserted => new[i] = {}
  <2>1. inserted \in 1..Len(Tasks) /\ Len(Tasks) \in Nat
    BY <1>2, <1>4, <1>5, NodeAssumption DEF StageInv, Tasks
  <2>2. \A j \in 1..(i - 1) : j \in 1..Len(Tasks) /\ j # i
    BY <2>1
  <2>3. CASE i = inserted
    <3>1. \A j \in 1..(i - 1) : new[j] = flush[j] /\ P \cap flush[j] = {} /\ flush[i] \cap flush[j] = {}
      BY <1>5, <1>7, <1>8, <1>11, <2>2, <2>3
    <3>2. new[i] = flush[i] \cup P
      BY <1>8, <2>3
    <3>3. ~ (i > inserted)
      BY <2>1, <2>3
    <3> QED BY <1>4, <1>7, <1>11, <2>3, <3>1, <3>2, <3>3
  <2>4. CASE i # inserted
    <3>1. new[i] = flush[i]
      BY <1>8, <2>4
    <3>2. ASSUME NEW j \in 1..(i - 1)
          PROVE  new[i] \cap new[j] = {}
      <4>1. CASE j # inserted
        BY <1>7, <1>8, <2>2, <3>1, <4>1
      <4>2. CASE j = inserted
        <5>1. i > inserted
          BY <2>1, <4>2
        <5> QED BY <1>7, <3>1, <5>1
      <4> QED BY <4>1, <4>2
    <3> QED BY <1>7, <3>1, <3>2
  <2> QED BY <2>3, <2>4
<1>13. Held' = Given' \ Forwarded(new)
  BY <1>6, <1>7, <1>9, <1>10
<1>14. total_point_count' = Cardinality(Inserted(inserted)) - Cardinality(Forwarded(new))
  <2>1. /\ Cardinality(P) \in Nat /\ Cardinality(Forwarded(flush)) \in Nat
        /\ Cardinality(Forwarded(new)) = Cardinality(Forwarded(flush)) + Cardinality(P)
    BY <1>4, <1>5, <1>10, <1>11, PointCount
  <2>2. Cardinality(Inserted(inserted)) \in Nat
    <3>1. Inserted(inserted) \in SUBSET Point
      <4>1. \A i \in 1..inserted : i \in 1..Len(Tasks)
        BY <1>2, NodeAssumption DEF StageInv, Tasks
      <4> QED BY <1>2, <4>1, TaskFacts DEF Inserted
    <3> QED BY <3>1, PathAssumption, FS_Subset, FS_CardinalityType
  <2>3. total_point_count' = total_point_count - Cardinality(P)
    BY <1>1, <1>3
  <2> QED BY <1>7, <2>1, <2>2, <2>3
<1>15. \A p \in new[inserted] : \A a \in todo' : ~ IsAncestor(Near(p), a)
  <2> SUFFICES ASSUME NEW p \in new[inserted], NEW a \in todo', IsAncestor(Near(p), a)
               PROVE  FALSE
    OBVIOUS
  <2>1. CASE p \in flush[inserted]
    BY <1>1, <1>7, <2>1
  <2>2. CASE p \in P
    <3>1. IsAncestor(n, a) /\ a \in todo /\ a # n
      BY <1>1, <1>4, <2>2
    <3> QED BY <1>1, <3>1 DEF OutInv, FrontInv
  <2> QED BY <1>8, <2>1, <2>2
<1> QED BY <1>1, <1>8, <1>9, <1>12, <1>13, <1>14, <1>15 DEF FlushesSoFar

LEMMA IsSequence ==
    ASSUME NEW S, NEW k \in Nat, NEW f \in [1..k -> S]
    PROVE  f \in Seq(S) /\ Len(f) = k
  OBVIOUS

LEMMA IsSequenceOf ==
    ASSUME NEW S, NEW T, NEW s \in Seq(S), \A i \in 1..Len(s) : s[i] \in T
    PROVE  s \in Seq(T)
<1>1. s \in [1..Len(s) -> T] /\ Len(s) \in Nat
  OBVIOUS
<1> QED BY <1>1, IsSequence

LEMMA PendingOrder ==
    ASSUME NEW n \in NodeName, n \in DOMAIN nodes, GoodNode(n, nodes[n]),
           NEW ord \in Orders(PendingChildren(n))
    PROVE  /\ ord \in Seq(PendingChildren(n)) /\ DOMAIN ord = 1..Len(ord) /\ Len(ord) \in Nat
           /\ \A i, j \in DOMAIN ord : ord[i] = ord[j] => i = j
           /\ \A c \in PendingChildren(n) : \E i \in DOMAIN ord : ord[i] = c
<1>1. GetNode(n) = nodes[n] /\ nodes[n].pending \in SUBSET Point
  BY DEF GetNode, GoodNode, NodeRecord
<1>2. IsFiniteSet(nodes[n].pending)
  BY <1>1, PathAssumption, FS_Subset
<1> DEFINE g == [p \in nodes[n].pending |-> Child(n, p)]
<1>3. g \in Surjection(nodes[n].pending, PendingChildren(n))
  BY <1>1 DEF Surjection, PendingChildren
<1>4. IsFiniteSet(PendingChildren(n))
  BY <1>2, <1>3, FS_Surjection
<1> QED BY <1>4, OrderFacts

LEMMA LeaveSent ==
    ASSUME NodesInv, NEW n, DumpEffect(n), LeaveEffect(n),
           NEW flush, NEW order, FlushesSoFar(flush), SentSoFar(flush, order),
           NEW new, new = [flush EXCEPT ![inserted] = @ \cup nodes[n].pending]
    PROVE  \E longer : SentSoFar(new, longer)'
<1>1. /\ n \in DOMAIN nodes /\ UNCHANGED <<name, job, inserted>>
      /\ job > 0 /\ StageInv /\ inserted \in Nat /\ name \in JobName
  BY DEF DumpEffect, NodesInv, StageInv
<1>2. n \in NodeName /\ GoodNode(n, nodes[n]) /\ GetNode(n) = nodes[n]
  BY <1>1, TreeFacts DEF NodesInv, GetNode
<1>3. PICK ord \in Orders(PendingChildren(n)) :
        sent' = sent \o [i \in DOMAIN ord |-> NewTask(ord[i], PendingOf(n, ord[i]))]
  BY DEF LeaveEffect
<1>4. /\ ord \in Seq(PendingChildren(n)) /\ DOMAIN ord = 1..Len(ord) /\ Len(ord) \in Nat
      /\ \A i, j \in DOMAIN ord : ord[i] = ord[j] => i = j
      /\ \A c \in PendingChildren(n) : \E i \in DOMAIN ord : ord[i] = c
  BY <1>1, <1>2, PendingOrder
<1>5. PICK P, kids : P = nodes[n].pending /\ kids = PendingChildren(n)
  OBVIOUS
<1>6. /\ \A p \in P : p \in Point /\ Child(n, p) \in kids /\ Child(n, p) \in NodeName
                      /\ TargetOf(name, p) = Child(n, p)
      /\ \A p \in P : \A q \in flush[inserted] : TargetOf(name, p) # TargetOf(name, q)
      /\ \A c \in kids : /\ \E p \in P : Child(n, p) = c
                         /\ PendingOf(n, c) = {p \in P : Child(n, p) = c}
                         /\ PendingOf(n, c) \in SUBSET Point /\ c \in NodeName
  <2>1. \A p \in P : p \in Point /\ Child(n, p) \in kids /\ Child(n, p) \in NodeName
    BY <1>1, <1>2, <1>5, PendingFacts
  <2>2. \A p \in P : TargetOf(name, p) = Child(n, p)
    BY <1>5, LeaveTargets
  <2>3. \A p \in P : \A q \in flush[inserted] : TargetOf(name, p) # TargetOf(name, q)
    BY <1>5, LeaveTargets
  <2>4. \A c \in kids : \E p \in P : Child(n, p) = c
    BY <1>2, <1>5 DEF PendingChildren
  <2>5. \A c \in kids : PendingOf(n, c) = {p \in P : Child(n, p) = c}
    BY <1>2, <1>5 DEF PendingOf
  <2>6. \A c \in kids : PendingOf(n, c) \in SUBSET Point /\ c \in NodeName
    BY <1>1, <1>2, <1>5, PendingFacts
  <2> QED BY <2>1, <2>2, <2>3, <2>4, <2>5, <2>6
<1>7. /\ inserted \in DOMAIN flush /\ inserted \in 1..Len(Tasks) /\ DOMAIN flush = 1..Len(Tasks)
      /\ DOMAIN new = 1..Len(Tasks) /\ new[inserted] = flush[inserted] \cup P
      /\ \A i \in 1..Len(Tasks) : i # inserted => new[i] = flush[i]
      /\ \A i \in 1..Len(Tasks) : i > inserted => flush[i] = {}
      /\ Len(Tasks) \in Nat
  <2>1. inserted \in DOMAIN flush /\ flush \in [1..Len(Tasks) -> SUBSET Point]
    BY LeaveTargets DEF FlushesSoFar
  <2> QED BY <1>1, <1>5, <2>1, NodeAssumption DEF FlushesSoFar, StageInv, Tasks
<1>8. /\ order \in Seq(Pairs(flush)) /\ Len(order) \in Nat
      /\ \A i, j \in DOMAIN order : order[i] = order[j] => i = j
      /\ \A pair \in Pairs(flush) : \E i \in DOMAIN order : order[i] = pair
      /\ \A i, j \in DOMAIN order : i < j => order[i][1] <= order[j][1]
      /\ sent \in Seq(TaskMessage) /\ Len(sent) = Len(order)
      /\ \A i \in DOMAIN order : sent[i] = NewTask(order[i][2], PointsTo(flush, order[i]))
  BY DEF SentSoFar
<1>9. /\ \A pair : pair \in Pairs(flush) <=>
           \E i \in 1..Len(Tasks) : \E p \in flush[i] : pair = <<i, TargetOf(name, p)>>
      /\ \A pair : pair \in Pairs(new) <=>
           \E i \in 1..Len(Tasks) : \E p \in new[i] : pair = <<i, TargetOf(name, p)>>
  BY <1>7 DEF Pairs
<1>10. ASSUME NEW c \in kids
       PROVE  /\ <<inserted, c>> \in Pairs(new) /\ <<inserted, c>> \notin Pairs(flush)
              /\ PointsTo(new, <<inserted, c>>) = PendingOf(n, c)
  <2>1. PICK p \in P : Child(n, p) = c /\ TargetOf(name, p) = c
    BY <1>6
  <2>2. <<inserted, c>> \in Pairs(new)
    BY <1>7, <1>9, <2>1
  <2>3. \A q \in flush[inserted] : TargetOf(name, q) # c
    BY <1>6, <2>1
  <2>4. <<inserted, c>> \notin Pairs(flush)
    BY <1>9, <2>3
  <2>5. PointsTo(new, <<inserted, c>>) = {q \in flush[inserted] \cup P : TargetOf(name, q) = c}
    BY <1>7 DEF PointsTo
  <2>6. PointsTo(new, <<inserted, c>>) = {q \in P : Child(n, q) = c}
    BY <1>6, <2>3, <2>5
  <2> QED BY <1>6, <2>2, <2>4, <2>6
<1>11. ASSUME NEW pair \in Pairs(flush)
       PROVE  /\ pair \in Pairs(new) /\ pair[1] \in 1..Len(Tasks) /\ pair[1] <= inserted
              /\ PointsTo(new, pair) = PointsTo(flush, pair)
  <2>0. PICK i \in 1..Len(Tasks) : \E p \in flush[i] : pair = <<i, TargetOf(name, p)>>
    BY <1>9
  <2>1. PICK p \in flush[i] : pair = <<i, TargetOf(name, p)>>
    BY <2>0
  <2>2. p \in new[i] /\ i <= inserted
    BY <1>1, <1>7
  <2>3. pair \in Pairs(new)
    BY <1>9, <2>1, <2>2
  <2>4. CASE i = inserted
    <3>1. \A q \in P : TargetOf(name, q) # pair[2]
      BY <1>6, <2>1, <2>4
    <3>2. pair[1] = inserted
      BY <2>1, <2>4
    <3> QED BY <1>7, <2>1, <2>2, <2>3, <3>1, <3>2 DEF PointsTo
  <2>5. CASE i # inserted
    <3>1. new[pair[1]] = flush[pair[1]] /\ pair[1] = i
      BY <1>7, <2>1, <2>5
    <3> QED BY <2>2, <2>3, <3>1 DEF PointsTo
  <2> QED BY <2>4, <2>5
<1>12. ASSUME NEW pair \in Pairs(new), pair \notin Pairs(flush)
       PROVE  \E c \in kids : pair = <<inserted, c>>
  <2>0. PICK i \in 1..Len(Tasks) : \E p \in new[i] : pair = <<i, TargetOf(name, p)>>
    BY <1>9
  <2>1. PICK p \in new[i] : pair = <<i, TargetOf(name, p)>>
    BY <2>0
  <2>2. p \notin flush[i]
    BY <1>9, <1>12, <2>1
  <2>3. i = inserted /\ p \in P
    BY <1>7, <2>2
  <2> QED BY <1>6, <2>1, <2>3
<1>13. \A k \in 1..Len(ord) : ord[k] \in kids
  BY <1>4, <1>5
<1>a. PICK more, msgs : /\ more = [k \in 1..Len(ord) |-> <<inserted, ord[k]>>]
                        /\ msgs = [k \in 1..Len(ord) |-> NewTask(ord[k], PendingOf(n, ord[k]))]
  OBVIOUS
<1>b. PICK longer : longer = order \o more
  OBVIOUS
<1>14. /\ more \in Seq(Pairs(new)) /\ Len(more) = Len(ord)
       /\ msgs \in Seq(TaskMessage) /\ Len(msgs) = Len(ord)
       /\ \A k \in 1..Len(ord) : more[k] = <<inserted, ord[k]>>
       /\ \A k \in 1..Len(ord) : msgs[k] = NewTask(ord[k], PendingOf(n, ord[k]))
  <2>1. \A k \in 1..Len(ord) : <<inserted, ord[k]>> \in Pairs(new)
    BY <1>10, <1>13
  <2>2. \A k \in 1..Len(ord) : NewTask(ord[k], PendingOf(n, ord[k])) \in TaskMessage
    BY <1>6, <1>13 DEF NewTask, TaskMessage
  <2>3. more \in [1..Len(ord) -> Pairs(new)]
    BY <1>a, <2>1
  <2>4. msgs \in [1..Len(ord) -> TaskMessage]
    BY <1>a, <2>2
  <2>5. Len(ord) \in Nat
    BY <1>4
  <2>6. more \in Seq(Pairs(new)) /\ Len(more) = Len(ord)
    BY <2>3, <2>5, IsSequence
  <2>7. msgs \in Seq(TaskMessage) /\ Len(msgs) = Len(ord)
    BY <2>4, <2>5, IsSequence
  <2> QED BY <1>a, <2>6, <2>7
<1>15. order \in Seq(Pairs(new))
  <2>1. \A k \in 1..Len(order) : order[k] \in Pairs(flush)
    BY <1>8
  <2>2. \A k \in 1..Len(order) : order[k] \in Pairs(new)
    BY <1>11, <2>1
  <2> QED BY <1>8, <2>2, IsSequenceOf
<1>16. /\ longer \in Seq(Pairs(new))
       /\ Len(longer) = Len(order) + Len(ord)
       /\ DOMAIN longer = 1..(Len(order) + Len(ord)) /\ DOMAIN order = 1..Len(order)
       /\ \A i \in 1..Len(order) : i \in DOMAIN longer /\ longer[i] = order[i]
       /\ \A i \in 1..Len(ord) : Len(order) + i \in DOMAIN longer
                                 /\ longer[Len(order) + i] = <<inserted, ord[i]>>
       /\ \A k \in DOMAIN longer : k \in 1..Len(order) \/ \E i \in 1..Len(ord) : k = Len(order) + i
  <2>0. PICK S : S = Pairs(new)
    OBVIOUS
  <2>a. order \in Seq(S) /\ more \in Seq(S)
    BY <1>14, <1>15, <2>0
  <2>1. /\ order \o more \in Seq(S) /\ Len(order) \in Nat
        /\ Len(order \o more) = Len(order) + Len(more)
        /\ DOMAIN order = 1..Len(order) /\ DOMAIN (order \o more) = 1..(Len(order) + Len(more))
        /\ \A i \in 1..Len(order) : /\ i \in DOMAIN (order \o more)
                                    /\ (order \o more)[i] = order[i]
        /\ \A i \in 1..Len(more) : /\ Len(order) + i \in DOMAIN (order \o more)
                                   /\ (order \o more)[Len(order) + i] = more[i]
        /\ \A k \in DOMAIN (order \o more) :
             k \in 1..Len(order) \/ \E i \in 1..Len(more) : k = Len(order) + i
    BY <2>a, ConcatFacts
  <2> QED BY <1>14, <1>b, <2>0, <2>1
<1>17. /\ sent' \in Seq(TaskMessage) /\ Len(sent') = Len(order) + Len(ord)
       /\ \A i \in 1..Len(order) : sent'[i] = sent[i]
       /\ \A i \in 1..Len(ord) : sent'[Len(order) + i] = NewTask(ord[i], PendingOf(n, ord[i]))
  <2>1. sent' = sent \o msgs
    BY <1>3, <1>4, <1>a
  <2>2. /\ sent \o msgs \in Seq(TaskMessage)
        /\ Len(sent \o msgs) = Len(sent) + Len(msgs)
        /\ \A i \in 1..Len(sent) : (sent \o msgs)[i] = sent[i]
        /\ \A i \in 1..Len(msgs) : (sent \o msgs)[Len(sent) + i] = msgs[i]
    <3>1. sent \in Seq(TaskMessage) /\ msgs \in Seq(TaskMessage)
      BY <1>8, <1>14
    <3>2. PICK S : S = TaskMessage
      OBVIOUS
    <3>3. sent \in Seq(S) /\ msgs \in Seq(S)
      BY <3>1, <3>2
    <3> QED BY <3>2, <3>3, ConcatFacts
  <2> QED BY <1>8, <1>14, <2>1, <2>2
<1>18. ASSUME NEW i \in DOMAIN longer, NEW j \in DOMAIN longer, longer[i] = longer[j]
       PROVE  i = j
  <2>1. \A k \in 1..Len(order) : order[k] \in Pairs(flush)
    BY <1>8
  <2>2. \A k \in 1..Len(ord) : <<inserted, ord[k]>> \notin Pairs(flush)
    BY <1>10, <1>13
  <2>3. CASE i \in 1..Len(order) /\ j \in 1..Len(order)
    <3>1. order[i] = order[j] /\ i \in DOMAIN order /\ j \in DOMAIN order
      BY <1>16, <1>18, <2>3
    <3> QED BY <1>8, <3>1
  <2>4. CASE i \in 1..Len(order) /\ j \notin 1..Len(order)
    <3>1. PICK k \in 1..Len(ord) : j = Len(order) + k
      BY <1>16, <2>4
    <3>2. longer[i] = order[i] /\ longer[j] = <<inserted, ord[k]>>
      BY <1>16, <2>4, <3>1
    <3> QED BY <1>18, <2>1, <2>2, <2>4, <3>2
  <2>5. CASE i \notin 1..Len(order) /\ j \in 1..Len(order)
    <3>1. PICK k \in 1..Len(ord) : i = Len(order) + k
      BY <1>16, <2>5
    <3>2. longer[j] = order[j] /\ longer[i] = <<inserted, ord[k]>>
      BY <1>16, <2>5, <3>1
    <3> QED BY <1>18, <2>1, <2>2, <2>5, <3>2
  <2>6. CASE i \notin 1..Len(order) /\ j \notin 1..Len(order)
    <3>1. PICK k, l \in 1..Len(ord) : i = Len(order) + k /\ j = Len(order) + l
      BY <1>16, <2>6
    <3>2. <<inserted, ord[k]>> = <<inserted, ord[l]>>
      BY <1>16, <1>18, <3>1
    <3>3. k = l
      BY <1>4, <3>2
    <3> QED BY <3>1, <3>3
  <2> QED BY <2>3, <2>4, <2>5, <2>6
<1>19. ASSUME NEW pair \in Pairs(new)
       PROVE  \E i \in DOMAIN longer : longer[i] = pair
  <2>1. CASE pair \in Pairs(flush)
    BY <1>8, <1>16, <2>1
  <2>2. CASE pair \notin Pairs(flush)
    <3>1. PICK c \in kids : pair = <<inserted, c>>
      BY <1>12, <2>2
    <3>2. PICK i \in 1..Len(ord) : ord[i] = c
      BY <1>4, <1>5
    <3> QED BY <1>16, <3>1, <3>2
  <2> QED BY <2>1, <2>2
<1>20. ASSUME NEW i \in DOMAIN longer, NEW j \in DOMAIN longer, i < j
       PROVE  longer[i][1] <= longer[j][1]
  <2>1. \A k \in 1..Len(order) : order[k][1] \in 1..Len(Tasks) /\ order[k][1] <= inserted
    BY <1>8, <1>11
  <2>2. CASE i \in 1..Len(order) /\ j \in 1..Len(order)
    BY <1>8, <1>16, <1>20, <2>2
  <2>3. CASE i \in 1..Len(order) /\ j \notin 1..Len(order)
    <3>1. PICK k \in 1..Len(ord) : j = Len(order) + k
      BY <1>16, <2>3
    <3> QED BY <1>16, <2>1, <2>3, <3>1
  <2>4. CASE i \notin 1..Len(order)
    <3>1. PICK k \in 1..Len(ord) : i = Len(order) + k
      BY <1>16, <2>4
    <3>2. j \notin 1..Len(order)
      BY <1>4, <1>8, <1>16, <1>20, <3>1
    <3>3. PICK l \in 1..Len(ord) : j = Len(order) + l
      BY <1>16, <3>2
    <3>4. longer[i] = <<inserted, ord[k]>> /\ longer[j] = <<inserted, ord[l]>>
      BY <1>16, <3>1, <3>3
    <3> QED BY <1>1, <3>4
  <2> QED BY <2>2, <2>3, <2>4
<1>21. ASSUME NEW i \in DOMAIN longer
       PROVE  sent'[i] = NewTask(longer[i][2], PointsTo(new, longer[i]))
  <2>1. CASE i \in 1..Len(order)
    <3>1. order[i] \in Pairs(flush)
      BY <1>8, <2>1
    <3>2. PointsTo(new, order[i]) = PointsTo(flush, order[i])
      BY <1>11, <3>1
    <3> QED BY <1>8, <1>16, <1>17, <2>1, <3>2
  <2>2. CASE i \notin 1..Len(order)
    <3>1. PICK k \in 1..Len(ord) : i = Len(order) + k
      BY <1>16, <2>2
    <3>2. longer[i] = <<inserted, ord[k]>> /\ sent'[i] = NewTask(ord[k], PendingOf(n, ord[k]))
      BY <1>16, <1>17, <3>1
    <3>3. PointsTo(new, <<inserted, ord[k]>>) = PendingOf(n, ord[k])
      BY <1>10, <1>13
    <3> QED BY <3>2, <3>3
  <2> QED BY <2>1, <2>2
<1>22. /\ Pairs(new)' = Pairs(new)
       /\ \A pair : PointsTo(new, pair)' = PointsTo(new, pair)
  BY <1>1 DEF Pairs, PointsTo, TargetOf
<1>23. SentSoFar(new, longer)'
  <2>1. longer \in Seq(Pairs(new)')
    BY <1>16, <1>22
  <2>2. \A pair \in Pairs(new)' : \E i \in DOMAIN longer : longer[i] = pair
    BY <1>19, <1>22
  <2>3. \A i \in DOMAIN longer : sent'[i] = NewTask(longer[i][2], PointsTo(new, longer[i])')
    BY <1>21, <1>22
  <2>4. sent' \in Seq(TaskMessage) /\ Len(sent') = Len(longer)
    BY <1>16, <1>17
  <2>5. \A i, j \in DOMAIN longer : longer[i] = longer[j] => i = j
    BY <1>18
  <2>6. \A i, j \in DOMAIN longer : i < j => longer[i][1] <= longer[j][1]
    BY <1>20
  <2> QED BY <2>1, <2>2, <2>3, <2>4, <2>5, <2>6 DEF SentSoFar
<1> QED BY <1>23

LEMMA LeaveOut ==
    ASSUME NodesInv, OutInv, NEW n, DumpEffect(n), LeaveEffect(n)
    PROVE  OutInv'
<1>1. /\ todo' = todo \ {n} /\ stage = "flush"
      /\ UNCHANGED <<name, stored, job, stage, inserted, before>>
  BY DEF DumpEffect
<1>2. job > 0 /\ stage # "idle" /\ FlowInv
  BY <1>1 DEF NodesInv, StageInv, OutInv
<1>3. PICK flush, order : FlushesSoFar(flush) /\ SentSoFar(flush, order)
  BY <1>2 DEF FlowInv
<1>4. PICK new : new = [flush EXCEPT ![inserted] = @ \cup nodes[n].pending]
  OBVIOUS
<1>5. FlushesSoFar(new)' /\ \E longer : SentSoFar(new, longer)'
  BY <1>3, <1>4, LeaveFlush, LeaveSent
<1>6. FlowInv'
  BY <1>5 DEF FlowInv
<1>7. ApartInv'
  BY LeaveHeld DEF OutInv
<1>8. FrontInv'
  BY <1>1 DEF OutInv, FrontInv
<1>9. BeforeInv' /\ OutputAllowed'
  BY <1>1 DEF OutInv, BeforeInv, OutputAllowed, Done, Earlier
<1> QED BY <1>6, <1>7, <1>8, <1>9 DEF OutInv

(* The tasks of a job are all different, so that their list is one of the  *)
(* orders of their set.                                                    *)
LEMMA TasksOrder ==
    ASSUME StageInv, job > 0, NEW S, S = {Tasks[i] : i \in 1..Len(Tasks)}
    PROVE  Cardinality(S) = Len(Tasks) /\ Tasks \in Orders(S)
<1>1. job \in 1..Len(Jobs) /\ Tasks = Jobs[job]
  BY NodeAssumption DEF StageInv, Tasks
<1>2. Tasks \in Seq((SUBSET Point) \ {{}}) /\ Len(Tasks) \in Nat
  BY <1>1, NodeAssumption
<1>3. ASSUME NEW i \in 1..Len(Tasks), NEW j \in 1..Len(Tasks), Tasks[i] = Tasks[j]
      PROVE  i = j
  <2> SUFFICES ASSUME i # j PROVE FALSE
    OBVIOUS
  <2>1. <<job, i>> # <<job, j>> /\ i \in 1..Len(Jobs[job]) /\ j \in 1..Len(Jobs[job])
    BY <1>1
  <2>2. Tasks[i] \cap Tasks[j] = {}
    BY <1>1, <2>1, JobsAssumption
  <2>3. Tasks[i] # {}
    BY <1>2
  <2> QED BY <1>3, <2>2, <2>3
<1>4. Tasks \in [1..Len(Tasks) -> S]
  BY <1>2
<1>5. \A x \in S : \E i \in 1..Len(Tasks) : Tasks[i] = x
  OBVIOUS
<1>6. Cardinality(S) = Len(Tasks)
  BY <1>2, <1>3, <1>4, <1>5, DistinctCount
<1> QED BY <1>3, <1>4, <1>6 DEF Orders

(* The messages sent so far are one of the lists that the flushes allow.   *)
LEMMA SentInOrder ==
    ASSUME NEW flush, NEW order, SentSoFar(flush, order)
    PROVE  sent \in NewTasks(name, flush)
<1>1. PICK targets : targets = Pairs(flush)
  OBVIOUS
<1>2. /\ order \in Seq(targets) /\ Len(order) \in Nat /\ DOMAIN order = 1..Len(order)
      /\ order \in [1..Len(order) -> targets]
      /\ \A i, j \in 1..Len(order) : order[i] = order[j] => i = j
      /\ \A x \in targets : \E i \in 1..Len(order) : order[i] = x
      /\ \A i, j \in DOMAIN order : i < j => order[i][1] <= order[j][1]
  BY <1>1 DEF SentSoFar
<1>3. Cardinality(targets) = Len(order)
  BY <1>2, DistinctCount
<1>4. order \in Orders(targets)
  BY <1>2, <1>3 DEF Orders
<1>5. targets = UNION {{<<i, TargetOf(name, p)>> : p \in flush[i]} : i \in DOMAIN flush}
  BY <1>1 DEF Pairs
<1>6. sent = [k \in DOMAIN order |->
                NewTask(order[k][2], {p \in flush[order[k][1]] : TargetOf(name, p) = order[k][2]})]
  <2>1. /\ sent \in Seq(TaskMessage) /\ Len(sent) = Len(order)
        /\ \A k \in DOMAIN order : sent[k] = NewTask(order[k][2], PointsTo(flush, order[k]))
    BY DEF SentSoFar
  <2>2. DOMAIN sent = DOMAIN order /\ sent = [k \in DOMAIN sent |-> sent[k]]
    BY <1>2, <2>1
  <2> QED BY <2>1, <2>2 DEF PointsTo
<1> QED BY <1>2, <1>4, <1>5, <1>6 DEF NewTasks

LEMMA SendOut ==
    ASSUME NodesInv, OutInv, SendEffect
    PROVE  OutInv'
<1>1. /\ stage = "dump" /\ stage' = "idle"
      /\ UNCHANGED <<name, job, inserted, nodes, todo, total_point_count, before>>
      /\ sent' = Append(sent, ProcessedMessage(name, total_point_count, StoredPoints'))
  BY DEF SendEffect
<1>2. /\ StageInv /\ job > 0 /\ name \in DOMAIN nodes /\ LastTask /\ inserted = Len(Tasks)
      /\ job \in Nat /\ name \in JobName
      /\ \A n \in DOMAIN nodes : nodes[n].pending = {}
  BY <1>1, NonePending, NodeAssumption DEF NodesInv, StageInv, LastTask
<1>3. PICK flush, order : FlushesSoFar(flush) /\ SentSoFar(flush, order)
  BY <1>1, <1>2 DEF OutInv, FlowInv
<1>4. /\ DOMAIN flush = 1..Len(Tasks) /\ Len(Tasks) \in Nat
      /\ Forwarded(flush) \subseteq Given /\ Held \subseteq Given
      /\ \A i \in DOMAIN flush : flush[i] \subseteq Forwarded(flush)
      /\ Held = Given \ Forwarded(flush)
  BY <1>2, <1>3, FlushFacts, NodeAssumption DEF FlushesSoFar, StageInv, Tasks
<1>5. StoredPoints' = Held /\ (name = Root <=> Held = {})
  <2>1. Held = UNION {PointsIn(nodes[n]) : n \in DOMAIN nodes}
    BY <1>2 DEF Held, AllPoints, PointsIn
  <2>2. CASE name = Root
    <3>1. \A n \in DOMAIN nodes : PointsIn(nodes[n]) = {}
      BY <2>2, TreeFacts DEF NodesInv, GoodNode, PointsIn
    <3>2. StoredPoints' = {}
      BY <2>2 DEF SendEffect, StoredPoints, Nothing
    <3> QED BY <2>1, <2>2, <3>1, <3>2
  <2>3. CASE name # Root
    <3>1. /\ DOMAIN stored' = DOMAIN nodes
          /\ \A n \in DOMAIN nodes : /\ PointsIn(stored'[n]) = PointsIn(nodes[n])
                                     /\ PointsIn(nodes[n]) # {}
      BY <2>3 DEF SendEffect
    <3>2. StoredPoints' = UNION {PointsIn(stored'[n]) : n \in DOMAIN stored'}
      BY DEF StoredPoints, PointsIn
    <3> QED BY <1>2, <2>1, <2>3, <3>1, <3>2
  <2> QED BY <2>2, <2>3
<1>6. PICK S : S = {Tasks[i] : i \in 1..Len(Tasks)}
  OBVIOUS
<1>7. PICK J : J = [node |-> before, tasks |-> S]
  OBVIOUS
<1>8. J.node = before /\ J.tasks = S
  BY <1>7
<1>9. UNION S = Inserted(inserted) /\ JobPoints(J) = Given
  BY <1>2, <1>6, <1>8 DEF Inserted, Given, JobPoints
<1>10. Cardinality(S) = Len(Tasks) /\ Tasks \in Orders(S)
  BY <1>2, <1>6, TasksOrder
<1>11. flush \in Flushes(name, J)
  <2>1. /\ flush \in [1..Len(Tasks) -> SUBSET Point]
        /\ \A i \in 1..Len(Tasks) :
             /\ flush[i] \subseteq before \cup Inserted(i)
             /\ \A j \in 1..(i - 1) : flush[i] \cap flush[j] = {}
             /\ \A p \in flush[i] : CanForward(name, p)
    BY <1>3 DEF FlushesSoFar
  <2>2. flush \in [1..Cardinality(J.tasks) -> SUBSET {p \in JobPoints(J) : CanForward(name, p)}]
    <3>1. \A i \in 1..Len(Tasks) : flush[i] \in SUBSET {p \in JobPoints(J) : CanForward(name, p)}
      BY <1>4, <1>9, <2>1
    <3> QED BY <1>8, <1>10, <2>1, <3>1
  <2>3. \A i \in DOMAIN flush :
          flush[i] \subseteq (J.node \cup UNION {Tasks[j] : j \in 1..i})
                             \ UNION {flush[j] : j \in 1..(i - 1)}
    BY <1>4, <1>8, <2>1 DEF Inserted
  <2>4. name = Root <=> Forwarded(flush) = JobPoints(J)
    BY <1>4, <1>5, <1>9
  <2>5. Tasks \in Orders(J.tasks)
    BY <1>8, <1>10
  <2> QED BY <2>2, <2>3, <2>4, <2>5 DEF Flushes
<1>12. sent \in NewTasks(name, flush)
  BY <1>3, SentInOrder
<1>13. total_point_count = Total(J, flush)
  BY <1>3, <1>8, <1>9 DEF FlushesSoFar, Total
<1>14. StoredPoints' = JobPoints(J) \ Forwarded(flush)
  BY <1>4, <1>5, <1>9
<1>15. sent' \in ProcessOutputs(name, J)
  <2>1. sent' = Append(sent, ProcessedMessage(name, Total(J, flush), JobPoints(J) \ Forwarded(flush)))
    BY <1>1, <1>13, <1>14
  <2> QED BY <1>11, <1>12, <2>1 DEF ProcessOutputs
<1>16. OutputAllowed'
  <2>1. Tasks' = Tasks
    BY <1>1, SameJob
  <2>2. J = [node |-> before', tasks |-> {Tasks'[i] : i \in 1..Len(Tasks')}]
    BY <1>1, <1>6, <1>7, <2>1
  <2> QED BY <1>1, <1>15, <2>2 DEF OutputAllowed
<1>17. ApartInv' /\ FrontInv' /\ FlowInv'
  BY <1>1, HeldSame DEF OutInv, FrontInv, FlowInv
<1>18. BeforeInv'
  <2>1. Given \subseteq Earlier(job)
    <3>1. before \subseteq Earlier(job - 1)
      BY <1>1 DEF OutInv, BeforeInv
    <3>2. \A i \in 1..(job - 1) : i \in 1..job
      BY <1>2
    <3>3. job \in 1..job /\ Tasks = Jobs[job]
      BY <1>2 DEF Tasks
    <3> QED BY <1>2, <3>1, <3>2, <3>3 DEF Given, Inserted, Earlier
  <2>2. StoredPoints' \subseteq Earlier(job)
    BY <1>4, <1>5, <2>1
  <2> QED BY <1>1, <2>2 DEF BeforeInv, Earlier
<1> QED BY <1>16, <1>17, <1>18 DEF OutInv

LEMMA InitOut == Init => OutInv
<1> SUFFICES ASSUME Init PROVE OutInv
  OBVIOUS
<1>1. stored = Nothing /\ nodes = Nothing /\ job = 0 /\ stage = "idle" /\ todo = {}
  BY DEF Init
<1>2. DOMAIN stored = {} /\ DOMAIN nodes = {}
  BY <1>1 DEF Nothing
<1> QED BY <1>1, <1>2 DEF OutInv, ApartInv, FrontInv, BeforeInv, FlowInv, OutputAllowed, Done, StoredPoints

(* The answer to a job is one that PointTiler expects: every point given   *)
(* is in one new task or in the content that goes back, in the tile it     *)
(* belongs to, and the reported total is the difference (NodeProcess.run,  *)
(* NodeCatalog.dump).  It is what JobOutputs promises to the manager.      *)
THEOREM NodeProcessOutputAllowed == Spec => []OutputAllowed
<1>1. ASSUME NodesInv, OutInv, [Next]_vars PROVE OutInv'
  <2>1. NodeStep
    BY <1>1, StepNodes
  <2>2. CASE StartEffect
    BY <1>1, <2>2, StartOut
  <2>3. CASE \E task, new : InsertEffect(task, new)
    BY <1>1, <2>3, InsertOut
  <2>4. CASE \E n, kids : SpreadEffect(n, kids)
    BY <1>1, <2>4, SpreadOut
  <2>5. CASE \E n : DumpEffect(n)
    <3>1. PICK n : DumpEffect(n)
      BY <2>5
    <3>2. LeaveEffect(n) \/ StayEffect(n)
      BY <3>1 DEF DumpEffect
    <3> QED BY <1>1, <3>1, <3>2, LeaveOut, StayOut
  <2>6. CASE EndFlush
    BY <1>1, <2>6, EndFlushOut
  <2>7. CASE BalanceEffect
    BY <1>1, <2>7, BalanceOut
  <2>8. CASE SendEffect
    BY <1>1, <2>8, SendOut
  <2>9. CASE UNCHANGED vars
    BY <1>1, <2>9, SameOut
  <2> QED BY <2>1, <2>2, <2>3, <2>4, <2>5, <2>6, <2>7, <2>8, <2>9 DEF NodeStep
<1>2. OutInv => OutputAllowed
  BY DEF OutInv
<1> QED BY <1>1, <1>2, InitOut, NodesInvariant, PTL DEF Spec

-----------------------------------------------------------------------------
(* The grid of a node                                                      *)

(* The cells a grid may have: 3 to 8 in a direction, no more in height     *)
(* than along the sides.                                                   *)
CellCount(c) == c \in [Axis -> 3..8] /\ c[1] = c[2] /\ c[3] <= c[1]
Rows(P) == \A p \in P : p.at \in [Axis -> Int]

(* A grid whose rows are in the cells of their keys.                       *)
Sound(g, P) ==
    /\ g = [cell_count |-> g.cell_count, size |-> g.size, cells |-> g.cells]
    /\ CellCount(g.cell_count)
    /\ g.size \in [Axis -> Nat \ {0}]
    /\ g.cells \in [Keys(g.cell_count) -> SUBSET P]
    /\ \A k \in Keys(g.cell_count) : \A p \in g.cells[k] : XyzToKey(g, p) = k

LEMMA Shifts ==
    ASSUME NEW c, CellCount(c)
    PROVE  /\ c[1] \in 3..4 => Power(Shift(c)) = 4 /\ Power(2 * Shift(c)) = 16
           /\ c[1] \in 5..8 => Power(Shift(c)) = 8 /\ Power(2 * Shift(c)) = 64
<1>1. c[1] \in 3..8
  BY DEF CellCount, Axis
<1>2. /\ c[1] \in 3..4 => Shift(c) = 2
      /\ c[1] \in 5..8 => Shift(c) = 3
  BY <1>1 DEF Shift, BitLength
<1>3. Power(2) = 4 /\ Power(4) = 16 /\ Power(3) = 8 /\ Power(6) = 64
  BY DEF Power
<1> QED
  BY <1>1, <1>2, <1>3

LEMMA EnoughKeys ==
    ASSUME NEW c, CellCount(c)
    PROVE  /\ MaxKeyValue(c) \in Nat
           /\ c[1] \in 3..4 => 16 * c[3] <= MaxKeyValue(c)
           /\ c[1] \in 5..8 => 64 * c[3] <= MaxKeyValue(c)
<1>1. c[1] \in 3..8 /\ c[3] \in 3..8 /\ c[3] <= c[1]
  BY DEF CellCount, Axis
<1>2. /\ c[1] = 3 => BitLength(c[1]) = 2
      /\ c[1] \in 4..7 => BitLength(c[1]) = 3
      /\ c[1] = 8 => BitLength(c[1]) = 4
      /\ c[3] = 3 => BitLength(c[3]) = 2
      /\ c[3] \in 4..7 => BitLength(c[3]) = 3
      /\ c[3] = 8 => BitLength(c[3]) = 4
  BY <1>1 DEF BitLength
<1>3. /\ Power(6) = 64 /\ Power(8) = 256 /\ Power(9) = 512
      /\ Power(10) = 1024 /\ Power(11) = 2048 /\ Power(12) = 4096
  BY DEF Power
<1>4. MaxKeyValue(c) = Power(2 * BitLength(c[1]) + BitLength(c[3]))
  BY DEF MaxKeyValue
<1>5. CASE c[1] = 3
  BY <1>1, <1>2, <1>3, <1>4, <1>5
<1>6. CASE c[1] \in 4..7
  BY <1>1, <1>2, <1>3, <1>4, <1>6
<1>7. CASE c[1] = 8
  BY <1>1, <1>2, <1>3, <1>4, <1>7
<1> QED
  BY <1>1, <1>5, <1>6, <1>7

LEMMA CellAtType ==
    ASSUME NEW g, CellCount(g.cell_count), g.size \in [Axis -> Nat \ {0}],
           NEW p, p.at \in [Axis -> Int]
    PROVE  \A a \in Axis : CellAt(g, p)[a] \in 0..(g.cell_count[a] - 1)
<1> TAKE a \in Axis
<1>1. g.cell_count[a] \in 3..8 /\ g.size[a] \in Nat \ {0} /\ p.at[a] \in Int
  BY DEF CellCount
<1>2. (g.cell_count[a] * p.at[a]) \div g.size[a] \in Int
  BY <1>1
<1>3. \A i \in Int, n \in 3..8 : Clamped(i, n) \in 0..(n - 1)
  BY DEF Clamped
<1> QED
  BY <1>1, <1>2, <1>3 DEF CellAt

(* The key of a row anywhere is one of the cells of the list of the grid,  *)
(* though the length of the list and the shifts of a key come from         *)
(* different bit lengths (max_key_value, xyz_to_key).                      *)
THEOREM KeyExists ==
    ASSUME NEW g, CellCount(g.cell_count), g.size \in [Axis -> Nat \ {0}],
           NEW p, p.at \in [Axis -> Int]
    PROVE  XyzToKey(g, p) \in Keys(g.cell_count)
<1> DEFINE a == CellAt(g, p)
           c == g.cell_count
<1>1. a[1] \in 0..(c[1] - 1) /\ a[2] \in 0..(c[1] - 1) /\ a[3] \in 0..(c[3] - 1)
  BY CellAtType DEF CellCount, Axis
<1>2. c[1] \in 3..8 /\ c[3] \in 3..8
  BY DEF CellCount, Axis
<1>3. XyzToKey(g, p) = a[1] + a[2] * Power(Shift(c)) + a[3] * Power(2 * Shift(c))
  BY DEF XyzToKey
<1> HIDE DEF a, c
<1>4. CellCount(c)
  BY DEF c
<1>5. CASE c[1] \in 3..4
  BY <1>1, <1>2, <1>3, <1>4, <1>5, Shifts, EnoughKeys DEF Keys, c
<1>6. CASE c[1] \in 5..8
  BY <1>1, <1>2, <1>3, <1>4, <1>6, Shifts, EnoughKeys DEF Keys, c
<1> QED
  BY <1>2, <1>5, <1>6

LEMMA Digits ==
    ASSUME NEW n \in {4, 8},
           NEW x \in 0..(n - 1), NEW y \in 0..(n - 1), NEW z \in Nat,
           NEW u \in 0..(n - 1), NEW v \in 0..(n - 1), NEW w \in Nat,
           x + y * n + z * (n * n) = u + v * n + w * (n * n)
    PROVE  x = u /\ y = v /\ z = w
<1>1. CASE n = 4
  <2>1. x + 4 * y + 16 * z = u + 4 * v + 16 * w
    BY <1>1
  <2>2. x \in 0..3 /\ y \in 0..3 /\ u \in 0..3 /\ v \in 0..3
    BY <1>1
  <2>3. z = w
    BY <2>1, <2>2
  <2> QED
    BY <2>1, <2>2, <2>3
<1>2. CASE n = 8
  <2>1. x + 8 * y + 64 * z = u + 8 * v + 64 * w
    BY <1>2
  <2>2. x \in 0..7 /\ y \in 0..7 /\ u \in 0..7 /\ v \in 0..7
    BY <1>2
  <2>3. z = w
    BY <2>1, <2>2
  <2> QED
    BY <2>1, <2>2, <2>3
<1> QED
  BY <1>1, <1>2

(* Two rows have one key only if they are in one cell along each axis.     *)
THEOREM KeysTellCells ==
    ASSUME NEW g, CellCount(g.cell_count), g.size \in [Axis -> Nat \ {0}],
           NEW p, p.at \in [Axis -> Int], NEW q, q.at \in [Axis -> Int],
           XyzToKey(g, p) = XyzToKey(g, q)
    PROVE  \A axis \in Axis : CellAt(g, p)[axis] = CellAt(g, q)[axis]
<1> DEFINE a == CellAt(g, p)
           b == CellAt(g, q)
           c == g.cell_count
<1>1. /\ a[1] \in 0..(c[1] - 1) /\ a[2] \in 0..(c[1] - 1) /\ a[3] \in 0..(c[3] - 1)
      /\ b[1] \in 0..(c[1] - 1) /\ b[2] \in 0..(c[1] - 1) /\ b[3] \in 0..(c[3] - 1)
  BY CellAtType DEF CellCount, Axis
<1>2. c[1] \in 3..8 /\ c[3] \in 3..8 /\ CellCount(c)
  BY DEF CellCount, Axis
<1>3. a[1] + a[2] * Power(Shift(c)) + a[3] * Power(2 * Shift(c))
        = b[1] + b[2] * Power(Shift(c)) + b[3] * Power(2 * Shift(c))
  BY DEF XyzToKey
<1> DEFINE n == Power(Shift(c))
<1> HIDE DEF a, b, c
<1>4. n \in {4, 8} /\ c[1] <= n /\ Power(2 * Shift(c)) = n * n
  BY <1>2, Shifts
<1> HIDE DEF n
<1>5. a[1] + a[2] * n + a[3] * (n * n) = b[1] + b[2] * n + b[3] * (n * n)
  BY <1>3, <1>4 DEF n
<1>6. /\ a[1] \in 0..(n - 1) /\ a[2] \in 0..(n - 1) /\ a[3] \in Nat
      /\ b[1] \in 0..(n - 1) /\ b[2] \in 0..(n - 1) /\ b[3] \in Nat
  BY <1>1, <1>2, <1>4
<1>7. PICK x, y, z, u, v, w : /\ x = a[1] /\ y = a[2] /\ z = a[3]
                              /\ u = b[1] /\ v = b[2] /\ w = b[3]
  OBVIOUS
<1>8. a[1] = b[1] /\ a[2] = b[2] /\ a[3] = b[3]
  <2>1. x + y * n + z * (n * n) = u + v * n + w * (n * n)
    BY <1>5, <1>7
  <2>2. /\ x \in 0..(n - 1) /\ y \in 0..(n - 1) /\ z \in Nat
        /\ u \in 0..(n - 1) /\ v \in 0..(n - 1) /\ w \in Nat
    BY <1>6, <1>7
  <2>3. x = u /\ y = v /\ z = w
    BY <1>4, <2>1, <2>2, Digits
  <2> QED
    BY <1>7, <2>3
<1>9. \A axis \in Axis : a[axis] = b[axis]
  BY <1>8 DEF Axis
<1> QED
  BY <1>9 DEF a, b

-----------------------------------------------------------------------------
(* Grids                                                                   *)

LEMMA NewGridSound ==
    ASSUME NEW P, NEW size \in [Axis -> Nat \ {0}]
    PROVE  Sound(NewGrid(size), P) /\ RowsOf(NewGrid(size)) = {}
<1> DEFINE g == NewGrid(size)
<1>1. g = [cell_count |-> [a \in Axis |-> 3], size |-> size,
           cells |-> [k \in Keys([a \in Axis |-> 3]) |-> {}]]
  BY DEF NewGrid
<1>2. CellCount([a \in Axis |-> 3])
  BY DEF CellCount, Axis
<1> QED
  BY <1>1, <1>2 DEF Sound, RowsOf

(* Inserting a row changes no other: it is added to its cell, or it is     *)
(* left to the pending points and the grid is as it was (_insert).         *)
THEOREM InsertKeepsCells ==
    ASSUME NEW P, Rows(P), NEW g, Sound(g, P), NEW p \in P, NEW close
    PROVE  /\ Sound(Insert(g, p, close), P)
           /\ RowsOf(Insert(g, p, close)) =
                RowsOf(g) \cup IF KeepsRow(g, p, close) THEN {p} ELSE {}
           /\ RowsOf(g) = {} => KeepsRow(g, p, close)
<1> DEFINE k == XyzToKey(g, p)
           new == [g EXCEPT !.cells[k] = @ \cup {p}]
<1>1. k \in Keys(g.cell_count)
  BY KeyExists DEF Sound, Rows
<1>2. DOMAIN g.cells = Keys(g.cell_count) /\ g.cells \in [Keys(g.cell_count) -> SUBSET P]
  BY DEF Sound
<1>3. RowsOf(g) = {} => KeepsRow(g, p, close)
  BY <1>1, <1>2 DEF RowsOf, KeepsRow
<1>4. CASE ~ KeepsRow(g, p, close)
  BY <1>3, <1>4 DEF Insert
<1>5. CASE KeepsRow(g, p, close)
  <2>1. Insert(g, p, close) = new
    BY <1>5 DEF Insert
  <2>2. /\ new = [cell_count |-> g.cell_count, size |-> g.size,
                  cells |-> [g.cells EXCEPT ![k] = @ \cup {p}]]
        /\ new.cell_count = g.cell_count /\ new.size = g.size
        /\ new.cells = [g.cells EXCEPT ![k] = @ \cup {p}]
    BY DEF Sound
  <2> HIDE DEF new
  <2>3. \A q : XyzToKey(new, q) = XyzToKey(g, q)
    BY <2>2 DEF XyzToKey, CellAt
  <2>4. new.cells \in [Keys(g.cell_count) -> SUBSET P]
    BY <1>1, <1>2, <2>2
  <2>5. \A i \in Keys(g.cell_count) : \A q \in new.cells[i] : XyzToKey(new, q) = i
    <3> TAKE i \in Keys(g.cell_count)
    <3> TAKE q \in new.cells[i]
    <3>1. q \in g.cells[i] \/ (i = k /\ q = p)
      BY <1>2, <2>2
    <3> QED
      BY <2>3, <3>1 DEF Sound
  <2>6. Sound(new, P)
    BY <2>2, <2>4, <2>5 DEF Sound
  <2>7. RowsOf(new) = RowsOf(g) \cup {p}
    <3>1. DOMAIN new.cells = DOMAIN g.cells
      BY <2>2
    <3>2. \A i \in DOMAIN g.cells :
            new.cells[i] = IF i = k THEN g.cells[i] \cup {p} ELSE g.cells[i]
      BY <2>2
    <3> QED
      BY <1>1, <1>2, <3>1, <3>2 DEF RowsOf
  <2> QED
    BY <1>3, <1>5, <2>1, <2>6, <2>7
<1> QED
  BY <1>4, <1>5

(* Balancing a grid that has fewer than 8 cells in a direction loses no    *)
(* row: every row has a cell in the new list, and only one (balance).      *)
THEOREM BalanceKeepsRows ==
    ASSUME NEW P, Rows(P), NEW g, Sound(g, P), g.cell_count[1] < 8, NEW quadtree \in BOOLEAN
    PROVE  /\ Sound(BalanceGrid(g, quadtree), P)
           /\ RowsOf(BalanceGrid(g, quadtree)) = RowsOf(g)
<1> DEFINE count == [a \in Axis |-> IF a = 3 /\ quadtree THEN g.cell_count[a]
                                    ELSE g.cell_count[a] + 1]
           more == OneMoreCell(g, quadtree)
           cells == [k \in Keys(count) |-> {p \in RowsOf(g) : XyzToKey(more, p) = k}]
           new == BalanceGrid(g, quadtree)
<1>1. CellCount(count)
  BY DEF Sound, CellCount, Axis
<1>2. more = [cell_count |-> count, size |-> g.size, cells |-> g.cells]
  BY DEF OneMoreCell, Sound
<1>3. new = [cell_count |-> count, size |-> g.size, cells |-> cells]
  <2>1. more.cell_count = count
    BY <1>2
  <2>2. new = [more EXCEPT !.cells = [k \in Keys(more.cell_count) |->
                                       {p \in RowsOf(g) : XyzToKey(more, p) = k}]]
    BY DEF BalanceGrid
  <2> HIDE DEF more, new, count
  <2>3. new = [more EXCEPT !.cells = cells]
    BY <2>1, <2>2
  <2> HIDE DEF cells
  <2> QED
    BY <1>2, <2>3
<1>4. RowsOf(g) \subseteq P
  BY DEF RowsOf, Sound
<1>5. \A p : XyzToKey(more, p) = XyzToKey(new, p)
  <2> HIDE DEF more, new, count, cells
  <2>1. more.cell_count = new.cell_count /\ more.size = new.size
    BY <1>2, <1>3
  <2> QED
    BY <2>1 DEF XyzToKey, CellAt
<1>6. \A p \in RowsOf(g) : XyzToKey(more, p) \in Keys(count)
  <2>1. more.cell_count = count /\ more.size = g.size /\ g.size \in [Axis -> Nat \ {0}]
    BY <1>2 DEF Sound
  <2> HIDE DEF more, count
  <2> QED
    BY <1>1, <1>4, <2>1, KeyExists DEF Rows
<1> HIDE DEF count, more
<1>7. new.cell_count = count /\ new.size = g.size /\ new.cells = cells
  BY <1>3
<1>8. Sound(new, P)
  <2> HIDE DEF new
  <2>1. cells \in [Keys(count) -> SUBSET P]
    BY <1>4
  <2>2. \A k \in Keys(count) : \A p \in cells[k] : XyzToKey(new, p) = k
    BY <1>5
  <2>3. new = [cell_count |-> new.cell_count, size |-> new.size, cells |-> new.cells]
    BY <1>3, <1>7
  <2> HIDE DEF cells
  <2> QED
    BY <1>1, <1>7, <2>1, <2>2, <2>3 DEF Sound
<1>9. RowsOf(new) = RowsOf(g)
  BY <1>6, <1>7 DEF RowsOf
<1> QED
  BY <1>8, <1>9

-----------------------------------------------------------------------------
(* Children                                                                *)

(* A pending point is in the box of the child it is sent to, whether the   *)
(* node and split_aabb take the box for flat or not: they look at it by    *)
(* different sizes, and in a flat box a point on its top has a child of    *)
(* its own.                                                                *)
THEOREM ChildHoldsPoint ==
    ASSUME NEW box, box.min \in [Axis -> Int], box.half \in [Axis -> Nat],
           NEW min_point_size \in Nat, NEW at \in [Axis -> Int], Holds(box, at)
    PROVE  LET index == XyzToChildIndex(at, Centre(box, min_point_size))
           IN  index \in 0..7 /\ Holds(SplitAabb(box, index), Twice(at))
<1> DEFINE c == Centre(box, min_point_size)
           index == XyzToChildIndex(at, c)
           flat == IsQuadtree(box.half)
           child == SplitAabb(box, index)
<1>1. \A a \in Axis : /\ box.min[a] \in Int /\ box.half[a] \in Nat /\ at[a] \in Int
                      /\ box.min[a] <= at[a] /\ at[a] <= box.min[a] + 2 * box.half[a]
  BY DEF Holds
<1>2. c[1] = box.min[1] + box.half[1] /\ c[2] = box.min[2] + box.half[2]
  BY DEF Centre, Axis
<1>3. ~ flat => c[3] = box.min[3] + box.half[3]
  <2>1. ASSUME IsQuadtree(AabbSize(box, min_point_size))
        PROVE  flat
    <3>1. \A a \in Axis : AabbSize(box, min_point_size)[a] = AtLeast(2 * box.half[a], min_point_size)
      BY DEF AabbSize
    <3>2. 2 * AtLeast(2 * box.half[3], min_point_size)
            < Least(AtLeast(2 * box.half[1], min_point_size), AtLeast(2 * box.half[2], min_point_size))
      BY <2>1, <3>1 DEF IsQuadtree, Axis
    <3>3. box.half[1] \in Nat /\ box.half[2] \in Nat /\ box.half[3] \in Nat
      BY <1>1 DEF Axis
    <3> QED
      BY <3>2, <3>3 DEF IsQuadtree, AtLeast, Least
  <2> QED
    BY <2>1 DEF Centre, Axis
<1>4. index = Bit(at[1] >= c[1], 4) + Bit(at[2] >= c[2], 2) + Bit(at[3] >= c[3], 1)
  BY DEF XyzToChildIndex
<1>5. /\ index \in 0..7
      /\ HasBit(index, 4) <=> at[1] >= c[1]
      /\ HasBit(index, 2) <=> at[2] >= c[2]
      /\ HasBit(index, 1) <=> at[3] >= c[3]
  <2> HIDE DEF c, index
  <2> QED
    BY <1>4 DEF Bit, HasBit
<1> HIDE DEF index, c
<1>6. /\ child.min = [a \in Axis |-> 2 * box.min[a]
                        + IF HasBit(index, <<4, 2, 1>>[a]) /\ ~ (a = 3 /\ flat)
                          THEN 2 * box.half[a] ELSE 0]
      /\ child.half = [a \in Axis |-> IF a = 3 /\ flat THEN 2 * box.half[a] ELSE box.half[a]]
  BY DEF SplitAabb
<1>7. \A a \in Axis : Twice(at)[a] = 2 * at[a]
  BY DEF Twice
<1> HIDE DEF child, flat
<1>8. ASSUME NEW a \in {1, 2}
      PROVE  child.min[a] <= 2 * at[a] /\ 2 * at[a] <= child.min[a] + 2 * child.half[a]
  <2>1. /\ child.min[a] = 2 * box.min[a] + IF at[a] >= c[a] THEN 2 * box.half[a] ELSE 0
        /\ child.half[a] = box.half[a] /\ c[a] = box.min[a] + box.half[a]
    BY <1>2, <1>5, <1>6 DEF Axis
  <2> QED
    BY <1>1, <2>1 DEF Axis
<1>9. child.min[3] <= 2 * at[3] /\ 2 * at[3] <= child.min[3] + 2 * child.half[3]
  <2>1. CASE flat
    <3>1. child.min[3] = 2 * box.min[3] + 0 /\ child.half[3] = 2 * box.half[3]
      BY <1>6, <2>1 DEF Axis
    <3> QED
      BY <1>1, <3>1 DEF Axis
  <2>2. CASE ~ flat
    <3>1. /\ child.min[3] = 2 * box.min[3] + IF at[3] >= c[3] THEN 2 * box.half[3] ELSE 0
          /\ child.half[3] = box.half[3] /\ c[3] = box.min[3] + box.half[3]
      BY <1>3, <1>5, <1>6, <2>2 DEF Axis
    <3> QED
      BY <1>1, <3>1 DEF Axis
  <2> QED
    BY <2>1, <2>2
<1>10. Holds(child, Twice(at))
  BY <1>7, <1>8, <1>9 DEF Holds, Axis
<1> QED
  BY <1>5, <1>10 DEF index, c, child
=============================================================================
