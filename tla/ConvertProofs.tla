--------------------------- MODULE ConvertProofs ---------------------------
(***************************************************************************)
(* The names of the nodes tell which of them may still get points, and     *)
(* their files.  Convert is type correct and its manager knows exactly     *)
(* which workers wait, and at the end every worker has its shutdown        *)
(* message: for every set of workers, points, portions and limits, and     *)
(* whichever commands raise.                                               *)
(***************************************************************************)
EXTENDS ConvertProperties, FiniteSetTheorems, SequenceTheorems, TLAPS

-----------------------------------------------------------------------------
(* Names                                                                   *)

(* An ancestor's digits are the first digits of the name.                  *)
LEMMA AncestorDigits ==
    ASSUME NEW n \in NodeName, NEW a \in NodeName
    PROVE  IsAncestor(n, a) <=>
             /\ Len(a) <= Len(n)
             /\ \A i \in 1..Len(a) : n[i] = a[i]
<1> USE DEF NodeName
<1>1. ASSUME Len(a) <= Len(n)
      PROVE  /\ Len(SubSeq(n, 1, Len(a))) = Len(a)
             /\ SubSeq(n, 1, Len(a)) \in Seq(Digit)
             /\ \A i \in 1..Len(a) : SubSeq(n, 1, Len(a))[i] = n[i]
  BY <1>1, SubSeqProperties
<1>2. ASSUME Len(a) <= Len(n), \A i \in 1..Len(a) : n[i] = a[i]
      PROVE  SubSeq(n, 1, Len(a)) = a
  BY <1>1, <1>2, SeqEqual
<1> QED
  BY <1>1, <1>2 DEF IsAncestor

(* is_ancestor orders the names: reflexive, as its docstring says ("the    *)
(* tile 22 is ancestor of 22"), transitive and antisymmetric.              *)
THEOREM AncestorOrder ==
    ASSUME NEW a \in NodeName, NEW b \in NodeName, NEW c \in NodeName
    PROVE  /\ IsAncestor(a, a)
           /\ IsAncestor(c, b) /\ IsAncestor(b, a) => IsAncestor(c, a)
           /\ IsAncestor(a, b) /\ IsAncestor(b, a) => a = b
<1> USE DEF NodeName
<1>1. IsAncestor(a, a)
  BY AncestorDigits
<1>2. ASSUME IsAncestor(c, b), IsAncestor(b, a) PROVE IsAncestor(c, a)
  <2>1. Len(a) <= Len(b) /\ Len(b) <= Len(c)
    BY <1>2, AncestorDigits
  <2>2. \A i \in 1..Len(a) : c[i] = a[i]
    BY <1>2, <2>1, AncestorDigits
  <2> QED
    BY <2>1, <2>2, AncestorDigits
<1>3. ASSUME IsAncestor(a, b), IsAncestor(b, a) PROVE a = b
  <2>1. Len(a) = Len(b) /\ \A i \in 1..Len(a) : a[i] = b[i]
    BY <1>3, AncestorDigits
  <2> QED
    BY <2>1, SeqEqual
<1> QED
  BY <1>1, <1>2, <1>3

(* Of two ancestors of one name, one is an ancestor of the other: the      *)
(* tiles above a name form a chain.                                        *)
THEOREM AncestorsComparable ==
    ASSUME NEW a \in NodeName, NEW b \in NodeName, NEW c \in NodeName,
           IsAncestor(c, a), IsAncestor(c, b)
    PROVE  IsAncestor(a, b) \/ IsAncestor(b, a)
<1> USE DEF NodeName
<1>1. CASE Len(a) <= Len(b)
  <2>1. \A i \in 1..Len(a) : b[i] = a[i]
    BY <1>1, AncestorDigits
  <2> QED
    BY <1>1, <2>1, AncestorDigits
<1>2. CASE Len(b) <= Len(a)
  <2>1. \A i \in 1..Len(b) : a[i] = b[i]
    BY <1>2, AncestorDigits
  <2> QED
    BY <1>2, <2>1, AncestorDigits
<1> QED
  BY <1>1, <1>2

(* is_ancestor_in_list's test for the root is the general rule: the empty  *)
(* name is an ancestor of every name.                                      *)
LEMMA RootIsAncestor ==
    ASSUME NEW n \in NodeName
    PROVE  IsAncestor(n, Root)
<1>1. Root \in NodeName /\ Len(Root) = 0 /\ Len(n) \in Nat
  BY EmptySeq, LenProperties DEF Root, NodeName
<1>2. Len(Root) <= Len(n) /\ \A i \in 1..Len(Root) : n[i] = Root[i]
  BY <1>1
<1> QED
  BY <1>1, <1>2, AncestorDigits

(* What may be written stays writable while the manager forwards points:   *)
(* when no input or active node is above a name, no node below one of them *)
(* is above it either, so the tasks an active node creates later (names    *)
(* that extend its own) never reach the written name.                      *)
THEOREM WrittenIsOutOfReach ==
    ASSUME NEW n \in NodeName, NEW f \in NodeName,
           NEW inputs \in SUBSET NodeName, NEW active \in SUBSET NodeName,
           CanPntsBeWritten(n, f, inputs, active),
           NEW x \in inputs \cup active, NEW y \in NodeName, IsAncestor(y, x)
    PROVE  ~ IsAncestor(n, y)
<1>1. ~ IsAncestor(n, x)
  BY DEF CanPntsBeWritten, IsAncestorInList
<1>2. x \in NodeName
  OBVIOUS
<1> QED
  BY <1>1, <1>2, AncestorOrder

-----------------------------------------------------------------------------
(* Division by the 8 digits of a folder.                                   *)
LEMMA DivMod8 ==
    ASSUME NEW k \in Nat
    PROVE  /\ k \div 8 \in Nat
           /\ k % 8 \in 0..7
           /\ k = 8 * (k \div 8) + (k % 8)
           /\ (8 * k) \div 8 = k
OBVIOUS

(* The length of a name, from the number of its folders and the number of  *)
(* digits in its file name.                                                *)
LEMMA PathLength ==
    ASSUME NEW len \in Nat
    PROVE  /\ FileDigits(len) \in Nat /\ FileDigits(len) <= len
           /\ (len - FileDigits(len)) \div SplitLen \in Nat
           /\ len = SplitLen * ((len - FileDigits(len)) \div SplitLen) + FileDigits(len)
<1>1. CASE len = 0
  BY <1>1 DEF FileDigits, SplitLen
<1>2. CASE len > 0
  <2> DEFINE q == (len - 1) \div 8
  <2>0. len - 1 \in Nat
    BY <1>2
  <2>1. q \in Nat /\ len - 1 = 8 * q + ((len - 1) % 8) /\ (len - 1) % 8 \in 0..7
    BY <2>0, DivMod8
  <2>2. FileDigits(len) = ((len - 1) % 8) + 1
    BY <1>2 DEF FileDigits, SplitLen
  <2>3. len - FileDigits(len) = 8 * q
    BY <2>1, <2>2
  <2>4. (8 * q) \div 8 = q
    BY <2>1, DivMod8
  <2> QED
    BY <2>1, <2>2, <2>3, <2>4 DEF SplitLen
<1> QED
  BY <1>1, <1>2

(* node_name_to_path gives two names two different files, so no tile and   *)
(* no evicted node overwrites another's: the folders give back the leading *)
(* groups of digits, the file name the rest.                               *)
THEOREM NodePathInjective ==
    ASSUME NEW a \in NodeName, NEW b \in NodeName, NodePath(a) = NodePath(b)
    PROVE  a = b
<1> DEFINE Tail8(n) == FileDigits(Len(n))
           Folders(n) == (Len(n) - Tail8(n)) \div SplitLen
<1>1. ASSUME NEW n \in NodeName
      PROVE  /\ Len(n) \in Nat /\ Tail8(n) \in Nat /\ Folders(n) \in Nat
             /\ Len(n) = 8 * Folders(n) + Tail8(n)
  <2>1. Len(n) \in Nat
    BY LenProperties DEF NodeName
  <2> QED
    BY <2>1, PathLength DEF SplitLen
<1>2. ASSUME NEW n \in NodeName
      PROVE  /\ NodePath(n).folders = [i \in 1..Folders(n) |-> SubSeq(n, (i - 1) * 8 + 1, i * 8)]
             /\ NodePath(n).file = SubSeq(n, 8 * Folders(n) + 1, Len(n))
  <2>1. Len(n) - Tail8(n) = 8 * Folders(n)
    <3> HIDE DEF Tail8, Folders
    <3> QED
      BY <1>1
  <2> QED
    BY <2>1 DEF NodePath, SplitLen
<1> HIDE DEF Tail8, Folders
<1>3. Folders(a) = Folders(b)
  <2>1. 1..Folders(a) = 1..Folders(b)
    BY <1>2
  <2> QED
    BY <1>1, <2>1
<1>4. ASSUME NEW n \in NodeName
      PROVE  /\ Len(NodePath(n).file) = Tail8(n)
             /\ \A i \in 1..Tail8(n) : NodePath(n).file[i] = n[8 * Folders(n) + i]
  <2> DEFINE m == 8 * Folders(n) + 1
  <2>0. PICK f, t, l \in Nat : f = Folders(n) /\ t = Tail8(n) /\ l = Len(n) /\ l = 8 * f + t
    BY <1>1
  <2>1. m \in Int /\ m >= 1 /\ Len(n) \in Int /\ Len(n) - m + 1 = Tail8(n) /\ Tail8(n) \in Nat
    BY <2>0
  <2>2. \A i \in 1..Tail8(n) : m + i - 1 = 8 * Folders(n) + i
    BY <2>0
  <2> HIDE DEF m
  <2>3. \A i \in m..Len(n) : n[i] \in Digit
    BY <1>1, <2>1, ElementOfSeq DEF NodeName
  <2>4. /\ Len(SubSeq(n, m, Len(n))) = IF m <= Len(n) THEN Len(n) - m + 1 ELSE 0
        /\ \A i \in 1..(Len(n) - m + 1) : SubSeq(n, m, Len(n))[i] = n[m + i - 1]
    BY <2>1, <2>3, SubSeqProperties
  <2>5. NodePath(n).file = SubSeq(n, m, Len(n))
    BY <1>2 DEF m
  <2>6. Len(NodePath(n).file) = Tail8(n)
    BY <2>1, <2>4, <2>5
  <2>7. \A i \in 1..Tail8(n) : NodePath(n).file[i] = n[m + i - 1]
    BY <2>1, <2>4, <2>5
  <2> QED
    BY <2>2, <2>6, <2>7
<1>5. Len(a) = Len(b) /\ Tail8(a) = Tail8(b)
  <2>1. Tail8(a) = Tail8(b)
    BY <1>4
  <2> QED
    BY <1>1, <1>3, <2>1
<1>6. ASSUME NEW i \in 1..Len(a) PROVE a[i] = b[i]
  <2>0. i \in Nat /\ i >= 1 /\ i - 1 \in Nat
    BY <1>1
  <2>1. CASE i > 8 * Folders(a)
    <3> DEFINE k == i - 8 * Folders(a)
    <3>1. k \in 1..Tail8(a) /\ 8 * Folders(a) + k = i
      BY <1>1, <2>0, <2>1
    <3> HIDE DEF k
    <3>2. NodePath(a).file[k] = a[i]
      BY <1>4, <3>1
    <3>3. NodePath(b).file[k] = b[i]
      BY <1>3, <1>4, <1>5, <3>1
    <3> QED
      BY <3>2, <3>3
  <2>2. CASE i <= 8 * Folders(a)
    <3> DEFINE j == (i - 1) \div 8 + 1
               r == ((i - 1) % 8) + 1
    <3>1. j \in Nat /\ j >= 1 /\ r \in 1..8 /\ i = (j - 1) * 8 + r
      <4>1. (i - 1) \div 8 \in Nat /\ (i - 1) % 8 \in 0..7
            /\ i - 1 = 8 * ((i - 1) \div 8) + ((i - 1) % 8)
        BY <2>0, DivMod8
      <4> QED
        BY <2>0, <4>1
    <3> HIDE DEF j, r
    <3>2. j \in 1..Folders(a)
      BY <1>1, <2>0, <2>2, <3>1
    <3>3. SubSeq(a, (j - 1) * 8 + 1, j * 8) = SubSeq(b, (j - 1) * 8 + 1, j * 8)
      <4>1. NodePath(a).folders[j] = SubSeq(a, (j - 1) * 8 + 1, j * 8)
        BY <1>2, <3>2
      <4>2. NodePath(b).folders[j] = SubSeq(b, (j - 1) * 8 + 1, j * 8)
        BY <1>2, <1>3, <3>2
      <4> QED
        BY <4>1, <4>2
    <3>4. ASSUME NEW n \in NodeName, j <= Folders(n)
          PROVE  SubSeq(n, (j - 1) * 8 + 1, j * 8)[r] = n[i]
      <4> DEFINE lo == (j - 1) * 8 + 1
                 hi == j * 8
      <4>0. PICK f, t, l \in Nat : f = Folders(n) /\ t = Tail8(n) /\ l = Len(n) /\ l = 8 * f + t
        BY <1>1
      <4>1. lo \in Int /\ hi \in Int /\ lo >= 1 /\ hi <= Len(n) /\ hi - lo + 1 = 8
            /\ lo + r - 1 = i
        BY <3>1, <3>4, <4>0
      <4> HIDE DEF lo, hi
      <4>2. \A k \in lo..hi : n[k] \in Digit
        <5>1. n \in Seq(Digit) /\ \A k \in lo..hi : k \in 1..Len(n)
          BY <1>1, <4>1 DEF NodeName
        <5> QED
          BY <5>1, ElementOfSeq
      <4>3. \A k \in 1..(hi - lo + 1) : SubSeq(n, lo, hi)[k] = n[lo + k - 1]
        BY <4>1, <4>2, SubSeqProperties
      <4>4. SubSeq(n, lo, hi)[r] = n[i]
        BY <3>1, <4>1, <4>3
      <4> QED
        BY <4>4 DEF lo, hi
    <3>5. j <= Folders(a) /\ j <= Folders(b)
      BY <1>1, <1>3, <3>2
    <3> QED
      BY <3>3, <3>4, <3>5
  <2> QED
    BY <1>1, <2>0, <2>1, <2>2
<1> QED
  BY <1>5, <1>6, SeqEqual DEF NodeName

-----------------------------------------------------------------------------
(* The sets of the commands and messages: IsCommand and IsMessage of their *)
(* members, and a channel is a sequence of them.                           *)

Jobs == UNION {[nodes -> Job] : nodes \in SUBSET TaskName}
WorkCommand ==
    [command : {"READ_FILE"}, portion : 1..Len(Portions)]
    \cup [command : {"PROCESS_JOBS"}, jobs : Jobs]
    \cup [command : {"WRITE_PNTS"}, name : TaskName, data : Chunk]
Command == WorkCommand \cup {Shutdown}

(* The messages of a command, and those that end it.                       *)
WorkMessage ==
    {[type |-> "READ"]}
    \cup [type : {"NEW_TASK"}, name : TaskName, points : Chunk]
    \cup [type : {"PROCESSED"}, name : TaskName, total : Int, data : Chunk]
    \cup [type : {"PNTS_WRITTEN"}, count : Nat]
LastMessage == {Idle, Error}
Message == WorkMessage \cup LastMessage \cup {Register, Halted}

(* A message is told by its type.                                          *)
LEMMA MessageFields ==
    ASSUME NEW m \in Message
    PROVE  /\ m.type = "NEW_TASK" => m.name \in TaskName /\ m.points \in Chunk
           /\ m.type = "PROCESSED" => m.name \in TaskName /\ m.total \in Int /\ m.data \in Chunk
           /\ m.type = "PNTS_WRITTEN" => m.count \in Nat
           /\ m.type = "REGISTER" => m = Register
           /\ m.type = "IDLE" => m = Idle
           /\ m.type = "ERROR" => m = Error
           /\ m \in WorkMessage <=> m.type \in {"READ", "NEW_TASK", "PROCESSED", "PNTS_WRITTEN"}
BY DEF Message, WorkMessage, LastMessage, Register, Idle, Error, Halted

LEMMA CommandFields ==
    ASSUME NEW c \in Command
    PROVE  /\ c.command = "READ_FILE" => c.portion \in 1..Len(Portions)
           /\ c.command = "PROCESS_JOBS" => c.jobs \in Jobs
           /\ c.command = "WRITE_PNTS" => c.name \in TaskName /\ c.data \in Chunk
           /\ c \in WorkCommand <=> c.command \in {"READ_FILE", "PROCESS_JOBS", "WRITE_PNTS"}
BY DEF Command, WorkCommand, Shutdown

LEMMA MessagesAreTyped ==
    /\ \A m \in Message : IsMessage(m)
    /\ \A c \in Command : IsCommand(c)
<1>1. \A m \in Message : IsMessage(m)
  BY DEF Message, WorkMessage, LastMessage, IsMessage
<1>2. \A jobs \in Jobs : DOMAIN jobs \subseteq TaskName /\ jobs \in [DOMAIN jobs -> Job]
  BY DEF Jobs
<1>3. \A c \in Command : IsCommand(c)
  BY <1>2 DEF Command, WorkCommand, IsCommand
<1> QED
  BY <1>1, <1>3

-----------------------------------------------------------------------------
(* The constants                                                           *)

LEMMA ChunkFacts ==
    /\ \A chunk \in Chunk : IsFiniteSet(chunk) /\ Cardinality(chunk) \in Nat
    /\ Len(Portions) \in Nat
    /\ \A i \in 1..Len(Portions) : /\ Portions[i] \in Seq(Chunk)
                                   /\ PointsOf(Portions[i]) \in Chunk
<1>1. \A chunk \in Chunk : IsFiniteSet(chunk) /\ Cardinality(chunk) \in Nat
  BY PathAssumption, FS_Subset, FS_CardinalityType DEF Chunk
<1>2. Len(Portions) \in Nat
  BY PortionAssumption
<1>3. ASSUME NEW i \in 1..Len(Portions)
      PROVE  Portions[i] \in Seq(Chunk) /\ PointsOf(Portions[i]) \in Chunk
  <2>1. Portions[i] \in Seq((SUBSET Point) \ {{}})
    BY PortionAssumption
  <2>2. Portions[i] \in Seq(Chunk)
    BY <2>1, SeqMonotonic DEF Chunk
  <2>3. \A k \in 1..Len(Portions[i]) : Portions[i][k] \in Chunk
    BY <2>2, ElementOfSeq
  <2> QED
    BY <2>2, <2>3 DEF PointsOf, ChunksOf, Chunk
<1> QED
  BY <1>1, <1>2, <1>3

LEMMA TaskNameType == Root \in TaskName /\ \A n \in TaskName : n \in NodeName /\ Len(n) \in Nat
<1>1. Root \in TaskName /\ Root \in NodeName
  BY EmptySeq DEF TaskName, Root, NodeName
<1>2. ASSUME NEW p \in Point, NEW k \in 1..Len(Path[p])
      PROVE  SubSeq(Path[p], 1, k) \in NodeName
  <2>1. Path[p] \in Seq(Digit)
    BY PathAssumption DEF NodeName
  <2>2. \A i \in 1..k : Path[p][i] \in Digit
    BY <2>1, ElementOfSeq
  <2> QED
    BY <2>2, SubSeqProperties DEF NodeName
<1>3. ASSUME NEW n \in TaskName, n # Root PROVE n \in NodeName
  <2>1. PICK p \in Point : n \in Prefixes(Path[p])
    BY <1>3 DEF TaskName
  <2>2. PICK k \in 1..Len(Path[p]) : n = SubSeq(Path[p], 1, k)
    BY <2>1 DEF Prefixes
  <2> QED
    BY <2>2, <1>2
<1>4. \A n \in NodeName : Len(n) \in Nat
  BY LenProperties DEF NodeName
<1> QED
  BY <1>1, <1>3, <1>4

-----------------------------------------------------------------------------
(* What a worker answers                                                   *)

LEMMA ReadMessagesType ==
    ASSUME NEW i \in 1..Len(Portions)
    PROVE  ReadMessages(i) \in Seq(WorkMessage)
<1>1. Portions[i] \in Seq(Chunk)
  BY ChunkFacts
<1> DEFINE tasks == [k \in 1..Len(Portions[i]) |-> NewTask(Root, Portions[i][k])]
<1>2. \A k \in 1..Len(Portions[i]) : NewTask(Root, Portions[i][k]) \in WorkMessage
  BY <1>1, ElementOfSeq, TaskNameType DEF NewTask, WorkMessage
<1>3. Len(Portions[i]) \in Nat
  BY <1>1, LenProperties
<1>4. tasks \in Seq(WorkMessage)
  BY <1>2, <1>3
<1>5. <<[type |-> "READ"]>> \in Seq(WorkMessage)
  BY DEF WorkMessage
<1> QED
  BY <1>4, <1>5, ConcatProperties DEF ReadMessages

LEMMA TargetType ==
    ASSUME NEW n \in TaskName, NEW p \in Point, CanForward(n, p)
    PROVE  TargetOf(n, p) \in TaskName
<1>1. Len(n) \in Nat
  BY TaskNameType
<1>2. ForwardLength(Len(n)) \in Nat \ {0}
  BY <1>1 DEF ForwardLength, InferDepth
<1>3. Path[p] \in Seq(Digit)
  BY PathAssumption DEF NodeName
<1>4. Len(Path[p]) \in Nat
  BY <1>3, LenProperties
<1>5. ForwardLength(Len(n)) \in 1..Len(Path[p])
  BY <1>2, <1>4 DEF CanForward
<1> QED
  BY <1>5 DEF TargetOf, TaskName, Prefixes

(* An order of a finite set is a sequence of its members.                  *)
LEMMA OrderType ==
    ASSUME NEW S, IsFiniteSet(S), NEW order \in Orders(S)
    PROVE  /\ Cardinality(S) \in Nat
           /\ order \in [1..Cardinality(S) -> S]
           /\ DOMAIN order = 1..Cardinality(S)
BY FS_CardinalityType DEF Orders

LEMMA FlushType ==
    ASSUME NEW n \in TaskName, NEW job \in Job, NEW flush \in Flushes(n, job)
    PROVE  /\ Cardinality(job.tasks) \in Nat
           /\ DOMAIN flush = 1..Cardinality(job.tasks)
           /\ \A i \in DOMAIN flush : /\ flush[i] \in Chunk
                                      /\ \A p \in flush[i] : CanForward(n, p)
           /\ JobPoints(job) \in Chunk
           /\ Forwarded(flush) \in Chunk
           /\ Total(job, flush) \in Int
<1>1. job.tasks \in SUBSET Chunk /\ job.node \in Chunk
  BY DEF Job
<1>2. IsFiniteSet(SUBSET Point)
  BY PathAssumption, FS_SUBSET
<1>3. Cardinality(job.tasks) \in Nat
  BY <1>1, <1>2, FS_Subset, FS_CardinalityType DEF Chunk
<1>4. JobPoints(job) \in Chunk /\ UNION job.tasks \in Chunk
  BY <1>1 DEF JobPoints, Chunk
<1>5. flush \in [1..Cardinality(job.tasks) -> SUBSET {p \in JobPoints(job) : CanForward(n, p)}]
  BY DEF Flushes
<1>6. DOMAIN flush = 1..Cardinality(job.tasks)
  BY <1>5
<1>7. ASSUME NEW i \in DOMAIN flush
      PROVE  flush[i] \in Chunk /\ \A p \in flush[i] : CanForward(n, p)
  <2>1. flush[i] \in SUBSET {p \in JobPoints(job) : CanForward(n, p)}
    BY <1>5
  <2> QED
    BY <2>1, <1>4 DEF Chunk
<1>8. Forwarded(flush) \in Chunk
  BY <1>7 DEF Forwarded, Chunk
<1>9. Total(job, flush) \in Int
  BY <1>4, <1>8, ChunkFacts DEF Total
<1> QED
  BY <1>3, <1>4, <1>6, <1>7, <1>8, <1>9

(* The values of a function on a finite set are a finite set.              *)
LEMMA FiniteImage ==
    ASSUME NEW S, IsFiniteSet(S), NEW f, f \in [S -> {f[x] : x \in S}]
    PROVE  IsFiniteSet({f[x] : x \in S})
<1>1. f \in Surjection(S, {f[x] : x \in S})
  BY DEF Surjection
<1> QED
  BY <1>1, FS_Surjection

(* Pairs of members of two finite sets are a finite set.                   *)
LEMMA FinitePairs ==
    ASSUME NEW S, NEW T, IsFiniteSet(S), IsFiniteSet(T),
           NEW U, \A u \in U : \E s \in S, t \in T : u = <<s, t>>
    PROVE  IsFiniteSet(U)
<1>1. IsFiniteSet(S \X T)
  BY FS_Product
<1>2. U \in SUBSET (S \X T)
  OBVIOUS
<1> QED
  BY <1>1, <1>2, FS_Subset

(* The flushes and targets of NewTasks.                                    *)
Targets(n, flush) == UNION {{<<i, TargetOf(n, p)>> : p \in flush[i]} : i \in DOMAIN flush}

LEMMA TargetsType ==
    ASSUME NEW n \in TaskName, NEW job \in Job, NEW flush \in Flushes(n, job)
    PROVE  /\ IsFiniteSet(Targets(n, flush))
           /\ \A t \in Targets(n, flush) : t[1] \in DOMAIN flush /\ t[2] \in TaskName
<1>1. ASSUME NEW t \in Targets(n, flush)
      PROVE  \E i \in DOMAIN flush, p \in Point : CanForward(n, p) /\ t = <<i, TargetOf(n, p)>>
  <2>1. PICK i \in DOMAIN flush : t \in {<<i, TargetOf(n, p)>> : p \in flush[i]}
    BY DEF Targets
  <2>2. PICK p \in flush[i] : t = <<i, TargetOf(n, p)>>
    BY <2>1
  <2>3. p \in Point /\ CanForward(n, p)
    BY FlushType DEF Chunk
  <2> QED
    BY <2>2, <2>3
<1>2. IsFiniteSet(Targets(n, flush))
  <2> DEFINE target == [p \in Point |-> TargetOf(n, p)]
             names == {target[p] : p \in Point}
  <2>1. IsFiniteSet(DOMAIN flush) /\ IsFiniteSet(Point)
    BY FlushType, FS_Interval, PathAssumption
  <2>2. target \in [Point -> names] /\ \A p \in Point : TargetOf(n, p) \in names
    OBVIOUS
  <2> HIDE DEF target
  <2>3. IsFiniteSet(names)
    BY <2>1, <2>2, FiniteImage
  <2> HIDE DEF names
  <2>4. \A t \in Targets(n, flush) : \E i \in DOMAIN flush, name \in names : t = <<i, name>>
    BY <1>1, <2>2
  <2> QED
    BY <2>1, <2>3, <2>4, FinitePairs
<1> QED
  BY <1>1, <1>2, TargetType

LEMMA NewTasksType ==
    ASSUME NEW n \in TaskName, NEW job \in Job, NEW flush \in Flushes(n, job),
           NEW messages \in NewTasks(n, flush)
    PROVE  messages \in Seq(WorkMessage)
<1> DEFINE targets == Targets(n, flush)
           task(i, name) == NewTask(name, {p \in flush[i] : TargetOf(n, p) = name})
<1>6. PICK order \in Orders(targets) :
        messages = [k \in DOMAIN order |-> task(order[k][1], order[k][2])]
  BY DEF NewTasks, Targets
<1> HIDE DEF targets
<1>7. /\ Cardinality(targets) \in Nat
      /\ order \in [1..Cardinality(targets) -> targets]
      /\ DOMAIN order = 1..Cardinality(targets)
  BY <1>6, OrderType, TargetsType DEF targets
<1>8. ASSUME NEW k \in 1..Cardinality(targets)
      PROVE  task(order[k][1], order[k][2]) \in WorkMessage
  <2>1. order[k] \in targets
    BY <1>7
  <2>2. order[k][1] \in DOMAIN flush /\ order[k][2] \in TaskName
    BY <2>1, TargetsType DEF targets
  <2>3. {p \in flush[order[k][1]] : TargetOf(n, p) = order[k][2]} \in Chunk
    BY <2>2, FlushType DEF Chunk
  <2> QED
    BY <2>2, <2>3 DEF NewTask, WorkMessage
<1> HIDE DEF task
<1> QED
  BY <1>6, <1>7, <1>8

LEMMA ProcessOutputsType ==
    ASSUME NEW n \in TaskName, NEW job \in Job, NEW messages \in ProcessOutputs(n, job)
    PROVE  messages \in Seq(WorkMessage) /\ Len(messages) > 0
<1>1. PICK flush \in Flushes(n, job) : \E tasks \in NewTasks(n, flush) :
        messages = Append(tasks, ProcessedMessage(n, Total(job, flush),
                                                  JobPoints(job) \ Forwarded(flush)))
  BY DEF ProcessOutputs
<1>2. PICK tasks \in NewTasks(n, flush) :
        messages = Append(tasks, ProcessedMessage(n, Total(job, flush),
                                                  JobPoints(job) \ Forwarded(flush)))
  BY <1>1
<1>3. tasks \in Seq(WorkMessage)
  BY NewTasksType
<1>4. JobPoints(job) \ Forwarded(flush) \in Chunk /\ Total(job, flush) \in Int
  BY FlushType DEF Chunk
<1>5. ProcessedMessage(n, Total(job, flush), JobPoints(job) \ Forwarded(flush)) \in WorkMessage
  BY <1>4 DEF ProcessedMessage, WorkMessage
<1> QED
  BY <1>2, <1>3, <1>5, AppendProperties

-----------------------------------------------------------------------------
(* Types                                                                   *)

TilerType ==
    /\ point_cloud_file_parts \in 0..Len(Portions)
    /\ number_of_reading_jobs \in Int /\ number_of_writing_jobs \in Int
    /\ points_in_progress \in Int /\ processed_points \in Int /\ points_in_pnts \in Nat
    /\ node_to_process \in [TaskName -> SUBSET Chunk]
    /\ processing_nodes \subseteq TaskName
    /\ waiting_writing_nodes \subseteq TaskName
    /\ pnts_to_writing \subseteq TaskName
    /\ node_store \in [TaskName -> Chunk]

ManagerType ==
    /\ phase \in {"receive", "dispatch", "shutdown", "join", "done"}
    /\ outcome \in {"running", "ok", "bad count", "raised"}
    /\ clients \subseteq Worker /\ idle_clients \subseteq Worker

(* TypeOK does not say that a channel is a sequence, nor what else may be  *)
(* in it.                                                                  *)
ChannelType ==
    /\ worker \in [Worker -> {"starting", "running", "halted"}]
    /\ inbox \in [Worker -> Seq(Command)]
    /\ outbox \in [Worker -> Seq(Message)]
    /\ tiles \in [TaskName -> Chunk]

TypeInv == TilerType /\ ManagerType /\ ChannelType

LEMMA TypeInvTypeOK == TypeInv => TypeOK
<1> SUFFICES ASSUME TypeInv PROVE TypeOK
  OBVIOUS
<1>1. ASSUME NEW w \in Worker
      PROVE  /\ \A c \in Commands(w) : IsCommand(c)
             /\ \A m \in Sent(w) : IsMessage(m)
  <2>1. inbox[w] \in Seq(Command) /\ outbox[w] \in Seq(Message)
    BY DEF TypeInv, ChannelType
  <2>2. \A i \in 1..Len(inbox[w]) : inbox[w][i] \in Command
    BY <2>1, ElementOfSeq
  <2>3. \A i \in 1..Len(outbox[w]) : outbox[w][i] \in Message
    BY <2>1, ElementOfSeq
  <2> QED
    BY <2>2, <2>3, MessagesAreTyped DEF Commands, Sent
<1>2. DOMAIN inbox = Worker /\ DOMAIN outbox = Worker
  BY DEF TypeInv, ChannelType
<1> QED
  BY <1>1, <1>2 DEF TypeInv, TilerType, ManagerType, ChannelType, TypeOK

LEMMA InitType == Init => TypeInv
<1> SUFFICES ASSUME Init PROVE TypeInv
  OBVIOUS
<1>1. TilerType
  BY ChunkFacts DEF Init, TilerInit, TilerType, Chunk
<1>2. ManagerType
  BY DEF Init, ManagerType
<1>3. ChannelType
  BY DEF Init, ChannelType, Chunk
<1> QED
  BY <1>1, <1>2, <1>3 DEF TypeInv

LEMMA SendFileToReadType ==
    ASSUME TilerType, CanRead, SendFileToRead
    PROVE  TilerType' /\ ReadCommand(point_cloud_file_parts) \in WorkCommand
<1>1. point_cloud_file_parts \in 1..Len(Portions)
  BY ChunkFacts DEF TilerType, CanRead, CanAddReadingJobs
<1>2. Cardinality(PointsOf(Portions[point_cloud_file_parts])) \in Nat
  BY <1>1, ChunkFacts
<1> QED
  BY <1>1, <1>2, ChunkFacts
     DEF TilerType, SendFileToRead, nodeVars, ReadCommand, WorkCommand

LEMMA SendPointsToProcessType ==
    ASSUME TilerType, NEW batch \in SUBSET TaskName, SendPointsToProcess(batch)
    PROVE  TilerType' /\ ProcessCommand(batch) \in WorkCommand
<1>1. TilerType'
  BY DEF TilerType, SendPointsToProcess, StillWaiting, countVars, Chunk
<1>2. \A n \in batch : [node |-> node_store[n], tasks |-> node_to_process[n]] \in Job
  BY DEF TilerType, Job
<1>3. [n \in batch |-> [node |-> node_store[n], tasks |-> node_to_process[n]]] \in Jobs
  BY <1>2 DEF Jobs
<1> QED
  BY <1>1, <1>3 DEF ProcessCommand, WorkCommand

LEMMA SendPntsToWriteType ==
    ASSUME TilerType, NEW n \in pnts_to_writing, SendPntsToWrite(n)
    PROVE  TilerType' /\ WriteCommand(n) \in WorkCommand
BY DEF TilerType, SendPntsToWrite, StoreWithout, WriteCommand, WorkCommand, Chunk

LEMMA ReadDoneType ==
    ASSUME TilerType, ReadDone
    PROVE  TilerType'
BY DEF TilerType, ReadDone, nodeVars

LEMMA AddTasksToProcessType ==
    ASSUME TilerType, NEW n \in TaskName, NEW points \in Chunk, AddTasksToProcess(n, points)
    PROVE  TilerType'
BY DEF TilerType, AddTasksToProcess, countVars

LEMMA PntsWrittenType ==
    ASSUME TilerType, NEW count \in Nat, PntsWritten(count)
    PROVE  TilerType'
BY DEF TilerType, PntsWritten, nodeVars

LEMMA ProcessedType ==
    ASSUME TilerType, NEW n \in TaskName, NEW total \in Int, NEW data \in Chunk,
           Processed(n, total, data)
    PROVE  TilerType'
<1>1. /\ node_store' \in [TaskName -> Chunk]
      /\ waiting_writing_nodes' \subseteq TaskName /\ pnts_to_writing' \subseteq TaskName
  <2>1. CASE n = Root
    BY <2>1 DEF TilerType, Processed, DispatchProcessedNodes
  <2>2. CASE n # Root
    BY <2>2 DEF TilerType, Processed, DispatchProcessedNodes, Writable
  <2> QED
    BY <2>1, <2>2
<1> QED
  BY <1>1 DEF TilerType, Processed

LEMMA UnchangedTiler == ASSUME TilerType, UNCHANGED stateVars PROVE TilerType'
BY DEF TilerType, stateVars

(* A message taken out of a channel, and what the manager does then.       *)
LEMMA ReceiveType ==
    ASSUME ChannelType, NEW w \in Worker, NEW type, Receive(w, type)
    PROVE  ChannelType' /\ Head(outbox[w]) \in Message /\ Head(outbox[w]).type = type
<1>1. outbox[w] \in Seq(Message) /\ outbox[w] # <<>>
  BY DEF ChannelType, Receive
<1>2. Head(outbox[w]) \in Message /\ Tail(outbox[w]) \in Seq(Message)
  BY <1>1, HeadTailProperties
<1> QED
  BY <1>2 DEF ChannelType, Receive

LEMMA ManagerReceiveType ==
    ASSUME TypeInv, NEW w \in Worker,
           \/ ReceiveRegister(w) \/ ReceiveIdle(w) \/ ReceiveError(w) \/ ReceiveRead(w)
           \/ ReceiveNewTask(w) \/ ReceiveProcessed(w) \/ ReceivePntsWritten(w)
    PROVE  TypeInv'
<1> DEFINE m == Head(outbox[w])
<1> USE DEF TypeInv
<1>1. CASE ReceiveRegister(w)
  <2>1. ChannelType'
    BY <1>1, ReceiveType DEF ReceiveRegister
  <2>2. TilerType'
    BY <1>1, UnchangedTiler DEF ReceiveRegister
  <2>3. ManagerType'
    BY <1>1 DEF ReceiveRegister, Receive, AddIdleClient, EndReceive, Raise, ManagerType
  <2> QED
    BY <2>1, <2>2, <2>3
<1>2. CASE ReceiveIdle(w)
  <2>1. ChannelType'
    BY <1>2, ReceiveType DEF ReceiveIdle
  <2>2. TilerType'
    BY <1>2, UnchangedTiler DEF ReceiveIdle
  <2>3. ManagerType'
    BY <1>2 DEF ReceiveIdle, Receive, AddIdleClient, EndReceive, Raise, ManagerType
  <2> QED
    BY <2>1, <2>2, <2>3
<1>3. CASE ReceiveError(w)
  <2>1. ChannelType'
    BY <1>3, ReceiveType DEF ReceiveError
  <2>2. TilerType'
    BY <1>3, UnchangedTiler DEF ReceiveError
  <2>3. ManagerType'
    BY <1>3 DEF ReceiveError, Raise, ManagerType
  <2> QED
    BY <2>1, <2>2, <2>3
<1>4. CASE ReceiveRead(w)
  <2>1. ChannelType'
    BY <1>4, ReceiveType DEF ReceiveRead
  <2>2. TilerType'
    BY <1>4, ReadDoneType DEF ReceiveRead
  <2>3. ManagerType'
    BY <1>4 DEF ReceiveRead, Receive, EndReceive, ManagerType
  <2> QED
    BY <2>1, <2>2, <2>3
<1>5. CASE ReceiveNewTask(w)
  <2>1. ChannelType' /\ m \in Message /\ m.type = "NEW_TASK"
    BY <1>5, ReceiveType DEF ReceiveNewTask
  <2>2. m.name \in TaskName /\ m.points \in Chunk
    BY <2>1, MessageFields
  <2>3. TilerType'
    BY <1>5, <2>2, UnchangedTiler, AddTasksToProcessType DEF ReceiveNewTask
  <2>4. ManagerType'
    BY <1>5 DEF ReceiveNewTask, Receive, EndReceive, Raise, ManagerType
  <2> QED
    BY <2>1, <2>3, <2>4
<1>6. CASE ReceiveProcessed(w)
  <2>1. ChannelType' /\ m \in Message /\ m.type = "PROCESSED"
    BY <1>6, ReceiveType DEF ReceiveProcessed
  <2>2. m.name \in TaskName /\ m.total \in Int /\ m.data \in Chunk
    BY <2>1, MessageFields
  <2>3. CASE m.name \in processing_nodes
    <3>1. TilerType'
      BY <1>6, <2>2, <2>3, ProcessedType DEF ReceiveProcessed
    <3>2. ManagerType'
      BY <1>6, <2>3 DEF ReceiveProcessed, Receive, EndReceive, ManagerType
    <3> QED
      BY <2>1, <3>1, <3>2
  <2>4. CASE m.name \notin processing_nodes
    <3>1. TilerType'
      BY <1>6, <2>2, <2>4 DEF ReceiveProcessed, TilerType, nodeVars
    <3>2. ManagerType'
      BY <1>6, <2>4 DEF ReceiveProcessed, Raise, ManagerType
    <3> QED
      BY <2>1, <3>1, <3>2
  <2> QED
    BY <2>3, <2>4
<1>7. CASE ReceivePntsWritten(w)
  <2>1. ChannelType' /\ m \in Message /\ m.type = "PNTS_WRITTEN"
    BY <1>7, ReceiveType DEF ReceivePntsWritten
  <2>2. m.count \in Nat
    BY <2>1, MessageFields
  <2>3. TilerType'
    BY <1>7, <2>2, PntsWrittenType DEF ReceivePntsWritten
  <2>4. ManagerType'
    BY <1>7 DEF ReceivePntsWritten, Receive, EndReceive, ManagerType
  <2> QED
    BY <2>1, <2>3, <2>4
<1> QED
  BY <1>1, <1>2, <1>3, <1>4, <1>5, <1>6, <1>7

LEMMA SendToProcessType ==
    ASSUME ManagerType, ChannelType, NEW w \in Worker, NEW command \in WorkCommand,
           SendToProcess(w, command)
    PROVE  ManagerType' /\ ChannelType'
<1>1. Append(inbox[w], command) \in Seq(Command)
  BY AppendProperties DEF ChannelType, Command
<1> QED
  BY <1>1 DEF SendToProcess, IdleWithout, ManagerType, ChannelType

LEMMA ManagerDispatchType ==
    ASSUME TypeInv, NEW w \in Worker, DispatchRead(w) \/ DispatchProcess(w) \/ DispatchWrite(w)
    PROVE  TypeInv'
<1> USE DEF TypeInv
<1>1. CASE DispatchRead(w)
  <2>1. TilerType' /\ ReadCommand(point_cloud_file_parts) \in WorkCommand
    BY <1>1, SendFileToReadType DEF DispatchRead
  <2> QED
    BY <1>1, <2>1, SendToProcessType DEF DispatchRead
<1>2. CASE DispatchProcess(w)
  <2>1. PICK batch \in Batches :
          SendPointsToProcess(batch) /\ SendToProcess(w, ProcessCommand(batch))
    BY <1>2 DEF DispatchProcess
  <2>2. batch \in SUBSET TaskName
    BY DEF Batches, ReadyNodes, InputNodes
  <2>3. TilerType' /\ ProcessCommand(batch) \in WorkCommand
    BY <2>1, <2>2, SendPointsToProcessType
  <2> QED
    BY <2>1, <2>3, SendToProcessType
<1>3. CASE DispatchWrite(w)
  <2>1. PICK n \in pnts_to_writing :
          IF node_store[n] = {}
          THEN /\ Raise
               /\ pnts_to_writing' = pnts_to_writing \ {n}
               /\ UNCHANGED <<clients, idle_clients, workerVars, countVars, node_to_process,
                              processing_nodes, waiting_writing_nodes, node_store>>
          ELSE SendPntsToWrite(n) /\ SendToProcess(w, WriteCommand(n))
    BY <1>3 DEF DispatchWrite
  <2>2. CASE node_store[n] = {}
    <3>1. TilerType'
      BY <2>1, <2>2 DEF TilerType, countVars
    <3>2. ManagerType' /\ ChannelType'
      BY <2>1, <2>2 DEF ManagerType, ChannelType, Raise, workerVars
    <3> QED
      BY <3>1, <3>2
  <2>3. CASE node_store[n] # {}
    <3>1. TilerType' /\ WriteCommand(n) \in WorkCommand
      BY <2>1, <2>3, SendPntsToWriteType
    <3> QED
      BY <2>1, <2>3, <3>1, SendToProcessType
  <2> QED
    BY <2>2, <2>3
<1> QED
  BY <1>1, <1>2, <1>3

LEMMA ManagerEndType ==
    ASSUME TypeInv, EndDispatch \/ ShutdownAllProcesses \/ JoinAllProcesses
    PROVE  TypeInv'
<1> USE DEF TypeInv
<1>1. TilerType'
  BY UnchangedTiler DEF EndDispatch, ShutdownAllProcesses, JoinAllProcesses
<1>2. ManagerType'
  BY DEF EndDispatch, ShutdownAllProcesses, JoinAllProcesses, ManagerType
<1>3. CASE ShutdownAllProcesses
  <2>1. \A w \in Worker : Append(inbox[w], Shutdown) \in Seq(Command)
    BY AppendProperties DEF ChannelType, Command
  <2>2. ChannelType'
    BY <1>3, <2>1 DEF ShutdownAllProcesses, ChannelType
  <2> QED
    BY <1>1, <1>2, <2>2
<1>4. CASE EndDispatch \/ JoinAllProcesses
  <2>1. ChannelType'
    BY <1>4 DEF EndDispatch, JoinAllProcesses, workerVars, ChannelType
  <2> QED
    BY <1>1, <1>2, <2>1
<1> QED
  BY <1>3, <1>4

-----------------------------------------------------------------------------
(* What a worker does with a command: it ends it, its last message telling *)
(* so, or it goes on with the rest of a PROCESS_JOBS command.              *)

Ends(w) ==
    /\ \E work \in Seq(WorkMessage), last \in LastMessage : Send(w, Append(work, last))
    /\ NextCommand(w)
GoesOn(w) ==
    /\ \E work \in Seq(WorkMessage) : Send(w, work)
    /\ \E rest \in WorkCommand : inbox' = [inbox EXCEPT ![w] = [@ EXCEPT ![1] = rest]]

Execute(w) == ExecuteReadFile(w) \/ ExecuteProcessJobs(w) \/ ExecuteWritePnts(w) \/ Fail(w)

LEMMA ExecutingFacts ==
    ASSUME ChannelType, NEW w \in Worker, NEW command, Executing(w, command)
    PROVE  /\ inbox[w] \in Seq(Command) /\ inbox[w] # <<>>
           /\ Head(inbox[w]) = inbox[w][1]
           /\ Head(inbox[w]) \in Command /\ Head(inbox[w]).command = command
           /\ Tail(inbox[w]) \in Seq(Command)
<1>1. inbox[w] \in Seq(Command) /\ inbox[w] # <<>>
  BY DEF ChannelType, Executing
<1>2. Head(inbox[w]) = inbox[w][1]
  BY <1>1
<1> QED
  BY <1>1, <1>2, HeadTailProperties DEF Executing

LEMMA NoMessage == <<>> \in Seq(WorkMessage)
BY EmptySeq

LEMMA ReadFileEffect ==
    ASSUME ChannelType, NEW w \in Worker, ExecuteReadFile(w)
    PROVE  Ends(w) /\ tiles' \in [TaskName -> Chunk]
<1>1. Head(inbox[w]) \in Command /\ Head(inbox[w]).command = "READ_FILE"
  BY ExecutingFacts DEF ExecuteReadFile
<1>2. Head(inbox[w]).portion \in 1..Len(Portions)
  BY <1>1, CommandFields
<1>3. ReadMessages(Head(inbox[w]).portion) \in Seq(WorkMessage)
  BY <1>2, ReadMessagesType
<1> QED
  BY <1>3 DEF ExecuteReadFile, Ends, LastMessage, ChannelType

LEMMA ProcessJobsEffect ==
    ASSUME ChannelType, NEW w \in Worker, ExecuteProcessJobs(w)
    PROVE  (Ends(w) \/ GoesOn(w)) /\ tiles' \in [TaskName -> Chunk]
<1> DEFINE c == Head(inbox[w])
           jobs == c.jobs
           rest(n) == Restrict(jobs, DOMAIN jobs \ {n})
<1>1. /\ c \in Command /\ c.command = "PROCESS_JOBS" /\ c = inbox[w][1]
      /\ inbox[w] \in Seq(Command) /\ inbox[w] # <<>>
  BY ExecutingFacts DEF ExecuteProcessJobs
<1>2. jobs \in Jobs
  BY <1>1, CommandFields
<1>3. PICK n \in NextNodes(jobs) : \E messages \in ProcessOutputs(n, jobs[n]) :
        IF DOMAIN rest(n) = {}
        THEN Send(w, Append(messages, Idle)) /\ NextCommand(w)
        ELSE Send(w, messages) /\ inbox' = [inbox EXCEPT ![w][1].jobs = rest(n)]
  BY DEF ExecuteProcessJobs
<1>4. PICK messages \in ProcessOutputs(n, jobs[n]) :
        IF DOMAIN rest(n) = {}
        THEN Send(w, Append(messages, Idle)) /\ NextCommand(w)
        ELSE Send(w, messages) /\ inbox' = [inbox EXCEPT ![w][1].jobs = rest(n)]
  BY <1>3
<1>5. PICK nodes \in SUBSET TaskName : jobs \in [nodes -> Job]
  BY <1>2 DEF Jobs
<1>6. n \in TaskName /\ jobs[n] \in Job
  BY <1>5 DEF NextNodes
<1>7. messages \in Seq(WorkMessage)
  BY <1>6, ProcessOutputsType
<1>8. CASE DOMAIN rest(n) = {}
  BY <1>4, <1>7, <1>8 DEF Ends, LastMessage, ExecuteProcessJobs, ChannelType
<1>9. CASE DOMAIN rest(n) # {}
  <2>1. rest(n) \in [nodes \ {n} -> Job]
    BY <1>5 DEF Restrict
  <2>2. rest(n) \in Jobs
    BY <2>1 DEF Jobs
  <2>3. [c EXCEPT !.jobs = rest(n)] \in WorkCommand
    <3>1. c \in [command : {"PROCESS_JOBS"}, jobs : Jobs]
      BY <1>1 DEF Command, WorkCommand, Shutdown
    <3> QED
      BY <3>1, <2>2 DEF WorkCommand
  <2>4. inbox' = [inbox EXCEPT ![w] = [@ EXCEPT ![1] = [c EXCEPT !.jobs = rest(n)]]]
    BY <1>1, <1>4, <1>9
  <2> HIDE DEF c, jobs, rest
  <2> QED
    BY <1>4, <1>7, <1>9, <2>3, <2>4 DEF GoesOn, ExecuteProcessJobs, ChannelType
<1> QED
  BY <1>8, <1>9

LEMMA WritePntsEffect ==
    ASSUME ChannelType, NEW w \in Worker, ExecuteWritePnts(w)
    PROVE  Ends(w) /\ tiles' \in [TaskName -> Chunk]
<1> DEFINE c == Head(inbox[w])
           written == [type |-> "PNTS_WRITTEN", count |-> Cardinality(c.data)]
<1>1. c \in Command /\ c.command = "WRITE_PNTS"
  BY ExecutingFacts DEF ExecuteWritePnts
<1>2. c.name \in TaskName /\ c.data \in Chunk
  BY <1>1, CommandFields
<1>3. <<written>> \in Seq(WorkMessage)
  BY <1>2, ChunkFacts DEF WorkMessage
<1>4. <<written, Idle>> = Append(<<written>>, Idle) /\ <<Error>> = Append(<<>>, Error)
  OBVIOUS
<1>5. CASE tiles[c.name] # {}
  BY <1>4, <1>5, NoMessage DEF ExecuteWritePnts, Ends, LastMessage, ChannelType
<1>6. CASE tiles[c.name] = {}
  <2>1. Send(w, Append(<<written>>, Idle)) /\ NextCommand(w)
    BY <1>4, <1>6 DEF ExecuteWritePnts
  <2>2. tiles' \in [TaskName -> Chunk]
    BY <1>2, <1>6 DEF ExecuteWritePnts, ChannelType
  <2> QED
    BY <1>3, <2>1, <2>2 DEF Ends, LastMessage
<1> QED
  BY <1>5, <1>6

(* Part of the messages of a command.                                      *)
LEMMA OutputsType ==
    ASSUME ChannelType, NEW w \in Worker, NEW command \in FaultyCommands, Executing(w, command),
           NEW messages \in Outputs(w), NEW k \in 0..(Len(messages) - 1)
    PROVE  SubSeq(messages, 1, k) \in Seq(WorkMessage)
<1> DEFINE c == Head(inbox[w])
<1>1. c \in Command /\ c.command \in {"READ_FILE", "PROCESS_JOBS", "WRITE_PNTS"}
  BY ExecutingFacts, WorkerAssumption
<1>2. ASSUME messages \in Seq(WorkMessage)
      PROVE  SubSeq(messages, 1, k) \in Seq(WorkMessage)
  <2>1. Len(messages) \in Nat
    BY <1>2, LenProperties
  <2>2. \A i \in 1..k : messages[i] \in WorkMessage
    BY <1>2, <2>1, ElementOfSeq
  <2> QED
    BY <2>1, <2>2, SubSeqProperties
<1>3. CASE c.command = "READ_FILE"
  <2>1. messages = ReadMessages(c.portion)
    BY <1>3 DEF Outputs
  <2> QED
    BY <1>1, <1>2, <1>3, <2>1, CommandFields, ReadMessagesType
<1>4. CASE c.command = "PROCESS_JOBS"
  <2>1. PICK n \in NextNodes(c.jobs) : messages \in ProcessOutputs(n, c.jobs[n])
    BY <1>4 DEF Outputs
  <2>2. c.jobs \in Jobs
    BY <1>1, <1>4, CommandFields
  <2>3. n \in TaskName /\ c.jobs[n] \in Job
    BY <2>2 DEF NextNodes, Jobs
  <2> QED
    BY <1>2, <2>1, <2>3, ProcessOutputsType
<1>5. CASE c.command = "WRITE_PNTS"
  <2>1. messages = <<Idle>>
    BY <1>5 DEF Outputs
  <2>2. k = 0
    BY <2>1
  <2> QED
    BY <2>1, <2>2, NoMessage
<1> QED
  BY <1>1, <1>3, <1>4, <1>5

LEMMA FailEffect ==
    ASSUME ChannelType, NEW w \in Worker, Fail(w)
    PROVE  Ends(w) /\ tiles' \in [TaskName -> Chunk]
<1> DEFINE c == Head(inbox[w])
<1>1. PICK command \in FaultyCommands : Executing(w, command)
  BY DEF Fail
<1>2. PICK messages \in Outputs(w) : \E k \in 0..(Len(messages) - 1) :
        Send(w, Append(SubSeq(messages, 1, k), Error))
  BY DEF Fail
<1>3. PICK k \in 0..(Len(messages) - 1) : Send(w, Append(SubSeq(messages, 1, k), Error))
  BY <1>2
<1>4. SubSeq(messages, 1, k) \in Seq(WorkMessage)
  BY <1>1, OutputsType
<1>5. Ends(w)
  BY <1>3, <1>4 DEF Ends, LastMessage, Fail
<1>6. CASE c.command = "WRITE_PNTS" /\ tiles[c.name] = {}
  <2>1. c.name \in TaskName /\ c.data \in Chunk
    BY <1>1, <1>6, ExecutingFacts, CommandFields
  <2> QED
    BY <1>5, <1>6, <2>1 DEF Fail, ChannelType, Chunk
<1>7. CASE ~ (c.command = "WRITE_PNTS" /\ tiles[c.name] = {})
  BY <1>5, <1>7 DEF Fail, ChannelType
<1> QED
  BY <1>6, <1>7

LEMMA ExecuteEffect ==
    ASSUME ChannelType, NEW w \in Worker, Execute(w)
    PROVE  /\ worker[w] = "running" /\ inbox[w] \in Seq(Command) /\ inbox[w] # <<>>
           /\ Head(inbox[w]) \in WorkCommand
           /\ Ends(w) \/ GoesOn(w)
           /\ tiles' \in [TaskName -> Chunk]
           /\ UNCHANGED <<worker, managerVars, stateVars>>
<1>1. PICK command \in {"READ_FILE", "PROCESS_JOBS", "WRITE_PNTS"} : Executing(w, command)
  BY WorkerAssumption DEF Execute, ExecuteReadFile, ExecuteProcessJobs, ExecuteWritePnts, Fail
<1>2. /\ inbox[w] \in Seq(Command) /\ inbox[w] # <<>>
      /\ Head(inbox[w]) \in WorkCommand
  BY <1>1, ExecutingFacts, CommandFields
<1>3. (Ends(w) \/ GoesOn(w)) /\ tiles' \in [TaskName -> Chunk]
  BY ReadFileEffect, ProcessJobsEffect, WritePntsEffect, FailEffect DEF Execute
<1>4. UNCHANGED worker
  BY DEF Execute, ExecuteReadFile, ExecuteProcessJobs, ExecuteWritePnts, Fail
<1> QED
  BY <1>1, <1>2, <1>3, <1>4 DEF Executing

LEMMA WorkType ==
    ASSUME TypeInv, NEW w \in Worker, Work(w)
    PROVE  TypeInv'
<1> USE DEF TypeInv
<1>1. UNCHANGED <<managerVars, stateVars>>
  BY ExecuteEffect DEF Work, Execute, Start, Halt, Executing
<1>2. TilerType' /\ ManagerType'
  BY <1>1, UnchangedTiler DEF ManagerType, managerVars
<1>3. inbox[w] \in Seq(Command) /\ outbox[w] \in Seq(Message)
  BY DEF ChannelType
<1>4. CASE Start(w)
  <2>1. Append(outbox[w], Register) \in Seq(Message)
    BY <1>3, AppendProperties DEF Message
  <2> QED
    BY <1>2, <1>4, <2>1 DEF Start, ChannelType
<1>5. CASE Halt(w)
  <2>1. <<Halted>> \in Seq(Message)
    BY DEF Message
  <2>2. outbox[w] \o <<Halted>> \in Seq(Message)
    BY <1>3, <2>1, ConcatProperties
  <2>3. Tail(inbox[w]) \in Seq(Command)
    BY <1>5, ExecutingFacts DEF Halt
  <2> QED
    BY <1>2, <1>5, <2>2, <2>3 DEF Halt, Send, NextCommand, ChannelType
<1>6. CASE Execute(w)
  <2>1. /\ Ends(w) \/ GoesOn(w)
        /\ tiles' \in [TaskName -> Chunk] /\ worker' = worker
        /\ inbox[w] # <<>>
    BY <1>6, ExecuteEffect
  <2>2. Seq(WorkMessage) \subseteq Seq(Message)
    BY SeqMonotonic DEF Message
  <2>3. CASE Ends(w)
    <3>1. PICK work \in Seq(WorkMessage), last \in LastMessage : Send(w, Append(work, last))
      BY <2>3 DEF Ends
    <3>2. last \in Message
      BY DEF Message
    <3>3. Append(work, last) \in Seq(Message)
      BY <2>2, <3>2, AppendProperties
    <3>4. outbox[w] \o Append(work, last) \in Seq(Message)
      BY <1>3, <3>3, ConcatProperties
    <3>5. Tail(inbox[w]) \in Seq(Command)
      BY <1>3, <2>1, HeadTailProperties
    <3>6. inbox' \in [Worker -> Seq(Command)]
      BY <2>3, <3>5 DEF Ends, NextCommand, ChannelType
    <3>7. outbox' \in [Worker -> Seq(Message)]
      BY <3>1, <3>4 DEF Send, ChannelType
    <3> QED
      BY <1>2, <2>1, <3>6, <3>7 DEF ChannelType
  <2>4. CASE GoesOn(w)
    <3>1. PICK work \in Seq(WorkMessage) : Send(w, work)
      BY <2>4 DEF GoesOn
    <3>2. outbox[w] \o work \in Seq(Message)
      BY <1>3, <2>2, ConcatProperties
    <3>3. PICK rest \in WorkCommand : inbox' = [inbox EXCEPT ![w] = [@ EXCEPT ![1] = rest]]
      BY <2>4 DEF GoesOn
    <3>4. [inbox[w] EXCEPT ![1] = rest] \in Seq(Command)
      BY <1>3, <2>1, ExceptSeq DEF Command
    <3>5. inbox' \in [Worker -> Seq(Command)]
      BY <3>3, <3>4 DEF ChannelType
    <3>6. outbox' \in [Worker -> Seq(Message)]
      BY <3>1, <3>2 DEF Send, ChannelType
    <3> QED
      BY <1>2, <2>1, <3>5, <3>6 DEF ChannelType
  <2> QED
    BY <2>1, <2>3, <2>4
<1> QED
  BY <1>4, <1>5, <1>6 DEF Work, Execute

LEMMA StepType == TypeInv /\ [Next]_vars => TypeInv'
<1> SUFFICES ASSUME TypeInv, [Next]_vars PROVE TypeInv'
  OBVIOUS
<1>1. CASE ManagerReceive
  BY <1>1, ManagerReceiveType DEF ManagerReceive
<1>2. CASE ManagerDispatch
  BY <1>2, ManagerDispatchType DEF ManagerDispatch
<1>3. CASE EndDispatch \/ ShutdownAllProcesses \/ JoinAllProcesses
  BY <1>3, ManagerEndType
<1>4. CASE \E w \in Worker : Work(w)
  BY <1>4, WorkType
<1>5. CASE UNCHANGED vars
  <2>1. TilerType'
    BY <1>5, UnchangedTiler DEF TypeInv, vars
  <2>2. ManagerType' /\ ChannelType'
    BY <1>5 DEF TypeInv, ManagerType, ChannelType, vars, managerVars, workerVars
  <2> QED
    BY <2>1, <2>2 DEF TypeInv
<1> QED
  BY <1>1, <1>2, <1>3, <1>4, <1>5 DEF Next, Manager, Finished

(* Every variable, command and message has its type, whatever the workers  *)
(* answer and whichever commands raise: in particular the manager indexes  *)
(* its tables by names of the octree only.                                 *)
THEOREM ConvertTypeCorrect == Spec => []TypeOK
<1>1. Spec => []TypeInv
  BY InitType, StepType, PTL DEF Spec
<1> QED
  BY <1>1, TypeInvTypeOK, PTL

-----------------------------------------------------------------------------
(* The worker the manager waits for.  While the loop runs, every worker is *)
(* in one of five states, which say what its channels hold, whether it has *)
(* registered and whether the manager has it idle.                         *)

Known(w, registered, idle) == (w \in clients <=> registered) /\ (w \in idle_clients <=> idle)

Starting(w) ==
    worker[w] = "starting" /\ inbox[w] = <<>> /\ outbox[w] = <<>> /\ Known(w, FALSE, FALSE)
Registering(w) ==
    worker[w] = "running" /\ inbox[w] = <<>> /\ outbox[w] = <<Register>> /\ Known(w, FALSE, FALSE)
Waiting(w) ==
    worker[w] = "running" /\ inbox[w] = <<>> /\ outbox[w] = <<>> /\ Known(w, TRUE, TRUE)
(* At work on its one command.                                             *)
Busy(w) ==
    /\ worker[w] = "running" /\ Known(w, TRUE, FALSE)
    /\ \E c \in WorkCommand : inbox[w] = <<c>>
    /\ outbox[w] \in Seq(WorkMessage)
(* The message that ends its command is on its way, after all the others.  *)
Ending(w) ==
    /\ worker[w] = "running" /\ Known(w, TRUE, FALSE)
    /\ inbox[w] = <<>>
    /\ \E work \in Seq(WorkMessage), last \in LastMessage : outbox[w] = Append(work, last)

WorkerState(w) == Starting(w) \/ Registering(w) \/ Waiting(w) \/ Busy(w) \/ Ending(w)
IdleInv == Running => \A w \in Worker : WorkerState(w)

LEMMA IdleInvIdleExact == TypeInv /\ IdleInv => IdleExact
<1> SUFFICES ASSUME TypeInv, IdleInv, Running, NEW w \in clients
             PROVE  w \in idle_clients <=> inbox[w] = <<>> /\ outbox[w] = <<>>
  BY DEF IdleExact
<1>1. w \in Worker
  BY DEF TypeInv, ManagerType
<1>2. WorkerState(w) /\ w \in clients
  BY <1>1 DEF IdleInv
<1>3. CASE Waiting(w)
  BY <1>3 DEF Waiting, Known
<1>4. CASE Busy(w)
  BY <1>4 DEF Busy, Known
<1>5. CASE Ending(w)
  <2>1. outbox[w] # <<>>
    BY <1>5, AppendProperties DEF Ending
  <2> QED
    BY <1>5, <2>1 DEF Ending, Known
<1> QED
  BY <1>2, <1>3, <1>4, <1>5 DEF WorkerState, Starting, Registering, Known

LEMMA InitIdle == Init => IdleInv
BY DEF Init, IdleInv, WorkerState, Starting, Known

(* What a message at the head of a worker's messages tells of its state.   *)
LEMMA EndingMessages ==
    ASSUME NEW work \in Seq(WorkMessage), NEW last
    PROVE  /\ work = <<>> => /\ Head(Append(work, last)) = last
                             /\ Tail(Append(work, last)) = <<>>
           /\ work # <<>> => /\ Head(work) \in WorkMessage /\ Tail(work) \in Seq(WorkMessage)
                             /\ Head(Append(work, last)) = Head(work)
                             /\ Tail(Append(work, last)) = Append(Tail(work), last)
           /\ \A sent \in Seq(WorkMessage) :
                /\ sent \o work \in Seq(WorkMessage)
                /\ sent \o Append(work, last) = Append(sent \o work, last)
OBVIOUS

LEMMA TypesOfMessages ==
    /\ \A m \in WorkMessage : m.type \in {"READ", "NEW_TASK", "PROCESSED", "PNTS_WRITTEN"}
    /\ \A m \in LastMessage : m.type \in {"IDLE", "ERROR"}
    /\ Register.type = "REGISTER"
BY DEF WorkMessage, LastMessage, Register, Idle, Error

LEMMA SameState ==
    ASSUME NEW w \in Worker, WorkerState(w),
           worker'[w] = worker[w], inbox'[w] = inbox[w], outbox'[w] = outbox[w],
           w \in clients' <=> w \in clients, w \in idle_clients' <=> w \in idle_clients
    PROVE  WorkerState(w)'
BY DEF WorkerState, Starting, Registering, Waiting, Busy, Ending, Known

(* The manager receives: the state of the other workers does not change.   *)
LEMMA ReceiveIdleInv ==
    ASSUME TypeInv, IdleInv, Running', NEW w \in Worker,
           \/ ReceiveRegister(w) \/ ReceiveIdle(w) \/ ReceiveError(w) \/ ReceiveRead(w)
           \/ ReceiveNewTask(w) \/ ReceiveProcessed(w) \/ ReceivePntsWritten(w)
    PROVE  IdleInv'
<1> DEFINE type == Head(outbox[w]).type
<1>1. /\ Running /\ WorkerState(w)
      /\ Receive(w, type)
      /\ type \in {"REGISTER", "IDLE", "ERROR", "READ", "NEW_TASK", "PROCESSED", "PNTS_WRITTEN"}
  BY DEF IdleInv, Running, Receive, ReceiveRegister, ReceiveIdle, ReceiveError, ReceiveRead,
         ReceiveNewTask, ReceiveProcessed, ReceivePntsWritten
<1>2. /\ outbox[w] # <<>> /\ outbox' = [outbox EXCEPT ![w] = Tail(@)]
      /\ worker' = worker /\ inbox' = inbox
      /\ outbox \in [Worker -> Seq(Message)]
  BY <1>1 DEF Receive, TypeInv, ChannelType
<1>3. type # "ERROR"
  BY DEF ReceiveRegister, ReceiveIdle, ReceiveError, ReceiveRead, ReceiveNewTask,
         ReceiveProcessed, ReceivePntsWritten, Receive, Raise, Running
<1>4. Registering(w) => type = "REGISTER"
  <2>1. Head(<<Register>>) = Register
    OBVIOUS
  <2> QED
    BY <2>1, TypesOfMessages DEF Registering
<1>5. CASE type = "REGISTER"
  <2>1. ReceiveRegister(w)
    BY <1>5 DEF ReceiveRegister, ReceiveIdle, ReceiveError, ReceiveRead, ReceiveNewTask,
                ReceiveProcessed, ReceivePntsWritten, Receive
  <2>2. clients' = clients \cup {w} /\ idle_clients' = idle_clients \cup {w}
    BY <2>1 DEF ReceiveRegister, AddIdleClient, Raise, Running
  <2>3. Registering(w)
    <3>1. ~ Busy(w)
      BY <1>2, <1>5, HeadTailProperties, TypesOfMessages DEF Busy
    <3>2. ~ Ending(w)
      <4> SUFFICES ASSUME NEW work \in Seq(WorkMessage), NEW last \in LastMessage,
                          outbox[w] = Append(work, last)
                   PROVE  FALSE
        BY DEF Ending
      <4>1. Head(outbox[w]) \in WorkMessage \cup LastMessage
        BY EndingMessages
      <4> QED
        BY <1>5, <4>1, TypesOfMessages
    <3> QED
      BY <1>1, <1>2, <3>1, <3>2 DEF WorkerState, Starting, Waiting
  <2>4. Waiting(w)'
    BY <1>2, <2>2, <2>3 DEF Registering, Waiting, Known
  <2>5. \A v \in Worker \ {w} : WorkerState(v)'
    BY <1>1, <1>2, <2>2, SameState DEF IdleInv
  <2> QED
    BY <2>4, <2>5 DEF IdleInv, WorkerState
<1>6. CASE type = "IDLE"
  <2>1. ReceiveIdle(w)
    BY <1>6 DEF ReceiveRegister, ReceiveIdle, ReceiveError, ReceiveRead, ReceiveNewTask,
                ReceiveProcessed, ReceivePntsWritten, Receive
  <2>2. clients' = clients /\ idle_clients' = idle_clients \cup {w}
    BY <2>1 DEF ReceiveIdle, AddIdleClient, Raise, Running
  <2>3. ~ Busy(w)
    BY <1>2, <1>6, HeadTailProperties, TypesOfMessages DEF Busy
  <2>4. Ending(w)
    BY <1>1, <1>2, <1>4, <1>6, <2>3 DEF WorkerState, Starting, Waiting
  <2>5. PICK work \in Seq(WorkMessage), last \in LastMessage : outbox[w] = Append(work, last)
    BY <2>4 DEF Ending
  <2>6. work = <<>>
    BY <1>6, <2>5, EndingMessages, TypesOfMessages
  <2>7. Waiting(w)'
    BY <1>2, <2>2, <2>4, <2>5, <2>6, EndingMessages DEF Ending, Waiting, Known
  <2>8. \A v \in Worker \ {w} : WorkerState(v)'
    BY <1>1, <1>2, <2>2, SameState DEF IdleInv
  <2> QED
    BY <2>7, <2>8 DEF IdleInv, WorkerState
<1>7. CASE type \in {"READ", "NEW_TASK", "PROCESSED", "PNTS_WRITTEN"}
  <2>1. clients' = clients /\ idle_clients' = idle_clients
    BY <1>7 DEF ReceiveRegister, ReceiveIdle, ReceiveError, ReceiveRead, ReceiveNewTask,
                ReceiveProcessed, ReceivePntsWritten, Receive
  <2>2. ASSUME Busy(w) PROVE WorkerState(w)'
    <3>1. Tail(outbox[w]) \in Seq(WorkMessage)
      BY <1>2, <2>2, HeadTailProperties DEF Busy
    <3>2. Busy(w)'
      BY <1>2, <2>1, <2>2, <3>1 DEF Busy, Known
    <3> QED
      BY <3>2 DEF WorkerState
  <2>3. ASSUME ~ Busy(w) PROVE WorkerState(w)'
    <3>1. Ending(w)
      BY <1>1, <1>2, <1>4, <1>7, <2>3 DEF WorkerState, Starting, Waiting
    <3>2. PICK work \in Seq(WorkMessage), last \in LastMessage : outbox[w] = Append(work, last)
      BY <3>1 DEF Ending
    <3>3. work # <<>>
      BY <1>7, <3>2, EndingMessages, TypesOfMessages
    <3>4. Tail(work) \in Seq(WorkMessage) /\ Tail(outbox[w]) = Append(Tail(work), last)
      BY <3>2, <3>3, EndingMessages
    <3>5. Ending(w)'
      BY <1>2, <2>1, <3>1, <3>4 DEF Ending, Known
    <3> QED
      BY <3>5 DEF WorkerState
  <2>4. \A v \in Worker \ {w} : WorkerState(v)'
    BY <1>1, <1>2, <2>1, SameState DEF IdleInv
  <2> QED
    BY <2>2, <2>3, <2>4 DEF IdleInv
<1> QED
  BY <1>1, <1>3, <1>5, <1>6, <1>7

(* The manager gives a command to a worker that waits.                     *)
LEMMA DispatchIdleInv ==
    ASSUME TypeInv, IdleInv, Running', NEW w \in Worker,
           DispatchRead(w) \/ DispatchProcess(w) \/ DispatchWrite(w)
    PROVE  IdleInv'
<1>1. Running /\ w \in idle_clients
  BY DEF Running, DispatchRead, DispatchProcess, DispatchWrite
<1>2. PICK command \in WorkCommand : SendToProcess(w, command)
  <2>1. CASE DispatchRead(w)
    BY <2>1, SendFileToReadType DEF DispatchRead, TypeInv
  <2>2. CASE DispatchProcess(w)
    <3>1. PICK batch \in Batches :
            SendPointsToProcess(batch) /\ SendToProcess(w, ProcessCommand(batch))
      BY <2>2 DEF DispatchProcess
    <3>2. batch \in SUBSET TaskName
      BY DEF Batches, ReadyNodes, InputNodes
    <3> QED
      BY <3>1, <3>2, SendPointsToProcessType DEF TypeInv
  <2>3. CASE DispatchWrite(w)
    <3>1. PICK n \in pnts_to_writing : SendPntsToWrite(n) /\ SendToProcess(w, WriteCommand(n))
      BY <2>3 DEF DispatchWrite, Raise, Running
    <3> QED
      BY <3>1, SendPntsToWriteType DEF TypeInv
  <2> QED
    BY <2>1, <2>2, <2>3
<1>3. Waiting(w)
  BY <1>1 DEF IdleInv, WorkerState, Starting, Registering, Busy, Ending, Known
<1>4. /\ idle_clients' = idle_clients \ {w} /\ clients' = clients
      /\ inbox' = [inbox EXCEPT ![w] = Append(@, command)]
      /\ worker' = worker /\ outbox' = outbox
      /\ inbox \in [Worker -> Seq(Command)]
  BY <1>2 DEF SendToProcess, IdleWithout, TypeInv, ChannelType
<1>5. Busy(w)'
  <2>1. inbox'[w] = <<command>>
    BY <1>3, <1>4 DEF Waiting
  <2>2. outbox'[w] \in Seq(WorkMessage)
    BY <1>3, <1>4, NoMessage DEF Waiting
  <2> QED
    BY <1>3, <1>4, <2>1, <2>2 DEF Waiting, Busy, Known
<1>6. \A v \in Worker \ {w} : WorkerState(v)'
  BY <1>1, <1>4, SameState DEF IdleInv
<1> QED
  BY <1>5, <1>6 DEF IdleInv, WorkerState

(* A worker executes a command, or starts.                                 *)
LEMMA WorkIdleInv ==
    ASSUME TypeInv, IdleInv, Running', NEW w \in Worker, Work(w)
    PROVE  IdleInv'
<1>1. UNCHANGED <<managerVars, stateVars>>
  BY ExecuteEffect DEF Work, Execute, Start, Halt, Executing, TypeInv
<1>2. /\ Running /\ WorkerState(w)
      /\ clients' = clients /\ idle_clients' = idle_clients
  BY <1>1 DEF IdleInv, Running, managerVars
<1>3. worker \in [Worker -> {"starting", "running", "halted"}]
  BY DEF TypeInv, ChannelType
<1>4. inbox \in [Worker -> Seq(Command)] /\ outbox \in [Worker -> Seq(Message)]
  BY DEF TypeInv, ChannelType
<1>5. ASSUME NEW v \in Worker \ {w}
      PROVE  WorkerState(v)'
  <2>1. worker'[v] = worker[v] /\ inbox'[v] = inbox[v] /\ outbox'[v] = outbox[v]
    <3>1. CASE Start(w)
      BY <1>3, <1>4, <3>1 DEF Start
    <3>2. CASE Halt(w)
      BY <1>3, <1>4, <3>2 DEF Halt, Send, NextCommand
    <3>3. CASE Execute(w)
      BY <1>4, <3>3, ExecuteEffect DEF Ends, GoesOn, Send, NextCommand, TypeInv
    <3> QED
      BY <3>1, <3>2, <3>3 DEF Work, Execute
  <2> QED
    BY <1>2, <2>1, SameState DEF IdleInv
<1>6. CASE Start(w)
  <2>1. Starting(w)
    BY <1>2, <1>6 DEF Start, WorkerState, Registering, Waiting, Busy, Ending
  <2>2. Registering(w)'
    BY <1>2, <1>3, <1>4, <1>6, <2>1 DEF Start, Starting, Registering, Known
  <2> QED
    BY <1>5, <2>2 DEF IdleInv, WorkerState
<1>7. ASSUME inbox[w] # <<>>
      PROVE  Busy(w)
  BY <1>2, <1>7 DEF WorkerState, Starting, Registering, Waiting, Ending
<1>8. CASE Halt(w)
  <2>1. inbox[w] # <<>> /\ Head(inbox[w]).command = "SHUTDOWN"
    BY <1>8 DEF Halt, Executing
  <2>2. PICK c \in WorkCommand : inbox[w] = <<c>>
    BY <1>7, <2>1 DEF Busy
  <2> QED
    BY <2>1, <2>2 DEF WorkCommand
<1>9. CASE Execute(w)
  <2>1. inbox[w] # <<>> /\ (Ends(w) \/ GoesOn(w)) /\ worker' = worker
    BY <1>9, ExecuteEffect DEF TypeInv
  <2>2. PICK c \in WorkCommand : inbox[w] = <<c>>
    BY <1>7, <2>1 DEF Busy
  <2>3. /\ worker[w] = "running" /\ Known(w, TRUE, FALSE)
        /\ outbox[w] \in Seq(WorkMessage)
    BY <1>7, <2>1 DEF Busy
  <2>4. CASE Ends(w)
    <3>1. PICK work \in Seq(WorkMessage), last \in LastMessage : Send(w, Append(work, last))
      BY <2>4 DEF Ends
    <3>2. outbox'[w] = outbox[w] \o Append(work, last)
      BY <1>4, <3>1 DEF Send
    <3>3. outbox[w] \o work \in Seq(WorkMessage) /\ outbox'[w] = Append(outbox[w] \o work, last)
      BY <2>3, <3>2, EndingMessages
    <3>4. inbox'[w] = <<>>
      BY <1>4, <2>2, <2>4 DEF Ends, NextCommand
    <3>5. Ending(w)'
      BY <1>2, <2>1, <2>3, <3>3, <3>4 DEF Ending, Known
    <3> QED
      BY <1>5, <3>5 DEF IdleInv, WorkerState
  <2>5. CASE GoesOn(w)
    <3>1. PICK work \in Seq(WorkMessage) : Send(w, work)
      BY <2>5 DEF GoesOn
    <3>2. outbox'[w] \in Seq(WorkMessage)
      BY <1>4, <2>3, <3>1, ConcatProperties DEF Send
    <3>3. PICK rest \in WorkCommand : inbox' = [inbox EXCEPT ![w] = [@ EXCEPT ![1] = rest]]
      BY <2>5 DEF GoesOn
    <3>4. inbox'[w] = <<rest>>
      BY <1>4, <2>2, <3>3
    <3>5. Busy(w)'
      BY <1>2, <2>1, <2>3, <3>2, <3>4 DEF Busy, Known
    <3> QED
      BY <1>5, <3>5 DEF IdleInv, WorkerState
  <2> QED
    BY <2>1, <2>4, <2>5
<1> QED
  BY <1>6, <1>8, <1>9 DEF Work, Execute

LEMMA StepIdle == TypeInv /\ IdleInv /\ [Next]_vars => IdleInv'
<1> SUFFICES ASSUME TypeInv, IdleInv, [Next]_vars, Running' PROVE IdleInv'
  BY DEF IdleInv
<1>1. CASE ManagerReceive
  BY <1>1, ReceiveIdleInv DEF ManagerReceive
<1>2. CASE ManagerDispatch
  BY <1>2, DispatchIdleInv DEF ManagerDispatch
<1>3. CASE EndDispatch
  <2>1. Running /\ UNCHANGED <<worker, inbox, outbox, clients, idle_clients>>
    BY <1>3 DEF EndDispatch, Running, workerVars
  <2> QED
    BY <2>1, SameState DEF IdleInv
<1>4. CASE ShutdownAllProcesses \/ JoinAllProcesses
  BY <1>4 DEF ShutdownAllProcesses, JoinAllProcesses, Running
<1>5. CASE \E w \in Worker : Work(w)
  BY <1>5, WorkIdleInv
<1>6. CASE UNCHANGED vars
  <2>1. Running /\ UNCHANGED <<worker, inbox, outbox, clients, idle_clients>>
    BY <1>6 DEF Running, vars, managerVars, workerVars
  <2> QED
    BY <2>1, SameState DEF IdleInv
<1> QED
  BY <1>1, <1>2, <1>3, <1>4, <1>5, <1>6 DEF Next, Manager, Finished

(* While the loop of convert() runs, idle_clients holds exactly the        *)
(* registered workers that have no command and nothing left to tell,       *)
(* whatever the commands send and wherever they raise.                     *)
THEOREM ConvertIdleExact == Spec => []IdleExact
<1>1. Init => TypeInv /\ IdleInv
  BY InitType, InitIdle
<1>2. TypeInv /\ IdleInv /\ [Next]_vars => (TypeInv /\ IdleInv)'
  BY StepType, StepIdle
<1>3. Spec => [](TypeInv /\ IdleInv)
  BY <1>1, <1>2, PTL DEF Spec
<1> QED
  BY <1>3, IdleInvIdleExact, PTL

-----------------------------------------------------------------------------
(* The shutdown messages.  No command is sent before all workers have      *)
(* registered, so none of them can make the loop end before that; from     *)
(* then on a worker's inbox keeps its Shutdown until it takes it.          *)

Reached(w) == worker[w] = "halted" \/ Shutdown \in Commands(w)
ReachInv ==
    /\ phase \in {"dispatch", "shutdown", "join"} => clients = Worker
    /\ Running /\ clients # Worker =>
         \A w \in Worker : inbox[w] = <<>> /\ (outbox[w] = <<>> \/ outbox[w] = <<Register>>)
    /\ phase = "join" => \A w \in Worker : Reached(w)

LEMMA InitReach == Init => ReachInv
BY DEF Init, ReachInv

LEMMA ReceiveReach ==
    ASSUME TypeInv, IdleInv, ReachInv, NEW w \in Worker,
           \/ ReceiveRegister(w) \/ ReceiveIdle(w) \/ ReceiveError(w) \/ ReceiveRead(w)
           \/ ReceiveNewTask(w) \/ ReceiveProcessed(w) \/ ReceivePntsWritten(w)
    PROVE  ReachInv'
<1> DEFINE type == Head(outbox[w]).type
<1>1. /\ phase = "receive" /\ Receive(w, type)
      /\ clients' = IF type = "REGISTER" THEN clients \cup {w} ELSE clients
  BY DEF Receive, ReceiveRegister, ReceiveIdle, ReceiveError, ReceiveRead,
         ReceiveNewTask, ReceiveProcessed, ReceivePntsWritten
<1>2. EndReceive \/ Raise
  BY DEF ReceiveRegister, ReceiveIdle, ReceiveError, ReceiveRead, ReceiveNewTask,
         ReceiveProcessed, ReceivePntsWritten, AddIdleClient
<1>3. /\ outbox[w] # <<>> /\ outbox' = [outbox EXCEPT ![w] = Tail(@)]
      /\ inbox' = inbox /\ outbox \in [Worker -> Seq(Message)]
      /\ clients \subseteq Worker
  BY <1>1 DEF Receive, TypeInv, ChannelType, ManagerType
<1>4. CASE clients = Worker
  BY <1>1, <1>2, <1>3, <1>4 DEF ReachInv, EndReceive, Raise, AllClientsRegistered
<1>5. CASE clients # Worker
  <2>1. /\ \A v \in Worker : inbox[v] = <<>> /\ (outbox[v] = <<>> \/ outbox[v] = <<Register>>)
        /\ outbox[w] = <<Register>>
    BY <1>1, <1>3, <1>5 DEF ReachInv, Running
  <2>2. type = "REGISTER" /\ Tail(outbox[w]) = <<>>
    <3>1. Head(<<Register>>) = Register /\ Tail(<<Register>>) = <<>>
      OBVIOUS
    <3> QED
      BY <2>1, <3>1, TypesOfMessages
  <2>3. w \notin idle_clients
    <3>1. WorkerState(w)
      BY <1>1 DEF IdleInv, Running
    <3> QED
      BY <2>1, <3>1 DEF WorkerState, Starting, Registering, Waiting, Busy, Ending, Known
  <2>4. EndReceive
    BY <2>2, <2>3 DEF ReceiveRegister, ReceiveIdle, ReceiveError, ReceiveRead, ReceiveNewTask,
                      ReceiveProcessed, ReceivePntsWritten, Receive, AddIdleClient
  <2>5. \A v \in Worker : outbox'[v] = <<>> \/ outbox'[v] = <<Register>>
    BY <1>3, <2>1, <2>2
  <2> QED
    BY <1>3, <2>1, <2>4, <2>5 DEF ReachInv, EndReceive, AllClientsRegistered
<1> QED
  BY <1>4, <1>5

LEMMA EndReach ==
    ASSUME TypeInv, ReachInv,
           ManagerDispatch \/ EndDispatch \/ ShutdownAllProcesses \/ JoinAllProcesses
    PROVE  ReachInv'
<1>1. CASE ManagerDispatch \/ EndDispatch
  <2>1. phase = "dispatch" /\ UNCHANGED clients
    BY <1>1 DEF ManagerDispatch, DispatchRead, DispatchProcess, DispatchWrite, SendToProcess,
                EndDispatch
  <2>2. phase' # "join"
    BY <1>1, <2>1 DEF ManagerDispatch, DispatchRead, DispatchProcess, DispatchWrite,
                      SendToProcess, Raise, EndDispatch
  <2> QED
    BY <2>1, <2>2 DEF ReachInv
<1>2. CASE ShutdownAllProcesses
  <2>1. clients = Worker /\ clients' = clients /\ phase' \in {"join", "done"}
    BY <1>2 DEF ShutdownAllProcesses, ReachInv
  <2>2. ASSUME NEW w \in Worker
        PROVE  Shutdown \in Commands(w)'
    <3>1. inbox'[w] = Append(inbox[w], Shutdown) /\ inbox[w] \in Seq(Command)
      BY <1>2, <2>1 DEF ShutdownAllProcesses, ShutdownReceivers, TypeInv, ChannelType
    <3>2. Len(inbox'[w]) = Len(inbox[w]) + 1 /\ inbox'[w][Len(inbox[w]) + 1] = Shutdown
      BY <3>1
    <3>3. Len(inbox[w]) + 1 \in 1..Len(inbox'[w])
      BY <3>1, <3>2, LenProperties
    <3> QED
      BY <3>2, <3>3 DEF Commands
  <2> QED
    BY <2>1, <2>2 DEF ReachInv, Running, Reached
<1>3. CASE JoinAllProcesses
  BY <1>3 DEF JoinAllProcesses, ReachInv, Running
<1> QED
  BY <1>1, <1>2, <1>3

(* A worker takes its Shutdown or leaves it where it is.                   *)
LEMMA WorkReach ==
    ASSUME TypeInv, IdleInv, ReachInv, NEW w \in Worker, Work(w)
    PROVE  ReachInv'
<1>1. UNCHANGED managerVars
  BY ExecuteEffect DEF Work, Execute, Start, Halt, Executing, TypeInv
<1>2. /\ worker \in [Worker -> {"starting", "running", "halted"}]
      /\ inbox \in [Worker -> Seq(Command)] /\ outbox \in [Worker -> Seq(Message)]
  BY DEF TypeInv, ChannelType
<1>3. ASSUME Running, clients # Worker
      PROVE  \A v \in Worker : inbox'[v] = <<>> /\ (outbox'[v] = <<>> \/ outbox'[v] = <<Register>>)
  <2>1. \A v \in Worker : inbox[v] = <<>> /\ (outbox[v] = <<>> \/ outbox[v] = <<Register>>)
    BY <1>3 DEF ReachInv
  <2>2. Start(w)
    BY <2>1, ExecuteEffect DEF Work, Execute, Halt, Executing, TypeInv
  <2>3. outbox[w] = <<>>
    BY <1>3, <2>2 DEF Start, IdleInv, WorkerState, Starting, Registering, Waiting, Busy, Ending
  <2>4. Append(<<>>, Register) = <<Register>>
    OBVIOUS
  <2> QED
    BY <1>2, <2>1, <2>2, <2>3, <2>4 DEF Start
<1>4. ASSUME phase = "join", NEW v \in Worker
      PROVE  Reached(v)'
  <2>1. Reached(v)
    BY <1>4 DEF ReachInv
  <2>2. CASE Start(w)
    BY <1>2, <2>1, <2>2 DEF Start, Reached, Commands
  <2>3. CASE Halt(w)
    BY <1>2, <2>1, <2>3 DEF Halt, Reached, Commands, NextCommand
  <2>4. CASE Execute(w)
    <3>1. /\ worker[w] = "running" /\ inbox[w] \in Seq(Command) /\ inbox[w] # <<>>
          /\ Head(inbox[w]) \in WorkCommand /\ UNCHANGED worker
          /\ Ends(w) \/ GoesOn(w)
      BY <2>4, ExecuteEffect DEF TypeInv
    <3>2. CASE v # w
      BY <1>2, <2>1, <3>1, <3>2 DEF Ends, GoesOn, NextCommand, Reached, Commands
    <3>3. CASE v = w
      <4>1. PICK i \in 1..Len(inbox[w]) : inbox[w][i] = Shutdown
        BY <2>1, <3>1, <3>3 DEF Reached, Commands
      <4>2. i # 1
        BY <3>1, <4>1 DEF WorkCommand, Shutdown
      <4>3. CASE Ends(w)
        <5>1. inbox'[w] = Tail(inbox[w])
          BY <1>2, <4>3 DEF Ends, NextCommand
        <5>2. i - 1 \in 1..Len(inbox'[w]) /\ inbox'[w][i - 1] = Shutdown
          BY <3>1, <4>1, <4>2, <5>1
        <5> QED
          BY <3>3, <5>2 DEF Reached, Commands
      <4>4. CASE GoesOn(w)
        <5>1. PICK rest \in WorkCommand : inbox' = [inbox EXCEPT ![w] = [@ EXCEPT ![1] = rest]]
          BY <4>4 DEF GoesOn
        <5>2. inbox'[w] = [inbox[w] EXCEPT ![1] = rest]
          BY <1>2, <5>1
        <5>3. i \in 1..Len(inbox'[w]) /\ inbox'[w][i] = Shutdown
          BY <3>1, <4>1, <4>2, <5>2
        <5> QED
          BY <3>3, <5>3 DEF Reached, Commands
      <4> QED
        BY <3>1, <4>3, <4>4
    <3> QED
      BY <3>2, <3>3
  <2> QED
    BY <2>2, <2>3, <2>4 DEF Work, Execute
<1> QED
  BY <1>1, <1>3, <1>4 DEF ReachInv, managerVars, Running

LEMMA StepReach == TypeInv /\ IdleInv /\ ReachInv /\ [Next]_vars => ReachInv'
<1> SUFFICES ASSUME TypeInv, IdleInv, ReachInv, [Next]_vars PROVE ReachInv'
  OBVIOUS
<1>1. CASE ManagerReceive
  BY <1>1, ReceiveReach DEF ManagerReceive
<1>2. CASE ManagerDispatch \/ EndDispatch \/ ShutdownAllProcesses \/ JoinAllProcesses
  BY <1>2, EndReach
<1>3. CASE \E w \in Worker : Work(w)
  BY <1>3, WorkReach
<1>4. CASE UNCHANGED vars
  BY <1>4 DEF vars, managerVars, workerVars, ReachInv, Running, Reached, Commands
<1> QED
  BY <1>1, <1>2, <1>3, <1>4 DEF Next, Manager, Finished

(* When the manager joins the workers each of them has stopped or has the  *)
(* shutdown message before it, though an exception may end the loop at any *)
(* moment: "the reason for sending no command before all have registered". *)
THEOREM ConvertShutdownReachesAll == Spec => []ShutdownReachesAll
<1>1. Init => TypeInv /\ IdleInv /\ ReachInv
  BY InitType, InitIdle, InitReach
<1>2. TypeInv /\ IdleInv /\ ReachInv /\ [Next]_vars => (TypeInv /\ IdleInv /\ ReachInv)'
  BY StepType, StepIdle, StepReach
<1>3. Spec => [](TypeInv /\ IdleInv /\ ReachInv)
  BY <1>1, <1>2, PTL DEF Spec
<1>4. ReachInv => ShutdownReachesAll
  BY DEF ReachInv, Reached, ShutdownReachesAll
<1> QED
  BY <1>3, <1>4, PTL

=============================================================================
