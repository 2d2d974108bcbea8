----------------------- MODULE SharedNodeStoreProofs -----------------------
(***************************************************************************)
(* SharedNodeStore is type correct, never raises TilerException, never     *)
(* believes its contents smaller than they are and implements NodeMap, for *)
(* every set of names, contents and sizes.  The inductive invariant is     *)
(* IInv: the refinement and NoFault need that every entry owns a position  *)
(* with a blob in it, which Remove would break were two names to share a   *)
(* position.  The account of the contents needs sums: see TotalFacts.      *)
(***************************************************************************)
EXTENDS SharedNodeStore, FiniteSetTheorems, SequenceTheorems, WellFoundedInduction, TLAPS

IInv == TypeOK /\ SlotsOwned /\ NoFault

(* The four replies that are not blobs differ from every blob and from     *)
(* each other: a two-element tuple is none of them.                        *)
LEMMA BlobFacts ==
    /\ Hole \notin Blob /\ NoData \notin Blob /\ Done \notin Blob
    /\ NotFound \notin Blob /\ Fault \notin Blob
    /\ Fault # NoData /\ Fault # Done /\ Fault # NotFound
    /\ \A d \in Content : Compress(d) \in Blob
<1>1. \A b \in Blob : Len(b) = 2
  BY DEF Blob, Compress
<1>2. Len(Hole) = 1 /\ Len(NoData) = 0 /\ Len(Done) = 1 /\ Len(NotFound) = 1 /\ Len(Fault) = 1
  BY DEF Hole, NoData, Done, NotFound, Fault
<1>3. Fault # Done /\ Fault # NotFound
  BY DEF Done, NotFound, Fault
<1> QED
  BY <1>1, <1>2, <1>3 DEF Blob

(* The size of a blob is a natural number.                                 *)
LEMMA SizeOfType ==
    ASSUME NEW b \in Blob
    PROVE  SizeOf(b) \in Nat
BY SizesAssumption DEF Blob, Compress, SizeOf

(* The size of the containers is a natural number when the dictionary is   *)
(* finite, which it is with at most as many keys as the list is long.      *)
LEMMA ContainerSizeType ==
    ASSUME NEW d, NEW m, Len(d) \in Nat, IsFiniteSet(DOMAIN m)
    PROVE  ContainerSize(d, m) \in Nat
<1>1. Cardinality(DOMAIN m) \in Nat
  BY FS_CardinalityType
<1> QED
  BY <1>1, SizesAssumption DEF ContainerSize

(* A call is one of the operations, with its arguments.                    *)
LEMMA CallType ==
    /\ Init => CallOK
    /\ \A n \in Name : Get(n) \/ Remove(n) => CallOK'
    /\ \A n \in Name, d \in Content : Put(n, d) => CallOK'
    /\ ControlMemoryUsage /\ CallOK => CallOK'
<1>1. Init => CallOK
  BY DEF Init, CallOK
<1>2. \A n \in Name : Get(n) \/ Remove(n) => CallOK'
  BY DEF Get, Remove, CallOK
<1>3. \A n \in Name, d \in Content : Put(n, d) => CallOK'
  BY BlobFacts DEF Put, CallOK, Blob
<1>4. ControlMemoryUsage /\ CallOK => CallOK'
  BY DEF ControlMemoryUsage, CallOK
<1> QED
  BY <1>1, <1>2, <1>3, <1>4

LEMMA InitIInv == Init => IInv
<1> SUFFICES ASSUME Init PROVE IInv
  OBVIOUS
<1>1. InMemory = {} /\ OnDisk = {} /\ Len(data) = 0
  BY DEF Init, Empty, InMemory, OnDisk
<1>2. ContainerSize(data, metadata) \in Nat
  BY <1>1, ContainerSizeType, FS_EmptySet DEF InMemory
<1>3. TypeOK
  BY <1>1, FS_EmptySet, CallType DEF Init, TypeOK, Empty, InMemory, OnDisk
<1>4. SlotsOwned /\ NoFault
  BY <1>1, BlobFacts DEF Init, SlotsOwned, NoFault
<1> QED
  BY <1>3, <1>4 DEF IInv

LEMMA GetIInv ==
    ASSUME IInv, NEW n \in Name, Get(n)
    PROVE  IInv'
<1> USE DEF IInv
<1>1. reply' \in Blob \cup {NoData}
  <2>1. CASE n \in InMemory
    <3>1. BlobOf(n) \in Blob
      BY <2>1, BlobFacts DEF TypeOK, SlotsOwned, BlobOf
    <3> QED
      BY <2>1, <3>1, BlobFacts DEF Get
  <2>2. CASE n \notin InMemory
    BY <2>2 DEF Get, TypeOK
  <2> QED
    BY <2>1, <2>2
<1>2. TypeOK'
  BY <1>1, CallType DEF Get, TypeOK, InMemory, OnDisk
<1>3. SlotsOwned'
  BY DEF Get, SlotsOwned, InMemory, BlobOf
<1>4. NoFault'
  BY <1>1, BlobFacts DEF NoFault
<1> QED
  BY <1>2, <1>3, <1>4

LEMMA PutIInv ==
    ASSUME IInv, NEW n \in Name, NEW d \in Content, Put(n, d)
    PROVE  IInv'
<1> USE DEF IInv
<1>0. Compress(d) \in Blob /\ Len(data) \in Nat
  BY BlobFacts DEF TypeOK
<1>1. CASE n \in InMemory
  <2>1. metadata' = metadata /\ data' = [data EXCEPT ![metadata[n]] = Compress(d)]
    BY <1>1 DEF Put
  <2>2. data' \in Seq(Blob \cup {Hole}) /\ Len(data') = Len(data)
    BY <1>0, <1>1, <2>1, ExceptSeq DEF TypeOK
  <2>3. ContainerSize(data', metadata') \in Nat
    BY <2>1, <2>2, <1>0, ContainerSizeType DEF TypeOK, InMemory
  <2>m. memory_size' \in [content : Int, container : Nat]
    BY <2>3, SizesAssumption DEF Put, NewPosition, ContentAfterPut, TypeOK
  <2>t. /\ InMemory' = InMemory /\ metadata' \in [InMemory' -> 1..Len(data')]
        /\ OnDisk' = OnDisk /\ files' = files /\ reply' = Done /\ CallOK'
    <3>1. InMemory' = InMemory /\ metadata' \in [InMemory' -> 1..Len(data')]
      BY <2>1, <2>2 DEF TypeOK, InMemory
    <3>2. OnDisk' = OnDisk /\ files' = files /\ reply' = Done
      BY DEF Put, OnDisk
    <3>3. CallOK'
      BY CallType
    <3> QED
      BY <3>1, <3>2, <3>3
  <2>4. TypeOK'
    BY <2>2, <2>m, <2>t DEF TypeOK
  <2>5. SlotsOwned'
    BY <1>0, <1>1, <2>1, BlobFacts DEF TypeOK, SlotsOwned, InMemory, BlobOf
  <2> QED
    BY <2>4, <2>5, BlobFacts DEF NoFault, Put
<1>2. CASE n \notin InMemory
  <2>1. /\ data' = Append(data, Compress(d))
        /\ metadata' = [m \in InMemory \cup {n} |->
                          IF m = n THEN Len(data) + 1 ELSE metadata[m]]
    BY <1>2 DEF Put, NewPosition
  <2>2. /\ data' \in Seq(Blob \cup {Hole})
        /\ Len(data') = Len(data) + 1
        /\ \A i \in 1..Len(data) : data'[i] = data[i]
        /\ data'[Len(data) + 1] = Compress(d)
    BY <1>0, <2>1 DEF TypeOK
  <2>3. InMemory' = InMemory \cup {n} /\ IsFiniteSet(InMemory')
    BY <2>1, FS_AddElement DEF InMemory, TypeOK
  <2>4. ContainerSize(data', metadata') \in Nat
    BY <2>2, <2>3, <1>0, ContainerSizeType DEF InMemory
  <2>5. metadata' \in [InMemory' -> 1..Len(data')]
    BY <1>0, <2>1, <2>2, <2>3 DEF TypeOK
  <2>m. memory_size' \in [content : Int, container : Nat]
    BY <2>4, SizesAssumption DEF Put, NewPosition, ContentAfterPut, TypeOK
  <2>6. TypeOK'
    BY <2>2, <2>3, <2>5, <2>m, CallType DEF Put, NewPosition, ContentAfterPut, TypeOK, OnDisk
  <2>7. SlotsOwned'
    <3>1. \A m \in InMemory : metadata'[m] = metadata[m] /\ metadata[m] \in 1..Len(data)
      BY <1>2, <2>1 DEF TypeOK
    <3>2. metadata'[n] = Len(data) + 1
      BY <2>1
    <3>3. \A m \in InMemory' : BlobOf(m)' # Hole
      BY <1>0, <2>2, <2>3, <3>1, <3>2, BlobFacts DEF SlotsOwned, BlobOf
    <3>4. \A m, k \in InMemory' : metadata'[m] = metadata'[k] => m = k
      BY <1>0, <2>3, <3>1, <3>2 DEF SlotsOwned
    <3> QED
      BY <3>3, <3>4 DEF SlotsOwned
  <2> QED
    BY <2>6, <2>7, BlobFacts DEF NoFault, Put
<1> QED
  BY <1>1, <1>2

LEMMA RemoveIInv ==
    ASSUME IInv, NEW n \in Name, Remove(n)
    PROVE  IInv'
<1> USE DEF IInv
<1>1. /\ metadata' = [m \in InMemory \ {n} |-> metadata[m]]
      /\ InMemory' = InMemory \ {n} /\ IsFiniteSet(InMemory')
  BY FS_RemoveElement DEF Remove, Popped, Unlinked, Restrict, InMemory, TypeOK
<1>2. /\ files' \in [OnDisk' -> Blob] /\ OnDisk' \subseteq Name
  BY DEF Remove, Popped, Unlinked, Restrict, OnDisk, TypeOK
<1>3. CASE n \notin InMemory
  <2>1. data' = data /\ memory_size' = memory_size /\ reply' \in {Done, NotFound}
    BY <1>3 DEF Remove
  <2>2. TypeOK'
    BY <1>1, <1>2, <2>1, CallType DEF TypeOK
  <2>3. SlotsOwned'
    BY <1>1, <2>1 DEF SlotsOwned, BlobOf
  <2> QED
    BY <2>1, <2>2, <2>3, BlobFacts DEF NoFault
<1>4. CASE n \in InMemory
  <2>1. BlobOf(n) \in Blob
    BY <1>4, BlobFacts DEF TypeOK, SlotsOwned, BlobOf
  <2>2. /\ data' = [data EXCEPT ![metadata[n]] = Hole]
        /\ reply' = Done
        /\ memory_size' =
             [content   |-> memory_size.content - TupleSize - SizeOf(BlobOf(n)),
              container |-> ContainerSize(data, metadata')]
    BY <1>4, <2>1, BlobFacts DEF Remove
  <2>3. data' \in Seq(Blob \cup {Hole}) /\ Len(data') = Len(data) /\ Len(data) \in Nat
    BY <1>4, <2>2, ExceptSeq DEF TypeOK
  <2>4. ContainerSize(data, metadata') \in Nat
    BY <1>1, <2>3, ContainerSizeType DEF InMemory
  <2>5. memory_size' \in [content : Int, container : Nat]
    BY <2>1, <2>2, <2>4, SizeOfType, SizesAssumption DEF TypeOK
  <2>6. metadata' \in [InMemory' -> 1..Len(data')]
    BY <1>1, <2>3 DEF TypeOK
  <2>7. TypeOK'
    BY <1>1, <1>2, <2>2, <2>3, <2>5, <2>6, CallType DEF TypeOK
  <2>8. SlotsOwned'
    BY <1>1, <1>4, <2>2 DEF TypeOK, SlotsOwned, BlobOf
  <2> QED
    BY <2>2, <2>7, <2>8, BlobFacts DEF NoFault
<1> QED
  BY <1>3, <1>4

LEMMA ControlIInv ==
    ASSUME IInv, ControlMemoryUsage
    PROVE  IInv'
<1> USE DEF IInv
<1>1. {n \in InMemory : BlobOf(n) = Hole} = {}
  BY DEF SlotsOwned
<1>2. /\ files' = [n \in OnDisk \cup InMemory |->
                     IF n \in InMemory THEN BlobOf(n) ELSE files[n]]
      /\ metadata' = Empty /\ data' = <<>> /\ reply' = reply
      /\ memory_size' = [content |-> 0, container |-> ContainerSize(<<>>, Empty)]
  BY <1>1 DEF ControlMemoryUsage, RemoveAll
<1>3. InMemory' = {} /\ IsFiniteSet(InMemory') /\ Len(data') = 0
  BY <1>2, FS_EmptySet DEF InMemory, Empty
<1>4. ContainerSize(<<>>, Empty) \in Nat
  BY <1>2, <1>3, ContainerSizeType DEF InMemory
<1>5. \A n \in InMemory : BlobOf(n) \in Blob
  BY DEF TypeOK, SlotsOwned, BlobOf
<1>6. OnDisk' \subseteq Name /\ files' \in [OnDisk' -> Blob]
  BY <1>2, <1>5 DEF TypeOK, OnDisk
<1>7. TypeOK'
  BY <1>2, <1>3, <1>4, <1>6, CallType DEF TypeOK, Empty
<1>8. SlotsOwned' /\ NoFault'
  BY <1>2, <1>3 DEF SlotsOwned, NoFault
<1> QED
  BY <1>7, <1>8

LEMMA StepIInv == IInv /\ [Next]_vars => IInv'
<1> SUFFICES ASSUME IInv, [Next]_vars PROVE IInv'
  OBVIOUS
<1>1. ASSUME NEW n \in Name, Get(n) PROVE IInv'
  BY <1>1, GetIInv
<1>2. ASSUME NEW n \in Name, NEW d \in Content, Put(n, d) PROVE IInv'
  BY <1>2, PutIInv
<1>3. ASSUME NEW n \in Name, Remove(n) PROVE IInv'
  BY <1>3, RemoveIInv
<1>4. CASE ControlMemoryUsage
  BY <1>4, ControlIInv
<1>5. CASE UNCHANGED vars
  BY <1>5 DEF vars, IInv, TypeOK, CallOK, SlotsOwned, NoFault, InMemory, OnDisk, BlobOf
<1> QED
  BY <1>1, <1>2, <1>3, <1>4, <1>5 DEF Next

(* The inductive invariant of the store.                                   *)
THEOREM StoreInvariant == Spec => []IInv
<1> QED
  BY InitIInv, StepIInv, PTL DEF Spec

(* Every variable keeps its type, the memory account and the files         *)
(* included, through any sequence of put, get, remove and evictions.       *)
THEOREM StoreTypeCorrect == Spec => []TypeOK
<1>1. IInv => TypeOK
  BY DEF IInv
<1> QED
  BY <1>1, StoreInvariant, PTL

(* Each name in memory has a slot of its own, and the slot a blob, whatever*)
(* order puts, removals and evictions come in.                             *)
THEOREM StoreSlotsOwned == Spec => []SlotsOwned
<1>1. IInv => SlotsOwned
  BY DEF IInv
<1> QED
  BY <1>1, StoreInvariant, PTL

(* get, remove and _remove_all never raise TilerException: the checks in   *)
(* the code for a name without a blob cannot fail.                         *)
THEOREM StoreNeverFaults == Spec => []NoFault
<1>1. IInv => NoFault
  BY DEF IInv
<1> QED
  BY <1>1, StoreInvariant, PTL

-----------------------------------------------------------------------------
(* Refinement: the content of the store, wherever it is kept.              *)

Kept == [n \in Name |->
           IF n \in InMemory THEN BlobOf(n)
           ELSE IF n \in OnDisk THEN files[n] ELSE NoData]

LEMMA KeptNoData ==
    ASSUME IInv, NEW n \in Name
    PROVE  Kept[n] = NoData <=> n \notin InMemory \cup OnDisk
<1>1. CASE n \in InMemory
  BY <1>1, BlobFacts DEF IInv, TypeOK, SlotsOwned, Kept, BlobOf
<1>2. CASE n \notin InMemory
  BY <1>2, BlobFacts DEF IInv, TypeOK, Kept
<1> QED
  BY <1>1, <1>2

LEMMA GetRefines ==
    ASSUME IInv, NEW n \in Name, Get(n)
    PROVE  Map!Get(n)
<1>1. Kept' = Kept
  BY DEF Get, Kept, InMemory, OnDisk, BlobOf
<1>2. reply' = Kept[n] /\ call' = <<"get", n>>
  BY DEF Get, IInv, SlotsOwned, Kept
<1> QED
  BY <1>1, <1>2 DEF Map!Get, Kept

LEMMA PutRefines ==
    ASSUME IInv, NEW n \in Name, NEW d \in Content, Put(n, d)
    PROVE  Map!Put(n, Compress(d))
<1>1. InMemory' = InMemory \cup {n} /\ OnDisk' = OnDisk /\ files' = files
  BY DEF Put, NewPosition, ContentAfterPut, InMemory, OnDisk
<1>2. BlobOf(n)' = Compress(d)
  <2>1. CASE n \in InMemory
    BY <2>1 DEF Put, NewPosition, ContentAfterPut, BlobOf, IInv, TypeOK
  <2>2. CASE n \notin InMemory
    <3>1. metadata'[n] = Len(data) + 1 /\ data' = Append(data, Compress(d))
      BY <2>2 DEF Put, NewPosition
    <3> QED
      BY <3>1, BlobFacts DEF BlobOf, IInv, TypeOK
  <2> QED
    BY <2>1, <2>2
<1>3. \A m \in InMemory : m # n => BlobOf(m)' = BlobOf(m)
  <2>1. CASE n \in InMemory
    BY <2>1 DEF Put, NewPosition, ContentAfterPut, BlobOf, IInv, TypeOK, SlotsOwned
  <2>2. CASE n \notin InMemory
    <3>1. data' = Append(data, Compress(d))
      BY <2>2 DEF Put, NewPosition
    <3>2. \A m \in InMemory : metadata'[m] = metadata[m] /\ metadata[m] \in 1..Len(data)
      BY <2>2 DEF Put, NewPosition, ContentAfterPut, IInv, TypeOK
    <3>3. \A i \in 1..Len(data) : data'[i] = data[i]
      BY <3>1, BlobFacts DEF IInv, TypeOK
    <3> QED
      BY <3>2, <3>3 DEF BlobOf
  <2> QED
    BY <2>1, <2>2
<1>4. Kept' = [Kept EXCEPT ![n] = Compress(d)]
  BY <1>1, <1>2, <1>3 DEF Kept
<1> QED
  BY <1>4 DEF Map!Put, Put, Kept

LEMMA RemoveRefines ==
    ASSUME IInv, NEW n \in Name, Remove(n)
    PROVE  Map!Remove(n)
<1>1. /\ metadata' = [m \in InMemory \ {n} |-> metadata[m]]
      /\ InMemory' = InMemory \ {n}
  BY DEF Remove, Popped, Unlinked, Restrict, InMemory
<1>c. call' = <<"remove", n>>
  BY DEF Remove
<1>2. CASE n \notin InMemory \cup OnDisk
  <2>1. reply' = NotFound /\ data' = data
    BY <1>2 DEF Remove
  <2>2. files' = files
    <3>1. files' = [m \in OnDisk \ {n} |-> files[m]] /\ files \in [OnDisk -> Blob]
      BY <1>2 DEF Remove, Popped, Unlinked, Restrict, IInv, TypeOK
    <3> QED
      BY <1>2, <3>1
  <2>3. Kept' = Kept
    BY <1>1, <1>2, <2>1, <2>2 DEF Kept, BlobOf, OnDisk
  <2>4. Kept[n] = NoData
    BY <1>2, KeptNoData
  <2> QED
    BY <1>c, <2>1, <2>3, <2>4 DEF Map!Remove, Kept
<1>3. CASE n \in InMemory \cup OnDisk
  <2>1. Kept[n] # NoData
    BY <1>3, KeptNoData
  <2>2. /\ reply' = Done
        /\ files' = [m \in OnDisk \ {n} |-> files[m]] /\ OnDisk' = OnDisk \ {n}
        /\ \A m \in InMemory \ {n} : data'[metadata[m]] = data[metadata[m]]
    <3>1. CASE n \in InMemory
      <4>1. BlobOf(n) # Hole
        BY <3>1 DEF IInv, SlotsOwned
      <4>2. /\ reply' = Done /\ data' = [data EXCEPT ![metadata[n]] = Hole]
            /\ files' = [m \in OnDisk \ {n} |-> files[m]]
        BY <3>1, <4>1 DEF Remove, Popped, Unlinked, Restrict
      <4> QED
        BY <3>1, <4>2 DEF OnDisk, IInv, TypeOK, SlotsOwned
    <3>2. CASE n \notin InMemory
      BY <1>3, <3>2 DEF Remove, Popped, Unlinked, Restrict, OnDisk
    <3> QED
      BY <3>1, <3>2
  <2>3. Kept' = [Kept EXCEPT ![n] = NoData]
    BY <1>1, <2>2 DEF Kept, BlobOf
  <2> QED
    BY <1>c, <2>1, <2>2, <2>3 DEF Map!Remove, Kept
<1> QED
  BY <1>2, <1>3

LEMMA ControlRefines ==
    ASSUME IInv, ControlMemoryUsage
    PROVE  UNCHANGED Map!vars
<1>1. {n \in InMemory : BlobOf(n) = Hole} = {}
  BY DEF IInv, SlotsOwned
<1>2. /\ files' = [n \in OnDisk \cup InMemory |->
                     IF n \in InMemory THEN BlobOf(n) ELSE files[n]]
      /\ metadata' = Empty /\ reply' = reply /\ call' = call
  BY <1>1 DEF ControlMemoryUsage, RemoveAll
<1>3. InMemory' = {} /\ OnDisk' = OnDisk \cup InMemory
  BY <1>2 DEF InMemory, OnDisk, Empty
<1>4. Kept' = Kept
  BY <1>2, <1>3 DEF Kept
<1> QED
  BY <1>2, <1>4 DEF Map!vars, Kept

(* Every behaviour of the store is one of the map: get answers what the    *)
(* last put stored, whatever evictions and overwrites came in between, and *)
(* remove leaves no stale file behind.                                     *)
THEOREM StoreImplementsMap == Spec => StoreIsMap
<1>1. Init => Map!Init
  <2> SUFFICES ASSUME Init PROVE Map!Init
    OBVIOUS
  <2>1. InMemory = {} /\ OnDisk = {}
    BY DEF Init, Empty, InMemory, OnDisk
  <2> QED
    BY <2>1 DEF Init, Map!Init
<1>2. IInv /\ [Next]_vars => [Map!Next]_(Map!vars)
  <2> SUFFICES ASSUME IInv, [Next]_vars PROVE [Map!Next]_(Map!vars)
    OBVIOUS
  <2>1. ASSUME NEW n \in Name, Get(n) PROVE Map!Next
    BY <2>1, GetRefines DEF Map!Next
  <2>2. ASSUME NEW n \in Name, NEW d \in Content, Put(n, d) PROVE Map!Next
    BY <2>2, PutRefines, BlobFacts DEF Map!Next
  <2>3. ASSUME NEW n \in Name, Remove(n) PROVE Map!Next
    BY <2>3, RemoveRefines DEF Map!Next
  <2>4. CASE ControlMemoryUsage
    BY <2>4, ControlRefines
  <2>5. CASE UNCHANGED vars
    BY <2>5 DEF vars, Map!vars, InMemory, OnDisk, BlobOf
  <2> QED
    BY <2>1, <2>2, <2>3, <2>4, <2>5 DEF Next
<1> QED
  BY <1>1, <1>2, StoreInvariant, PTL DEF Spec, StoreIsMap, Map!Spec


-----------------------------------------------------------------------------
(* Sums over finite sets.  A set of subsets of a finite set has a smallest *)
(* element; by it the recursive function of the fold exists and is unique, *)
(* and the sum can be taken element by element.                            *)

LEMMA SmallestSubset ==
    ASSUME NEW S, IsFiniteSet(S), NEW T \in SUBSET (SUBSET S), T # {}
    PROVE  \E s \in T : \A t \in T : t \subseteq s => t = s
<1>1. FiniteSubsetsOf(S) = SUBSET S
  BY FS_FiniteSubsetsOfFinite
<1>2. IsWellFoundedOn(StrictSubsetOrdering(S), SUBSET S)
  BY <1>1, FS_StrictSubsetOrderingWellFounded
<1>3. PICK s \in T : \A t \in T : ~ (<<t, s>> \in StrictSubsetOrdering(S))
  BY <1>2, WFMin
<1>4. ASSUME NEW t \in T, t \subseteq s, t # s PROVE FALSE
  <2>1. <<t, s>> \in (SUBSET S) \X (SUBSET S)
    OBVIOUS
  <2>2. <<t, s>>[1] = t /\ <<t, s>>[2] = s
    OBVIOUS
  <2>3. <<t, s>> \in StrictSubsetOrdering(S)
    BY <1>4, <2>1, <2>2 DEF StrictSubsetOrdering
  <2> QED
    BY <1>3, <2>3
<1> QED
  BY <1>4

Pick(s) == CHOOSE x \in s : TRUE

(* g gives each subset of S its sum over f, by taking one element away.    *)
IsTotal(g, f, S) ==
    g = [s \in SUBSET S |-> IF s = {} THEN 0 ELSE f[Pick(s)] + g[s \ {Pick(s)}]]

Total(f, S) == FoldFunctionOnSet(+, 0, f, S)

LEMMA TotalIsFold ==
    ASSUME NEW f, NEW S
    PROVE  Total(f, S) = (CHOOSE g : IsTotal(g, f, S))[S]
BY DEF Total, FoldFunctionOnSet, MapThenFoldSet, IsTotal, Pick

LEMMA PickIn == \A s : s # {} => Pick(s) \in s
BY DEF Pick

(* Two sums agree wherever their functions do.                             *)
LEMMA TotalsAgree ==
    ASSUME NEW S, NEW T, IsFiniteSet(S), NEW U \in SUBSET (S \cap T),
           NEW f, NEW e, \A x \in U : f[x] = e[x],
           NEW g, NEW h, IsTotal(g, f, S), IsTotal(h, e, T)
    PROVE  g[U] = h[U]
<1> DEFINE Wrong == {s \in SUBSET U : g[s] # h[s]}
<1>1. SUFFICES ASSUME Wrong # {} PROVE FALSE
  OBVIOUS
<1>2. IsFiniteSet(U)
  BY FS_Subset
<1>3. PICK s \in Wrong : \A t \in Wrong : t \subseteq s => t = s
  <2> HIDE DEF Wrong
  <2>1. Wrong \in SUBSET (SUBSET U)
    BY DEF Wrong
  <2> QED
    BY <1>1, <1>2, <2>1, SmallestSubset
<1>4. s \in SUBSET S /\ s \in SUBSET T
  OBVIOUS
<1>5. g[s] = IF s = {} THEN 0 ELSE f[Pick(s)] + g[s \ {Pick(s)}]
  BY <1>4 DEF IsTotal
<1>6. h[s] = IF s = {} THEN 0 ELSE e[Pick(s)] + h[s \ {Pick(s)}]
  BY <1>4 DEF IsTotal
<1>7. s # {}
  BY <1>5, <1>6
<1>8. Pick(s) \in s
  BY <1>7, PickIn
<1>9. g[s \ {Pick(s)}] = h[s \ {Pick(s)}]
  BY <1>3, <1>8
<1>10. f[Pick(s)] = e[Pick(s)]
  BY <1>8
<1> QED
  BY <1>5, <1>6, <1>7, <1>9, <1>10

(* The recursive function of the fold exists.                              *)
LEMMA TotalExists ==
    ASSUME NEW S, IsFiniteSet(S), NEW f
    PROVE  \E g : IsTotal(g, f, S)
<1> DEFINE Missing == {s \in SUBSET S : ~ \E g : IsTotal(g, f, s)}
<1>1. SUFFICES ASSUME Missing # {} PROVE FALSE
  OBVIOUS
<1>2. PICK s \in Missing : \A t \in Missing : t \subseteq s => t = s
  <2> HIDE DEF Missing
  <2>1. Missing \in SUBSET (SUBSET S)
    BY DEF Missing
  <2> QED
    BY <1>1, <2>1, SmallestSubset
<1> DEFINE G(t) == (CHOOSE g : IsTotal(g, f, t))[t]
           g == [t \in SUBSET s |->
                   IF t = {} THEN 0 ELSE f[Pick(t)] + G(t \ {Pick(t)})]
<1>3. ASSUME NEW t \in SUBSET s, t # s PROVE IsTotal(CHOOSE h : IsTotal(h, f, t), f, t)
  BY <1>2, <1>3
<1>4. ASSUME NEW t \in SUBSET s, t # s PROVE g[t] = G(t)
  <2> DEFINE h == CHOOSE h : IsTotal(h, f, t)
             u == t \ {Pick(t)}
             k == CHOOSE k : IsTotal(k, f, u)
  <2>1. IsTotal(h, f, t)
    BY <1>3, <1>4
  <2>2. CASE t = {}
    <3>1. h[t] = 0
      BY <2>1, <2>2 DEF IsTotal
    <3> QED
      BY <2>2, <3>1
  <2>3. CASE t # {}
    <3>1. Pick(t) \in t
      BY <2>3, PickIn
    <3>2. u \in SUBSET s /\ u # s /\ u \in SUBSET t
      BY <1>4, <3>1
    <3>3. IsTotal(k, f, u)
      BY <1>3, <3>2
    <3>4. IsFiniteSet(t)
      BY FS_Subset
    <3>5. h[u] = k[u]
      <4> HIDE DEF h, k, u
      <4> QED
        BY <2>1, <3>2, <3>3, <3>4, TotalsAgree
    <3>6. h[t] = f[Pick(t)] + h[u]
      BY <2>1, <2>3 DEF IsTotal
    <3>7. G(t) = h[t] /\ G(u) = k[u] /\ g[t] = f[Pick(t)] + G(u)
      BY <2>3
    <3> QED
      BY <3>5, <3>6, <3>7
  <2> QED
    BY <2>2, <2>3
<1>5. IsTotal(g, f, s)
  <2>1. ASSUME NEW t \in SUBSET s, t # {}
        PROVE  g[t \ {Pick(t)}] = G(t \ {Pick(t)})
    <3>1. t \ {Pick(t)} \in SUBSET s /\ t \ {Pick(t)} # s
      BY <2>1, PickIn
    <3> QED
      BY <1>4, <3>1
  <2>2. PICK k : k = g
    OBVIOUS
  <2>3. k = [t \in SUBSET s |-> IF t = {} THEN 0 ELSE f[Pick(t)] + G(t \ {Pick(t)})]
    BY <2>2
  <2>4. ASSUME NEW t \in SUBSET s, t # {}
        PROVE  k[t \ {Pick(t)}] = G(t \ {Pick(t)})
    BY <2>1, <2>2, <2>4
  <2>5. k = [t \in SUBSET s |-> IF t = {} THEN 0 ELSE f[Pick(t)] + k[t \ {Pick(t)}]]
    <3> HIDE DEF G
    <3> QED
      BY <2>3, <2>4
  <2>6. IsTotal(k, f, s)
    BY <2>5 DEF IsTotal
  <2> QED
    BY <2>2, <2>6
<1> QED
  BY <1>2, <1>5

(* A sum of integers is one, whichever element is added last.              *)
LEMMA TotalOfIntegers ==
    ASSUME NEW S, IsFiniteSet(S), NEW f, \A x \in S : f[x] \in Int,
           NEW g, IsTotal(g, f, S)
    PROVE  \A s \in SUBSET S : g[s] \in Int
<1> DEFINE Wrong == {s \in SUBSET S : g[s] \notin Int}
<1>1. SUFFICES ASSUME Wrong # {} PROVE FALSE
  OBVIOUS
<1>2. PICK s \in Wrong : \A t \in Wrong : t \subseteq s => t = s
  <2> HIDE DEF Wrong
  <2>1. Wrong \in SUBSET (SUBSET S)
    BY DEF Wrong
  <2> QED
    BY <1>1, <2>1, SmallestSubset
<1>3. g[s] = IF s = {} THEN 0 ELSE f[Pick(s)] + g[s \ {Pick(s)}]
  BY DEF IsTotal
<1>4. s # {}
  BY <1>3
<1>5. Pick(s) \in s /\ f[Pick(s)] \in Int
  BY <1>4, PickIn
<1>6. g[s \ {Pick(s)}] \in Int
  BY <1>2, <1>5
<1>7. g[s] \in Int
  BY <1>3, <1>4, <1>5, <1>6
<1> QED
  BY <1>7

LEMMA TotalTakesAny ==
    ASSUME NEW S, IsFiniteSet(S), NEW f, \A x \in S : f[x] \in Int,
           NEW g, IsTotal(g, f, S)
    PROVE  \A s \in SUBSET S : \A x \in s : g[s] = f[x] + g[s \ {x}]
<1> DEFINE Wrong == {s \in SUBSET S : \E x \in s : g[s] # f[x] + g[s \ {x}]}
<1>1. SUFFICES ASSUME Wrong # {} PROVE FALSE
  OBVIOUS
<1>2. PICK s \in Wrong : \A t \in Wrong : t \subseteq s => t = s
  <2> HIDE DEF Wrong
  <2>1. Wrong \in SUBSET (SUBSET S)
    BY DEF Wrong
  <2> QED
    BY <1>1, <2>1, SmallestSubset
<1>3. PICK x \in s : g[s] # f[x] + g[s \ {x}]
  OBVIOUS
<1>4. PICK p \in s : p = Pick(s)
  BY PickIn
<1>5. g[s] = f[p] + g[s \ {p}]
  BY <1>4 DEF IsTotal
<1>6. p # x
  BY <1>3, <1>5
<1>7. \A t \in SUBSET s : t # s => \A y \in t : g[t] = f[y] + g[t \ {y}]
  BY <1>2
<1>8. g[s \ {p}] = f[x] + g[(s \ {p}) \ {x}]
  BY <1>6, <1>7
<1>9. g[s \ {x}] = f[p] + g[(s \ {x}) \ {p}]
  BY <1>6, <1>7
<1>10. (s \ {x}) \ {p} = (s \ {p}) \ {x}
  OBVIOUS
<1>11. f[x] \in Int /\ f[p] \in Int /\ g[(s \ {x}) \ {p}] \in Int
  <2>1. (s \ {x}) \ {p} \in SUBSET S
    OBVIOUS
  <2> QED
    BY <2>1, TotalOfIntegers
<1>12. g[s] = f[x] + g[s \ {x}]
  <2>1. PICK i \in Int : i = g[(s \ {x}) \ {p}]
    BY <1>11
  <2>2. g[s] = f[p] + (f[x] + i) /\ g[s \ {x}] = f[p] + i
    BY <1>5, <1>8, <1>9, <1>10, <2>1
  <2> QED
    BY <1>11, <2>2
<1> QED
  BY <1>3, <1>12

(* What the account of the store needs of a sum.                           *)
LEMMA TotalFacts ==
    ASSUME NEW S, IsFiniteSet(S), NEW f, \A x \in S : f[x] \in Int
    PROVE  /\ Total(f, {}) = 0
           /\ Total(f, S) \in Int
           /\ \A x \in S : Total(f, S) = f[x] + Total(f, S \ {x})
           /\ \A e : (\A x \in S : e[x] = f[x]) => Total(e, S) = Total(f, S)
<1>1. \A T \in SUBSET S : \A e : IsTotal(CHOOSE g : IsTotal(g, e, T), e, T)
  <2> SUFFICES ASSUME NEW T \in SUBSET S, NEW e
               PROVE  IsTotal(CHOOSE g : IsTotal(g, e, T), e, T)
    OBVIOUS
  <2>1. IsFiniteSet(T)
    BY FS_Subset
  <2> QED
    BY <2>1, TotalExists
<1>2. Total(f, {}) = 0
  <2>1. PICK g : IsTotal(g, f, {}) /\ Total(f, {}) = g[{}]
    BY <1>1, TotalIsFold
  <2> QED
    BY <2>1 DEF IsTotal
<1>3. PICK g : IsTotal(g, f, S) /\ Total(f, S) = g[S]
  BY <1>1, TotalIsFold
<1>4. Total(f, S) \in Int
  BY <1>3, TotalOfIntegers
<1>5. ASSUME NEW x \in S PROVE Total(f, S) = f[x] + Total(f, S \ {x})
  <2>1. PICK h : IsTotal(h, f, S \ {x}) /\ Total(f, S \ {x}) = h[S \ {x}]
    BY <1>1, TotalIsFold
  <2>2. g[S \ {x}] = h[S \ {x}]
    <3>1. S \ {x} \in SUBSET (S \cap (S \ {x}))
      OBVIOUS
    <3> QED
      BY <1>3, <2>1, <3>1, TotalsAgree
  <2>3. g[S] = f[x] + g[S \ {x}]
    BY <1>3, TotalTakesAny
  <2> QED
    BY <1>3, <2>1, <2>2, <2>3
<1>6. ASSUME NEW e, \A x \in S : e[x] = f[x] PROVE Total(e, S) = Total(f, S)
  <2>1. PICK h : IsTotal(h, e, S) /\ Total(e, S) = h[S]
    BY <1>1, TotalIsFold
  <2>2. S \in SUBSET (S \cap S)
    OBVIOUS
  <2>3. g[S] = h[S]
    BY <1>3, <1>6, <2>1, <2>2, TotalsAgree
  <2> QED
    BY <1>3, <2>1, <2>3
<1> QED
  BY <1>2, <1>4, <1>5, <1>6

-----------------------------------------------------------------------------
(* The memory account                                                      *)

(* A put gives the name its blob and leaves the other names theirs.        *)
LEMMA PutBlobs ==
    ASSUME IInv, NEW n \in Name, NEW d \in Content, Put(n, d)
    PROVE  /\ InMemory' = InMemory \cup {n}
           /\ BlobOf(n)' = Compress(d)
           /\ \A m \in InMemory : m # n => BlobOf(m)' = BlobOf(m)
<1>1. InMemory' = InMemory \cup {n} /\ OnDisk' = OnDisk /\ files' = files
  BY DEF Put, NewPosition, ContentAfterPut, InMemory, OnDisk
<1>2. BlobOf(n)' = Compress(d)
  <2>1. CASE n \in InMemory
    BY <2>1 DEF Put, NewPosition, ContentAfterPut, BlobOf, IInv, TypeOK
  <2>2. CASE n \notin InMemory
    <3>1. metadata'[n] = Len(data) + 1 /\ data' = Append(data, Compress(d))
      BY <2>2 DEF Put, NewPosition
    <3> QED
      BY <3>1, BlobFacts DEF BlobOf, IInv, TypeOK
  <2> QED
    BY <2>1, <2>2
<1>3. \A m \in InMemory : m # n => BlobOf(m)' = BlobOf(m)
  <2>1. CASE n \in InMemory
    BY <2>1 DEF Put, NewPosition, ContentAfterPut, BlobOf, IInv, TypeOK, SlotsOwned
  <2>2. CASE n \notin InMemory
    <3>1. data' = Append(data, Compress(d))
      BY <2>2 DEF Put, NewPosition
    <3>2. \A m \in InMemory : metadata'[m] = metadata[m] /\ metadata[m] \in 1..Len(data)
      BY <2>2 DEF Put, NewPosition, ContentAfterPut, IInv, TypeOK
    <3>3. \A i \in 1..Len(data) : data'[i] = data[i]
      BY <3>1, BlobFacts DEF IInv, TypeOK
    <3> QED
      BY <3>2, <3>3 DEF BlobOf
  <2> QED
    BY <2>1, <2>2
<1> QED
  BY <1>1, <1>2, <1>3

(* What the entry of a name in memory takes.                               *)
EntrySizes == [n \in InMemory |-> TupleSize + SizeOf(BlobOf(n))]

LEMMA RealContentIsTotal ==
    /\ RealContent = Total(EntrySizes, InMemory)
    /\ RealContent' = Total(EntrySizes', InMemory')
<1>1. RealContent = Total(EntrySizes, InMemory)
  BY DEF RealContent, Total, EntrySizes
<1>2. RealContent' = Total(EntrySizes', InMemory')
  BY DEF RealContent, Total, EntrySizes, FoldFunctionOnSet, MapThenFoldSet
<1> QED
  BY <1>1, <1>2

LEMMA SameContent ==
    ASSUME metadata' = metadata, data' = data
    PROVE  RealContent' = RealContent
<1>1. InMemory' = InMemory /\ EntrySizes' = EntrySizes
  BY DEF InMemory, EntrySizes, BlobOf, SizeOf
<1> QED
  BY <1>1, RealContentIsTotal

LEMMA EntrySizesType ==
    ASSUME TypeOK, SlotsOwned
    PROVE  \A n \in InMemory : EntrySizes[n] \in Nat
<1> SUFFICES ASSUME NEW n \in InMemory PROVE EntrySizes[n] \in Nat
  OBVIOUS
<1>1. BlobOf(n) \in Blob
  BY BlobFacts DEF TypeOK, SlotsOwned, BlobOf
<1>2. SizeOf(BlobOf(n)) \in Nat
  BY <1>1, SizeOfType
<1> QED
  BY <1>2, SizesAssumption DEF EntrySizes

(* After a step that leaves m's blob alone, m takes what it took.          *)
LEMMA SameEntrySize ==
    ASSUME NEW m \in InMemory, m \in InMemory', BlobOf(m)' = BlobOf(m)
    PROVE  EntrySizes'[m] = EntrySizes[m]
BY DEF EntrySizes, SizeOf

LEMMA PutCovered ==
    ASSUME IInv, ContentCovered, NEW n \in Name, NEW d \in Content, Put(n, d)
    PROVE  ContentCovered'
<1>1. PICK f : f = EntrySizes
  OBVIOUS
<1>2. PICK g : g = EntrySizes'
  OBVIOUS
<1>3. \A m \in InMemory : f[m] \in Nat
  BY <1>1, EntrySizesType DEF IInv
<1>4. /\ InMemory' = InMemory \cup {n}
      /\ BlobOf(n)' = Compress(d)
      /\ \A m \in InMemory : m # n => BlobOf(m)' = BlobOf(m)
  BY PutBlobs
<1>5. g[n] = TupleSize + CompressedSize[d]
  <2>1. SizeOf(Compress(d)) = CompressedSize[d]
    BY DEF SizeOf, Compress
  <2>2. EntrySizes'[n] = TupleSize + SizeOf(BlobOf(n)')
    BY <1>4 DEF EntrySizes, SizeOf
  <2> QED
    BY <1>2, <1>4, <2>1, <2>2
<1>6. \A m \in InMemory : m # n => g[m] = f[m]
  BY <1>1, <1>2, <1>4, SameEntrySize
<1>7. PICK S : S = InMemory /\ IsFiniteSet(S)
  BY DEF IInv, TypeOK
<1>8. /\ RealContent = Total(f, S) /\ RealContent' = Total(g, S \cup {n})
      /\ memory_size.content >= Total(f, S) /\ memory_size.content \in Int
  <2>1. RealContent' = Total(EntrySizes', InMemory')
    BY RealContentIsTotal
  <2> QED
    BY <1>1, <1>2, <1>4, <1>7, <2>1, RealContentIsTotal DEF ContentCovered, IInv, TypeOK
<1>9. memory_size.content + CompressedSize[d] + TupleSize >= Total(g, S \cup {n})
  <2>1. IsFiniteSet(S \cup {n}) /\ IsFiniteSet(S \ {n})
    BY <1>7, FS_AddElement, FS_RemoveElement
  <2>2. \A m \in S \cup {n} : g[m] \in Int
    BY <1>3, <1>5, <1>6, <1>7, SizesAssumption
  <2>3. \A m \in S : f[m] \in Int
    BY <1>3, <1>7
  <2>4. Total(g, S \cup {n}) = g[n] + Total(g, (S \cup {n}) \ {n})
    BY <2>1, <2>2, TotalFacts
  <2>5. (S \cup {n}) \ {n} = S \ {n}
    OBVIOUS
  <2>6. Total(g, S \ {n}) = Total(f, S \ {n}) /\ Total(f, S \ {n}) \in Int
    <3>1. \A m \in S \ {n} : f[m] \in Int /\ g[m] = f[m]
      BY <1>6, <1>7, <2>3
    <3> QED
      BY <2>1, <3>1, TotalFacts
  <2>7. Total(f, S) \in Int /\ Total(f, S) >= Total(f, S \ {n})
    <3>1. CASE n \in S
      <4>1. f[n] \in Nat
        BY <1>3, <1>7, <3>1
      <4>2. Total(f, S) = f[n] + Total(f, S \ {n})
        BY <1>7, <2>3, <3>1, TotalFacts
      <4> QED
        BY <2>6, <4>1, <4>2
    <3>2. CASE n \notin S
      <4>1. S \ {n} = S
        BY <3>2
      <4> QED
        BY <2>6, <4>1
    <3> QED
      BY <3>1, <3>2
  <2>8. CompressedSize[d] \in Nat /\ TupleSize \in Nat
    BY SizesAssumption
  <2>9. Total(g, S \cup {n}) = TupleSize + CompressedSize[d] + Total(f, S \ {n})
    BY <1>5, <2>4, <2>5, <2>6
  <2>10. memory_size.content >= Total(f, S \ {n}) /\ memory_size.content \in Int
    BY <1>8, <2>6, <2>7
  <2>11. PICK i \in Int : i = Total(f, S \ {n})
    BY <2>6
  <2> QED
    BY <2>8, <2>9, <2>10, <2>11
<1>10. memory_size'.content = memory_size.content + CompressedSize[d] + TupleSize
  BY DEF Put, ContentAfterPut
<1> QED
  BY <1>8, <1>9, <1>10 DEF ContentCovered

LEMMA RemoveCovered ==
    ASSUME IInv, ContentCovered, NEW n \in Name, Remove(n)
    PROVE  ContentCovered'
<1>1. InMemory' = InMemory \ {n} /\ \A m \in InMemory \ {n} : metadata'[m] = metadata[m]
  BY DEF Remove, Popped, Restrict, InMemory
<1>2. PICK f : f = EntrySizes
  OBVIOUS
<1>3. PICK g : g = EntrySizes'
  OBVIOUS
<1>4. PICK S : S = InMemory /\ IsFiniteSet(S) /\ IsFiniteSet(S \ {n})
  BY FS_RemoveElement DEF IInv, TypeOK
<1>5. /\ RealContent' = Total(g, S \ {n})
      /\ memory_size.content >= Total(f, S) /\ memory_size.content \in Int
  <2>1. RealContent' = Total(EntrySizes', InMemory')
    BY RealContentIsTotal
  <2> QED
    BY <1>1, <1>2, <1>3, <1>4, <2>1, RealContentIsTotal DEF ContentCovered, IInv, TypeOK
<1>6. \A m \in S : f[m] \in Int
  BY <1>2, <1>4, EntrySizesType DEF IInv
<1>7. ASSUME \A m \in InMemory \ {n} : BlobOf(m)' = BlobOf(m)
      PROVE  Total(g, S \ {n}) = Total(f, S \ {n})
  <2>1. \A m \in S \ {n} : g[m] = f[m]
    BY <1>1, <1>2, <1>3, <1>4, <1>7, SameEntrySize
  <2> QED
    BY <1>4, <1>6, <2>1, TotalFacts
<1>8. CASE n \notin InMemory
  <2>1. data' = data /\ memory_size' = memory_size
    BY <1>8 DEF Remove
  <2>2. \A m \in InMemory \ {n} : BlobOf(m)' = BlobOf(m)
    BY <1>1, <2>1 DEF BlobOf
  <2>3. S \ {n} = S
    BY <1>4, <1>8
  <2> QED
    BY <1>5, <1>7, <2>1, <2>2, <2>3 DEF ContentCovered
<1>9. CASE n \in InMemory
  <2>1. BlobOf(n) # Hole
    BY <1>9 DEF IInv, SlotsOwned
  <2>2. /\ data' = [data EXCEPT ![metadata[n]] = Hole]
        /\ memory_size'.content = memory_size.content - TupleSize - SizeOf(BlobOf(n))
    BY <1>9, <2>1 DEF Remove
  <2>3. \A m \in InMemory \ {n} : BlobOf(m)' = BlobOf(m)
    BY <1>1, <1>9, <2>2 DEF IInv, TypeOK, SlotsOwned, BlobOf
  <2>4. Total(f, S) = f[n] + Total(f, S \ {n}) /\ Total(f, S \ {n}) \in Int
    <3>1. \A m \in S \ {n} : f[m] \in Int
      BY <1>6
    <3> QED
      BY <1>4, <1>6, <1>9, <3>1, TotalFacts
  <2>5. f[n] = TupleSize + SizeOf(BlobOf(n)) /\ SizeOf(BlobOf(n)) \in Nat
    <3>1. BlobOf(n) \in Blob
      BY <1>9, BlobFacts DEF IInv, TypeOK, SlotsOwned, BlobOf
    <3> QED
      BY <1>2, <1>9, <3>1, SizeOfType DEF EntrySizes
  <2>6. memory_size.content - TupleSize - SizeOf(BlobOf(n)) >= Total(f, S \ {n})
    BY <1>5, <2>4, <2>5, SizesAssumption
  <2> QED
    BY <1>5, <1>7, <2>2, <2>3, <2>6 DEF ContentCovered
<1> QED
  BY <1>8, <1>9

LEMMA EmptyCovered == InMemory = {} /\ memory_size.content = 0 => ContentCovered
<1> SUFFICES ASSUME InMemory = {}, memory_size.content = 0 PROVE ContentCovered
  OBVIOUS
<1>1. \A f : Total(f, {}) = 0
  BY FS_EmptySet, TotalFacts
<1> QED
  BY <1>1, RealContentIsTotal DEF ContentCovered

(* What the store believes its contents take is never below what they do,  *)
(* through overwrites, which put counts twice, removals, which take one    *)
(* blob off, and evictions: the limit on the memory is not missed.         *)
THEOREM StoreContentCovered == Spec => []ContentCovered
<1>1. Init => ContentCovered
  BY EmptyCovered DEF Init, Empty, InMemory
<1>2. IInv /\ IInv' /\ ContentCovered /\ [Next]_vars => ContentCovered'
  <2> SUFFICES ASSUME IInv, IInv', ContentCovered, [Next]_vars PROVE ContentCovered'
    OBVIOUS
  <2>1. ASSUME NEW n \in Name, Get(n) PROVE ContentCovered'
    BY <2>1, SameContent DEF Get, ContentCovered
  <2>2. ASSUME NEW n \in Name, NEW d \in Content, Put(n, d) PROVE ContentCovered'
    BY <2>2, PutCovered
  <2>3. ASSUME NEW n \in Name, Remove(n) PROVE ContentCovered'
    BY <2>3, RemoveCovered
  <2>4. CASE ControlMemoryUsage
    <3>1. {n \in InMemory : BlobOf(n) = Hole} = {}
      BY DEF IInv, SlotsOwned
    <3>2. metadata' = Empty /\ memory_size'.content = 0
      BY <2>4, <3>1 DEF ControlMemoryUsage, RemoveAll
    <3>3. InMemory' = {}
      BY <3>2 DEF InMemory, Empty
    <3>4. RealContent' = 0
      <4>1. RealContent' = Total(EntrySizes', InMemory')
        BY RealContentIsTotal
      <4>2. \A f : Total(f, {}) = 0
        BY FS_EmptySet, TotalFacts
      <4> QED
        BY <3>3, <4>1, <4>2
    <3> QED
      BY <3>2, <3>4 DEF ContentCovered
  <2>5. CASE UNCHANGED vars
    BY <2>5, SameContent DEF vars, ContentCovered
  <2> QED
    BY <2>1, <2>2, <2>3, <2>4, <2>5 DEF Next
<1> QED
  BY <1>1, <1>2, StoreInvariant, PTL DEF Spec
=============================================================================
