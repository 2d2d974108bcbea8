-------------------------- MODULE SharedNodeStore --------------------------
(***************************************************************************)
(* src/py3dtiles/tilers/point/node/shared_node_store.py: the manager's     *)
(* storage of node contents.  Blobs live in a list (data) indexed by a     *)
(* dictionary (metadata); when the memory the store believes it uses       *)
(* reaches a limit, every blob is written to its own file and the list and *)
(* the dictionary are emptied.  A name may then have a file and, after a   *)
(* later put, a newer blob in memory.                                      *)
(*                                                                         *)
(* Abstracted: the time stamps of the metadata and the hit/miss/new        *)
(* counters (only printed), and the sizes Python reports, which become     *)
(* constants.  List positions count from 1.                                *)
(***************************************************************************)
EXTENDS Integers, Sequences, FiniteSets, Functions

CONSTANTS
    Name,           \* node names
    Content,        \* uncompressed node contents
    CompressedSize, \* len(gzip.compress(d)) for each content d
    TupleSize,      \* getsizeof of a 2-tuple: (name, metadata) and metadata alike
    SlotSize,       \* what one element adds to getsizeof(self.data)
    EntrySize,      \* what one key adds to getsizeof(self.metadata)
    MaxSize,        \* the limit control_memory_usage enforces
    MaxSlots,       \* bound on the length of data
    MaxContent      \* bound on memory_size["content"]

ASSUME SizesAssumption ==
    /\ CompressedSize \in [Content -> Nat]
    /\ TupleSize \in Nat
    /\ SlotSize \in Nat
    /\ EntrySize \in Nat
    /\ MaxSize \in Nat
    /\ MaxSlots \in Nat
    /\ MaxContent \in Nat

VARIABLES
    metadata,    \* name -> position in data, for the names in memory
    data,        \* the list of blobs; Hole where a removed name was
    files,       \* name -> blob, for the names that have a file in the folder
    memory_size, \* what the store believes it uses: content and container
    call,        \* the last operation and its arguments
    reply        \* what it returned or raised

vars == <<metadata, data, files, memory_size, call, reply>>

-----------------------------------------------------------------------------
(* The values the store handles                                            *)

NoData == <<>>                              \* b""
Compress(d) == <<"lz4", d>>                 \* gzip.compress (lz4.frame)
Blob == {Compress(d) : d \in Content}
Hole == <<"None">>                          \* None
SizeOf(b) == CompressedSize[b[2]]

Done == <<"done">>
NotFound == <<"FileNotFoundError">>
Fault == <<"TilerException">>

ContainerSize(d, m) == SlotSize * Len(d) + EntrySize * Cardinality(DOMAIN m)

Empty == [n \in {} |-> 1]                   \* {}
InMemory == DOMAIN metadata
OnDisk == DOMAIN files
BlobOf(n) == data[metadata[n]]

(* The definitions whose name starts with Bug are mutations, each of the   *)
(* definition after it: no specification uses them, they show that a       *)
(* property fails when the code has that bug.                              *)
BugNewPosition == Len(data) + 2
NewPosition == Len(data) + 1

(* An overwrite is counted like a new blob: the old one is not taken off.  *)
BugContentAfterPut(n, d) ==
    IF n \in InMemory THEN memory_size.content
    ELSE memory_size.content + CompressedSize[d] + TupleSize
ContentAfterPut(n, d) == memory_size.content + CompressedSize[d] + TupleSize

BugPopped(n) == metadata
Popped(n) == Restrict(metadata, InMemory \ {n})

BugUnlinked(n) == files
Unlinked(n) == Restrict(files, OnDisk \ {n})

-----------------------------------------------------------------------------
Init ==
    /\ metadata = Empty
    /\ data = <<>>
    /\ files = Empty
    /\ memory_size = [content |-> 0, container |-> 0]
    /\ call = <<>>
    /\ reply = Done

Get(n) ==
    /\ call' = <<"get", n>>
    /\ reply' = IF n \in InMemory
                THEN IF BlobOf(n) = Hole THEN Fault ELSE BlobOf(n)
                ELSE IF n \in OnDisk THEN files[n] ELSE NoData
    /\ UNCHANGED <<metadata, data, files, memory_size>>

Put(n, d) ==
    /\ call' = <<"put", n, Compress(d)>>
    /\ Len(data) < MaxSlots
    /\ ContentAfterPut(n, d) <= MaxContent
    /\ IF n \in InMemory
       THEN /\ data' = [data EXCEPT ![metadata[n]] = Compress(d)]
            /\ UNCHANGED metadata
       ELSE /\ data' = Append(data, Compress(d))
            /\ metadata' = [m \in InMemory \cup {n} |->
                              IF m = n THEN NewPosition ELSE metadata[m]]
    /\ memory_size' =
         [content   |-> ContentAfterPut(n, d),
          container |-> ContainerSize(data', metadata')]
    /\ reply' = Done
    /\ UNCHANGED files

(* remove: the entry goes first, then the blob, then the file if there is  *)
(* one.  A name in memory may have no file; a name not in memory must.     *)
Remove(n) ==
    /\ call' = <<"remove", n>>
    /\ metadata' = Popped(n)
    /\ IF n \notin InMemory
       THEN /\ reply' = IF n \in OnDisk THEN Done ELSE NotFound
            /\ files' = Unlinked(n)
            /\ UNCHANGED <<data, memory_size>>
       ELSE IF BlobOf(n) = Hole
       THEN /\ reply' = Fault
            /\ memory_size' = [memory_size EXCEPT !.content = @ - TupleSize]
            /\ UNCHANGED <<data, files>>
       ELSE /\ reply' = Done
            /\ memory_size' =
                 [content   |-> memory_size.content - TupleSize - SizeOf(BlobOf(n)),
                  container |-> ContainerSize(data, metadata')]
            /\ data' = [data EXCEPT ![metadata[n]] = Hole]
            /\ files' = Unlinked(n)

(* _remove_all: a file per name in memory, over the file it may have had.  *)
(* A hole under a name stops it with some of the files written.            *)
RemoveAll ==
    LET written(S) == [n \in OnDisk \cup S |-> IF n \in S THEN BlobOf(n) ELSE files[n]]
        holes == {n \in InMemory : BlobOf(n) = Hole}
    IN  IF holes = {}
        THEN /\ files' = written(InMemory)
             /\ metadata' = Empty
             /\ data' = <<>>
             /\ memory_size' = [content |-> 0, container |-> ContainerSize(<<>>, Empty)]
             /\ UNCHANGED reply
        ELSE /\ \E S \in SUBSET (InMemory \ holes) : files' = written(S)
             /\ reply' = Fault
             /\ UNCHANGED <<metadata, data, memory_size>>

(* control_memory_usage, called after every turn of the manager's loop:    *)
(* below the limit it returns without an effect.                           *)
ControlMemoryUsage ==
    /\ memory_size.container + memory_size.content >= MaxSize
    /\ RemoveAll
    /\ UNCHANGED call

Next ==
    \/ \E n \in Name : Get(n)
    \/ \E n \in Name, d \in Content : Put(n, d)
    \/ \E n \in Name : Remove(n)
    \/ ControlMemoryUsage

Spec == Init /\ [][Next]_vars

-----------------------------------------------------------------------------
(* Properties                                                              *)

CallOK ==
    \/ call = <<>>
    \/ \E n \in Name : call = <<"get", n>> \/ call = <<"remove", n>>
    \/ \E n \in Name, b \in Blob : call = <<"put", n, b>>

(* The type of every variable: positions point into the list, which holds  *)
(* blobs and holes, and files hold blobs.                                  *)
TypeOK ==
    /\ InMemory \subseteq Name
    /\ IsFiniteSet(InMemory)
    /\ metadata \in [InMemory -> 1..Len(data)]
    /\ data \in Seq(Blob \cup {Hole})
    /\ OnDisk \subseteq Name
    /\ files \in [OnDisk -> Blob]
    /\ memory_size \in [content : Int, container : Nat]
    /\ CallOK
    /\ reply \in Blob \cup {NoData, Done, NotFound, Fault}

(* Two names never share a position, and no entry points at a hole: what   *)
(* the TilerExceptions of get, remove and _remove_all guard against.       *)
SlotsOwned ==
    /\ \A n \in InMemory : BlobOf(n) # Hole
    /\ \A m, n \in InMemory : metadata[m] = metadata[n] => m = n

(* No operation ever raises TilerException: the "shouldn't be None" checks *)
(* of the code cannot fail after any sequence of calls.                    *)
NoFault == reply # Fault

(* The memory really used by the entries in memory                         *)
RealContent ==
    FoldFunctionOnSet(+, 0,
        [n \in InMemory |-> TupleSize + SizeOf(BlobOf(n))], InMemory)

(* The size the store believes its contents have is never below the real   *)
(* one, although put adds the whole blob on an overwrite and remove takes  *)
(* off one blob only: the memory limit is not missed by a wrong account.   *)
ContentCovered == memory_size.content >= RealContent

(* The store is a map: wherever a blob is, the answer of every operation   *)
(* is the one NodeMap gives.                                               *)
Map == INSTANCE NodeMap WITH
    Blob <- Blob, NoData <- NoData, Done <- Done, NotFound <- NotFound,
    call <- call, reply <- reply,
    store <- [n \in Name |->
                IF n \in InMemory THEN BlobOf(n)
                ELSE IF n \in OnDisk THEN files[n] ELSE NoData]
StoreIsMap == Map!Spec
=============================================================================
