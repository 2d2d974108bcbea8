------------------------------ MODULE NodeMap ------------------------------
(***************************************************************************)
(* What SharedNodeStore promises to the tiler: a map from node names to    *)
(* (compressed) blobs.  get answers what the last put of that name stored, *)
(* b"" when there is none; remove forgets the name and refuses an unknown  *)
(* one.  Nothing of where a blob is kept (memory or disk) is visible.      *)
(***************************************************************************)
CONSTANTS
    Name,       \* node names
    Blob,       \* what put stores: compressed node contents
    NoData,     \* b"", the answer for an unknown name
    Done,       \* the reply of an operation that returns nothing
    NotFound    \* the reply of remove for an unknown name: FileNotFoundError

VARIABLES
    store,      \* store[n]: the blob of n, NoData when there is none
    call,       \* the last operation and its arguments
    reply       \* what it returned or raised

vars == <<store, call, reply>>

Init ==
    /\ store = [n \in Name |-> NoData]
    /\ call = <<>>
    /\ reply = Done

Get(n) ==
    /\ call' = <<"get", n>>
    /\ reply' = store[n]
    /\ UNCHANGED store

Put(n, b) ==
    /\ call' = <<"put", n, b>>
    /\ store' = [store EXCEPT ![n] = b]
    /\ reply' = Done

Remove(n) ==
    /\ call' = <<"remove", n>>
    /\ IF store[n] = NoData
       THEN reply' = NotFound /\ UNCHANGED store
       ELSE reply' = Done /\ store' = [store EXCEPT ![n] = NoData]

Next ==
    \E n \in Name :
        \/ Get(n)
        \/ Remove(n)
        \/ \E b \in Blob : Put(n, b)

Spec == Init /\ [][Next]_vars
=============================================================================
