----------------------------- MODULE JobOutputs -----------------------------
(***************************************************************************)
(* What a worker may answer to the job of a node, from the outside: the    *)
(* messages the manager can receive.  PointTiler uses it for the worker,   *)
(* and NodeProcess, which models what the worker does, is checked to       *)
(* answer nothing else.                                                    *)
(*                                                                         *)
(* A job is the content of the node and the tasks of that node, all sets   *)
(* of points.  BugTotal is not the code's: it is a slip in Total that the  *)
(* properties must catch.                                                  *)
(***************************************************************************)
EXTENDS Integers, FiniteSets, NodeNames

CONSTANTS
    Point,      \* the points of the input files
    Path        \* Path[p]: the octants of p, down to the deepest tile

ASSUME PathAssumption ==
    /\ IsFiniteSet(Point)
    /\ Path \in [Point -> NodeName]
    /\ \A p \in Point : Len(Path[p]) >= 1

NewTask(n, points) == [type |-> "NEW_TASK", name |-> n, points |-> points]
ProcessedMessage(n, total, data) ==
    [type |-> "PROCESSED", name |-> n, total |-> total, data |-> data]

(* The node at which a task of n that holds point p goes on.               *)
CanForward(n, p) == ForwardLength(Len(n)) <= Len(Path[p])
TargetOf(n, p) == SubSeq(Path[p], 1, ForwardLength(Len(n)))

(* NodeProcess.run: after each task it inserts, in the order of the list,  *)
(* a flush may forward some of the points the node then holds, of earlier  *)
(* jobs too when it splits.  In the end the root has forwarded everything, *)
(* and any other node that has points keeps some (the first point of every *)
(* grid cell stays).  The deepest tiles forward nothing.                   *)
Orders(S) ==
    {order \in [1..Cardinality(S) -> S] :
       \A i, j \in DOMAIN order : order[i] = order[j] => i = j}

JobPoints(job) == job.node \cup UNION job.tasks
Forwarded(flush) == UNION {flush[i] : i \in DOMAIN flush}

Flushes(n, job) ==
    {flush \in [1..Cardinality(job.tasks) -> SUBSET {p \in JobPoints(job) : CanForward(n, p)}] :
       /\ \E order \in Orders(job.tasks) : \A i \in DOMAIN flush :
            flush[i] \subseteq (job.node \cup UNION {order[j] : j \in 1..i})
                               \ UNION {flush[j] : j \in 1..(i - 1)}
       /\ n = Root <=> Forwarded(flush) = JobPoints(job)}

(* One NEW_TASK per flush and target, the flushes in their order.          *)
NewTasks(n, flush) ==
    LET targets == UNION {{<<i, TargetOf(n, p)>> : p \in flush[i]} : i \in DOMAIN flush}
        orders == {order \in Orders(targets) :
                     \A i, j \in DOMAIN order : i < j => order[i][1] <= order[j][1]}
        task(i, name) == NewTask(name, {p \in flush[i] : TargetOf(n, p) = name})
    IN  {[k \in DOMAIN order |-> task(order[k][1], order[k][2])] : order \in orders}

(* total_point_count: the points inserted minus the points forwarded.      *)
BugTotal(job, flush) == Cardinality(UNION job.tasks)
Total(job, flush) == Cardinality(UNION job.tasks) - Cardinality(Forwarded(flush))

(* What processing node n may send: its NEW_TASKs, then PROCESSED with the *)
(* points it keeps.                                                        *)
ProcessOutputs(n, job) ==
    UNION {{Append(tasks, ProcessedMessage(n, Total(job, flush),
                                           JobPoints(job) \ Forwarded(flush))) :
              tasks \in NewTasks(n, flush)} : flush \in Flushes(n, job)}
=============================================================================
