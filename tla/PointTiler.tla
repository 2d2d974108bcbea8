----------------------------- MODULE PointTiler -----------------------------
(***************************************************************************)
(* src/py3dtiles/tilers/point: the state of the point tiler in the manager *)
(* process (PointState, PointTiler) and what one execution of a command    *)
(* does in a worker (PointTilerWorker, NodeProcess).  Convert composes     *)
(* them with the processes and the channels.                               *)
(*                                                                         *)
(* A point is a model value with the octants it falls in (Path).  A task   *)
(* or a node content is the set of its points; its point count is the size *)
(* of the set.  A list of tasks is a set of tasks, which have no point in  *)
(* common, and a list of names a set of names: a name never enters one     *)
(* that has it (NodeAccounting in ConvertProperties), and the order in     *)
(* which a list is popped is arbitrary here.                               *)
(***************************************************************************)
EXTENDS Integers, FiniteSets, Functions, JobOutputs

CONSTANTS
    Portions,           \* the file portions, each the sequence of its chunks
    MaxPointInProgress, \* PointState.max_point_in_progress (60_000_000)
    MaxReadingJobs,     \* max(1, number_of_jobs // 2)
    TargetCount         \* target_count of send_points_to_process (100_000)

ChunksOf(portion) == {portion[i] : i \in 1..Len(portion)}
PointsOf(portion) == UNION ChunksOf(portion)

ASSUME LimitAssumption ==
    /\ MaxPointInProgress \in Nat \ {0}
    /\ MaxReadingJobs \in Nat \ {0}
    /\ TargetCount \in Nat \ {0}

(* The readers cut every input point into exactly one chunk of one portion *)
(* and yield no empty chunk.                                               *)
ASSUME PortionAssumption ==
    /\ Portions \in Seq(Seq((SUBSET Point) \ {{}}))
    /\ \A i \in 1..Len(Portions) : Len(Portions[i]) >= 1
    /\ UNION {PointsOf(Portions[i]) : i \in 1..Len(Portions)} = Point
    /\ \A i, j \in 1..Len(Portions) :
         \A k \in 1..Len(Portions[i]), l \in 1..Len(Portions[j]) :
           <<i, k>> # <<j, l>> => Portions[i][k] \cap Portions[j][l] = {}

(* The names a task can have: the root and the tiles on a point's path.    *)
Prefixes(path) == {SubSeq(path, 1, k) : k \in 1..Len(path)}
TaskName == {Root} \cup UNION {Prefixes(Path[p]) : p \in Point}

VARIABLES
    point_cloud_file_parts, \* how many portions of Portions are left to read
    number_of_reading_jobs, number_of_writing_jobs,
    points_in_progress, processed_points, points_in_pnts,
    node_to_process,        \* name -> its tasks ({}: no entry)
    processing_nodes,       \* the names sent to a worker
    waiting_writing_nodes,  \* processed, until no more points can come
    pnts_to_writing,        \* ready to be sent to a writer
    node_store              \* name -> points stored ({}: no data)

stateVars == <<point_cloud_file_parts, number_of_reading_jobs, number_of_writing_jobs,
               points_in_progress, processed_points, points_in_pnts, node_to_process,
               processing_nodes, waiting_writing_nodes, pnts_to_writing, node_store>>
nodeVars == <<node_to_process, processing_nodes, waiting_writing_nodes,
              pnts_to_writing, node_store>>
countVars == <<point_cloud_file_parts, number_of_reading_jobs, number_of_writing_jobs,
               points_in_progress, processed_points, points_in_pnts>>

TilerInit ==
    /\ point_cloud_file_parts = Len(Portions)
    /\ number_of_reading_jobs = 0 /\ number_of_writing_jobs = 0
    /\ points_in_progress = 0 /\ processed_points = 0 /\ points_in_pnts = 0
    /\ node_to_process = [n \in TaskName |-> {}]
    /\ processing_nodes = {}
    /\ waiting_writing_nodes = {} /\ pnts_to_writing = {}
    /\ node_store = [n \in TaskName |-> {}]

(* The definitions whose name starts with Bug are mutations, each of the   *)
(* definition after it: no specification uses them, they show that a       *)
(* property fails when the code has that bug.                              *)
BugIsReadingFinish == point_cloud_file_parts = 0
IsReadingFinish == point_cloud_file_parts = 0 /\ number_of_reading_jobs = 0

InputNodes == {n \in TaskName : node_to_process[n] # {}}

-----------------------------------------------------------------------------
(* The commands get_tasks yields: tiles to write first, then nodes to      *)
(* process, then portions to read.                                         *)

CanAddReadingJobs ==
    /\ point_cloud_file_parts > 0
    /\ points_in_progress < MaxPointInProgress
    /\ number_of_reading_jobs < MaxReadingJobs

BugReadyNodes == InputNodes
ReadyNodes == InputNodes \ processing_nodes
CanWrite == pnts_to_writing # {}
CanProcess == ~ CanWrite /\ ReadyNodes # {}
CanRead == ~ CanWrite /\ ~ CanProcess /\ CanAddReadingJobs
BugHasTasks == CanWrite \/ CanProcess
HasTasks == CanWrite \/ CanProcess \/ CanRead

TaskPoints(nodes) == UNION UNION {node_to_process[n] : n \in nodes}

(* One job of send_points_to_process: nodes taken shallowest first until   *)
(* they have TargetCount points; nodes of one length come in any order.    *)
Batches ==
    {batch \in SUBSET ReadyNodes :
       \E last \in batch :
         /\ \A n \in batch : Len(n) <= Len(last)
         /\ \A n \in ReadyNodes \ batch : Len(n) >= Len(last)
         /\ Cardinality(TaskPoints(batch \ {last})) < TargetCount
         /\ \/ batch = ReadyNodes
            \/ Cardinality(TaskPoints(batch)) >= TargetCount}

BugReadCommand(i) == [command |-> "READ_FILE", portion |-> i - 1]
ReadCommand(i) == [command |-> "READ_FILE", portion |-> i]
ProcessCommand(batch) ==
    [command |-> "PROCESS_JOBS",
     jobs |-> [n \in batch |-> [node |-> node_store[n], tasks |-> node_to_process[n]]]]
WriteCommand(n) == [command |-> "WRITE_PNTS", name |-> n, data |-> node_store[n]]

SendFileToRead ==
    /\ point_cloud_file_parts' = point_cloud_file_parts - 1
    /\ points_in_progress' =
         points_in_progress + Cardinality(PointsOf(Portions[point_cloud_file_parts]))
    /\ number_of_reading_jobs' = number_of_reading_jobs + 1
    /\ UNCHANGED <<number_of_writing_jobs, processed_points, points_in_pnts, nodeVars>>

BugStillWaiting(batch) == waiting_writing_nodes
StillWaiting(batch) == waiting_writing_nodes \ batch

SendPointsToProcess(batch) ==
    /\ node_to_process' = [n \in TaskName |-> IF n \in batch THEN {} ELSE node_to_process[n]]
    /\ processing_nodes' = processing_nodes \cup batch
    /\ waiting_writing_nodes' = StillWaiting(batch)
    /\ UNCHANGED <<pnts_to_writing, node_store, countVars>>

BugStoreWithout(n) == node_store
StoreWithout(n) == [node_store EXCEPT ![n] = {}]

SendPntsToWrite(n) ==
    /\ pnts_to_writing' = pnts_to_writing \ {n}
    /\ node_store' = StoreWithout(n)
    /\ number_of_writing_jobs' = number_of_writing_jobs + 1
    /\ UNCHANGED <<point_cloud_file_parts, number_of_reading_jobs, points_in_progress,
                   processed_points, points_in_pnts, node_to_process, processing_nodes,
                   waiting_writing_nodes>>

-----------------------------------------------------------------------------
(* process_message: what each answer of a worker changes                   *)

ReadDone ==
    /\ number_of_reading_jobs' = number_of_reading_jobs - 1
    /\ UNCHANGED <<point_cloud_file_parts, number_of_writing_jobs, points_in_progress,
                   processed_points, points_in_pnts, nodeVars>>

AddTasksToProcess(n, points) ==
    /\ node_to_process' = [node_to_process EXCEPT ![n] = @ \cup {points}]
    /\ UNCHANGED <<processing_nodes, waiting_writing_nodes, pnts_to_writing, node_store,
                   countVars>>

PntsWritten(count) ==
    /\ points_in_pnts' = points_in_pnts + count
    /\ number_of_writing_jobs' = number_of_writing_jobs - 1
    /\ UNCHANGED <<point_cloud_file_parts, number_of_reading_jobs, points_in_progress,
                   processed_points, nodeVars>>

(* dispatch_processed_nodes: which waiting nodes the end of node n frees,  *)
(* active being the nodes still at a worker.                               *)
Writable(n, waiting, active) ==
    IF active \cup InputNodes # {}
    THEN IF CanPntsBeWritten(n, n, InputNodes, active)
         THEN {c \in waiting : CanPntsBeWritten(c, n, InputNodes, active)}
         ELSE {}
    ELSE waiting

DispatchProcessedNodes(n, data, active) ==
    IF n = Root
    THEN UNCHANGED <<node_store, waiting_writing_nodes, pnts_to_writing>>
    ELSE LET waiting == waiting_writing_nodes \cup {n}
             ready == IF IsReadingFinish THEN Writable(n, waiting, active) ELSE {}
         IN  /\ node_store' = [node_store EXCEPT ![n] = data]
             /\ waiting_writing_nodes' = waiting \ ready
             /\ pnts_to_writing' = pnts_to_writing \cup ready

Processed(n, total, data) ==
    /\ processed_points' = processed_points + total
    /\ points_in_progress' = points_in_progress - total
    /\ processing_nodes' = processing_nodes \ {n}
    /\ DispatchProcessedNodes(n, data, processing_nodes')
    /\ UNCHANGED <<point_cloud_file_parts, number_of_reading_jobs, number_of_writing_jobs,
                   points_in_pnts, node_to_process>>

-----------------------------------------------------------------------------
(* The worker: the messages that reading portion i sends                   *)

ReadMessages(i) ==
    [k \in 1..Len(Portions[i]) |-> NewTask(Root, Portions[i][k])] \o <<[type |-> "READ"]>>
=============================================================================
