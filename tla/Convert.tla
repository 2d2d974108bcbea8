------------------------------ MODULE Convert ------------------------------
(***************************************************************************)
(* src/py3dtiles/convert.py: the conversion.  The manager (_Convert.convert*)
(* and _ZmqManager) receives the messages of the workers one at a time and *)
(* gives each idle worker a command of the point tiler; the workers        *)
(* (_WorkerDispatcher) execute one command after the other.  The messages  *)
(* of one worker arrive in order, those of two workers in any order.       *)
(*                                                                         *)
(* A turn of the manager's loop that receives nothing changes nothing: the *)
(* state get_tasks reads changes only when a message is handled, and the   *)
(* turn that handled it has dispatched all it could.  A turn is therefore  *)
(* one Receive step (phase "receive") and then Dispatch steps until there  *)
(* is no idle worker or no task (phase "dispatch").  A worker hands over   *)
(* the messages of one node or one command in one step: the manager still  *)
(* takes them one by one and the worker reads nothing in between.          *)
(***************************************************************************)
EXTENDS PointTiler

CONSTANTS
    Worker,         \* the worker processes
    FaultyCommands  \* the commands whose execution may raise an exception

ASSUME WorkerAssumption ==
    /\ IsFiniteSet(Worker) /\ Worker # {}
    /\ FaultyCommands \subseteq {"READ_FILE", "PROCESS_JOBS", "WRITE_PNTS"}

VARIABLES
    phase,          \* where the manager is in convert()
    outcome,        \* how the conversion ended
    clients,        \* the registered workers
    idle_clients,   \* the workers known to wait for a command
    worker,         \* the state of each worker process
    inbox,          \* manager -> worker, in order
    outbox,         \* worker -> manager, in order
    tiles           \* name -> points of its .pnts file ({}: no file)

managerVars == <<phase, outcome, clients, idle_clients>>
workerVars == <<worker, inbox, outbox, tiles>>
vars == <<stateVars, managerVars, workerVars>>

Register == [type |-> "REGISTER"]
Idle == [type |-> "IDLE"]
Error == [type |-> "ERROR"]
Halted == [type |-> "HALTED"]
Shutdown == [command |-> "SHUTDOWN"]

Init ==
    /\ TilerInit
    /\ phase = "receive"
    /\ outcome = "running"
    /\ clients = {}
    /\ idle_clients = {}
    /\ worker = [w \in Worker |-> "starting"]
    /\ inbox = [w \in Worker |-> <<>>]
    /\ outbox = [w \in Worker |-> <<>>]
    /\ tiles = [n \in TaskName |-> {}]

-----------------------------------------------------------------------------
(* The manager receives                                                    *)
(*                                                                         *)
(* As in PointTiler, the definitions whose name starts with Bug are        *)
(* mutations of the one after them.                                        *)

(* An exception leaves the loop for the finally clause.                    *)
Raise == phase' = "shutdown" /\ outcome' = "raised"

(* No command goes out before every worker has registered.                 *)
BugAllClientsRegistered(registered) == registered # {}
AllClientsRegistered(registered) == registered = Worker
EndReceive ==
    /\ phase' = IF AllClientsRegistered(clients') THEN "dispatch" ELSE "receive"
    /\ UNCHANGED outcome

Receive(w, type) ==
    /\ phase = "receive"
    /\ outbox[w] # <<>>
    /\ Head(outbox[w]).type = type
    /\ outbox' = [outbox EXCEPT ![w] = Tail(@)]
    /\ UNCHANGED <<worker, inbox, tiles>>

(* add_idle_client refuses a worker that is already idle.                  *)
AddIdleClient(w) ==
    IF w \in idle_clients
    THEN Raise /\ UNCHANGED idle_clients
    ELSE EndReceive /\ idle_clients' = idle_clients \cup {w}

ReceiveRegister(w) ==
    /\ Receive(w, "REGISTER")
    /\ clients' = clients \cup {w}
    /\ AddIdleClient(w)
    /\ UNCHANGED stateVars

ReceiveIdle(w) ==
    /\ Receive(w, "IDLE")
    /\ UNCHANGED clients
    /\ AddIdleClient(w)
    /\ UNCHANGED stateVars

BugReceiveError(w) ==
    /\ Receive(w, "ERROR")
    /\ UNCHANGED <<clients, idle_clients, stateVars>>
    /\ EndReceive
ReceiveError(w) ==
    /\ Receive(w, "ERROR")
    /\ Raise
    /\ UNCHANGED <<clients, idle_clients, stateVars>>

ReceiveRead(w) ==
    /\ Receive(w, "READ")
    /\ ReadDone
    /\ UNCHANGED <<clients, idle_clients>>
    /\ EndReceive

(* add_tasks_to_process refuses a task without points.                     *)
ReceiveNewTask(w) ==
    LET m == Head(outbox[w])
    IN  /\ Receive(w, "NEW_TASK")
        /\ UNCHANGED <<clients, idle_clients>>
        /\ IF m.points = {}
           THEN Raise /\ UNCHANGED stateVars
           ELSE EndReceive /\ AddTasksToProcess(m.name, m.points)

(* del processing_nodes[name] raises KeyError for a node that is not at a  *)
(* worker, after the two counters have changed.                            *)
ReceiveProcessed(w) ==
    LET m == Head(outbox[w])
    IN  /\ Receive(w, "PROCESSED")
        /\ UNCHANGED <<clients, idle_clients>>
        /\ IF m.name \in processing_nodes
           THEN EndReceive /\ Processed(m.name, m.total, m.data)
           ELSE /\ Raise
                /\ processed_points' = processed_points + m.total
                /\ points_in_progress' = points_in_progress - m.total
                /\ UNCHANGED <<point_cloud_file_parts, number_of_reading_jobs,
                               number_of_writing_jobs, points_in_pnts, nodeVars>>

ReceivePntsWritten(w) ==
    /\ Receive(w, "PNTS_WRITTEN")
    /\ PntsWritten(Head(outbox[w]).count)
    /\ UNCHANGED <<clients, idle_clients>>
    /\ EndReceive

-----------------------------------------------------------------------------
(* The manager dispatches                                                  *)

BugIdleWithout(w) == IF Cardinality(idle_clients) = 1 THEN {} ELSE idle_clients
IdleWithout(w) == idle_clients \ {w}

SendToProcess(w, command) ==
    /\ idle_clients' = IdleWithout(w)
    /\ inbox' = [inbox EXCEPT ![w] = Append(@, command)]
    /\ UNCHANGED <<phase, outcome, clients, worker, outbox, tiles>>

DispatchRead(w) ==
    /\ phase = "dispatch" /\ w \in idle_clients
    /\ CanRead
    /\ SendFileToRead
    /\ SendToProcess(w, ReadCommand(point_cloud_file_parts))

DispatchProcess(w) ==
    /\ phase = "dispatch" /\ w \in idle_clients
    /\ CanProcess
    /\ \E batch \in Batches :
         /\ SendPointsToProcess(batch)
         /\ SendToProcess(w, ProcessCommand(batch))

(* send_pnts_to_write raises on a node without data; it has left the list. *)
DispatchWrite(w) ==
    /\ phase = "dispatch" /\ w \in idle_clients
    /\ CanWrite
    /\ \E n \in pnts_to_writing :
         IF node_store[n] = {}
         THEN /\ Raise
              /\ pnts_to_writing' = pnts_to_writing \ {n}
              /\ UNCHANGED <<clients, idle_clients, workerVars, countVars, node_to_process,
                             processing_nodes, waiting_writing_nodes, node_store>>
         ELSE /\ SendPntsToWrite(n)
              /\ SendToProcess(w, WriteCommand(n))

(* The turn ends when no worker is idle or there is no task: the loop is   *)
(* over when all are idle.  Then validate_binary_data compares the counts. *)
BugCountIsRight == TRUE
CountIsRight == points_in_pnts = Cardinality(Point)

EndDispatch ==
    /\ phase = "dispatch"
    /\ idle_clients = {} \/ ~ HasTasks
    /\ IF idle_clients # Worker
       THEN phase' = "receive" /\ UNCHANGED outcome
       ELSE /\ phase' = "shutdown"
            /\ outcome' = IF CountIsRight THEN "ok" ELSE "bad count"
    /\ UNCHANGED <<clients, idle_clients, workerVars, stateVars>>

(* The finally clause: a shutdown message to every registered worker, then *)
(* the processes are joined.  shutdown_all_processes raises when there is  *)
(* none.                                                                   *)
BugShutdownReceivers == idle_clients
ShutdownReceivers == clients

ShutdownAllProcesses ==
    /\ phase = "shutdown"
    /\ phase' = IF clients = {} THEN "done" ELSE "join"
    /\ inbox' = [w \in Worker |-> IF w \in ShutdownReceivers THEN Append(inbox[w], Shutdown) ELSE inbox[w]]
    /\ UNCHANGED <<outcome, clients, idle_clients, worker, outbox, tiles, stateVars>>

JoinAllProcesses ==
    /\ phase = "join"
    /\ \A w \in Worker : worker[w] = "halted"
    /\ phase' = "done"
    /\ UNCHANGED <<outcome, clients, idle_clients, workerVars, stateVars>>

-----------------------------------------------------------------------------
(* The workers                                                             *)

Start(w) ==
    /\ worker[w] = "starting"
    /\ worker' = [worker EXCEPT ![w] = "running"]
    /\ outbox' = [outbox EXCEPT ![w] = Append(@, Register)]
    /\ UNCHANGED <<inbox, tiles, managerVars, stateVars>>

Executing(w, command) ==
    /\ worker[w] = "running"
    /\ inbox[w] # <<>>
    /\ Head(inbox[w]).command = command
    /\ UNCHANGED <<managerVars, stateVars>>

Send(w, messages) == outbox' = [outbox EXCEPT ![w] = @ \o messages]
NextCommand(w) == inbox' = [inbox EXCEPT ![w] = Tail(@)]

ExecuteReadFile(w) ==
    /\ Executing(w, "READ_FILE")
    /\ Send(w, Append(ReadMessages(Head(inbox[w]).portion), Idle))
    /\ NextCommand(w)
    /\ UNCHANGED <<worker, tiles>>

(* One node of a PROCESS_JOBS command, in the order of the job list; after *)
(* the last one the worker is idle.                                        *)
NextNodes(jobs) == {n \in DOMAIN jobs : \A m \in DOMAIN jobs : Len(n) <= Len(m)}

ExecuteProcessJobs(w) ==
    /\ Executing(w, "PROCESS_JOBS")
    /\ LET jobs == Head(inbox[w]).jobs
       IN  \E n \in NextNodes(jobs) : \E messages \in ProcessOutputs(n, jobs[n]) :
             LET rest == Restrict(jobs, DOMAIN jobs \ {n})
             IN  IF DOMAIN rest = {}
                 THEN Send(w, Append(messages, Idle)) /\ NextCommand(w)
                 ELSE /\ Send(w, messages)
                      /\ inbox' = [inbox EXCEPT ![w][1].jobs = rest]
    /\ UNCHANGED <<worker, tiles>>

(* points_to_pnts_file raises FileExistsError when the tile has a file.    *)
ExecuteWritePnts(w) ==
    /\ Executing(w, "WRITE_PNTS")
    /\ LET c == Head(inbox[w])
       IN  IF tiles[c.name] # {}
           THEN Send(w, <<Error>>) /\ UNCHANGED tiles
           ELSE /\ Send(w, <<[type |-> "PNTS_WRITTEN", count |-> Cardinality(c.data)], Idle>>)
                /\ tiles' = [tiles EXCEPT ![c.name] = c.data]
    /\ NextCommand(w)
    /\ UNCHANGED worker

(* An exception in the middle of a command: part of its messages has left, *)
(* any of the files of a subtree may be written, an error message follows  *)
(* instead of IDLE and the worker goes on with its inbox.                  *)
Outputs(w) ==
    LET c == Head(inbox[w])
    IN  CASE c.command = "READ_FILE"    -> {ReadMessages(c.portion)}
          [] c.command = "PROCESS_JOBS" ->
               UNION {ProcessOutputs(n, c.jobs[n]) : n \in NextNodes(c.jobs)}
          [] c.command = "WRITE_PNTS"   -> {<<Idle>>}

Fail(w) ==
    /\ \E command \in FaultyCommands : Executing(w, command)
    /\ \E messages \in Outputs(w) : \E k \in 0..(Len(messages) - 1) :
         Send(w, Append(SubSeq(messages, 1, k), Error))
    /\ LET c == Head(inbox[w])
       IN  IF c.command = "WRITE_PNTS" /\ tiles[c.name] = {}
           THEN \E written \in SUBSET c.data : tiles' = [tiles EXCEPT ![c.name] = written]
           ELSE UNCHANGED tiles
    /\ NextCommand(w)
    /\ UNCHANGED worker

Halt(w) ==
    /\ Executing(w, "SHUTDOWN")
    /\ worker' = [worker EXCEPT ![w] = "halted"]
    /\ Send(w, <<Halted>>)
    /\ NextCommand(w)
    /\ UNCHANGED tiles

-----------------------------------------------------------------------------
ManagerReceive ==
    \E w \in Worker :
        \/ ReceiveRegister(w)
        \/ ReceiveIdle(w)
        \/ ReceiveError(w)
        \/ ReceiveRead(w)
        \/ ReceiveNewTask(w)
        \/ ReceiveProcessed(w)
        \/ ReceivePntsWritten(w)

ManagerDispatch ==
    \E w \in Worker : DispatchRead(w) \/ DispatchProcess(w) \/ DispatchWrite(w)

Manager ==
    \/ ManagerReceive
    \/ ManagerDispatch
    \/ EndDispatch
    \/ ShutdownAllProcesses
    \/ JoinAllProcesses

Work(w) ==
    \/ Start(w)
    \/ ExecuteReadFile(w)
    \/ ExecuteProcessJobs(w)
    \/ ExecuteWritePnts(w)
    \/ Fail(w)
    \/ Halt(w)

(* The conversion is over: nothing happens any more.                       *)
Finished == phase = "done" /\ UNCHANGED vars

Next == Manager \/ (\E w \in Worker : Work(w)) \/ Finished

Spec == Init /\ [][Next]_vars

(* The operating system schedules the manager and every worker.            *)
FairSpec == Spec /\ WF_vars(Manager) /\ \A w \in Worker : WF_vars(Work(w))
=============================================================================
