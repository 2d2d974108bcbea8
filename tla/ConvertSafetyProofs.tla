------------------------ MODULE ConvertSafetyProofs ------------------------
(***************************************************************************)
(* What the conversion does with nodes, points and counters, proved for    *)
(* every set of workers, points, portions and limits.  Whichever commands  *)
(* raise, no point is in two places and no tile is written too early; as   *)
(* long as none has raised, the counters are exact and no point is lost;   *)
(* when none raises the manager does not either.  With one worker the      *)
(* conversion never ends with a wrong count.                               *)
(*                                                                         *)
(* The proofs look at a step through its effect on the channels of one     *)
(* worker (StepEffect): it is received from, given a command, started, or  *)
(* it executes.  Each invariant is then kept by each of these effects:     *)
(* DataInv (what is in the channels), CountInv (the jobs), NodeInv (which  *)
(* node is at which worker), StageInv (when a node may be written),        *)
(* PointInv (each point in one place) and ProgInv (the counters of         *)
(* points).  EndInv and WriteInv are what is left of them once the loop    *)
(* has ended, and make each step one of Tiling; OneInv is what one worker  *)
(* adds: a node waits only as long as something is to come.                *)
(***************************************************************************)
EXTENDS ConvertProofs

-----------------------------------------------------------------------------
(* Finite sets                                                             *)

LEMMA FinitePoints == \A S \in SUBSET Point : IsFiniteSet(S) /\ Cardinality(S) \in Nat
BY PathAssumption, FS_Subset, FS_CardinalityType

LEMMA FiniteWorkers == \A S \in SUBSET Worker : IsFiniteSet(S) /\ Cardinality(S) \in Nat
BY WorkerAssumption, FS_Subset, FS_CardinalityType

(* Adding and taking away one worker.                                      *)
LEMMA CountWorkers ==
    ASSUME NEW S \in SUBSET Worker, NEW w \in Worker
    PROVE  /\ w \notin S => Cardinality(S \cup {w}) = Cardinality(S) + 1
           /\ w \in S => Cardinality(S \ {w}) = Cardinality(S) - 1
           /\ w \in S => Cardinality(S) >= 1
           /\ \A T \in SUBSET S : Cardinality(T) <= Cardinality(S)
<1>1. IsFiniteSet(S) /\ Cardinality(S) \in Nat
  BY FiniteWorkers
<1>2. w \notin S => Cardinality(S \cup {w}) = Cardinality(S) + 1
  BY <1>1, FS_AddElement
<1>3. w \in S => Cardinality(S \ {w}) = Cardinality(S) - 1
  BY <1>1, FS_RemoveElement
<1>4. \A T \in SUBSET S : Cardinality(T) <= Cardinality(S)
  BY <1>1, FS_Subset
<1>5. Cardinality(S \ {w}) \in Nat
  BY FiniteWorkers
<1> QED
  BY <1>1, <1>2, <1>3, <1>4, <1>5

-----------------------------------------------------------------------------
(* The effects of a step                                                   *)

Receiving(w) ==
    \/ ReceiveRegister(w) \/ ReceiveIdle(w) \/ ReceiveError(w) \/ ReceiveRead(w)
    \/ ReceiveNewTask(w) \/ ReceiveProcessed(w) \/ ReceivePntsWritten(w)

(* What the manager does with a message that does not end its loop.        *)
Handled(m) ==
    \/ m.type \in {"REGISTER", "IDLE"} /\ UNCHANGED stateVars
    \/ m.type = "READ" /\ ReadDone
    \/ m.type = "NEW_TASK" /\ m.points # {} /\ AddTasksToProcess(m.name, m.points)
    \/ m.type = "PROCESSED" /\ m.name \in processing_nodes /\ Processed(m.name, m.total, m.data)
    \/ m.type = "PNTS_WRITTEN" /\ PntsWritten(m.count)
Received(w) ==
    /\ outbox[w] # <<>>
    /\ outbox' = [outbox EXCEPT ![w] = Tail(@)]
    /\ UNCHANGED <<inbox, tiles>>
    /\ Handled(Head(outbox[w]))

(* The command that a worker is given.                                     *)
LeftWith(w, c) == inbox' = [inbox EXCEPT ![w] = <<c>>]
GivenRead(w) ==
    /\ CanRead /\ SendFileToRead
    /\ LeftWith(w, ReadCommand(point_cloud_file_parts))
GivenNodes(w) ==
    \E batch \in SUBSET ReadyNodes :
      /\ batch # {} /\ SendPointsToProcess(batch)
      /\ LeftWith(w, ProcessCommand(batch))
GivenTile(w) ==
    \E n \in pnts_to_writing :
      /\ node_store[n] # {} /\ SendPntsToWrite(n)
      /\ LeftWith(w, WriteCommand(n))
Given(w) ==
    /\ inbox[w] = <<>> /\ outbox[w] = <<>>
    /\ UNCHANGED <<outbox, tiles>>
    /\ GivenRead(w) \/ GivenNodes(w) \/ GivenTile(w)

Started(w) ==
    /\ inbox[w] = <<>> /\ outbox[w] = <<>>
    /\ outbox' = [outbox EXCEPT ![w] = <<Register>>]
    /\ UNCHANGED <<inbox, tiles, stateVars>>

(* A worker sends the first k messages of its answer, all of them unless   *)
(* it fails, and then perhaps the message that ends the command.           *)
Sends(w, answer, k, last) ==
    /\ answer \in Seq(WorkMessage) /\ k \in 0..Len(answer)
    /\ last \in {<<>>, <<Idle>>, <<Error>>}
    /\ last # <<Error>> => k = Len(answer)
    /\ outbox' = [outbox EXCEPT ![w] = (@ \o SubSeq(answer, 1, k)) \o last]
Ended(w) == inbox' = [inbox EXCEPT ![w] = <<>>]

ExecutedRead(w, c) ==
    /\ c.command = "READ_FILE"
    /\ Ended(w) /\ UNCHANGED tiles
    /\ \E k \in Nat, last \in {<<Idle>>, <<Error>>} : Sends(w, ReadMessages(c.portion), k, last)
ExecutedNode(w, c) ==
    /\ c.command = "PROCESS_JOBS"
    /\ UNCHANGED tiles
    /\ \E n \in DOMAIN c.jobs : \E answer \in ProcessOutputs(n, c.jobs[n]) :
         \/ Ended(w) /\ \E k \in Nat : Sends(w, answer, k, <<Error>>)
         \/ Ended(w) /\ DOMAIN c.jobs = {n} /\ Sends(w, answer, Len(answer), <<Idle>>)
         \/ \E rest \in Command :
              /\ rest.command = "PROCESS_JOBS"
              /\ DOMAIN rest.jobs = DOMAIN c.jobs \ {n} /\ DOMAIN rest.jobs # {}
              /\ \A k \in DOMAIN rest.jobs : rest.jobs[k] = c.jobs[k]
              /\ LeftWith(w, rest)
              /\ Sends(w, answer, Len(answer), <<>>)
Written(c) == [type |-> "PNTS_WRITTEN", count |-> Cardinality(c.data)]
ExecutedWrite(w, c) ==
    /\ c.command = "WRITE_PNTS"
    /\ Ended(w)
    /\ \/ /\ tiles[c.name] = {} /\ tiles' = [tiles EXCEPT ![c.name] = c.data]
          /\ Sends(w, <<Written(c)>>, 1, <<Idle>>)
       \/ /\ tiles[c.name] = {}
          /\ \E written \in SUBSET c.data : tiles' = [tiles EXCEPT ![c.name] = written]
          /\ Sends(w, <<Written(c)>>, 0, <<Error>>)
       \/ UNCHANGED tiles /\ Sends(w, <<Written(c)>>, 0, <<Error>>)
Executed(w) ==
    /\ UNCHANGED stateVars
    /\ \E c \in WorkCommand :
         /\ inbox[w] = <<c>>
         /\ ExecutedRead(w, c) \/ ExecutedNode(w, c) \/ ExecutedWrite(w, c)

Effect(w) == Received(w) \/ Given(w) \/ Started(w) \/ Executed(w)
Still == UNCHANGED <<inbox, outbox, tiles, stateVars>>

LEMMA ReceivingEffect ==
    ASSUME TypeInv, IdleInv, Running', NEW w \in Worker, Receiving(w)
    PROVE  Running /\ Received(w)
<1> DEFINE m == Head(outbox[w])
<1>1. /\ Running /\ Receive(w, m.type)
      /\ m.type \in {"REGISTER", "IDLE", "ERROR", "READ", "NEW_TASK", "PROCESSED", "PNTS_WRITTEN"}
  BY DEF Receiving, Running, Receive, ReceiveRegister, ReceiveIdle, ReceiveError, ReceiveRead,
         ReceiveNewTask, ReceiveProcessed, ReceivePntsWritten
<1>2. ~ Raise
  BY DEF Raise, Running
<1>3. Handled(m)
  <2>1. CASE ReceiveRegister(w) \/ ReceiveIdle(w)
    BY <2>1 DEF ReceiveRegister, ReceiveIdle, Receive, Handled
  <2>2. CASE ReceiveError(w)
    BY <1>2, <2>2 DEF ReceiveError
  <2>3. CASE ReceiveRead(w)
    BY <2>3 DEF ReceiveRead, Receive, Handled
  <2>4. CASE ReceiveNewTask(w)
    BY <1>2, <2>4 DEF ReceiveNewTask, Receive, Handled
  <2>5. CASE ReceiveProcessed(w)
    BY <1>2, <2>5 DEF ReceiveProcessed, Receive, Handled
  <2>6. CASE ReceivePntsWritten(w)
    BY <2>6 DEF ReceivePntsWritten, Receive, Handled
  <2> QED
    BY <2>1, <2>2, <2>3, <2>4, <2>5, <2>6 DEF Receiving
<1> QED
  BY <1>1, <1>3 DEF Receive, Received

LEMMA GivingEffect ==
    ASSUME TypeInv, IdleInv, Running', NEW w \in Worker,
           DispatchRead(w) \/ DispatchProcess(w) \/ DispatchWrite(w)
    PROVE  Running /\ Given(w)
<1>1. Running /\ w \in idle_clients
  BY DEF Running, DispatchRead, DispatchProcess, DispatchWrite
<1>2. inbox[w] = <<>> /\ outbox[w] = <<>>
  BY <1>1 DEF IdleInv, WorkerState, Starting, Registering, Waiting, Busy, Ending, Known
<1>3. ASSUME NEW command, SendToProcess(w, command)
      PROVE  /\ LeftWith(w, command)
             /\ UNCHANGED <<outbox, tiles>>
  <2>1. Append(inbox[w], command) = <<command>>
    BY <1>2
  <2> QED
    BY <1>3, <2>1 DEF SendToProcess, TypeInv, ChannelType, LeftWith
<1>4. CASE DispatchRead(w)
  BY <1>1, <1>2, <1>3, <1>4 DEF DispatchRead, Given, GivenRead
<1>5. CASE DispatchProcess(w)
  <2>1. PICK batch \in Batches :
          SendPointsToProcess(batch) /\ SendToProcess(w, ProcessCommand(batch))
    BY <1>5 DEF DispatchProcess
  <2>2. batch \in SUBSET ReadyNodes /\ batch # {}
    BY DEF Batches
  <2> QED
    BY <1>1, <1>2, <1>3, <2>1, <2>2 DEF Given, GivenNodes
<1>6. CASE DispatchWrite(w)
  <2>1. PICK n \in pnts_to_writing :
          /\ node_store[n] # {}
          /\ SendPntsToWrite(n) /\ SendToProcess(w, WriteCommand(n))
    BY <1>6 DEF DispatchWrite, Raise, Running
  <2> QED
    BY <1>1, <1>2, <1>3, <2>1 DEF Given, GivenTile
<1> QED
  BY <1>4, <1>5, <1>6

(* Sending messages, an ending one among them or not.                      *)
LEMMA SendSends ==
    ASSUME ChannelType, NEW w \in Worker, NEW answer \in Seq(WorkMessage)
    PROVE  /\ Send(w, answer) => Sends(w, answer, Len(answer), <<>>)
           /\ Send(w, Append(answer, Idle)) => Sends(w, answer, Len(answer), <<Idle>>)
           /\ \A k \in 0..Len(answer) :
                Send(w, Append(SubSeq(answer, 1, k), Error)) => Sends(w, answer, k, <<Error>>)
<1>1. outbox[w] \in Seq(Message) /\ answer \in Seq(Message) /\ Idle \in Message /\ Error \in Message
  BY SeqMonotonic DEF ChannelType, Message, LastMessage
<1>2. SubSeq(answer, 1, Len(answer)) = answer /\ Len(answer) \in 0..Len(answer)
  BY <1>1
<1>3. \A k \in 0..Len(answer) : SubSeq(answer, 1, k) \in Seq(Message)
  BY <1>1
<1>4. ASSUME NEW k \in 0..Len(answer), NEW last \in {Idle, Error}
      PROVE  outbox[w] \o Append(SubSeq(answer, 1, k), last)
               = (outbox[w] \o SubSeq(answer, 1, k)) \o <<last>>
  <2> DEFINE sent == outbox[w]
             part == SubSeq(answer, 1, k)
  <2>1. sent \in Seq(Message) /\ part \in Seq(Message) /\ last \in Message
    BY <1>1, <1>3
  <2> HIDE DEF sent, part
  <2>2. sent \o Append(part, last) = (sent \o part) \o <<last>>
    BY <2>1
  <2> QED
    BY <2>2 DEF sent, part
<1>5. outbox[w] \o answer = (outbox[w] \o answer) \o <<>>
  BY <1>1
<1>6. <<Idle>> # <<Error>> /\ <<>> # <<Error>>
  BY DEF Idle, Error
<1>7. outbox \in [Worker -> Seq(Message)]
  BY DEF ChannelType
<1>8. Send(w, answer) => Sends(w, answer, Len(answer), <<>>)
  BY <1>2, <1>5, <1>7 DEF Send, Sends
<1>9. Send(w, Append(answer, Idle)) => Sends(w, answer, Len(answer), <<Idle>>)
  <2>1. outbox[w] \o Append(answer, Idle) = (outbox[w] \o answer) \o <<Idle>>
    BY <1>2, <1>4
  <2> QED
    BY <1>2, <1>7, <2>1 DEF Send, Sends
<1>10. ASSUME NEW k \in 0..Len(answer), Send(w, Append(SubSeq(answer, 1, k), Error))
       PROVE  Sends(w, answer, k, <<Error>>)
  <2>1. outbox[w] \o Append(SubSeq(answer, 1, k), Error)
          = (outbox[w] \o SubSeq(answer, 1, k)) \o <<Error>>
    BY <1>4
  <2> QED
    BY <1>7, <1>10, <2>1 DEF Send, Sends
<1> QED
  BY <1>8, <1>9, <1>10
LEMMA ExecutingEffect ==
    ASSUME TypeInv, NEW w \in Worker, NEW c \in WorkCommand, inbox[w] = <<c>>, Execute(w)
    PROVE  ExecutedRead(w, c) \/ ExecutedNode(w, c) \/ ExecutedWrite(w, c)
<1> USE DEF TypeInv
<1>1. /\ Head(inbox[w]) = c /\ inbox[w][1] = c /\ Tail(inbox[w]) = <<>>
      /\ inbox \in [Worker -> Seq(Command)] /\ c \in Command
  BY DEF ChannelType, Command
<1>2. NextCommand(w) => Ended(w)
  BY <1>1 DEF NextCommand, Ended
<1>3. <<Idle>> # <<Error>> /\ <<>> # <<Error>>
  BY DEF Idle, Error
<1>4. ASSUME c.command = "WRITE_PNTS"
      PROVE  <<Written(c)>> \in Seq(WorkMessage)
  <2>1. c.data \in Chunk
    BY <1>1, <1>4, CommandFields
  <2>2. Cardinality(c.data) \in Nat
    BY <2>1, ChunkFacts
  <2> QED
    BY <2>2 DEF Written, WorkMessage
<1>5. CASE ExecuteReadFile(w)
  <2>1. /\ c.command = "READ_FILE" /\ NextCommand(w) /\ UNCHANGED tiles
        /\ Send(w, Append(ReadMessages(c.portion), Idle))
    BY <1>1, <1>5 DEF ExecuteReadFile, Executing
  <2>2. ReadMessages(c.portion) \in Seq(WorkMessage)
    BY <1>1, <2>1, CommandFields, ReadMessagesType
  <2>3. Sends(w, ReadMessages(c.portion), Len(ReadMessages(c.portion)), <<Idle>>)
    BY <2>1, <2>2, SendSends
  <2>4. Len(ReadMessages(c.portion)) \in Nat
    BY <2>2
  <2> QED
    BY <1>2, <2>1, <2>3, <2>4 DEF ExecutedRead
<1>6. CASE ExecuteProcessJobs(w)
  <2> DEFINE rest(n) == Restrict(c.jobs, DOMAIN c.jobs \ {n})
  <2>1. /\ c.command = "PROCESS_JOBS" /\ UNCHANGED tiles
        /\ \E n \in NextNodes(c.jobs) : \E messages \in ProcessOutputs(n, c.jobs[n]) :
             IF DOMAIN rest(n) = {}
             THEN Send(w, Append(messages, Idle)) /\ NextCommand(w)
             ELSE Send(w, messages) /\ inbox' = [inbox EXCEPT ![w][1].jobs = rest(n)]
    BY <1>1, <1>6 DEF ExecuteProcessJobs, Executing
  <2>2. PICK n \in NextNodes(c.jobs) : \E messages \in ProcessOutputs(n, c.jobs[n]) :
          IF DOMAIN rest(n) = {}
          THEN Send(w, Append(messages, Idle)) /\ NextCommand(w)
          ELSE Send(w, messages) /\ inbox' = [inbox EXCEPT ![w][1].jobs = rest(n)]
    BY <2>1
  <2>3. PICK messages \in ProcessOutputs(n, c.jobs[n]) :
          IF DOMAIN rest(n) = {}
          THEN Send(w, Append(messages, Idle)) /\ NextCommand(w)
          ELSE Send(w, messages) /\ inbox' = [inbox EXCEPT ![w][1].jobs = rest(n)]
    BY <2>2
  <2>4. PICK nodes \in SUBSET TaskName : c.jobs \in [nodes -> Job]
    BY <1>1, <2>1, CommandFields DEF Jobs
  <2>5. n \in DOMAIN c.jobs /\ n \in TaskName /\ c.jobs[n] \in Job
    BY <2>4 DEF NextNodes
  <2>6. messages \in Seq(WorkMessage)
    BY <2>5, ProcessOutputsType
  <2>7. /\ rest(n) \in [nodes \ {n} -> Job] /\ DOMAIN rest(n) = DOMAIN c.jobs \ {n}
        /\ \A k \in DOMAIN rest(n) : rest(n)[k] = c.jobs[k]
    BY <2>4 DEF Restrict
  <2>8. CASE DOMAIN rest(n) = {}
    <3>1. Sends(w, messages, Len(messages), <<Idle>>) /\ Ended(w)
      BY <1>2, <2>3, <2>6, <2>8, SendSends
    <3>2. DOMAIN c.jobs = {n}
      BY <2>5, <2>7, <2>8
    <3> QED
      BY <2>1, <2>3, <2>5, <3>1, <3>2 DEF ExecutedNode
  <2>9. CASE DOMAIN rest(n) # {}
    <3> DEFINE left == [c EXCEPT !.jobs = rest(n)]
    <3>1. rest(n) \in Jobs
      BY <2>7 DEF Jobs
    <3>2. c \in [command : {"PROCESS_JOBS"}, jobs : Jobs]
      BY <1>1, <2>1 DEF WorkCommand
    <3> HIDE DEF rest
    <3>3. left \in Command /\ left.command = "PROCESS_JOBS" /\ left.jobs = rest(n)
      BY <3>1, <3>2 DEF Command, WorkCommand
    <3>4. [<<c>> EXCEPT ![1] = left] = <<left>>
      OBVIOUS
    <3>5. LeftWith(w, left)
      BY <1>1, <2>3, <2>9, <3>4 DEF LeftWith
    <3>6. Sends(w, messages, Len(messages), <<>>)
      BY <2>3, <2>6, <2>9, SendSends
    <3> HIDE DEF left
    <3> QED
      BY <2>1, <2>3, <2>5, <2>7, <2>9, <3>3, <3>5, <3>6 DEF ExecutedNode
  <2> QED
    BY <2>8, <2>9
<1>7. CASE ExecuteWritePnts(w)
  <2>1. c.command = "WRITE_PNTS" /\ NextCommand(w)
    BY <1>1, <1>7 DEF ExecuteWritePnts, Executing
  <2>2. <<Written(c), Idle>> = Append(<<Written(c)>>, Idle) /\ Len(<<Written(c)>>) = 1
    OBVIOUS
  <2>3. SubSeq(<<Written(c)>>, 1, 0) = <<>> /\ Append(<<>>, Error) = <<Error>>
    BY <1>4, <2>1
  <2>4. CASE tiles[c.name] # {}
    <3>1. Send(w, Append(SubSeq(<<Written(c)>>, 1, 0), Error)) /\ UNCHANGED tiles
      BY <1>1, <1>7, <2>3, <2>4 DEF ExecuteWritePnts
    <3>2. 0 \in 0..Len(<<Written(c)>>)
      BY <2>2
    <3>3. Sends(w, <<Written(c)>>, 0, <<Error>>)
      BY <1>4, <2>1, <3>1, <3>2, SendSends
    <3> QED
      BY <1>2, <2>1, <3>1, <3>3 DEF ExecutedWrite
  <2>5. CASE tiles[c.name] = {}
    <3>1. Send(w, Append(<<Written(c)>>, Idle)) /\ tiles' = [tiles EXCEPT ![c.name] = c.data]
      BY <1>1, <1>7, <2>2, <2>5 DEF ExecuteWritePnts, Written
    <3>2. Sends(w, <<Written(c)>>, 1, <<Idle>>)
      BY <1>4, <2>1, <2>2, <3>1, SendSends
    <3> QED
      BY <1>2, <2>1, <2>5, <3>1, <3>2 DEF ExecutedWrite
  <2> QED
    BY <2>4, <2>5
<1>8. CASE Fail(w)
  <2>1. c.command \in {"READ_FILE", "PROCESS_JOBS", "WRITE_PNTS"} /\ NextCommand(w)
    BY <1>1, CommandFields, <1>8 DEF Fail
  <2>2. PICK messages \in Outputs(w) : \E k \in 0..(Len(messages) - 1) :
          Send(w, Append(SubSeq(messages, 1, k), Error))
    BY <1>8 DEF Fail
  <2>3. PICK k \in 0..(Len(messages) - 1) : Send(w, Append(SubSeq(messages, 1, k), Error))
    BY <2>2
  <2>4. ASSUME messages \in Seq(WorkMessage)
        PROVE  k \in Nat /\ Sends(w, messages, k, <<Error>>)
    <3>1. k \in 0..Len(messages)
      BY <2>4
    <3> QED
      BY <2>3, <2>4, <3>1, SendSends
  <2>5. CASE c.command = "READ_FILE"
    <3>1. messages = ReadMessages(c.portion) /\ UNCHANGED tiles
      BY <1>1, <1>8, <2>5 DEF Outputs, Fail
    <3>2. messages \in Seq(WorkMessage)
      BY <1>1, <2>5, <3>1, CommandFields, ReadMessagesType
    <3> QED
      BY <1>2, <2>1, <2>4, <2>5, <3>1, <3>2 DEF ExecutedRead
  <2>6. CASE c.command = "PROCESS_JOBS"
    <3>1. PICK n \in NextNodes(c.jobs) : messages \in ProcessOutputs(n, c.jobs[n])
      BY <1>1, <2>6 DEF Outputs
    <3>2. c.jobs \in Jobs
      BY <1>1, <2>6, CommandFields
    <3>3. n \in DOMAIN c.jobs /\ n \in TaskName /\ c.jobs[n] \in Job
      BY <3>2 DEF NextNodes, Jobs
    <3>4. messages \in Seq(WorkMessage) /\ UNCHANGED tiles
      BY <1>1, <1>8, <2>6, <3>1, <3>3, ProcessOutputsType DEF Fail
    <3> QED
      BY <1>2, <2>1, <2>4, <2>6, <3>1, <3>3, <3>4 DEF ExecutedNode
  <2>7. CASE c.command = "WRITE_PNTS"
    <3>1. messages = <<Idle>>
      BY <1>1, <2>7 DEF Outputs
    <3>2. k = 0 /\ 0 \in 0..Len(<<Written(c)>>)
      BY <3>1
    <3>3. SubSeq(messages, 1, k) = <<>> /\ SubSeq(<<Written(c)>>, 1, 0) = <<>>
      BY <1>4, <2>7, <3>1, <3>2
    <3>4. Sends(w, <<Written(c)>>, 0, <<Error>>)
      BY <1>4, <2>3, <2>7, <3>2, <3>3, SendSends
    <3>5. \/ UNCHANGED tiles
          \/ /\ tiles[c.name] = {}
             /\ \E written \in SUBSET c.data : tiles' = [tiles EXCEPT ![c.name] = written]
      BY <1>1, <1>8, <2>7 DEF Fail
    <3> QED
      BY <1>2, <2>1, <2>7, <3>4, <3>5 DEF ExecutedWrite
  <2> QED
    BY <2>1, <2>5, <2>6, <2>7
<1> QED
  BY <1>5, <1>6, <1>7, <1>8 DEF Execute

LEMMA WorkingEffect ==
    ASSUME TypeInv, IdleInv, Running', NEW w \in Worker, Work(w)
    PROVE  Running /\ (Started(w) \/ Executed(w))
<1>1. UNCHANGED <<managerVars, stateVars>>
  BY ExecuteEffect DEF Work, Execute, Start, Halt, Executing, TypeInv
<1>2. Running /\ WorkerState(w)
  BY <1>1 DEF IdleInv, Running, managerVars
<1>3. ASSUME inbox[w] # <<>>
      PROVE  \E c \in WorkCommand : inbox[w] = <<c>>
  BY <1>2, <1>3 DEF WorkerState, Starting, Registering, Waiting, Busy, Ending
<1>4. CASE Start(w)
  <2>1. Starting(w)
    BY <1>2, <1>4 DEF Start, WorkerState, Registering, Waiting, Busy, Ending
  <2>2. Append(<<>>, Register) = <<Register>>
    OBVIOUS
  <2> QED
    BY <1>1, <1>2, <1>4, <2>1, <2>2 DEF Start, Starting, Started, TypeInv, ChannelType
<1>5. CASE Halt(w)
  <2>1. inbox[w] # <<>> /\ Head(inbox[w]).command = "SHUTDOWN"
    BY <1>5 DEF Halt, Executing
  <2>2. PICK c \in WorkCommand : inbox[w] = <<c>>
    BY <1>3, <2>1
  <2> QED
    BY <2>1, <2>2 DEF WorkCommand
<1>6. CASE Execute(w)
  <2>1. inbox[w] # <<>>
    BY <1>6, ExecuteEffect DEF TypeInv
  <2>2. PICK c \in WorkCommand : inbox[w] = <<c>>
    BY <1>3, <2>1
  <2>3. ExecutedRead(w, c) \/ ExecutedNode(w, c) \/ ExecutedWrite(w, c)
    BY <1>6, <2>2, ExecutingEffect
  <2> QED
    BY <1>1, <1>2, <2>2, <2>3 DEF Executed
<1> QED
  BY <1>4, <1>5, <1>6 DEF Work, Execute

LEMMA StepEffect ==
    ASSUME TypeInv, IdleInv, Running', [Next]_vars
    PROVE  Running /\ (Still \/ \E w \in Worker : Effect(w))
<1>1. CASE ManagerReceive
  BY <1>1, ReceivingEffect DEF ManagerReceive, Receiving, Effect
<1>2. CASE ManagerDispatch
  BY <1>2, GivingEffect DEF ManagerDispatch, Effect
<1>3. CASE EndDispatch
  BY <1>3 DEF EndDispatch, Running, workerVars, Still
<1>4. CASE ShutdownAllProcesses \/ JoinAllProcesses
  BY <1>4 DEF ShutdownAllProcesses, JoinAllProcesses, Running
<1>5. CASE \E w \in Worker : Work(w)
  BY <1>5, WorkingEffect DEF Effect
<1>6. CASE UNCHANGED vars
  BY <1>6 DEF Running, vars, managerVars, workerVars, Still
<1> QED
  BY <1>1, <1>2, <1>3, <1>4, <1>5, <1>6 DEF Next, Manager, Finished
-----------------------------------------------------------------------------
(* What the answer to a job holds                                          *)

(* An order of a finite set contains all its members.                      *)
LEMMA OrderOnto ==
    ASSUME NEW S, IsFiniteSet(S), NEW order \in Orders(S)
    PROVE  \A s \in S : \E k \in DOMAIN order : order[k] = s
<1>1. /\ Cardinality(S) \in Nat /\ order \in [1..Cardinality(S) -> S]
      /\ DOMAIN order = 1..Cardinality(S)
  BY OrderType
<1>2. order \in Injection(1..Cardinality(S), S)
  BY <1>1 DEF Orders, Injection, IsInjective
<1>3. Cardinality(1..Cardinality(S)) = Cardinality(S)
  BY <1>1, FS_Interval
<1>4. order \in Surjection(1..Cardinality(S), S)
  BY <1>2, <1>3, FS_Injection
<1> QED
  BY <1>1, <1>4 DEF Surjection

(* The points that a flush has forwarded are gone for the later ones.      *)
LEMMA FlushesApart ==
    ASSUME NEW n \in TaskName, NEW job \in Job, NEW flush \in Flushes(n, job),
           NEW i \in DOMAIN flush, NEW j \in DOMAIN flush, i # j
    PROVE  flush[i] \cap flush[j] = {}
<1>1. PICK order \in Orders(job.tasks) : \A k \in DOMAIN flush :
        flush[k] \subseteq (job.node \cup UNION {order[l] : l \in 1..k})
                           \ UNION {flush[l] : l \in 1..(k - 1)}
  BY DEF Flushes
<1>2. DOMAIN flush = 1..Cardinality(job.tasks) /\ Cardinality(job.tasks) \in Nat
  BY FlushType
<1>3. ASSUME NEW k \in DOMAIN flush, NEW l \in DOMAIN flush, l < k
      PROVE  flush[k] \cap flush[l] = {}
  <2>1. l \in 1..(k - 1)
    BY <1>2, <1>3
  <2> QED
    BY <1>1, <2>1
<1> QED
  BY <1>2, <1>3

(* The answer to a job: tasks that share its forwarded points out, then    *)
(* PROCESSED with those it keeps.                                          *)
Forwards(answer, n, gone) ==
    /\ \A k \in 1..(Len(answer) - 1) :
         /\ answer[k].type = "NEW_TASK"
         /\ answer[k].name \in TaskName /\ answer[k].points # {} /\ answer[k].points \subseteq gone
         /\ \A p \in answer[k].points : CanForward(n, p) /\ answer[k].name = TargetOf(n, p)
         /\ \A l \in 1..(Len(answer) - 1) : l # k => answer[k].points \cap answer[l].points = {}
    /\ \A p \in gone : \E k \in 1..(Len(answer) - 1) : p \in answer[k].points

LEMMA JobAnswer ==
    ASSUME NEW n \in TaskName, NEW job \in Job, NEW answer \in ProcessOutputs(n, job)
    PROVE  /\ answer \in Seq(WorkMessage) /\ Len(answer) \in Nat \ {0}
           /\ \E gone \in SUBSET JobPoints(job) :
                /\ Forwards(answer, n, gone)
                /\ answer[Len(answer)] = ProcessedMessage(n,
                     Cardinality(UNION job.tasks) - Cardinality(gone), JobPoints(job) \ gone)
                /\ n = Root <=> gone = JobPoints(job)
<1>1. answer \in Seq(WorkMessage) /\ Len(answer) \in Nat \ {0}
  BY ProcessOutputsType, LenProperties
<1>2. PICK flush \in Flushes(n, job) : \E tasks \in NewTasks(n, flush) :
        answer = Append(tasks, ProcessedMessage(n, Total(job, flush),
                                                JobPoints(job) \ Forwarded(flush)))
  BY DEF ProcessOutputs
<1>3. PICK tasks \in NewTasks(n, flush) :
        answer = Append(tasks, ProcessedMessage(n, Total(job, flush),
                                                JobPoints(job) \ Forwarded(flush)))
  BY <1>2
<1> DEFINE targets == Targets(n, flush)
           points(k, order) == {p \in flush[order[k][1]] : TargetOf(n, p) = order[k][2]}
<1>4. PICK order \in Orders(targets) :
        tasks = [k \in DOMAIN order |-> NewTask(order[k][2], points(k, order))]
  BY DEF NewTasks, Targets
<1>5. /\ IsFiniteSet(targets) /\ Cardinality(targets) \in Nat
      /\ order \in [1..Cardinality(targets) -> targets]
      /\ DOMAIN order = 1..Cardinality(targets)
  BY <1>4, OrderType, TargetsType
<1>6. /\ Len(tasks) = Cardinality(targets) /\ tasks \in Seq(WorkMessage)
      /\ Len(answer) - 1 = Cardinality(targets)
      /\ answer[Len(answer)] = ProcessedMessage(n, Total(job, flush), JobPoints(job) \ Forwarded(flush))
      /\ \A k \in 1..Cardinality(targets) : answer[k] = NewTask(order[k][2], points(k, order))
  <2>1. tasks \in Seq(WorkMessage)
    BY NewTasksType
  <2>2. Len(tasks) = Cardinality(targets)
    BY <1>4, <1>5, <2>1
  <2>3. \A k \in 1..Cardinality(targets) : tasks[k] = NewTask(order[k][2], points(k, order))
    BY <1>4, <1>5
  <2> HIDE DEF targets, points
  <2> QED
    BY <1>3, <1>5, <2>1, <2>2, <2>3
<1>7. ASSUME NEW k \in 1..Cardinality(targets)
      PROVE  /\ order[k][1] \in DOMAIN flush /\ order[k][2] \in TaskName
             /\ order[k] = <<order[k][1], order[k][2]>>
             /\ points(k, order) # {}
  <2>1. order[k] \in targets
    BY <1>5
  <2>2. PICK i \in DOMAIN flush : order[k] \in {<<i, TargetOf(n, p)>> : p \in flush[i]}
    BY <2>1 DEF Targets
  <2>3. PICK p \in flush[i] : order[k] = <<i, TargetOf(n, p)>>
    BY <2>2
  <2>4. order[k][2] \in TaskName
    BY <2>1, TargetsType
  <2> QED
    BY <2>3, <2>4
<1>8. Forwarded(flush) \subseteq JobPoints(job) /\ (n = Root <=> Forwarded(flush) = JobPoints(job))
  BY DEF Flushes, Forwarded
<1>9. ASSUME NEW k \in 1..Cardinality(targets), NEW l \in 1..Cardinality(targets), k # l
      PROVE  points(k, order) \cap points(l, order) = {}
  <2>1. order[k] # order[l]
    BY <1>4, <1>5, <1>9 DEF Orders
  <2>2. CASE order[k][1] # order[l][1]
    BY <1>7, <2>2, FlushesApart
  <2>3. CASE order[k][2] # order[l][2]
    BY <2>3
  <2> QED
    BY <1>7, <2>1, <2>2, <2>3
<1>10. ASSUME NEW p \in Forwarded(flush)
       PROVE  \E k \in 1..Cardinality(targets) : p \in points(k, order)
  <2>1. PICK i \in DOMAIN flush : p \in flush[i]
    BY DEF Forwarded
  <2>2. <<i, TargetOf(n, p)>> \in targets
    BY <2>1 DEF Targets
  <2>3. PICK k \in 1..Cardinality(targets) : order[k] = <<i, TargetOf(n, p)>>
    BY <1>4, <1>5, <2>2, OrderOnto
  <2> QED
    BY <2>1, <2>3
<1>11. \A k \in 1..Cardinality(targets) : points(k, order) \subseteq Forwarded(flush)
  BY <1>7 DEF Forwarded
<1>12. \A k \in 1..Cardinality(targets) : \A p \in points(k, order) :
         CanForward(n, p) /\ TargetOf(n, p) = order[k][2]
  BY <1>7, FlushType
<1> HIDE DEF targets, points
<1>13. Forwards(answer, n, Forwarded(flush))
  <2>1. 1..(Len(answer) - 1) = 1..Cardinality(targets)
    BY <1>6
  <2>2. ASSUME NEW k \in 1..Cardinality(targets)
        PROVE  /\ answer[k].type = "NEW_TASK"
               /\ answer[k].name = order[k][2] /\ answer[k].points = points(k, order)
    <3>1. answer[k] = NewTask(order[k][2], points(k, order))
      BY <1>6
    <3> QED
      BY <3>1 DEF NewTask
  <2>3. ASSUME NEW k \in 1..Cardinality(targets)
        PROVE  /\ answer[k].name \in TaskName /\ answer[k].points # {}
               /\ answer[k].points \subseteq Forwarded(flush)
               /\ \A p \in answer[k].points : CanForward(n, p) /\ answer[k].name = TargetOf(n, p)
    BY <1>7, <1>11, <1>12, <2>2
  <2>4. \A k, l \in 1..Cardinality(targets) : l # k => answer[k].points \cap answer[l].points = {}
    BY <1>9, <2>2
  <2>5. \A p \in Forwarded(flush) : \E k \in 1..Cardinality(targets) : p \in answer[k].points
    BY <1>10, <2>2
  <2> QED
    BY <2>1, <2>2, <2>3, <2>4, <2>5 DEF Forwards
<1> QED
  BY <1>1, <1>6, <1>8, <1>13 DEF Total

(* The answer to a portion: its chunks as tasks of the root, then READ.    *)
LEMMA ReadAnswer ==
    ASSUME NEW i \in 1..Len(Portions)
    PROVE  LET answer == ReadMessages(i)
           IN  /\ answer \in Seq(WorkMessage) /\ Len(answer) \in Nat \ {0}
               /\ answer[Len(answer)] = [type |-> "READ"]
               /\ \A k \in 1..(Len(answer) - 1) :
                    /\ answer[k] = NewTask(Root, Portions[i][k])
                    /\ Portions[i][k] # {} /\ Portions[i][k] \subseteq PointsOf(Portions[i])
                    /\ \A l \in 1..(Len(answer) - 1) :
                         l # k => Portions[i][k] \cap Portions[i][l] = {}
               /\ \A p \in PointsOf(Portions[i]) : \E k \in 1..(Len(answer) - 1) : p \in Portions[i][k]
<1> DEFINE L == Len(Portions[i])
           tasks == [k \in 1..L |-> NewTask(Root, Portions[i][k])]
           answer == ReadMessages(i)
<1>1. Portions[i] \in Seq((SUBSET Point) \ {{}}) /\ L \in Nat
  BY PortionAssumption
<1>2. answer = tasks \o <<[type |-> "READ"]>>
  BY DEF ReadMessages
<1>3. /\ answer \in Seq(WorkMessage) /\ Len(answer) = L + 1
      /\ answer[L + 1] = [type |-> "READ"]
      /\ \A k \in 1..L : answer[k] = NewTask(Root, Portions[i][k])
  <2>1. tasks \in Seq({NewTask(Root, Portions[i][k]) : k \in 1..L}) /\ Len(tasks) = L
    BY <1>1
  <2>2. answer \in Seq(WorkMessage)
    BY ReadMessagesType
  <2>3. \A k \in 1..L : tasks[k] = NewTask(Root, Portions[i][k])
    OBVIOUS
  <2> HIDE DEF tasks
  <2> QED
    BY <1>1, <1>2, <2>1, <2>2, <2>3
<1>4. \A k \in 1..L : /\ Portions[i][k] # {}
                      /\ Portions[i][k] \subseteq PointsOf(Portions[i])
  BY <1>1 DEF PointsOf, ChunksOf
<1>5. \A k, l \in 1..L : l # k => Portions[i][k] \cap Portions[i][l] = {}
  BY PortionAssumption
<1>6. \A p \in PointsOf(Portions[i]) : \E k \in 1..L : p \in Portions[i][k]
  BY DEF PointsOf, ChunksOf
<1> HIDE DEF tasks
<1>7. /\ answer \in Seq(WorkMessage) /\ Len(answer) \in Nat \ {0} /\ Len(answer) - 1 = L
      /\ answer[Len(answer)] = [type |-> "READ"]
  BY <1>1, <1>3
<1>8. \A k \in 1..L : answer[k] = NewTask(Root, Portions[i][k])
  BY <1>3
<1> HIDE DEF L
<1> QED
  BY <1>4, <1>5, <1>6, <1>7, <1>8
-----------------------------------------------------------------------------
(* The channels of a worker                                                *)

LEMMA ChannelsTyped ==
    ASSUME TypeInv, NEW w \in Worker
    PROVE  /\ inbox[w] \in Seq(Command) /\ outbox[w] \in Seq(Message)
           /\ inbox \in [Worker -> Seq(Command)] /\ outbox \in [Worker -> Seq(Message)]
           /\ Len(outbox[w]) \in Nat /\ Len(inbox[w]) \in Nat
           /\ Sent(w) \subseteq Message /\ Commands(w) \subseteq Command
           /\ \A i \in 1..Len(outbox[w]) : outbox[w][i] \in Sent(w) /\ outbox[w][i] \in Message
<1>1. inbox[w] \in Seq(Command) /\ outbox[w] \in Seq(Message)
  BY DEF TypeInv, ChannelType
<1>2. Len(outbox[w]) \in Nat /\ Len(inbox[w]) \in Nat
  BY <1>1
<1>3. \A i \in 1..Len(outbox[w]) : outbox[w][i] \in Message
  BY <1>1, ElementOfSeq
<1>4. \A i \in 1..Len(inbox[w]) : inbox[w][i] \in Command
  BY <1>1, ElementOfSeq
<1> QED
  BY <1>1, <1>2, <1>3, <1>4 DEF TypeInv, ChannelType, Sent, Commands

LEMMA SameChannels ==
    ASSUME NEW w \in Worker, inbox'[w] = inbox[w], outbox'[w] = outbox[w]
    PROVE  /\ Commands(w)' = Commands(w) /\ Sent(w)' = Sent(w)
           /\ Reading(w)' = Reading(w) /\ Writing(w)' = Writing(w)
           /\ NodesAt(w)' = NodesAt(w) /\ NodesToWriteAt(w)' = NodesToWriteAt(w)
           /\ TasksFrom(w)' = TasksFrom(w)
<1>1. Commands(w)' = Commands(w) /\ Sent(w)' = Sent(w)
  BY DEF Commands, Sent
<1> QED
  BY <1>1 DEF Reading, Writing, NodesAt, NodesToWriteAt, TasksFrom, CommandsOf, SentOf

(* A sequence without its head.                                            *)
LEMMA TailFacts ==
    ASSUME NEW S, NEW s \in Seq(S), s # <<>>
    PROVE  /\ Head(s) \in S /\ Head(s) = s[1]
           /\ Len(s) \in Nat \ {0} /\ Len(Tail(s)) = Len(s) - 1
           /\ \A i \in 1..Len(Tail(s)) : i + 1 \in 1..Len(s) /\ Tail(s)[i] = s[i + 1]
           /\ {s[i] : i \in 1..Len(s)} = {Head(s)} \cup {Tail(s)[i] : i \in 1..Len(Tail(s))}
<1>1. /\ Head(s) \in S /\ Head(s) = s[1]
      /\ Len(s) \in Nat \ {0} /\ Len(Tail(s)) = Len(s) - 1
      /\ \A i \in 1..Len(Tail(s)) : i + 1 \in 1..Len(s) /\ Tail(s)[i] = s[i + 1]
  OBVIOUS
<1> DEFINE t == Tail(s)
<1> HIDE DEF t
<1>2. \A i \in 1..Len(s) : i = 1 \/ (i - 1 \in 1..Len(t) /\ s[i] = t[i - 1])
  <2> SUFFICES ASSUME NEW i \in 1..Len(s), i # 1
               PROVE  i - 1 \in 1..Len(t) /\ s[i] = t[i - 1]
    OBVIOUS
  <2>1. i - 1 \in 1..Len(t) /\ (i - 1) + 1 = i
    BY <1>1 DEF t
  <2> QED
    BY <1>1, <2>1 DEF t
<1>3. {s[i] : i \in 1..Len(s)} \subseteq {Head(s)} \cup {t[i] : i \in 1..Len(t)}
  BY <1>1, <1>2
<1>4. {t[i] : i \in 1..Len(t)} \subseteq {s[i] : i \in 1..Len(s)}
  BY <1>1 DEF t
<1>5. Head(s) \in {s[i] : i \in 1..Len(s)}
  BY <1>1
<1> QED
  BY <1>1, <1>3, <1>4, <1>5 DEF t

(* The first message leaves, the others move up.                           *)
LEMMA ReceivedChannels ==
    ASSUME TypeInv, NEW w \in Worker, Received(w)
    PROVE  /\ Head(outbox[w]) \in Message /\ Head(outbox[w]) = outbox[w][1]
           /\ Len(outbox[w]) \in Nat \ {0} /\ Len(outbox'[w]) = Len(outbox[w]) - 1
           /\ \A i \in 1..Len(outbox'[w]) :
                /\ i + 1 \in 1..Len(outbox[w])
                /\ outbox'[w][i] = outbox[w][i + 1]
           /\ Sent(w) = {Head(outbox[w])} \cup Sent(w)'
           /\ inbox' = inbox /\ \A v \in Worker : Commands(v)' = Commands(v)
           /\ \A v \in Worker \ {w} : outbox'[v] = outbox[v] /\ Sent(v)' = Sent(v)
<1>1. /\ outbox[w] \in Seq(Message) /\ outbox \in [Worker -> Seq(Message)]
      /\ outbox[w] # <<>> /\ outbox' = [outbox EXCEPT ![w] = Tail(@)] /\ inbox' = inbox
  BY ChannelsTyped DEF Received
<1>2. outbox'[w] = Tail(outbox[w]) /\ \A v \in Worker \ {w} : outbox'[v] = outbox[v]
  BY <1>1
<1>3. \A v \in Worker \ {w} : Sent(v)' = Sent(v)
  BY <1>2 DEF Sent
<1>4. \A v \in Worker : Commands(v)' = Commands(v)
  BY <1>1 DEF Commands
<1>5. Sent(w) = {Head(outbox[w])} \cup {Tail(outbox[w])[i] : i \in 1..Len(Tail(outbox[w]))}
  BY <1>1, TailFacts DEF Sent
<1>6. Sent(w)' = {Tail(outbox[w])[i] : i \in 1..Len(Tail(outbox[w]))}
  BY <1>2 DEF Sent
<1>7. /\ Head(outbox[w]) \in Message /\ Head(outbox[w]) = outbox[w][1]
      /\ Len(outbox[w]) \in Nat \ {0} /\ Len(Tail(outbox[w])) = Len(outbox[w]) - 1
      /\ \A i \in 1..Len(Tail(outbox[w])) :
           i + 1 \in 1..Len(outbox[w]) /\ Tail(outbox[w])[i] = outbox[w][i + 1]
  BY <1>1, TailFacts
<1> QED
  BY <1>1, <1>2, <1>3, <1>4, <1>5, <1>6, <1>7

(* A worker that waits, and its one command.                               *)
LEMMA EmptyChannels ==
    ASSUME NEW w
    PROVE  /\ inbox[w] = <<>> => Commands(w) = {}
           /\ outbox[w] = <<>> => Sent(w) = {}
           /\ \A c : inbox[w] = <<c>> => Commands(w) = {c}
           /\ \A m : outbox[w] = <<m>> => Sent(w) = {m}
<1>1. \A e : Len(<<e>>) = 1 /\ <<e>>[1] = e
  OBVIOUS
<1> QED
  BY <1>1 DEF Commands, Sent

LEMMA NewCommand ==
    ASSUME TypeInv, NEW w \in Worker, NEW c, LeftWith(w, c)
    PROVE  /\ inbox'[w] = <<c>> /\ Commands(w)' = {c}
           /\ \A v \in Worker \ {w} : inbox'[v] = inbox[v] /\ Commands(v)' = Commands(v)
<1>1. inbox'[w] = <<c>> /\ \A v \in Worker \ {w} : inbox'[v] = inbox[v]
  BY ChannelsTyped DEF LeftWith
<1>2. Len(<<c>>) = 1 /\ <<c>>[1] = c
  OBVIOUS
<1> QED
  BY <1>1, <1>2 DEF Commands

LEMMA EndedCommand ==
    ASSUME TypeInv, NEW w \in Worker, Ended(w)
    PROVE  /\ inbox'[w] = <<>> /\ Commands(w)' = {}
           /\ \A v \in Worker \ {w} : inbox'[v] = inbox[v] /\ Commands(v)' = Commands(v)
<1>1. inbox'[w] = <<>> /\ \A v \in Worker \ {w} : inbox'[v] = inbox[v]
  BY ChannelsTyped DEF Ended
<1> QED
  BY <1>1 DEF Commands

LEMMA StartedChannels ==
    ASSUME TypeInv, NEW w \in Worker, Started(w)
    PROVE  /\ outbox'[w] = <<Register>> /\ Sent(w)' = {Register} /\ inbox'[w] = <<>>
           /\ Commands(w) = {} /\ Sent(w) = {} /\ Commands(w)' = {}
           /\ \A v \in Worker \ {w} : /\ inbox'[v] = inbox[v] /\ outbox'[v] = outbox[v]
                                      /\ Sent(v)' = Sent(v) /\ Commands(v)' = Commands(v)
<1>1. outbox'[w] = <<Register>> /\ inbox' = inbox /\ \A v \in Worker \ {w} : outbox'[v] = outbox[v]
  BY ChannelsTyped DEF Started
<1>2. Len(<<Register>>) = 1 /\ <<Register>>[1] = Register
  OBVIOUS
<1>3. Sent(w)' = {Register} /\ inbox'[w] = <<>> /\ Commands(w)' = Commands(w)
  BY <1>1, <1>2 DEF Started, Sent, Commands
<1>4. \A v \in Worker \ {w} : Sent(v)' = Sent(v) /\ Commands(v)' = Commands(v)
  BY <1>1 DEF Sent, Commands
<1>5. Commands(w) = {} /\ Sent(w) = {}
  BY EmptyChannels DEF Started
<1> QED
  BY <1>1, <1>3, <1>4, <1>5

(* A command of which one node has been processed, the way a proof uses    *)
(* it: the worker has sent the first k messages of its answer, the points  *)
(* gone went out with the tasks, and unless that was the last node of the  *)
(* command the rest stays in the inbox.                                    *)
Ran(w, c, n, answer, gone, k, last) ==
    /\ c \in Command /\ c.command = "PROCESS_JOBS" /\ c.jobs \in Jobs
    /\ n \in DOMAIN c.jobs /\ n \in TaskName /\ c.jobs[n] \in Job
    /\ Sends(w, answer, k, last)
    /\ Len(answer) \in Nat \ {0} /\ k \in 0..Len(answer)
    /\ Forwards(answer, n, gone) /\ gone \subseteq JobPoints(c.jobs[n])
    /\ answer[Len(answer)] = ProcessedMessage(n,
          Cardinality(UNION c.jobs[n].tasks) - Cardinality(gone), JobPoints(c.jobs[n]) \ gone)
    /\ n = Root <=> gone = JobPoints(c.jobs[n])
    /\ UNCHANGED tiles
Rest(w, c, n, last) ==
    \/ Ended(w) /\ last = <<Error>>
    \/ Ended(w) /\ DOMAIN c.jobs = {n} /\ last = <<Idle>>
    \/ \E rest \in Command :
         /\ rest.command = "PROCESS_JOBS"
         /\ DOMAIN rest.jobs = DOMAIN c.jobs \ {n} /\ DOMAIN rest.jobs # {}
         /\ \A i \in DOMAIN rest.jobs : rest.jobs[i] = c.jobs[i]
         /\ LeftWith(w, rest)
         /\ last = <<>>

LEMMA NodeRun ==
    ASSUME TypeInv, NEW w \in Worker, NEW c \in WorkCommand, ExecutedNode(w, c)
    PROVE  \E n, answer, gone, k, last :
             Ran(w, c, n, answer, gone, k, last) /\ Rest(w, c, n, last)
<1> DEFINE Run(n, answer) ==
         \/ Ended(w) /\ \E k \in Nat : Sends(w, answer, k, <<Error>>)
         \/ Ended(w) /\ DOMAIN c.jobs = {n} /\ Sends(w, answer, Len(answer), <<Idle>>)
         \/ \E rest \in Command :
              /\ rest.command = "PROCESS_JOBS"
              /\ DOMAIN rest.jobs = DOMAIN c.jobs \ {n} /\ DOMAIN rest.jobs # {}
              /\ \A k \in DOMAIN rest.jobs : rest.jobs[k] = c.jobs[k]
              /\ LeftWith(w, rest)
              /\ Sends(w, answer, Len(answer), <<>>)
<1>1. PICK n \in DOMAIN c.jobs : \E answer \in ProcessOutputs(n, c.jobs[n]) : Run(n, answer)
  BY DEF ExecutedNode
<1>2. PICK answer \in ProcessOutputs(n, c.jobs[n]) : Run(n, answer)
  BY <1>1
<1>3. c \in Command /\ c.command = "PROCESS_JOBS" /\ c.jobs \in Jobs /\ UNCHANGED tiles
  BY CommandFields DEF ExecutedNode, Command
<1>4. n \in TaskName /\ c.jobs[n] \in Job
  BY <1>3 DEF Jobs
<1>5. PICK gone \in SUBSET JobPoints(c.jobs[n]) :
        /\ Forwards(answer, n, gone)
        /\ answer[Len(answer)] = ProcessedMessage(n,
             Cardinality(UNION c.jobs[n].tasks) - Cardinality(gone), JobPoints(c.jobs[n]) \ gone)
        /\ n = Root <=> gone = JobPoints(c.jobs[n])
  BY <1>4, JobAnswer
<1>6. Len(answer) \in Nat \ {0}
  BY <1>4, JobAnswer
<1>7. ASSUME NEW k, NEW last, Sends(w, answer, k, last)
      PROVE  Ran(w, c, n, answer, gone, k, last)
  <2>1. k \in 0..Len(answer)
    BY <1>7 DEF Sends
  <2>2. /\ Forwards(answer, n, gone) /\ gone \subseteq JobPoints(c.jobs[n])
        /\ answer[Len(answer)] = ProcessedMessage(n,
             Cardinality(UNION c.jobs[n].tasks) - Cardinality(gone), JobPoints(c.jobs[n]) \ gone)
        /\ n = Root <=> gone = JobPoints(c.jobs[n])
    BY <1>5
  <2> QED
    BY <1>3, <1>4, <1>6, <1>7, <2>1, <2>2 DEF Ran
<1>8. CASE Ended(w) /\ \E k \in Nat : Sends(w, answer, k, <<Error>>)
  <2>1. PICK j \in Nat : Sends(w, answer, j, <<Error>>)
    BY <1>8
  <2>2. Ran(w, c, n, answer, gone, j, <<Error>>)
    BY <1>7, <2>1
  <2>3. Rest(w, c, n, <<Error>>)
    BY <1>8 DEF Rest
  <2> QED
    BY <2>2, <2>3
<1>9. CASE Ended(w) /\ DOMAIN c.jobs = {n} /\ Sends(w, answer, Len(answer), <<Idle>>)
  <2>1. Ran(w, c, n, answer, gone, Len(answer), <<Idle>>)
    BY <1>7, <1>9
  <2>2. Rest(w, c, n, <<Idle>>)
    BY <1>9 DEF Rest
  <2> QED
    BY <2>1, <2>2
<1>10. ASSUME NEW rest \in Command,
              rest.command = "PROCESS_JOBS",
              DOMAIN rest.jobs = DOMAIN c.jobs \ {n}, DOMAIN rest.jobs # {},
              \A k \in DOMAIN rest.jobs : rest.jobs[k] = c.jobs[k],
              LeftWith(w, rest), Sends(w, answer, Len(answer), <<>>)
       PROVE  \E k, last : Ran(w, c, n, answer, gone, k, last) /\ Rest(w, c, n, last)
  <2>1. Ran(w, c, n, answer, gone, Len(answer), <<>>)
    BY <1>7, <1>10
  <2>2. Rest(w, c, n, <<>>)
    BY <1>10 DEF Rest
  <2> QED
    BY <2>1, <2>2
<1> QED
  BY <1>2, <1>8, <1>9, <1>10, <1>7

(* Where the messages of an answer are in the channel.                     *)
LEMMA SendsChannels ==
    ASSUME TypeInv, NEW w \in Worker, NEW answer, NEW k, NEW last, Sends(w, answer, k, last)
    PROVE  /\ k \in 0..Len(answer) /\ answer \in Seq(WorkMessage) /\ Len(answer) \in Nat
           /\ last # <<Error>> => k = Len(answer)
           /\ Len(last) \in 0..1 /\ Len(outbox'[w]) = Len(outbox[w]) + k + Len(last)
           /\ last # <<>> => Len(last) = 1 /\ last[1] \in {Idle, Error} /\ last = <<last[1]>>
           /\ \A i \in 1..Len(outbox[w]) : outbox'[w][i] = outbox[w][i]
           /\ \A i \in 1..k : /\ outbox'[w][Len(outbox[w]) + i] = answer[i]
                              /\ answer[i] \in WorkMessage
           /\ Len(last) = 1 => outbox'[w][Len(outbox[w]) + k + 1] = last[1]
           /\ Sent(w)' = Sent(w) \cup {answer[i] : i \in 1..k} \cup {last[i] : i \in 1..Len(last)}
           /\ \A v \in Worker \ {w} : outbox'[v] = outbox[v] /\ Sent(v)' = Sent(v)
<1> DEFINE part == SubSeq(answer, 1, k)
<1>1. /\ answer \in Seq(WorkMessage) /\ k \in 0..Len(answer) /\ Len(answer) \in Nat
      /\ last \in {<<>>, <<Idle>>, <<Error>>} /\ (last # <<Error>> => k = Len(answer))
      /\ outbox' = [outbox EXCEPT ![w] = (@ \o part) \o last]
  BY DEF Sends
<1>2. outbox[w] \in Seq(Message) /\ outbox \in [Worker -> Seq(Message)]
  BY ChannelsTyped
<1>3. answer \in Seq(Message)
  BY <1>1, SeqMonotonic DEF Message
<1>4. part \in Seq(Message) /\ Len(part) = k /\ \A i \in 1..k : part[i] = answer[i]
  BY <1>1, <1>3
<1>5. \A i \in 1..k : answer[i] \in WorkMessage
  BY <1>1, ElementOfSeq
<1>6. /\ last \in Seq(Message) /\ Len(last) \in 0..1
      /\ last # <<>> => Len(last) = 1 /\ last[1] \in {Idle, Error} /\ last = <<last[1]>>
  <2>1. CASE last = <<>>
    BY <2>1
  <2>2. ASSUME NEW m \in {Idle, Error}, last = <<m>>
        PROVE  last \in Seq(Message) /\ Len(last) = 1 /\ last[1] = m
    <3>1. m \in Message
      BY DEF Message, LastMessage
    <3> QED
      BY <2>2, <3>1
  <2> QED
    BY <1>1, <2>1, <2>2
<1> HIDE DEF part
<1>7. outbox'[w] = (outbox[w] \o part) \o last /\ \A v \in Worker \ {w} : outbox'[v] = outbox[v]
  BY <1>1, <1>2
<1>8. \A v \in Worker \ {w} : Sent(v)' = Sent(v)
  BY <1>7 DEF Sent
<1>9. PICK a \in Seq(Message), b \in Seq(Message), c \in Seq(Message), all \in {outbox'[w]} :
        a = outbox[w] /\ b = part /\ c = last /\ all = outbox'[w]
  BY <1>2, <1>4, <1>6
<1>10. all = (a \o b) \o c
  BY <1>7, <1>9
<1>11. /\ Len(a) \in Nat /\ Len(b) \in Nat /\ Len(c) \in Nat
       /\ Len(all) = Len(a) + Len(b) + Len(c)
       /\ \A i \in 1..Len(a) : all[i] = a[i]
       /\ \A i \in 1..Len(b) : all[Len(a) + i] = b[i]
       /\ \A i \in 1..Len(c) : all[Len(a) + Len(b) + i] = c[i]
  BY <1>10
<1>12. \A i \in 1..Len(all) :
         \/ i \in 1..Len(a)
         \/ \E j \in 1..Len(b) : i = Len(a) + j
         \/ \E j \in 1..Len(c) : i = Len(a) + Len(b) + j
  <2> SUFFICES ASSUME NEW i \in 1..Len(all)
               PROVE  \/ i \in 1..Len(a)
                      \/ \E j \in 1..Len(b) : i = Len(a) + j
                      \/ \E j \in 1..Len(c) : i = Len(a) + Len(b) + j
    OBVIOUS
  <2>1. i \in Nat /\ 1 <= i /\ i <= Len(a) + Len(b) + Len(c)
    BY <1>11
  <2>2. CASE i <= Len(a)
    BY <1>11, <2>1, <2>2
  <2>3. CASE i > Len(a) /\ i <= Len(a) + Len(b)
    <3>1. i - Len(a) \in 1..Len(b) /\ i = Len(a) + (i - Len(a))
      BY <1>11, <2>1, <2>3
    <3> QED
      BY <3>1
  <2>4. CASE i > Len(a) + Len(b)
    <3>1. i - (Len(a) + Len(b)) \in 1..Len(c) /\ i = Len(a) + Len(b) + (i - (Len(a) + Len(b)))
      BY <1>11, <2>1, <2>4
    <3> QED
      BY <3>1
  <2> QED
    BY <1>11, <2>1, <2>2, <2>3, <2>4
<1>13. /\ \A i \in 1..Len(a) : i \in 1..Len(all)
       /\ \A i \in 1..Len(b) : Len(a) + i \in 1..Len(all)
       /\ \A i \in 1..Len(c) : Len(a) + Len(b) + i \in 1..Len(all)
  BY <1>11
<1> DEFINE As == {a[i] : i \in 1..Len(a)}
           Bs == {b[i] : i \in 1..Len(b)}
           Cs == {c[i] : i \in 1..Len(c)}
           Alls == {all[i] : i \in 1..Len(all)}
<1>14. Alls = As \cup Bs \cup Cs
  <2>1. ASSUME NEW i \in 1..Len(all)
        PROVE  all[i] \in As \cup Bs \cup Cs
    <3>1. CASE i \in 1..Len(a)
      BY <1>11, <3>1
    <3>2. ASSUME NEW j \in 1..Len(b), i = Len(a) + j PROVE all[i] \in Bs
      BY <1>11, <3>2
    <3>3. ASSUME NEW j \in 1..Len(c), i = Len(a) + Len(b) + j PROVE all[i] \in Cs
      BY <1>11, <3>3
    <3> HIDE DEF As, Bs, Cs
    <3> QED
      BY <1>12, <3>1, <3>2, <3>3
  <2>2. ASSUME NEW i \in 1..Len(a) PROVE a[i] \in Alls
    BY <1>11, <1>13
  <2>3. ASSUME NEW i \in 1..Len(b) PROVE b[i] \in Alls
    <3>1. Len(a) + i \in 1..Len(all) /\ all[Len(a) + i] = b[i]
      BY <1>11, <1>13
    <3> QED
      BY <3>1
  <2>4. ASSUME NEW i \in 1..Len(c) PROVE c[i] \in Alls
    <3>1. Len(a) + Len(b) + i \in 1..Len(all) /\ all[Len(a) + Len(b) + i] = c[i]
      BY <1>11, <1>13
    <3> QED
      BY <3>1
  <2>5. Alls \subseteq As \cup Bs \cup Cs
    BY <2>1
  <2>6. As \subseteq Alls
    BY <2>2
  <2>7. Bs \subseteq Alls
    BY <2>3
  <2>8. Cs \subseteq Alls
    BY <2>4
  <2> HIDE DEF As, Bs, Cs, Alls
  <2> QED
    BY <2>5, <2>6, <2>7, <2>8
<1>15. Len(b) = k /\ \A i \in 1..k : b[i] = answer[i]
  <2>1. Len(part) = k /\ \A i \in 1..k : part[i] = answer[i]
    BY <1>4
  <2>2. b = part
    BY <1>9
  <2> QED
    BY <2>1, <2>2
<1>16. Sent(w)' = Sent(w) \cup {answer[i] : i \in 1..k} \cup {last[i] : i \in 1..Len(last)}
  <2>1. Sent(w)' = Alls
    BY <1>9 DEF Sent
  <2>2. Sent(w) = As
    BY <1>9 DEF Sent
  <2>3. {answer[i] : i \in 1..k} = Bs
    BY <1>15
  <2>4. {last[i] : i \in 1..Len(last)} = Cs
    BY <1>9
  <2> HIDE DEF As, Bs, Cs, Alls
  <2> QED
    BY <1>14, <2>1, <2>2, <2>3, <2>4
<1>17. /\ Len(outbox'[w]) = Len(outbox[w]) + k + Len(last)
       /\ \A i \in 1..Len(outbox[w]) : outbox'[w][i] = outbox[w][i]
       /\ \A i \in 1..k : outbox'[w][Len(outbox[w]) + i] = answer[i]
       /\ Len(last) = 1 => outbox'[w][Len(outbox[w]) + k + 1] = last[1]
  <2>1. Len(c) = 1 => all[Len(a) + Len(b) + 1] = c[1]
    BY <1>11
  <2> HIDE <1>10
  <2> QED
    BY <1>9, <1>11, <1>15, <2>1
<1> QED
  BY <1>1, <1>5, <1>6, <1>7, <1>8, <1>16, <1>17

-----------------------------------------------------------------------------
(* What the messages, the commands and the lists hold: a task has points,  *)
(* all of them in its octant, a node other than the root keeps points of   *)
(* its octant, and the root keeps nothing.                                 *)

Octant(S, n) == \A p \in S : IsAncestor(Path[p], n)
GoodMessage(m) ==
    /\ m.type = "NEW_TASK" => m.points # {} /\ Octant(m.points, m.name)
    /\ m.type = "PROCESSED" => Octant(m.data, m.name) /\ (m.data = {} <=> m.name = Root)
GoodCommand(c) ==
    /\ c.command = "PROCESS_JOBS" =>
         DOMAIN c.jobs # {} /\ \A n \in DOMAIN c.jobs : Octant(JobPoints(c.jobs[n]), n)
    /\ c.command = "WRITE_PNTS" => c.data # {} /\ c.name # Root /\ Octant(c.data, c.name)
GoodNode(n) ==
    /\ \A t \in node_to_process[n] : t # {} /\ Octant(t, n)
    /\ Octant(node_store[n], n)
DataInv ==
    /\ \A w \in Worker : /\ \A m \in Sent(w) : GoodMessage(m)
                         /\ \A c \in Commands(w) : GoodCommand(c)
    /\ \A n \in TaskName : GoodNode(n)
    /\ node_store[Root] = {}
    /\ Root \notin waiting_writing_nodes \cup pnts_to_writing

(* The node a point is forwarded to: on its path, below the node that      *)
(* forwards it.                                                            *)
LEMMA TargetFacts ==
    ASSUME NEW n \in TaskName, NEW p \in Point, CanForward(n, p)
    PROVE  /\ TargetOf(n, p) \in TaskName /\ TargetOf(n, p) # Root
           /\ Len(TargetOf(n, p)) > Len(n)
           /\ IsAncestor(Path[p], TargetOf(n, p))
           /\ IsAncestor(Path[p], n) => IsAncestor(TargetOf(n, p), n)
<1> DEFINE k == ForwardLength(Len(n))
           t == TargetOf(n, p)
<1>1. Len(n) \in Nat /\ n \in NodeName /\ t \in TaskName /\ Path[p] \in NodeName
  BY TaskNameType, TargetType, PathAssumption
<1>2. k \in Nat /\ k > Len(n)
  BY <1>1 DEF ForwardLength, InferDepth
<1>3. k <= Len(Path[p]) /\ Len(Path[p]) \in Nat
  BY <1>1, LenProperties DEF CanForward, NodeName
<1>4. /\ Len(t) = k /\ t \in NodeName
      /\ \A i \in 1..k : t[i] = Path[p][i]
  BY <1>1, <1>2, <1>3, TaskNameType DEF TargetOf, NodeName
<1>5. t # Root
  <2>1. Len(Root) = 0
    BY DEF Root
  <2> QED
    BY <1>1, <1>2, <1>4, <2>1
<1>6. IsAncestor(Path[p], t)
  BY <1>1, <1>3, <1>4, AncestorDigits
<1>7. IsAncestor(Path[p], n) => IsAncestor(t, n)
  <2>1. 1..Len(n) \subseteq 1..k
    BY <1>1, <1>2
  <2> QED
    BY <1>1, <1>2, <1>4, <2>1, AncestorDigits
<1> QED
  BY <1>1, <1>2, <1>4, <1>5, <1>6, <1>7

LEMMA RootOctant == \A S \in Chunk : Octant(S, Root)
BY PathAssumption, RootIsAncestor DEF Octant, Chunk

LEMMA InitData == Init => DataInv
<1> SUFFICES ASSUME Init PROVE DataInv
  OBVIOUS
<1>1. \A w \in Worker : Commands(w) = {} /\ Sent(w) = {}
  BY EmptyChannels DEF Init
<1> QED
  BY <1>1, TaskNameType DEF Init, TilerInit, DataInv, GoodNode, Octant

LEMMA ReceivedData ==
    ASSUME TypeInv, DataInv, NEW w \in Worker, Received(w)
    PROVE  DataInv'
<1> DEFINE m == Head(outbox[w])
<1>1. m \in Message /\ m \in Sent(w) /\ Handled(m)
  BY ReceivedChannels DEF Received
<1>2. \A v \in Worker : /\ \A c \in Commands(v)' : GoodCommand(c)
                        /\ \A x \in Sent(v)' : GoodMessage(x)
  BY ReceivedChannels DEF DataInv
<1>3. GoodMessage(m)
  BY <1>1 DEF DataInv
<1> HIDE DEF m
<1>4. /\ \A n \in TaskName : GoodNode(n)'
      /\ node_store'[Root] = {} /\ Root \notin (waiting_writing_nodes \cup pnts_to_writing)'
  <2>1. CASE UNCHANGED nodeVars
    BY <2>1 DEF DataInv, GoodNode, nodeVars
  <2>2. CASE m.type = "NEW_TASK" /\ m.points # {} /\ AddTasksToProcess(m.name, m.points)
    <3>1. /\ UNCHANGED <<waiting_writing_nodes, pnts_to_writing, node_store>>
          /\ node_to_process' = [node_to_process EXCEPT ![m.name] = @ \cup {m.points}]
          /\ node_to_process \in [TaskName -> SUBSET Chunk]
      BY <2>2 DEF AddTasksToProcess, TypeInv, TilerType
    <3>2. \A n \in TaskName : node_to_process'[n] \subseteq
                                node_to_process[n] \cup (IF n = m.name THEN {m.points} ELSE {})
      BY <3>1
    <3> QED
      BY <1>3, <2>2, <3>1, <3>2 DEF DataInv, GoodNode, GoodMessage
  <2>3. CASE /\ m.type = "PROCESSED" /\ m.name \in processing_nodes
             /\ Processed(m.name, m.total, m.data)
    <3>1. node_to_process' = node_to_process
      BY <2>3 DEF Processed
    <3>2. CASE m.name = Root
      BY <2>3, <3>1, <3>2 DEF Processed, DispatchProcessedNodes, DataInv, GoodNode
    <3>3. CASE m.name # Root
      <4>1. /\ node_store' = [node_store EXCEPT ![m.name] = m.data]
            /\ waiting_writing_nodes' \cup pnts_to_writing'
                 \subseteq waiting_writing_nodes \cup pnts_to_writing \cup {m.name}
            /\ node_store \in [TaskName -> Chunk]
        BY <2>3, <3>3 DEF Processed, DispatchProcessedNodes, Writable, TypeInv, TilerType
      <4> QED
        BY <1>3, <2>3, <3>1, <3>3, <4>1 DEF DataInv, GoodNode, GoodMessage
    <3> QED
      BY <3>2, <3>3
  <2> QED
    BY <1>1, <2>1, <2>2, <2>3 DEF Handled, ReadDone, PntsWritten, stateVars, nodeVars
<1> QED
  BY <1>2, <1>4 DEF DataInv

LEMMA GivenData ==
    ASSUME TypeInv, DataInv, NEW w \in Worker, Given(w)
    PROVE  DataInv'
<1>1. \A v \in Worker : Sent(v)' = Sent(v)
  BY DEF Given, Sent
<1>2. ASSUME NEW c, LeftWith(w, c), GoodCommand(c)
      PROVE  \A v \in Worker : \A d \in Commands(v)' : GoodCommand(d)
  BY <1>2, NewCommand DEF DataInv
<1>3. ASSUME NEW c, LeftWith(w, c), GoodCommand(c),
             \A n \in TaskName : GoodNode(n)', node_store'[Root] = {},
             waiting_writing_nodes' \subseteq waiting_writing_nodes,
             pnts_to_writing' \subseteq pnts_to_writing
      PROVE  DataInv'
  BY <1>1, <1>2, <1>3 DEF DataInv
<1>4. CASE GivenRead(w)
  <2>1. GoodCommand(ReadCommand(point_cloud_file_parts))
    BY DEF GoodCommand, ReadCommand
  <2>2. UNCHANGED nodeVars
    BY <1>4 DEF GivenRead, SendFileToRead
  <2> QED
    BY <1>3, <1>4, <2>1, <2>2 DEF GivenRead, nodeVars, DataInv, GoodNode
<1>5. CASE GivenNodes(w)
  <2>1. PICK batch \in SUBSET ReadyNodes :
          /\ batch # {} /\ SendPointsToProcess(batch)
          /\ LeftWith(w, ProcessCommand(batch))
    BY <1>5 DEF GivenNodes
  <2>2. batch \subseteq TaskName
    BY DEF ReadyNodes, InputNodes
  <2>3. GoodCommand(ProcessCommand(batch))
    BY <2>1, <2>2 DEF GoodCommand, ProcessCommand, DataInv, GoodNode, JobPoints, Octant
  <2>4. /\ \A n \in TaskName : node_to_process'[n] \subseteq node_to_process[n]
        /\ waiting_writing_nodes' \subseteq waiting_writing_nodes
        /\ UNCHANGED <<node_store, pnts_to_writing>>
    BY <2>1 DEF SendPointsToProcess, StillWaiting
  <2> QED
    BY <1>3, <2>1, <2>3, <2>4 DEF DataInv, GoodNode
<1>6. CASE GivenTile(w)
  <2>1. PICK n \in pnts_to_writing :
          /\ node_store[n] # {} /\ SendPntsToWrite(n)
          /\ LeftWith(w, WriteCommand(n))
    BY <1>6 DEF GivenTile
  <2>2. n \in TaskName /\ n # Root
    BY DEF TypeInv, TilerType, DataInv
  <2>3. GoodCommand(WriteCommand(n))
    BY <2>1, <2>2 DEF GoodCommand, WriteCommand, DataInv, GoodNode
  <2>4. /\ \A k \in TaskName : node_store'[k] \subseteq node_store[k]
        /\ UNCHANGED <<node_to_process, waiting_writing_nodes>>
        /\ pnts_to_writing' \subseteq pnts_to_writing
    BY <2>1 DEF SendPntsToWrite, StoreWithout, TypeInv, TilerType
  <2> QED
    BY <1>3, <2>1, <2>3, <2>4, TaskNameType DEF DataInv, GoodNode, Octant
<1> QED
  BY <1>4, <1>5, <1>6 DEF Given

LEMMA ExecutedData ==
    ASSUME TypeInv, DataInv, NEW w \in Worker, Executed(w)
    PROVE  DataInv'
<1>1. PICK c \in WorkCommand :
        inbox[w] = <<c>> /\ (ExecutedRead(w, c) \/ ExecutedNode(w, c) \/ ExecutedWrite(w, c))
  BY DEF Executed
<1>2. UNCHANGED stateVars
  BY DEF Executed
<1>3. c \in Commands(w) /\ GoodCommand(c) /\ c \in Command
  BY <1>1, EmptyChannels DEF DataInv, Command
<1>4. ASSUME NEW answer, NEW k, NEW last, Sends(w, answer, k, last),
             \A i \in 1..k : GoodMessage(answer[i]),
             \A v \in Worker : \A d \in Commands(v)' : GoodCommand(d)
      PROVE  DataInv'
  <2>1. \A i \in 1..Len(last) : GoodMessage(last[i])
    <3>0. Sends(w, answer, k, last)
      BY <1>4
    <3>1. /\ Len(last) \in 0..1
          /\ last # <<>> => Len(last) = 1 /\ last[1] \in {Idle, Error}
      <4>1. last \in {<<>>, <<Idle>>, <<Error>>}
        BY <3>0 DEF Sends
      <4> QED
        BY <4>1
    <3>2. 1..Len(last) \subseteq {1}
      <4>1. \A E \in 0..1 : 1..E \subseteq {1}
        OBVIOUS
      <4> QED
        BY <3>1, <4>1
    <3>3. GoodMessage(Idle) /\ GoodMessage(Error)
      BY DEF GoodMessage, Idle, Error
    <3>4. CASE last = <<>>
      <4>1. 1..Len(last) = {}
        BY <3>4
      <4> QED
        BY <4>1
    <3>5. CASE last # <<>>
      <4>1. GoodMessage(last[1])
        BY <3>1, <3>3, <3>5
      <4> QED
        BY <3>2, <4>1
    <3> QED
      BY <3>4, <3>5
  <2>2. Sent(w)' = Sent(w) \cup {answer[i] : i \in 1..k} \cup {last[i] : i \in 1..Len(last)}
    BY <1>4, SendsChannels
  <2>3. \A m \in Sent(w)' : GoodMessage(m)
    BY <1>4, <2>1, <2>2 DEF DataInv
  <2>4. \A v \in Worker \ {w} : Sent(v)' = Sent(v)
    BY <1>4, SendsChannels
  <2> QED
    BY <1>2, <1>4, <2>3, <2>4 DEF DataInv, stateVars, GoodNode
<1>5. ASSUME Ended(w) PROVE \A v \in Worker : \A d \in Commands(v)' : GoodCommand(d)
  BY <1>5, EndedCommand DEF DataInv
<1>6. CASE ExecutedRead(w, c)
  <2> DEFINE i == c.portion
             answer == ReadMessages(i)
  <2>1. PICK k \in Nat, last \in {<<Idle>>, <<Error>>} : Sends(w, answer, k, last)
    BY <1>6 DEF ExecutedRead
  <2>2. i \in 1..Len(Portions) /\ k \in 0..Len(answer)
    BY <1>3, <1>6, <2>1, CommandFields DEF ExecutedRead, Sends
  <2>3. /\ Len(answer) \in Nat \ {0} /\ answer[Len(answer)] = [type |-> "READ"]
        /\ \A j \in 1..(Len(answer) - 1) :
             answer[j] = NewTask(Root, Portions[i][j]) /\ Portions[i][j] # {}
             /\ Portions[i][j] \subseteq PointsOf(Portions[i])
    BY <2>2, ReadAnswer
  <2>4. PointsOf(Portions[i]) \in Chunk
    BY <2>2, ChunkFacts
  <2>5. \A j \in 1..(Len(answer) - 1) : GoodMessage(answer[j])
    <3> SUFFICES ASSUME NEW j \in 1..(Len(answer) - 1) PROVE GoodMessage(answer[j])
      OBVIOUS
    <3>1. Portions[i][j] \in Chunk /\ Portions[i][j] # {}
      BY <2>3, <2>4 DEF Chunk
    <3>2. answer[j] = NewTask(Root, Portions[i][j])
      BY <2>3
    <3> QED
      BY <3>1, <3>2, RootOctant DEF GoodMessage, NewTask
  <2>6. GoodMessage(answer[Len(answer)])
    BY <2>3 DEF GoodMessage
  <2> HIDE DEF answer
  <2>7. \A j \in 1..k : j = Len(answer) \/ j \in 1..(Len(answer) - 1)
    BY <2>2, <2>3
  <2> QED
    BY <1>4, <1>5, <1>6, <2>1, <2>5, <2>6, <2>7 DEF ExecutedRead
<1>7. CASE ExecutedNode(w, c)
  <2>1. PICK n, answer, gone, k, last :
          Ran(w, c, n, answer, gone, k, last) /\ Rest(w, c, n, last)
    BY <1>7, NodeRun
  <2> DEFINE job == c.jobs[n]
  <2>2. /\ c.command = "PROCESS_JOBS" /\ n \in DOMAIN c.jobs /\ n \in TaskName
        /\ Len(answer) \in Nat \ {0} /\ k \in 0..Len(answer)
        /\ gone \subseteq JobPoints(job) /\ Sends(w, answer, k, last)
        /\ JobPoints(job) \subseteq Point
    BY <2>1 DEF Ran, JobPoints, Job, Chunk
  <2>3. Octant(JobPoints(job), n)
    BY <1>3, <2>2 DEF GoodCommand
  <2>4. GoodMessage(answer[Len(answer)])
    <3>1. /\ answer[Len(answer)].type = "PROCESSED" /\ answer[Len(answer)].name = n
          /\ answer[Len(answer)].data = JobPoints(job) \ gone
          /\ n = Root <=> gone = JobPoints(job)
      BY <2>1 DEF Ran, ProcessedMessage
    <3>2. JobPoints(job) \ gone = {} <=> n = Root
      BY <2>2, <3>1
    <3>3. Octant(JobPoints(job) \ gone, n)
      BY <2>3 DEF Octant
    <3> QED
      BY <3>1, <3>2, <3>3 DEF GoodMessage
  <2>5. \A i \in 1..(Len(answer) - 1) : GoodMessage(answer[i])
    <3> SUFFICES ASSUME NEW i \in 1..(Len(answer) - 1) PROVE GoodMessage(answer[i])
      OBVIOUS
    <3>1. /\ answer[i].type = "NEW_TASK" /\ answer[i].points # {} /\ answer[i].points \subseteq Point
          /\ \A p \in answer[i].points : CanForward(n, p) /\ answer[i].name = TargetOf(n, p)
      BY <2>1, <2>2 DEF Ran, Forwards
    <3> QED
      BY <2>2, <3>1, TargetFacts DEF GoodMessage, Octant
  <2>6. \A i \in 1..k : GoodMessage(answer[i])
    <3>1. \A i \in 1..k : i = Len(answer) \/ i \in 1..(Len(answer) - 1)
      BY <2>2
    <3> QED
      BY <2>4, <2>5, <3>1
  <2>7. ASSUME NEW rest \in Command, rest.command = "PROCESS_JOBS",
               DOMAIN rest.jobs = DOMAIN c.jobs \ {n}, DOMAIN rest.jobs # {},
               \A i \in DOMAIN rest.jobs : rest.jobs[i] = c.jobs[i], LeftWith(w, rest)
        PROVE  \A v \in Worker : \A d \in Commands(v)' : GoodCommand(d)
    <3>1. GoodCommand(rest)
      BY <1>3, <2>2, <2>7 DEF GoodCommand
    <3> QED
      BY <2>7, <3>1, NewCommand DEF DataInv
  <2> QED
    BY <1>4, <1>5, <2>1, <2>2, <2>6, <2>7 DEF Rest
<1>8. CASE ExecutedWrite(w, c)
  <2>1. PICK k, last : k \in {0, 1} /\ Sends(w, <<Written(c)>>, k, last)
    BY <1>8 DEF ExecutedWrite
  <2>2. GoodMessage(Written(c))
    BY DEF GoodMessage, Written
  <2>3. \A i \in 1..k : GoodMessage(<<Written(c)>>[i])
    <3>1. \A i \in 1..k : i = 1
      BY <2>1
    <3> QED
      BY <2>2, <3>1
  <2> QED
    BY <1>4, <1>5, <1>8, <2>1, <2>3 DEF ExecutedWrite
<1> QED
  BY <1>1, <1>6, <1>7, <1>8

LEMMA StillData == DataInv /\ Still => DataInv'
BY DEF DataInv, Still, Sent, Commands, stateVars, GoodNode

LEMMA EffectData ==
    ASSUME TypeInv, DataInv, NEW w \in Worker, Effect(w)
    PROVE  DataInv'
<1>1. CASE Started(w)
  <2>1. Commands(w)' = {} /\ Sent(w)' = {Register}
        /\ \A v \in Worker \ {w} : Commands(v)' = Commands(v) /\ Sent(v)' = Sent(v)
    BY <1>1, StartedChannels
  <2>2. GoodMessage(Register)
    BY DEF GoodMessage, Register
  <2> QED
    BY <1>1, <2>1, <2>2 DEF Started, stateVars, DataInv, GoodNode
<1> QED
  BY <1>1, ReceivedData, GivenData, ExecutedData DEF Effect

-----------------------------------------------------------------------------
(* The counters of the jobs.  The READ of a portion and the PNTS_WRITTEN   *)
(* of a tile come just before the end of their command, the tasks of a     *)
(* portion before its READ or before the error that replaces it.           *)

RootTask(m) == m.type = "NEW_TASK" /\ m.name = Root
Grammar(w) ==
    /\ \A i \in 1..Len(outbox[w]) :
         /\ outbox[w][i].type \in {"READ", "PNTS_WRITTEN"} =>
              inbox[w] = <<>> /\ i + 1 = Len(outbox[w])
         /\ RootTask(outbox[w][i]) =>
              inbox[w] = <<>> /\ \E j \in 1..Len(outbox[w]) :
                                   j > i /\ outbox[w][j].type \in {"READ", "ERROR"}
    /\ \A c \in Commands(w) : c.command \in {"READ_FILE", "WRITE_PNTS"} => outbox[w] = <<>>

(* The workers that read count until the tasks of the portion have been    *)
(* received, an error apart.                                               *)
Reads(w) == Reading(w) \/ \E m \in Sent(w) : RootTask(m)
CountInv ==
    /\ \A w \in Worker : Grammar(w)
    /\ number_of_reading_jobs >= Cardinality({w \in Worker : Reads(w)})
    /\ NoError => number_of_reading_jobs = Cardinality({w \in Worker : Reads(w)})
    /\ NoError => number_of_writing_jobs = Cardinality({w \in Worker : Writing(w)})

LEMMA ExecutedSends ==
    ASSUME TypeInv, NEW w \in Worker, Executed(w)
    PROVE  \E answer, k, last : Sends(w, answer, k, last)
<1>1. PICK c \in WorkCommand : ExecutedRead(w, c) \/ ExecutedNode(w, c) \/ ExecutedWrite(w, c)
  BY DEF Executed
<1>2. CASE ExecutedRead(w, c)
  BY <1>2 DEF ExecutedRead
<1>3. CASE ExecutedNode(w, c)
  BY <1>3, NodeRun DEF Ran
<1>4. CASE ExecutedWrite(w, c)
  BY <1>4 DEF ExecutedWrite
<1> QED
  BY <1>1, <1>2, <1>3, <1>4

(* A received error ends the loop, so while it runs none is forgotten.     *)
LEMMA NoErrorBefore ==
    ASSUME TypeInv, NEW w \in Worker, Effect(w), NoError'
    PROVE  NoError
<1>1. CASE Received(w)
  <2>1. Head(outbox[w]) # Error
    BY <1>1 DEF Received, Handled, Error
  <2> QED
    BY <1>1, <2>1, ReceivedChannels DEF NoError
<1>2. CASE Given(w)
  BY <1>2 DEF Given, NoError, Sent
<1>3. CASE Started(w)
  <2>1. Sent(w) = {} /\ \A v \in Worker \ {w} : Sent(v)' = Sent(v)
    BY <1>3, StartedChannels
  <2> QED
    BY <2>1 DEF NoError
<1>4. CASE Executed(w)
  <2>1. PICK answer, k, last : Sends(w, answer, k, last)
    BY <1>4, ExecutedSends
  <2> QED
    BY <2>1, SendsChannels DEF NoError
<1> QED
  BY <1>1, <1>2, <1>3, <1>4 DEF Effect

LEMMA CountChange ==
    ASSUME NEW S \in SUBSET Worker, NEW T \in SUBSET Worker, NEW w \in Worker,
           \A v \in Worker \ {w} : v \in S <=> v \in T
    PROVE  /\ (w \in S <=> w \in T) => Cardinality(T) = Cardinality(S)
           /\ w \notin S /\ w \in T => Cardinality(T) = Cardinality(S) + 1
           /\ w \in S /\ w \notin T => Cardinality(T) = Cardinality(S) - 1
           /\ (w \in T => w \in S) => Cardinality(T) <= Cardinality(S)
           /\ Cardinality(S) \in Nat /\ Cardinality(T) \in Nat
<1>1. (w \in S <=> w \in T) => T = S
  OBVIOUS
<1>2. w \notin S /\ w \in T => T = S \cup {w}
  OBVIOUS
<1>3. w \in S /\ w \notin T => T = S \ {w}
  OBVIOUS
<1>4. (w \in T => w \in S) => T \in SUBSET S
  OBVIOUS
<1> QED
  BY <1>1, <1>2, <1>3, <1>4, CountWorkers, FiniteWorkers

(* What a step does to the counters when only worker w changes.            *)
LEMMA CountStep ==
    ASSUME TypeInv, CountInv, NEW w \in Worker, NoError' => NoError,
           \A v \in Worker \ {w} : inbox'[v] = inbox[v] /\ outbox'[v] = outbox[v],
           Grammar(w)',
           \/ UNCHANGED number_of_reading_jobs /\ (Reads(w)' => Reads(w))
                /\ (NoError' => (Reads(w)' <=> Reads(w)))
           \/ number_of_reading_jobs' = number_of_reading_jobs - 1 /\ Reads(w) /\ ~ Reads(w)'
           \/ number_of_reading_jobs' = number_of_reading_jobs + 1 /\ ~ Reads(w) /\ Reads(w)',
           NoError' => \/ UNCHANGED number_of_writing_jobs /\ (Writing(w)' <=> Writing(w))
                       \/ number_of_writing_jobs' = number_of_writing_jobs - 1
                            /\ Writing(w) /\ ~ Writing(w)'
                       \/ number_of_writing_jobs' = number_of_writing_jobs + 1
                            /\ ~ Writing(w) /\ Writing(w)'
    PROVE  CountInv'
<1>1. \A v \in Worker \ {w} : Sent(v)' = Sent(v) /\ Commands(v)' = Commands(v)
  BY SameChannels
<1>2. \A v \in Worker \ {w} : /\ Reads(v)' <=> Reads(v)
                              /\ Writing(v)' <=> Writing(v)
  BY SameChannels DEF Reads
<1>3. \A v \in Worker : Grammar(v)'
  <2> SUFFICES ASSUME NEW v \in Worker, v # w PROVE Grammar(v)'
    OBVIOUS
  <2>1. Grammar(v) /\ inbox'[v] = inbox[v] /\ outbox'[v] = outbox[v] /\ Commands(v)' = Commands(v)
    BY <1>1 DEF CountInv
  <2> QED
    BY <2>1 DEF Grammar
<1> DEFINE R == {v \in Worker : Reads(v)}
           R1 == {v \in Worker : Reads(v)'}
           W == {v \in Worker : Writing(v)}
           W1 == {v \in Worker : Writing(v)'}
<1>4. /\ number_of_reading_jobs \in Int /\ number_of_writing_jobs \in Int
      /\ number_of_reading_jobs >= Cardinality(R)
      /\ NoError => number_of_reading_jobs = Cardinality(R)
      /\ NoError => number_of_writing_jobs = Cardinality(W)
  BY DEF CountInv, TypeInv, TilerType
<1>5. /\ (Reads(w)' <=> Reads(w)) => Cardinality(R1) = Cardinality(R)
      /\ ~ Reads(w) /\ Reads(w)' => Cardinality(R1) = Cardinality(R) + 1
      /\ Reads(w) /\ ~ Reads(w)' => Cardinality(R1) = Cardinality(R) - 1
      /\ (Reads(w)' => Reads(w)) => Cardinality(R1) <= Cardinality(R)
      /\ Cardinality(R) \in Nat /\ Cardinality(R1) \in Nat
  <2>1. R \in SUBSET Worker /\ R1 \in SUBSET Worker
    OBVIOUS
  <2>2. \A v \in Worker : (v \in R <=> Reads(v)) /\ (v \in R1 <=> Reads(v)')
    OBVIOUS
  <2> HIDE DEF R, R1
  <2> QED
    BY <1>2, <2>1, <2>2, CountChange
<1>6. /\ (Writing(w)' <=> Writing(w)) => Cardinality(W1) = Cardinality(W)
      /\ ~ Writing(w) /\ Writing(w)' => Cardinality(W1) = Cardinality(W) + 1
      /\ Writing(w) /\ ~ Writing(w)' => Cardinality(W1) = Cardinality(W) - 1
      /\ Cardinality(W) \in Nat /\ Cardinality(W1) \in Nat
  <2>1. W \in SUBSET Worker /\ W1 \in SUBSET Worker
    OBVIOUS
  <2>2. \A v \in Worker : (v \in W <=> Writing(v)) /\ (v \in W1 <=> Writing(v)')
    OBVIOUS
  <2> HIDE DEF W, W1
  <2> QED
    BY <1>2, <2>1, <2>2, CountChange
<1> HIDE DEF R, R1, W, W1
<1>7. /\ number_of_reading_jobs' >= Cardinality(R1)
      /\ NoError' => number_of_reading_jobs' = Cardinality(R1)
  BY <1>4, <1>5
<1>8. NoError' => number_of_writing_jobs' = Cardinality(W1)
  BY <1>4, <1>6
<1> QED
  BY <1>3, <1>7, <1>8 DEF CountInv, R1, W1

(* Reading and Writing without the sets they are defined by.               *)
LEMMA ReadingWriting ==
    ASSUME NEW w \in Worker
    PROVE  /\ Reads(w) <=> \/ \E c \in Commands(w) : c.command = "READ_FILE"
                           \/ \E m \in Sent(w) : m.type = "READ" \/ RootTask(m)
           /\ Writing(w) <=> \/ \E c \in Commands(w) : c.command = "WRITE_PNTS"
                             \/ \E m \in Sent(w) : m.type = "PNTS_WRITTEN"
           /\ Reads(w)' <=> \/ \E c \in Commands(w)' : c.command = "READ_FILE"
                            \/ \E m \in Sent(w)' : m.type = "READ" \/ RootTask(m)
           /\ Writing(w)' <=> \/ \E c \in Commands(w)' : c.command = "WRITE_PNTS"
                              \/ \E m \in Sent(w)' : m.type = "PNTS_WRITTEN"
BY DEF Reads, Reading, Writing, CommandsOf, SentOf

LEMMA ReceivedCount ==
    ASSUME TypeInv, CountInv, NEW w \in Worker, Received(w)
    PROVE  CountInv'
<1> DEFINE m == Head(outbox[w])
           L == Len(outbox[w])
<1>1. /\ m = outbox[w][1] /\ L \in Nat \ {0} /\ Len(outbox'[w]) = L - 1
      /\ \A i \in 1..(L - 1) : i + 1 \in 1..L /\ outbox'[w][i] = outbox[w][i + 1]
      /\ Sent(w) = {m} \cup Sent(w)' /\ Commands(w)' = Commands(w) /\ inbox' = inbox
      /\ \A v \in Worker \ {w} : outbox'[v] = outbox[v]
  BY ReceivedChannels
<1>2. Grammar(w) /\ Handled(m) /\ m \in Sent(w)
  BY <1>1 DEF CountInv, Received
<1> HIDE DEF m, L
<1>3. \A i \in 1..L :
        /\ outbox[w][i].type \in {"READ", "PNTS_WRITTEN"} => inbox[w] = <<>> /\ i + 1 = L
        /\ RootTask(outbox[w][i]) =>
             inbox[w] = <<>> /\ \E j \in 1..L : j > i /\ outbox[w][j].type \in {"READ", "ERROR"}
  BY <1>2 DEF Grammar, L
<1>4. outbox[w] # <<>>
  BY DEF Received
<1>5. \A c \in Commands(w) : c.command \notin {"READ_FILE", "WRITE_PNTS"}
  BY <1>2, <1>4 DEF Grammar
<1>6. Grammar(w)'
  <2>1. ASSUME NEW i \in 1..(L - 1), outbox'[w][i].type \in {"READ", "PNTS_WRITTEN"}
        PROVE  inbox'[w] = <<>> /\ i + 1 = L - 1
    <3>1. i + 1 \in 1..L /\ outbox[w][i + 1].type \in {"READ", "PNTS_WRITTEN"} /\ inbox' = inbox
      BY <1>1, <2>1
    <3>2. inbox[w] = <<>> /\ (i + 1) + 1 = L
      BY <1>3, <3>1
    <3> QED
      BY <1>1, <3>1, <3>2
  <2>2. ASSUME NEW i \in 1..(L - 1), RootTask(outbox'[w][i])
        PROVE  inbox'[w] = <<>> /\ \E j \in 1..(L - 1) :
                                     j > i /\ outbox'[w][j].type \in {"READ", "ERROR"}
    <3>1. i + 1 \in 1..L /\ RootTask(outbox[w][i + 1]) /\ inbox' = inbox
      BY <1>1, <2>2
    <3>2. PICK j \in 1..L : j > i + 1 /\ outbox[w][j].type \in {"READ", "ERROR"}
      BY <1>3, <3>1
    <3>3. j - 1 \in 1..(L - 1) /\ j - 1 > i /\ (j - 1) + 1 = j
      BY <1>1, <3>2
    <3>4. outbox'[w][j - 1] = outbox[w][j]
      BY <1>1, <3>3
    <3> QED
      BY <1>3, <3>1, <3>2, <3>3, <3>4
  <2> QED
    BY <1>1, <1>5, <2>1, <2>2 DEF Grammar
<1>7. NoError' => NoError
  BY NoErrorBefore DEF Effect
<1>8. \A v \in Worker \ {w} : inbox'[v] = inbox[v] /\ outbox'[v] = outbox[v]
  BY <1>1
<1>9. /\ Reads(w)' => Reads(w)
      /\ Writing(w)' => Writing(w)
  BY <1>1, ReadingWriting
<1>10. ASSUME m.type \in {"READ", "PNTS_WRITTEN"}
       PROVE  /\ \A x \in Sent(w)' : x.type \notin {"READ", "PNTS_WRITTEN"} /\ ~ RootTask(x)
              /\ ~ Reads(w)' /\ ~ Writing(w)'
  <2>1. 1 \in 1..L /\ 1 + 1 = L
    BY <1>1, <1>3, <1>10
  <2>2. Len(outbox'[w]) = 1 /\ outbox'[w][1] = outbox[w][2] /\ L = 2
    BY <1>1, <2>1
  <2>3. Sent(w)' = {outbox'[w][1]}
    BY <2>2 DEF Sent
  <2>4. outbox[w][2].type \notin {"READ", "PNTS_WRITTEN"} /\ ~ RootTask(outbox[w][2])
    BY <1>3, <2>2
  <2>5. \A x \in Sent(w)' : x.type \notin {"READ", "PNTS_WRITTEN"} /\ ~ RootTask(x)
    BY <2>2, <2>3, <2>4
  <2>6. ~ Reads(w)'
    BY <1>1, <1>5, <2>5, ReadingWriting
  <2>7. ~ Writing(w)'
    BY <1>1, <1>5, <2>5, ReadingWriting
  <2> QED
    BY <2>5, <2>6, <2>7
<1>11. CASE m.type = "READ" /\ ReadDone
  <2>1. Reads(w)
    BY <1>2, <1>11, ReadingWriting
  <2>2. ~ Writing(w)
    BY <1>1, <1>5, <1>10, <1>11, ReadingWriting
  <2>3. /\ number_of_reading_jobs' = number_of_reading_jobs - 1
        /\ UNCHANGED number_of_writing_jobs
    BY <1>11 DEF ReadDone
  <2> QED
    BY <1>6, <1>7, <1>8, <1>10, <1>11, <2>1, <2>2, <2>3, CountStep
<1>12. CASE m.type = "PNTS_WRITTEN" /\ PntsWritten(m.count)
  <2>1. Writing(w)
    BY <1>2, <1>12, ReadingWriting
  <2>2. ~ Reads(w)
    <3>1. ~ RootTask(m) /\ m.type # "READ"
      BY <1>12 DEF RootTask
    <3> QED
      BY <1>1, <1>5, <1>10, <1>12, <3>1, ReadingWriting
  <2>3. /\ number_of_writing_jobs' = number_of_writing_jobs - 1
        /\ UNCHANGED number_of_reading_jobs
    BY <1>12 DEF PntsWritten
  <2> QED
    BY <1>6, <1>7, <1>8, <1>10, <1>12, <2>1, <2>2, <2>3, CountStep
<1>13. CASE m.type \notin {"READ", "PNTS_WRITTEN"}
  <2>1. UNCHANGED <<number_of_reading_jobs, number_of_writing_jobs>>
    BY <1>2, <1>13 DEF Handled, stateVars, AddTasksToProcess, Processed, countVars
  <2>2. Writing(w)' <=> Writing(w)
    BY <1>1, <1>13, ReadingWriting
  <2>3. NoError' => (Reads(w)' <=> Reads(w))
    <3>1. CASE RootTask(m)
      <4>1. PICK j \in 1..L : j > 1 /\ outbox[w][j].type \in {"READ", "ERROR"}
        BY <1>1, <1>3, <3>1
      <4>2. j - 1 \in 1..(L - 1) /\ (j - 1) + 1 = j
        BY <1>1, <4>1
      <4>3. outbox'[w][j - 1] = outbox[w][j] /\ j - 1 \in 1..Len(outbox'[w])
        BY <1>1, <4>2
      <4>4. outbox[w][j] \in Sent(w)'
        BY <4>3 DEF Sent
      <4>5. outbox[w][j] \in Message
        BY <4>1, ChannelsTyped DEF L
      <4>6. NoError' => outbox[w][j].type = "READ"
        BY <4>1, <4>4, <4>5, MessageFields DEF NoError
      <4> QED
        BY <1>9, <4>4, <4>6, ReadingWriting
    <3>2. CASE ~ RootTask(m)
      BY <1>1, <1>13, <3>2, ReadingWriting
    <3> QED
      BY <3>1, <3>2
  <2> QED
    BY <1>6, <1>7, <1>8, <1>9, <2>1, <2>2, <2>3, CountStep
<1> QED
  BY <1>2, <1>11, <1>12, <1>13 DEF Handled

LEMMA GivenCount ==
    ASSUME TypeInv, CountInv, NEW w \in Worker, Given(w)
    PROVE  CountInv'
<1>1. /\ inbox[w] = <<>> /\ outbox[w] = <<>> /\ outbox' = outbox
      /\ Commands(w) = {} /\ Sent(w) = {} /\ Sent(w)' = {} /\ Len(outbox[w]) = 0
  BY EmptyChannels DEF Given, Sent
<1>2. NoError' => NoError
  BY NoErrorBefore DEF Effect
<1>3. ~ Reads(w) /\ ~ Writing(w)
  BY <1>1, ReadingWriting
<1>4. Grammar(w)'
  <2>1. 1..Len(outbox'[w]) = {} /\ outbox'[w] = <<>>
    BY <1>1
  <2> QED
    BY <2>1 DEF Grammar
<1>5. ASSUME NEW c, LeftWith(w, c)
      PROVE  /\ Commands(w)' = {c}
             /\ \A v \in Worker \ {w} : inbox'[v] = inbox[v] /\ outbox'[v] = outbox[v]
             /\ Reads(w)' <=> c.command = "READ_FILE"
             /\ Writing(w)' <=> c.command = "WRITE_PNTS"
  <2>1. /\ Commands(w)' = {c}
        /\ \A v \in Worker \ {w} : inbox'[v] = inbox[v]
    BY <1>5, NewCommand
  <2> QED
    BY <1>1, <2>1, ReadingWriting
<1>6. CASE GivenRead(w)
  <2>1. /\ number_of_reading_jobs' = number_of_reading_jobs + 1 /\ UNCHANGED number_of_writing_jobs
        /\ LeftWith(w, ReadCommand(point_cloud_file_parts))
    BY <1>6 DEF GivenRead, SendFileToRead
  <2>2. Reads(w)' /\ ~ Writing(w)'
    BY <1>5, <2>1 DEF ReadCommand
  <2> QED
    BY <1>2, <1>3, <1>4, <1>5, <2>1, <2>2, CountStep
<1>7. CASE GivenNodes(w)
  <2>1. PICK batch : SendPointsToProcess(batch) /\ LeftWith(w, ProcessCommand(batch))
    BY <1>7 DEF GivenNodes
  <2>2. UNCHANGED <<number_of_reading_jobs, number_of_writing_jobs>>
    BY <2>1 DEF SendPointsToProcess, countVars
  <2>3. ~ Reads(w)' /\ ~ Writing(w)'
    BY <1>5, <2>1 DEF ProcessCommand
  <2> QED
    BY <1>2, <1>3, <1>4, <1>5, <2>1, <2>2, <2>3, CountStep
<1>8. CASE GivenTile(w)
  <2>1. PICK n : SendPntsToWrite(n) /\ LeftWith(w, WriteCommand(n))
    BY <1>8 DEF GivenTile
  <2>2. /\ number_of_writing_jobs' = number_of_writing_jobs + 1 /\ UNCHANGED number_of_reading_jobs
    BY <2>1 DEF SendPntsToWrite
  <2>3. ~ Reads(w)' /\ Writing(w)'
    BY <1>5, <2>1 DEF WriteCommand
  <2> QED
    BY <1>2, <1>3, <1>4, <1>5, <2>1, <2>2, <2>3, CountStep
<1> QED
  BY <1>6, <1>7, <1>8 DEF Given

LEMMA StartedCount ==
    ASSUME TypeInv, CountInv, NEW w \in Worker, Started(w)
    PROVE  CountInv'
<1>1. /\ outbox'[w] = <<Register>> /\ Sent(w)' = {Register} /\ inbox'[w] = <<>>
      /\ Commands(w) = {} /\ Sent(w) = {} /\ Commands(w)' = {}
      /\ \A v \in Worker \ {w} : inbox'[v] = inbox[v] /\ outbox'[v] = outbox[v]
  BY StartedChannels
<1>2. NoError' => NoError
  BY NoErrorBefore DEF Effect
<1>3. Register.type = "REGISTER" /\ ~ RootTask(Register)
  BY DEF Register, RootTask
<1>4. ~ Reads(w) /\ ~ Writing(w) /\ ~ Reads(w)' /\ ~ Writing(w)'
  BY <1>1, <1>3, ReadingWriting
<1>5. Grammar(w)'
  <2>1. \A i \in 1..Len(outbox'[w]) : outbox'[w][i] = Register
    BY <1>1
  <2> QED
    BY <1>1, <1>3, <2>1 DEF Grammar
<1>6. UNCHANGED <<number_of_reading_jobs, number_of_writing_jobs>>
  BY DEF Started, stateVars
<1> QED
  BY <1>1, <1>2, <1>4, <1>5, <1>6, CountStep

LEMMA ExecutedCount ==
    ASSUME TypeInv, CountInv, NEW w \in Worker, Executed(w)
    PROVE  CountInv'
<1>1. PICK c \in WorkCommand :
        inbox[w] = <<c>> /\ (ExecutedRead(w, c) \/ ExecutedNode(w, c) \/ ExecutedWrite(w, c))
  BY DEF Executed
<1>2. Commands(w) = {c} /\ c \in Command /\ Grammar(w) /\ inbox[w] # <<>>
  BY <1>1, EmptyChannels DEF CountInv, Command
<1>3. NoError' => NoError
  BY NoErrorBefore DEF Effect
<1>4. UNCHANGED <<number_of_reading_jobs, number_of_writing_jobs>>
  BY DEF Executed, stateVars
<1>5. /\ Len(outbox[w]) \in Nat
      /\ \A m \in Sent(w) : m.type \notin {"READ", "PNTS_WRITTEN"} /\ ~ RootTask(m)
  BY <1>2, ChannelsTyped DEF Grammar, Sent
<1>6. ASSUME NEW answer, NEW k, NEW last, Sends(w, answer, k, last)
      PROVE  /\ k \in 0..Len(answer) /\ Len(answer) \in Nat
             /\ last # <<Error>> => k = Len(answer)
             /\ Len(last) \in 0..1 /\ Len(outbox'[w]) = Len(outbox[w]) + k + Len(last)
             /\ last # <<>> => Len(last) = 1 /\ last[1] \in {Idle, Error} /\ last = <<last[1]>>
             /\ \A i \in 1..Len(outbox[w]) : outbox'[w][i] = outbox[w][i]
             /\ \A i \in 1..k : outbox'[w][Len(outbox[w]) + i] = answer[i]
             /\ Len(last) = 1 => outbox'[w][Len(outbox[w]) + k + 1] = last[1]
             /\ Sent(w)' = Sent(w) \cup {answer[i] : i \in 1..k} \cup {last[i] : i \in 1..Len(last)}
             /\ \A v \in Worker \ {w} : outbox'[v] = outbox[v]
  BY <1>6, SendsChannels
<1>7. ASSUME Ended(w)
      PROVE  /\ inbox'[w] = <<>> /\ Commands(w)' = {}
             /\ \A v \in Worker \ {w} : inbox'[v] = inbox[v]
  BY <1>7, EndedCommand
<1>8. CASE ExecutedNode(w, c)
  <2>1. PICK n, answer, gone, k, last :
          Ran(w, c, n, answer, gone, k, last) /\ Rest(w, c, n, last)
    BY <1>8, NodeRun
  <2>2. /\ Sends(w, answer, k, last) /\ n \in TaskName /\ Len(answer) \in Nat \ {0}
        /\ c.command = "PROCESS_JOBS" /\ k \in 0..Len(answer)
        /\ gone \subseteq Point
    BY <2>1 DEF Ran, JobPoints, Job, Chunk
  <2>3. \A i \in 1..k : answer[i].type \in {"NEW_TASK", "PROCESSED"} /\ ~ RootTask(answer[i])
    <3> SUFFICES ASSUME NEW i \in 1..k
                 PROVE  answer[i].type \in {"NEW_TASK", "PROCESSED"} /\ ~ RootTask(answer[i])
      OBVIOUS
    <3>1. CASE i = Len(answer)
      <4>1. answer[i].type = "PROCESSED"
        BY <2>1, <3>1 DEF Ran, ProcessedMessage
      <4> QED
        BY <4>1 DEF RootTask
    <3>2. CASE i \in 1..(Len(answer) - 1)
      <4>1. /\ answer[i].type = "NEW_TASK" /\ answer[i].points # {} /\ answer[i].points \subseteq gone
            /\ \A p \in answer[i].points : CanForward(n, p) /\ answer[i].name = TargetOf(n, p)
        BY <2>1, <3>2 DEF Ran, Forwards
      <4>2. PICK p \in Point : CanForward(n, p) /\ answer[i].name = TargetOf(n, p)
        BY <2>2, <4>1
      <4>3. answer[i].name # Root
        BY <2>2, <4>2, TargetFacts
      <4> QED
        BY <4>1, <4>3 DEF RootTask
    <3> QED
      BY <2>2, <3>1, <3>2
  <2>4. \A m \in Sent(w)' : m.type \notin {"READ", "PNTS_WRITTEN"} /\ ~ RootTask(m)
    <3>1. Idle.type = "IDLE" /\ Error.type = "ERROR"
      BY DEF Idle, Error
    <3>2. \A i \in 1..Len(last) : last[i] \in {Idle, Error}
      <4>1. last = <<>> \/ (Len(last) = 1 /\ last[1] \in {Idle, Error})
        BY <1>6, <2>2
      <4> QED
        BY <4>1
    <3>3. \A m \in Sent(w)' : m \in Sent(w) \/ (\E i \in 1..k : m = answer[i]) \/ m \in {Idle, Error}
      BY <1>6, <2>2, <3>2
    <3> QED
      BY <1>5, <2>3, <3>1, <3>3 DEF RootTask
  <2>5. \A d \in Commands(w)' : d.command = "PROCESS_JOBS"
    BY <1>7, <2>1, NewCommand DEF Rest
  <2>6. \A v \in Worker \ {w} : inbox'[v] = inbox[v]
    BY <1>7, <2>1, NewCommand DEF Rest
  <2>7. ~ Reads(w) /\ ~ Writing(w) /\ ~ Reads(w)' /\ ~ Writing(w)'
    BY <1>2, <1>5, <2>2, <2>4, <2>5, ReadingWriting
  <2>8. Grammar(w)'
    BY <2>4, <2>5 DEF Grammar, Sent
  <2> QED
    BY <1>3, <1>4, <1>6, <2>2, <2>6, <2>7, <2>8, CountStep
<1>9. ASSUME c.command \in {"READ_FILE", "WRITE_PNTS"}
      PROVE  outbox[w] = <<>> /\ Len(outbox[w]) = 0 /\ Sent(w) = {}
  BY <1>2, <1>9, EmptyChannels DEF Grammar
<1>10. CASE ExecutedRead(w, c)
  <2> DEFINE p == c.portion
             answer == ReadMessages(p)
  <2>1. PICK k \in Nat, last \in {<<Idle>>, <<Error>>} : Sends(w, answer, k, last)
    BY <1>10 DEF ExecutedRead
  <2>2. c.command = "READ_FILE" /\ p \in 1..Len(Portions) /\ Ended(w)
    BY <1>2, <1>10, CommandFields DEF ExecutedRead
  <2>3. /\ Len(answer) \in Nat \ {0} /\ answer[Len(answer)].type = "READ"
        /\ \A j \in 1..(Len(answer) - 1) : answer[j].type = "NEW_TASK"
    <3>1. /\ Len(answer) \in Nat \ {0} /\ answer[Len(answer)] = [type |-> "READ"]
          /\ \A j \in 1..(Len(answer) - 1) : answer[j] = NewTask(Root, Portions[p][j])
      BY <2>2, ReadAnswer
    <3> HIDE DEF answer, p
    <3>2. \A n, points : NewTask(n, points).type = "NEW_TASK"
      BY DEF NewTask
    <3>3. \A j \in 1..(Len(answer) - 1) : answer[j].type = "NEW_TASK"
      BY <3>1, <3>2
    <3> QED
      BY <3>1, <3>3
  <2> HIDE DEF answer
  <2>4. /\ k \in 0..Len(answer) /\ Len(outbox[w]) = 0 /\ Len(outbox'[w]) = k + 1
        /\ \A i \in 1..k : outbox'[w][i] = answer[i]
        /\ outbox'[w][k + 1] = last[1]
        /\ last[1] \in {Idle, Error} /\ (last[1] # Error => k = Len(answer))
    <3>1. last # <<>>
      OBVIOUS
    <3>2. /\ k \in 0..Len(answer) /\ Len(last) = 1 /\ last[1] \in {Idle, Error} 
          /\ Len(outbox'[w]) = Len(outbox[w]) + k + Len(last)
          /\ \A i \in 1..k : outbox'[w][Len(outbox[w]) + i] = answer[i]
          /\ outbox'[w][Len(outbox[w]) + k + 1] = last[1]
          /\ last = <<last[1]>> /\ (last # <<Error>> => k = Len(answer))
      BY <1>6, <2>1, <3>1
    <3>3. Len(outbox[w]) = 0
      BY <1>9, <2>2
    <3> QED
      BY <3>2, <3>3
  <2>5. /\ Idle.type = "IDLE" /\ Error.type = "ERROR"
        /\ outbox'[w][k + 1].type \in {"IDLE", "ERROR"}
    BY <2>4 DEF Idle, Error
  <2>6. \A i \in 1..(k + 1) :
          \/ i = k + 1 /\ outbox'[w][i].type \in {"IDLE", "ERROR"}
          \/ i = k /\ k = Len(answer) /\ outbox'[w][i].type = "READ"
          \/ i \in 1..k /\ i # Len(answer) /\ outbox'[w][i].type = "NEW_TASK"
    BY <2>3, <2>4, <2>5
  <2>7. \E j \in 1..(k + 1) : /\ outbox'[w][j].type \in {"READ", "ERROR"}
                              /\ \A i \in 1..(k + 1) : outbox'[w][i].type = "NEW_TASK" => j > i
    <3>1. CASE last[1] = Error
      <4>1. k + 1 \in 1..(k + 1) /\ outbox'[w][k + 1].type = "ERROR"
        BY <2>4, <2>5, <3>1
      <4>2. \A i \in 1..(k + 1) : outbox'[w][i].type = "NEW_TASK" => k + 1 > i
        BY <2>6
      <4> QED
        BY <4>1, <4>2
    <3>2. CASE last[1] # Error
      <4>1. k = Len(answer) /\ k \in 1..(k + 1) /\ outbox'[w][k].type = "READ"
        BY <2>3, <2>4, <3>2
      <4>2. \A i \in 1..(k + 1) : outbox'[w][i].type = "NEW_TASK" => k > i
        BY <2>6, <4>1
      <4> QED
        BY <4>1, <4>2
    <3> QED
      BY <3>1, <3>2
  <2>8. Grammar(w)'
    <3>1. \A i \in 1..(k + 1) : outbox'[w][i].type \in {"READ", "PNTS_WRITTEN"} => i + 1 = k + 1
      BY <2>6
    <3>2. inbox'[w] = <<>> /\ Commands(w)' = {} /\ Len(outbox'[w]) = k + 1
      BY <1>7, <2>2, <2>4
    <3> QED
      BY <2>7, <3>1, <3>2 DEF Grammar, RootTask
  <2>9. Reads(w) /\ ~ Writing(w)
    BY <1>2, <1>9, <2>2, ReadingWriting
  <2>10. ~ Writing(w)'
    <3>1. \A m \in Sent(w)' : m.type # "PNTS_WRITTEN"
      BY <2>4, <2>6 DEF Sent
    <3> QED
      BY <1>7, <2>2, <3>1, ReadingWriting
  <2>11. NoError' => Reads(w)'
    <3>1. PICK j \in 1..(k + 1) : outbox'[w][j].type \in {"READ", "ERROR"}
      BY <2>7
    <3>2. outbox'[w][j] \in Sent(w)'
      BY <2>4, <3>1 DEF Sent
    <3>3. k + 1 \in 1..Len(outbox'[w])
      BY <2>4
    <3>4. outbox'[w][k + 1] \in Sent(w)'
      BY <3>3 DEF Sent
    <3>5. outbox'[w][j].type = "ERROR" => last[1] = Error
      BY <2>4, <2>5, <2>6
    <3> QED
      BY <2>4, <3>1, <3>2, <3>4, <3>5, ReadingWriting DEF NoError
  <2>12. \A v \in Worker \ {w} : inbox'[v] = inbox[v] /\ outbox'[v] = outbox[v]
    BY <1>6, <1>7, <2>1, <2>2
  <2> QED
    BY <1>3, <1>4, <2>8, <2>9, <2>10, <2>11, <2>12, CountStep
<1>11. CASE ExecutedWrite(w, c)
  <2> DEFINE answer == <<Written(c)>>
  <2>1. c.command = "WRITE_PNTS" /\ Ended(w)
    BY <1>11 DEF ExecutedWrite
  <2>2. outbox[w] = <<>> /\ Len(outbox[w]) = 0 /\ Sent(w) = {}
    BY <1>9, <2>1
  <2>3. Writing(w) /\ ~ Reads(w)
    BY <1>2, <2>1, <2>2, ReadingWriting
  <2>4. /\ Written(c).type = "PNTS_WRITTEN" /\ Idle.type = "IDLE" /\ Error.type = "ERROR"
        /\ answer[1] = Written(c) /\ Len(<<Idle>>) = 1 /\ <<Idle>>[1] = Idle
        /\ Len(<<Error>>) = 1 /\ <<Error>>[1] = Error /\ <<Error>> # <<>> /\ <<Idle>> # <<>>
    BY DEF Written, Idle, Error
  <2>5. ASSUME NEW last, \A i \in 1..Len(last) : last[i].type \in {"IDLE", "ERROR"},
               NEW k \in {0, 1}, Sends(w, answer, k, last),
               k = 1 => Len(last) = 1, NoError' => k = 1
        PROVE  CountInv'
    <3>1. /\ Sent(w)' = {answer[i] : i \in 1..k} \cup {last[i] : i \in 1..Len(last)}
          /\ Len(outbox'[w]) = k + Len(last) /\ Len(last) \in 0..1
          /\ \A i \in 1..k : outbox'[w][i] = answer[i]
          /\ \A v \in Worker \ {w} : outbox'[v] = outbox[v]
          /\ Len(last) = 1 => outbox'[w][k + 1] = last[1]
      BY <1>6, <2>2, <2>5
    <3>2. \A i \in 1..k : i = 1
      OBVIOUS
    <3>3. \A m \in Sent(w)' : m.type \in {"PNTS_WRITTEN", "IDLE", "ERROR"}
      BY <2>4, <2>5, <3>1, <3>2
    <3>4. NoError' => Writing(w)'
      <4>1. k = 1 => answer[1] \in Sent(w)'
        BY <3>1
      <4> QED
        BY <2>4, <2>5, <4>1, ReadingWriting
    <3>5. ~ Reads(w)'
      BY <1>7, <2>1, <3>3, ReadingWriting DEF RootTask
    <3>6. Grammar(w)'
      <4>1. \A i \in 1..Len(outbox'[w]) : outbox'[w][i] \in Sent(w)'
        BY DEF Sent
      <4>2. ASSUME NEW i \in 1..Len(outbox'[w]), outbox'[w][i].type = "PNTS_WRITTEN"
            PROVE  i + 1 = Len(outbox'[w])
        <5>1. CASE i = k + 1
          <6>1. Len(last) = 1 /\ outbox'[w][i] = last[1] /\ 1 \in 1..Len(last)
            BY <3>1, <5>1
          <6> QED
            BY <2>5, <4>2, <6>1
        <5>2. CASE i # k + 1
          <6>1. PICK E \in 0..1 : i \in 1..(k + E)
            BY <3>1
          <6>2. i \in 1..k /\ k = 1 /\ i = 1
            BY <5>2, <6>1
          <6> QED
            BY <2>5, <3>1, <6>2
        <5> QED
          BY <5>1, <5>2
      <4>3. \A i \in 1..Len(outbox'[w]) :
              outbox'[w][i].type # "READ" /\ ~ RootTask(outbox'[w][i])
        BY <3>3, <4>1 DEF RootTask
      <4> QED
        BY <1>7, <2>1, <4>2, <4>3 DEF Grammar
    <3>7. \A v \in Worker \ {w} : inbox'[v] = inbox[v] /\ outbox'[v] = outbox[v]
      BY <1>7, <2>1, <3>1
    <3> QED
      BY <1>3, <1>4, <2>3, <3>4, <3>5, <3>6, <3>7, CountStep
  <2>6. CASE Sends(w, answer, 1, <<Idle>>)
    BY <2>4, <2>5, <2>6
  <2>7. CASE Sends(w, answer, 0, <<Error>>)
    <3>1. ~ NoError'
      <4>1. 1 \in 1..Len(outbox'[w]) /\ outbox'[w][1] = Error
        <5>1. PICK last : last = <<Error>>
          OBVIOUS
        <5>2. /\ Len(outbox'[w]) = Len(outbox[w]) + 0 + Len(last)
              /\ Len(last) = 1 => outbox'[w][Len(outbox[w]) + 0 + 1] = last[1]
          <6>1. Sends(w, answer, 0, last)
            BY <2>7, <5>1
          <6> HIDE DEF answer
          <6> QED
            BY <1>6, <6>1
        <5> QED
          BY <2>2, <2>4, <5>1, <5>2
      <4>2. outbox'[w][1] \in Sent(w)'
        BY <4>1 DEF Sent
      <4> QED
        BY <4>1, <4>2 DEF NoError
    <3> QED
      BY <2>4, <2>5, <2>7, <3>1
  <2> QED
    BY <1>11, <2>6, <2>7 DEF ExecutedWrite
<1> QED
  BY <1>1, <1>8, <1>10, <1>11

LEMMA InitCount == Init => CountInv
<1> SUFFICES ASSUME Init PROVE CountInv
  OBVIOUS
<1>1. \A w \in Worker : Commands(w) = {} /\ Sent(w) = {} /\ Len(outbox[w]) = 0
  BY EmptyChannels DEF Init
<1>2. \A w \in Worker : ~ Reads(w) /\ ~ Writing(w)
  BY <1>1, ReadingWriting
<1>3. {w \in Worker : Reads(w)} = {} /\ {w \in Worker : Writing(w)} = {}
  BY <1>2
<1>4. \A w \in Worker : Grammar(w)
  BY <1>1 DEF Grammar
<1>5. /\ Cardinality({w \in Worker : Reads(w)}) = 0
      /\ Cardinality({w \in Worker : Writing(w)}) = 0
  BY <1>3, FS_EmptySet
<1>6. number_of_reading_jobs = 0 /\ number_of_writing_jobs = 0
  BY DEF Init, TilerInit
<1> QED
  BY <1>4, <1>5, <1>6 DEF CountInv

LEMMA StillCount == CountInv /\ Still => CountInv'
<1> SUFFICES ASSUME CountInv, Still PROVE CountInv'
  OBVIOUS
<1>1. \A w \in Worker : inbox'[w] = inbox[w] /\ outbox'[w] = outbox[w]
  BY DEF Still
<1>2. \A w \in Worker : Commands(w)' = Commands(w) /\ Sent(w)' = Sent(w)
  BY <1>1, SameChannels
<1>3. \A w \in Worker : (Reads(w)' <=> Reads(w)) /\ (Writing(w)' <=> Writing(w))
  BY <1>1, <1>2, SameChannels DEF Reads
<1>4. NoError' => NoError
  BY <1>2 DEF NoError
<1>5. \A w \in Worker : Grammar(w)'
  BY <1>1, <1>2 DEF CountInv, Grammar
<1>6. UNCHANGED <<number_of_reading_jobs, number_of_writing_jobs>>
  BY DEF Still, stateVars
<1>7. /\ {w \in Worker : Reads(w)'} = {w \in Worker : Reads(w)}
      /\ {w \in Worker : Writing(w)'} = {w \in Worker : Writing(w)}
  BY <1>3
<1> QED
  BY <1>4, <1>5, <1>6, <1>7 DEF CountInv

LEMMA EffectCount ==
    ASSUME TypeInv, CountInv, NEW w \in Worker, Effect(w)
    PROVE  CountInv'
BY ReceivedCount, GivenCount, StartedCount, ExecutedCount DEF Effect

-----------------------------------------------------------------------------
(* The nodes at the workers.  A worker answers once for each of its nodes, *)
(* no other worker has them, and a task on its way comes from a node that  *)
(* is above it and still at the worker.                                    *)

NodeOrder(w) ==
    \A i \in 1..Len(outbox[w]) : outbox[w][i].type = "PROCESSED" =>
      /\ \A j \in 1..Len(outbox[w]) :
           outbox[w][j].type = "PROCESSED" /\ outbox[w][j].name = outbox[w][i].name => i = j
      /\ \A c \in Commands(w) :
           c.command = "PROCESS_JOBS" => outbox[w][i].name \notin DOMAIN c.jobs
ParentOf(w, i, n) ==
    /\ n \in processing_nodes
    /\ IsAncestor(outbox[w][i].name, n)
    /\ \A j \in 1..Len(outbox[w]) :
         j < i /\ outbox[w][j].type = "PROCESSED" => outbox[w][j].name # n
    /\ \A v \in Worker \ {w} : n \notin NodesAt(v)
IsTask(m) == m.type = "NEW_TASK" /\ m.name # Root
NodeInv ==
    /\ \A w \in Worker : NodeOrder(w) /\ NodesAt(w) \subseteq processing_nodes
    /\ \A v, w \in Worker : v # w => NodesAt(v) \cap NodesAt(w) = {}
    /\ NoError => processing_nodes \subseteq UNION {NodesAt(w) : w \in Worker}
    /\ \A w \in Worker : \A i \in 1..Len(outbox[w]) :
         IsTask(outbox[w][i]) => \E n \in TaskName : ParentOf(w, i, n)

LEMMA NodesAtFacts ==
    ASSUME NEW w, NEW n
    PROVE  /\ n \in NodesAt(w) <=>
                \/ \E c \in Commands(w) : c.command = "PROCESS_JOBS" /\ n \in DOMAIN c.jobs
                \/ \E m \in Sent(w) : m.type = "PROCESSED" /\ m.name = n
           /\ n \in NodesAt(w)' <=>
                \/ \E c \in Commands(w)' : c.command = "PROCESS_JOBS" /\ n \in DOMAIN c.jobs
                \/ \E m \in Sent(w)' : m.type = "PROCESSED" /\ m.name = n
<1> DEFINE Queued(S) == UNION {DOMAIN c.jobs : c \in {c \in S : c.command = "PROCESS_JOBS"}}
           Answered(S) == {m.name : m \in {m \in S : m.type = "PROCESSED"}}
<1>1. NodesAt(w) = Queued(Commands(w)) \cup Answered(Sent(w))
  BY DEF NodesAt, CommandsOf, SentOf
<1>2. NodesAt(w)' = Queued(Commands(w)') \cup Answered(Sent(w)')
  BY DEF NodesAt, CommandsOf, SentOf
<1>3. \A S : n \in Queued(S) <=> \E c \in S : c.command = "PROCESS_JOBS" /\ n \in DOMAIN c.jobs
  OBVIOUS
<1>4. \A S : n \in Answered(S) <=> \E m \in S : m.type = "PROCESSED" /\ m.name = n
  OBVIOUS
<1> HIDE DEF Queued, Answered
<1> QED
  BY <1>1, <1>2, <1>3, <1>4

(* Every message in the channel after a worker has sent.                   *)
LEMMA SendsAt ==
    ASSUME TypeInv, NEW w \in Worker, NEW answer, NEW k, NEW last, Sends(w, answer, k, last)
    PROVE  /\ \A i \in 1..Len(outbox'[w]) :
                \/ i \in 1..Len(outbox[w]) /\ outbox'[w][i] = outbox[w][i]
                \/ \E j \in 1..k : i = Len(outbox[w]) + j /\ outbox'[w][i] = answer[j]
                \/ i = Len(outbox[w]) + k + 1 /\ outbox'[w][i] \in {Idle, Error}
           /\ Len(outbox[w]) \in Nat /\ k \in Nat /\ Len(outbox'[w]) \in Nat
           /\ Len(outbox'[w]) >= Len(outbox[w]) + k
           /\ k \in 0..Len(answer)
           /\ \A i \in 1..Len(outbox[w]) :
                i \in 1..Len(outbox'[w]) /\ outbox'[w][i] = outbox[w][i]
           /\ \A j \in 1..k :
                Len(outbox[w]) + j \in 1..Len(outbox'[w]) /\ outbox'[w][Len(outbox[w]) + j] = answer[j]
           /\ NoError' => k = Len(answer)
           /\ \A v \in Worker \ {w} : outbox'[v] = outbox[v] /\ Sent(v)' = Sent(v)
           /\ \A m : m \in Sent(w)' <=> \/ m \in Sent(w)
                                        \/ \E j \in 1..k : m = answer[j]
                                        \/ last # <<>> /\ m = last[1]
           /\ last # <<>> => last[1] \in {Idle, Error}
<1>1. /\ k \in 0..Len(answer) /\ Len(answer) \in Nat
      /\ last # <<Error>> => k = Len(answer)
      /\ Len(last) \in 0..1 /\ Len(outbox'[w]) = Len(outbox[w]) + k + Len(last)
      /\ last # <<>> => Len(last) = 1 /\ last[1] \in {Idle, Error} /\ last = <<last[1]>>
      /\ \A i \in 1..Len(outbox[w]) : outbox'[w][i] = outbox[w][i]
      /\ \A i \in 1..k : outbox'[w][Len(outbox[w]) + i] = answer[i]
      /\ Len(last) = 1 => outbox'[w][Len(outbox[w]) + k + 1] = last[1]
      /\ Sent(w)' = Sent(w) \cup {answer[i] : i \in 1..k} \cup {last[i] : i \in 1..Len(last)}
      /\ \A v \in Worker \ {w} : outbox'[v] = outbox[v] /\ Sent(v)' = Sent(v)
  BY SendsChannels
<1> DEFINE L == Len(outbox[w])
           M == Len(outbox'[w])
           E == Len(last)
<1>2. L \in Nat /\ k \in Nat
  BY <1>1, ChannelsTyped
<1>3. /\ E \in 0..1 /\ M = L + k + E /\ k \in 0..Len(answer) /\ Len(answer) \in Nat
      /\ last # <<Error>> => k = Len(answer)
      /\ last # <<>> => E = 1 /\ last[1] \in {Idle, Error} /\ last = <<last[1]>>
      /\ E = 1 => outbox'[w][L + k + 1] = last[1]
  BY <1>1
<1>4. /\ Sent(w)' = Sent(w) \cup {answer[i] : i \in 1..k} \cup {last[i] : i \in 1..E}
      /\ \A v \in Worker \ {w} : outbox'[v] = outbox[v] /\ Sent(v)' = Sent(v)
  BY <1>1
<1>5. /\ \A i \in 1..L : outbox'[w][i] = outbox[w][i]
      /\ \A i \in 1..k : outbox'[w][L + i] = answer[i]
  BY <1>1
<1>6. last = <<>> => E = 0
  OBVIOUS
<1> HIDE DEF L, M, E
<1>7. L \in Nat /\ k \in Nat /\ M \in Nat /\ M >= L + k
  BY <1>2, <1>3
<1>8. ASSUME NEW i \in 1..M
      PROVE  \/ i \in 1..L /\ outbox'[w][i] = outbox[w][i]
             \/ \E j \in 1..k : i = L + j /\ outbox'[w][i] = answer[j]
             \/ i = L + k + 1 /\ outbox'[w][i] \in {Idle, Error}
  <2>1. CASE i <= L
    BY <1>5, <1>7, <2>1
  <2>2. CASE i > L /\ i <= L + k
    <3>1. i - L \in 1..k /\ i = L + (i - L)
      BY <1>7, <2>2
    <3> QED
      BY <1>5, <3>1
  <2>3. CASE i > L + k
    <3>1. i = L + k + 1 /\ E = 1
      BY <1>7, <1>3, <2>3
    <3> QED
      BY <1>6, <1>3, <3>1
  <2> QED
    BY <1>7, <2>1, <2>2, <2>3
<1>9. /\ \A i \in 1..L : i \in 1..M /\ outbox'[w][i] = outbox[w][i]
      /\ \A j \in 1..k : L + j \in 1..M /\ outbox'[w][L + j] = answer[j]
  BY <1>5, <1>7
<1>10. ASSUME NEW m
      PROVE  m \in Sent(w)' <=> \/ m \in Sent(w)
                                \/ \E j \in 1..k : m = answer[j]
                                \/ last # <<>> /\ m = last[1]
  <2>1. m \in {last[i] : i \in 1..E} <=> last # <<>> /\ m = last[1]
    <3>1. E = 0 \/ E = 1
      BY <1>3
    <3>2. CASE E = 0
      BY <1>3, <3>2
    <3>3. CASE E = 1
      <4>1. 1..E = {1} /\ last # <<>>
        BY <1>6, <3>3
      <4> QED
        BY <4>1
    <3> QED
      BY <3>1, <3>2, <3>3
  <2> QED
    BY <1>4, <2>1
<1>11. NoError' => k = Len(answer)
  <2>1. CASE last = <<Error>>
    <3>1. last # <<>> /\ last[1] = Error
      BY <2>1
    <3>2. Error \in Sent(w)'
      BY <1>10, <3>1
    <3> QED
      BY <3>2 DEF NoError
  <2> QED
    BY <1>3, <2>1
<1> QED
  BY <1>3, <1>4, <1>7, <1>8, <1>9, <1>10, <1>11 DEF L, M

(* What a step does when only worker w changes.                            *)
LEMMA NodeStep ==
    ASSUME TypeInv, NodeInv, NEW w \in Worker, NoError' => NoError,
           \A v \in Worker \ {w} : inbox'[v] = inbox[v] /\ outbox'[v] = outbox[v],
           NodeOrder(w)',
           \A i \in 1..Len(outbox'[w]) :
             IsTask(outbox'[w][i]) => \E n \in TaskName : ParentOf(w, i, n)',
           \/ /\ UNCHANGED processing_nodes /\ NodesAt(w)' \subseteq NodesAt(w)
              /\ NoError' => NodesAt(w) \subseteq NodesAt(w)'
           \/ \E n \in NodesAt(w) : /\ processing_nodes' = processing_nodes \ {n}
                                    /\ NodesAt(w)' = NodesAt(w) \ {n}
           \/ /\ NodesAt(w) = {} /\ processing_nodes' = processing_nodes \cup NodesAt(w)'
              /\ NodesAt(w)' \cap processing_nodes = {}
    PROVE  NodeInv'
<1>1. \A v \in Worker \ {w} : /\ Commands(v)' = Commands(v)
                              /\ NodesAt(v)' = NodesAt(v)
  BY SameChannels
<1>2. /\ \A v \in Worker : NodesAt(v) \subseteq processing_nodes
      /\ \A u, v \in Worker : u # v => NodesAt(u) \cap NodesAt(v) = {}
      /\ NoError => processing_nodes \subseteq UNION {NodesAt(v) : v \in Worker}
  BY DEF NodeInv
<1>3. \A v \in Worker : NodesAt(v)' \subseteq processing_nodes'
  BY <1>1, <1>2
<1>4. \A u, v \in Worker : u # v => NodesAt(u)' \cap NodesAt(v)' = {}
  BY <1>1, <1>2
<1>5. ASSUME NoError', NEW n \in processing_nodes'
      PROVE  \E v \in Worker : n \in NodesAt(v)'
  <2>1. CASE n \in NodesAt(w)'
    BY <2>1
  <2>2. CASE n \notin NodesAt(w)'
    <3>1. n \in processing_nodes /\ n \notin NodesAt(w)
      BY <1>5, <2>2
    <3>2. PICK v \in Worker : n \in NodesAt(v)
      BY <1>2, <1>5, <3>1
    <3> QED
      BY <1>1, <3>1, <3>2
  <2> QED
    BY <2>1, <2>2
<1>6. ASSUME NEW v \in Worker \ {w}
      PROVE  /\ NodeOrder(v)'
             /\ \A i \in 1..Len(outbox'[v]) :
                  IsTask(outbox'[v][i]) => \E n \in TaskName : ParentOf(v, i, n)'
  <2>1. NodeOrder(v)'
    BY <1>1 DEF NodeInv, NodeOrder
  <2>2. ASSUME NEW i \in 1..Len(outbox'[v]), IsTask(outbox'[v][i])
        PROVE  \E n \in TaskName : ParentOf(v, i, n)'
    <3>1. outbox'[v] = outbox[v] /\ i \in 1..Len(outbox[v]) /\ IsTask(outbox[v][i])
      BY <2>2
    <3>2. PICK n \in TaskName : ParentOf(v, i, n)
      BY <3>1 DEF NodeInv
    <3>3. n \in processing_nodes /\ n \notin NodesAt(w)
      BY <3>2 DEF ParentOf
    <3>4. n \in processing_nodes' /\ n \notin NodesAt(w)'
      BY <3>3
    <3>5. \A u \in Worker \ {v} : n \notin NodesAt(u)'
      BY <1>1, <3>2, <3>4 DEF ParentOf
    <3> QED
      BY <3>1, <3>2, <3>4, <3>5 DEF ParentOf
  <2> QED
    BY <2>1, <2>2
<1>7. \A v \in Worker : NodeOrder(v)'
  BY <1>6
<1> QED
  BY <1>3, <1>4, <1>5, <1>6, <1>7 DEF NodeInv

LEMMA ReceivedNode ==
    ASSUME TypeInv, NodeInv, NEW w \in Worker, Received(w)
    PROVE  NodeInv'
<1> DEFINE m == Head(outbox[w])
           L == Len(outbox[w])
<1>1. /\ m = outbox[w][1] /\ L \in Nat \ {0} /\ Len(outbox'[w]) = L - 1
      /\ \A i \in 1..(L - 1) : i + 1 \in 1..L /\ outbox'[w][i] = outbox[w][i + 1]
      /\ Sent(w) = {m} \cup Sent(w)' /\ Commands(w)' = Commands(w) /\ inbox' = inbox
      /\ \A v \in Worker \ {w} : outbox'[v] = outbox[v]
      /\ m \in Message
  BY ReceivedChannels
<1>2. Handled(m) /\ (NoError' => NoError)
  BY NoErrorBefore DEF Received, Effect
<1>3. /\ NodeOrder(w) /\ NodesAt(w) \subseteq processing_nodes
      /\ \A i \in 1..L : IsTask(outbox[w][i]) => \E n \in TaskName : ParentOf(w, i, n)
  BY DEF NodeInv, L
<1> HIDE DEF m, L
<1>4. NodeOrder(w)'
  <2>1. ASSUME NEW i \in 1..(L - 1), outbox'[w][i].type = "PROCESSED"
        PROVE  /\ \A j \in 1..(L - 1) :
                    outbox'[w][j].type = "PROCESSED" /\ outbox'[w][j].name = outbox'[w][i].name => i = j
               /\ \A c \in Commands(w)' :
                    c.command = "PROCESS_JOBS" => outbox'[w][i].name \notin DOMAIN c.jobs
    <3>1. i + 1 \in 1..L /\ outbox[w][i + 1].type = "PROCESSED" /\ outbox'[w][i] = outbox[w][i + 1]
      BY <1>1, <2>1
    <3>2. \A j \in 1..L : outbox[w][j].type = "PROCESSED" /\ outbox[w][j].name = outbox[w][i + 1].name
                            => i + 1 = j
      BY <1>3, <3>1 DEF NodeOrder, L
    <3>3. ASSUME NEW j \in 1..(L - 1), outbox'[w][j].type = "PROCESSED",
                 outbox'[w][j].name = outbox'[w][i].name
          PROVE  i = j
      <4>1. j + 1 \in 1..L /\ outbox'[w][j] = outbox[w][j + 1]
        BY <1>1
      <4>2. i + 1 = j + 1
        BY <3>1, <3>2, <3>3, <4>1
      <4> QED
        BY <1>1, <4>2
    <3>4. \A c \in Commands(w) :
            c.command = "PROCESS_JOBS" => outbox[w][i + 1].name \notin DOMAIN c.jobs
      BY <1>3, <3>1 DEF NodeOrder, L
    <3> QED
      BY <1>1, <3>1, <3>3, <3>4
  <2> QED
    BY <1>1, <2>1 DEF NodeOrder
<1>5. \A v \in Worker \ {w} : NodesAt(v)' = NodesAt(v)
  BY <1>1, SameChannels
<1>6. ASSUME NEW i \in 1..Len(outbox'[w]), IsTask(outbox'[w][i]),
             processing_nodes' = processing_nodes
               \/ (m.type = "PROCESSED" /\ processing_nodes' = processing_nodes \ {m.name})
      PROVE  \E n \in TaskName : ParentOf(w, i, n)'
  <2>1. i \in 1..(L - 1) /\ i + 1 \in 1..L /\ IsTask(outbox[w][i + 1])
        /\ outbox'[w][i] = outbox[w][i + 1]
    BY <1>1, <1>6
  <2>2. PICK n \in TaskName : ParentOf(w, i + 1, n)
    BY <1>3, <2>1
  <2>3. /\ n \in processing_nodes /\ IsAncestor(outbox[w][i + 1].name, n)
        /\ \A j \in 1..L : j < i + 1 /\ outbox[w][j].type = "PROCESSED" => outbox[w][j].name # n
        /\ \A v \in Worker \ {w} : n \notin NodesAt(v)
    BY <2>2 DEF ParentOf, L
  <2>4. m.type = "PROCESSED" => n # m.name
    <3>1. 1 \in 1..L /\ 1 < i + 1
      BY <1>1, <2>1
    <3> QED
      BY <1>1, <2>3, <3>1
  <2>5. n \in processing_nodes'
    BY <1>6, <2>3, <2>4
  <2>6. ASSUME NEW j \in 1..Len(outbox'[w]), j < i, outbox'[w][j].type = "PROCESSED"
        PROVE  outbox'[w][j].name # n
    <3>1. j \in 1..(L - 1) /\ j + 1 \in 1..L /\ j + 1 < i + 1 /\ outbox'[w][j] = outbox[w][j + 1]
      BY <1>1, <2>1, <2>6
    <3> QED
      BY <2>3, <2>6, <3>1
  <2>7. /\ IsAncestor(outbox'[w][i].name, n)
        /\ \A v \in Worker \ {w} : n \notin NodesAt(v)'
    BY <1>5, <2>1, <2>3
  <2>8. ParentOf(w, i, n)'
    BY <2>5, <2>6, <2>7 DEF ParentOf
  <2> QED
    BY <2>8
<1>7. CASE m.type = "PROCESSED" /\ m.name \in processing_nodes /\ Processed(m.name, m.total, m.data)
  <2>1. processing_nodes' = processing_nodes \ {m.name}
    BY <1>7 DEF Processed
  <2>2. m.name \in NodesAt(w)
    BY <1>1, <1>7, NodesAtFacts
  <2>3. m.name \notin NodesAt(w)'
    <3>1. \A c \in Commands(w)' : c.command = "PROCESS_JOBS" => m.name \notin DOMAIN c.jobs
      <4>1. 1 \in 1..L
        BY <1>1
      <4> QED
        BY <1>1, <1>3, <1>7, <4>1 DEF NodeOrder, L
    <3>2. \A x \in Sent(w)' : x.type = "PROCESSED" => x.name # m.name
      <4> SUFFICES ASSUME NEW x \in Sent(w)', x.type = "PROCESSED", x.name = m.name PROVE FALSE
        OBVIOUS
      <4>1. PICK i \in 1..Len(outbox'[w]) : x = outbox'[w][i]
        BY DEF Sent
      <4>2. i \in 1..(L - 1) /\ i + 1 \in 1..L /\ 1 \in 1..L /\ x = outbox[w][i + 1]
        BY <1>1, <4>1
      <4>3. 1 = i + 1
        BY <1>1, <1>3, <1>7, <4>2 DEF NodeOrder, L
      <4> QED
        BY <4>2, <4>3
    <3> QED
      BY <3>1, <3>2, NodesAtFacts
  <2>4. \A n : n \in NodesAt(w)' <=> n \in NodesAt(w) /\ n # m.name
    <3> SUFFICES ASSUME NEW n PROVE n \in NodesAt(w)' <=> n \in NodesAt(w) /\ n # m.name
      OBVIOUS
    <3>1. \/ n \in NodesAt(w)'
          \/ n = m.name
          \/ n \notin NodesAt(w) 
      BY <1>1, NodesAtFacts
    <3>2. n \in NodesAt(w)' => n \in NodesAt(w)
      BY <1>1, NodesAtFacts
    <3> QED
      BY <2>3, <3>1, <3>2
  <2>5. NodesAt(w)' = NodesAt(w) \ {m.name}
    BY <2>4
  <2> QED
    BY <1>1, <1>2, <1>4, <1>6, <1>7, <2>1, <2>2, <2>5, NodeStep
<1>8. CASE m.type # "PROCESSED"
  <2>1. processing_nodes' = processing_nodes
    BY <1>2, <1>8 DEF Handled, stateVars, nodeVars, ReadDone, AddTasksToProcess, PntsWritten
  <2>2. \A n : n \in NodesAt(w)' <=> n \in NodesAt(w)
    <3> SUFFICES ASSUME NEW n PROVE n \in NodesAt(w)' <=> n \in NodesAt(w)
      OBVIOUS
    <3> QED
      BY <1>1, <1>8, NodesAtFacts
  <2>3. NodesAt(w)' = NodesAt(w)
    BY <2>2
  <2> QED
    BY <1>1, <1>2, <1>4, <1>6, <2>1, <2>3, NodeStep
<1> QED
  BY <1>2, <1>7, <1>8 DEF Handled

LEMMA GivenNode ==
    ASSUME TypeInv, NodeInv, NEW w \in Worker, Given(w)
    PROVE  NodeInv'
<1>1. /\ Commands(w) = {} /\ Sent(w) = {} /\ Sent(w)' = {} /\ outbox' = outbox /\ Len(outbox[w]) = 0
  BY EmptyChannels DEF Given, Sent
<1>2. NoError' => NoError
  BY NoErrorBefore DEF Effect
<1>3. 1..Len(outbox'[w]) = {}
  BY <1>1
<1>4. NodeOrder(w)'
  BY <1>3 DEF NodeOrder
<1>5. NodesAt(w) = {}
  BY <1>1, NodesAtFacts
<1>6. ASSUME NEW c, LeftWith(w, c)
      PROVE  /\ \A v \in Worker \ {w} : inbox'[v] = inbox[v] /\ outbox'[v] = outbox[v]
             /\ c.command # "PROCESS_JOBS" => NodesAt(w)' = {}
             /\ c.command = "PROCESS_JOBS" => NodesAt(w)' = DOMAIN c.jobs
  <2>1. Commands(w)' = {c} /\ \A v \in Worker \ {w} : inbox'[v] = inbox[v]
    BY <1>6, NewCommand
  <2>2. \A n : n \in NodesAt(w)' <=> c.command = "PROCESS_JOBS" /\ n \in DOMAIN c.jobs
    BY <1>1, <2>1, NodesAtFacts
  <2> QED
    BY <1>1, <2>1, <2>2
<1>7. ASSUME NEW c, LeftWith(w, c), c.command # "PROCESS_JOBS", UNCHANGED processing_nodes
      PROVE  NodeInv'
  <2>1. /\ NodesAt(w)' = {}
        /\ \A v \in Worker \ {w} : inbox'[v] = inbox[v] /\ outbox'[v] = outbox[v]
    BY <1>6, <1>7
  <2> QED
    BY <1>2, <1>3, <1>4, <1>5, <1>7, <2>1, NodeStep
<1>8. CASE GivenRead(w)
  <2>1. UNCHANGED processing_nodes /\ ReadCommand(point_cloud_file_parts).command # "PROCESS_JOBS"
    BY <1>8 DEF GivenRead, SendFileToRead, nodeVars, ReadCommand
  <2> QED
    BY <1>7, <1>8, <2>1 DEF GivenRead
<1>9. CASE GivenNodes(w)
  <2>1. PICK batch \in SUBSET ReadyNodes :
          SendPointsToProcess(batch) /\ LeftWith(w, ProcessCommand(batch))
    BY <1>9 DEF GivenNodes
  <2>2. /\ processing_nodes' = processing_nodes \cup batch /\ batch \cap processing_nodes = {}
        /\ ProcessCommand(batch).command = "PROCESS_JOBS" /\ DOMAIN ProcessCommand(batch).jobs = batch
    BY <2>1 DEF SendPointsToProcess, ReadyNodes, ProcessCommand
  <2>3. /\ NodesAt(w)' = batch
        /\ \A v \in Worker \ {w} : inbox'[v] = inbox[v] /\ outbox'[v] = outbox[v]
    BY <1>6, <2>1, <2>2
  <2> QED
    BY <1>2, <1>3, <1>4, <1>5, <2>2, <2>3, NodeStep
<1>10. CASE GivenTile(w)
  <2>1. PICK n \in pnts_to_writing : SendPntsToWrite(n) /\ LeftWith(w, WriteCommand(n))
    BY <1>10 DEF GivenTile
  <2>2. UNCHANGED processing_nodes /\ WriteCommand(n).command # "PROCESS_JOBS"
    BY <2>1 DEF SendPntsToWrite, WriteCommand
  <2> QED
    BY <1>7, <2>1, <2>2
<1> QED
  BY <1>8, <1>9, <1>10 DEF Given

LEMMA StartedNode ==
    ASSUME TypeInv, NodeInv, NEW w \in Worker, Started(w)
    PROVE  NodeInv'
<1>1. /\ outbox'[w] = <<Register>> /\ Sent(w)' = {Register}
      /\ Commands(w) = {} /\ Sent(w) = {} /\ Commands(w)' = {}
      /\ \A v \in Worker \ {w} : inbox'[v] = inbox[v] /\ outbox'[v] = outbox[v]
  BY StartedChannels
<1>2. (NoError' => NoError) /\ UNCHANGED processing_nodes
  BY NoErrorBefore DEF Effect, Started, stateVars
<1>3. Register.type = "REGISTER"
  BY DEF Register
<1>4. \A i \in 1..Len(outbox'[w]) : outbox'[w][i] = Register
  BY <1>1
<1>5. NodeOrder(w)' /\ \A i \in 1..Len(outbox'[w]) : ~ IsTask(outbox'[w][i])
  BY <1>3, <1>4 DEF NodeOrder, IsTask
<1>6. NodesAt(w) = {}
  BY <1>1, NodesAtFacts
<1>7. NodesAt(w)' = {}
  BY <1>1, <1>3, NodesAtFacts
<1> QED
  BY <1>1, <1>2, <1>5, <1>6, <1>7, NodeStep

(* The answer to a job: the tasks come before PROCESSED, they go below the *)
(* node, and nothing of the answer is for the root.                        *)
Answers(w, c, n, answer, k, last) ==
    /\ c \in Command /\ c.command = "PROCESS_JOBS" /\ n \in DOMAIN c.jobs /\ n \in TaskName
    /\ c.jobs \in Jobs /\ c.jobs[n] \in Job
    /\ Commands(w) = {c} /\ Sends(w, answer, k, last)
    /\ Len(answer) \in Nat \ {0} /\ k \in 0..Len(answer)
    /\ answer[Len(answer)].type = "PROCESSED" /\ answer[Len(answer)].name = n
    /\ \A j \in 1..k : j # Len(answer) =>
         /\ answer[j].type = "NEW_TASK" /\ answer[j].name \in TaskName \ {Root}
         /\ answer[j].name # n /\ IsAncestor(answer[j].name, n)

LEMMA RanFacts ==
    ASSUME TypeInv, DataInv, NEW w \in Worker, NEW c, NEW n, NEW answer, NEW gone, NEW k, NEW last,
           inbox[w] = <<c>>, Ran(w, c, n, answer, gone, k, last)
    PROVE  Answers(w, c, n, answer, k, last)
<1>1. /\ c \in Command /\ c.command = "PROCESS_JOBS" /\ n \in DOMAIN c.jobs /\ n \in TaskName
      /\ c.jobs \in Jobs /\ c.jobs[n] \in Job
      /\ Sends(w, answer, k, last)
      /\ Len(answer) \in Nat \ {0} /\ k \in 0..Len(answer)
      /\ Forwards(answer, n, gone) /\ gone \subseteq JobPoints(c.jobs[n])
      /\ answer[Len(answer)] = ProcessedMessage(n,
            Cardinality(UNION c.jobs[n].tasks) - Cardinality(gone), JobPoints(c.jobs[n]) \ gone)
  BY DEF Ran
<1>2. Commands(w) = {c} /\ GoodCommand(c)
  BY EmptyChannels DEF DataInv
<1>3. Octant(JobPoints(c.jobs[n]), n) /\ JobPoints(c.jobs[n]) \subseteq Point
  BY <1>1, <1>2 DEF GoodCommand, JobPoints, Job, Chunk
<1>4. answer[Len(answer)].type = "PROCESSED" /\ answer[Len(answer)].name = n
  BY <1>1 DEF ProcessedMessage
<1>5. ASSUME NEW j \in 1..k, j # Len(answer)
      PROVE  /\ answer[j].type = "NEW_TASK" /\ answer[j].name \in TaskName \ {Root}
             /\ answer[j].name # n /\ IsAncestor(answer[j].name, n)
  <2>1. j \in 1..(Len(answer) - 1)
    BY <1>1, <1>5
  <2>2. /\ answer[j].type = "NEW_TASK" /\ answer[j].points # {} /\ answer[j].points \subseteq gone
        /\ \A p \in answer[j].points : CanForward(n, p) /\ answer[j].name = TargetOf(n, p)
    BY <1>1, <2>1 DEF Forwards
  <2>3. PICK p \in answer[j].points : CanForward(n, p) /\ answer[j].name = TargetOf(n, p)
    BY <2>2
  <2>4. p \in Point /\ IsAncestor(Path[p], n)
    BY <1>1, <1>3, <2>2 DEF Octant
  <2>5. Len(n) \in Nat
    BY <1>1, TaskNameType
  <2> QED
    BY <1>1, <2>2, <2>3, <2>4, <2>5, TargetFacts
<1> QED
  BY <1>1, <1>2, <1>4, <1>5 DEF Answers

LEMMA ExecutedNodeInv ==
    ASSUME TypeInv, DataInv, NodeInv, NEW w \in Worker, Executed(w)
    PROVE  NodeInv'
<1> DEFINE L == Len(outbox[w])
<1>1. PICK c \in WorkCommand :
        inbox[w] = <<c>> /\ (ExecutedRead(w, c) \/ ExecutedNode(w, c) \/ ExecutedWrite(w, c))
  BY DEF Executed
<1>2. Commands(w) = {c}
  BY <1>1, EmptyChannels
<1>3. (NoError' => NoError) /\ UNCHANGED processing_nodes
  BY NoErrorBefore DEF Effect, Executed, stateVars
<1>4. ASSUME NEW answer, NEW k, NEW last, Sends(w, answer, k, last)
      PROVE  /\ \A i \in 1..Len(outbox'[w]) :
                  \/ i \in 1..L /\ outbox'[w][i] = outbox[w][i]
                  \/ \E j \in 1..k : i = L + j /\ outbox'[w][i] = answer[j]
                  \/ i = L + k + 1 /\ outbox'[w][i].type \in {"IDLE", "ERROR"}
             /\ L \in Nat /\ k \in Nat /\ Len(outbox'[w]) \in Nat /\ Len(outbox'[w]) >= L + k
             /\ \A i \in 1..L : i \in 1..Len(outbox'[w]) /\ outbox'[w][i] = outbox[w][i]
             /\ \A j \in 1..k :
                  L + j \in 1..Len(outbox'[w]) /\ outbox'[w][L + j] = answer[j]
             /\ NoError' => k = Len(answer)
             /\ \A v \in Worker \ {w} : outbox'[v] = outbox[v]
             /\ \A m : m \in Sent(w)' <=> \/ m \in Sent(w)
                                          \/ \E j \in 1..k : m = answer[j]
                                          \/ last # <<>> /\ m = last[1]
             /\ last # <<>> => last[1].type \in {"IDLE", "ERROR"}
  <2>1. Idle.type = "IDLE" /\ Error.type = "ERROR"
    BY DEF Idle, Error
  <2>2. \A m \in {Idle, Error} : m.type \in {"IDLE", "ERROR"}
    BY <2>1
  <2>3. \A i \in 1..Len(outbox'[w]) :
          \/ i \in 1..L /\ outbox'[w][i] = outbox[w][i]
          \/ \E j \in 1..k : i = L + j /\ outbox'[w][i] = answer[j]
          \/ i = L + k + 1 /\ outbox'[w][i] \in {Idle, Error}
    BY <1>4, SendsAt
  <2>4. /\ L \in Nat /\ k \in Nat /\ Len(outbox'[w]) \in Nat /\ Len(outbox'[w]) >= L + k
        /\ \A i \in 1..L : i \in 1..Len(outbox'[w]) /\ outbox'[w][i] = outbox[w][i]
        /\ \A j \in 1..k :
             L + j \in 1..Len(outbox'[w]) /\ outbox'[w][L + j] = answer[j]
    BY <1>4, SendsAt
  <2>5. /\ NoError' => k = Len(answer)
        /\ \A v \in Worker \ {w} : outbox'[v] = outbox[v]
        /\ \A m : m \in Sent(w)' <=> \/ m \in Sent(w)
                                     \/ \E j \in 1..k : m = answer[j]
                                     \/ last # <<>> /\ m = last[1]
        /\ last # <<>> => last[1] \in {Idle, Error}
    BY <1>4, SendsAt
  <2> QED
    BY <2>2, <2>3, <2>4, <2>5
<1>5. /\ NodeOrder(w) /\ NodesAt(w) \subseteq processing_nodes
      /\ \A i \in 1..L : IsTask(outbox[w][i]) => \E n \in TaskName : ParentOf(w, i, n)
      /\ \A v \in Worker \ {w} : NodesAt(v) \cap NodesAt(w) = {}
  BY DEF NodeInv
<1> HIDE DEF L
<1>6. ASSUME \A v \in Worker \ {w} : inbox'[v] = inbox[v] /\ outbox'[v] = outbox[v],
             L \in Nat,
             \A i \in 1..L : i \in 1..Len(outbox'[w]) /\ outbox'[w][i] = outbox[w][i],
             NEW i \in 1..L, IsTask(outbox'[w][i])
      PROVE  \E n \in TaskName : ParentOf(w, i, n)'
  <2>1. \A v \in Worker \ {w} : NodesAt(v)' = NodesAt(v)
    BY <1>6, SameChannels
  <2>2. outbox'[w][i] = outbox[w][i] /\ IsTask(outbox[w][i])
    BY <1>6
  <2>3. PICK n \in TaskName : ParentOf(w, i, n)
    BY <1>5, <2>2
  <2>4. \A j \in 1..L : j < i /\ outbox[w][j].type = "PROCESSED" => outbox[w][j].name # n
    BY <2>3 DEF ParentOf, L
  <2>5. \A j \in 1..Len(outbox'[w]) :
          j < i /\ outbox'[w][j].type = "PROCESSED" => outbox'[w][j].name # n
    <3> SUFFICES ASSUME NEW j \in 1..Len(outbox'[w]), j < i, outbox'[w][j].type = "PROCESSED"
                 PROVE  outbox'[w][j].name # n
      OBVIOUS
    <3>1. j \in 1..L
      BY <1>6
    <3> QED
      BY <1>6, <2>4, <3>1
  <2> QED
    BY <1>3, <2>1, <2>2, <2>3, <2>5 DEF ParentOf
<1>7. ASSUME c.command # "PROCESS_JOBS", Ended(w), NEW answer, NEW k, NEW last,
             Sends(w, answer, k, last),
             \A j \in 1..k : answer[j].type # "PROCESSED" /\ ~ IsTask(answer[j])
      PROVE  NodeInv'
  <2>1. /\ Commands(w)' = {} /\ \A v \in Worker \ {w} : inbox'[v] = inbox[v]
    BY <1>7, EndedCommand
  <2>2. \A n : n \in NodesAt(w)' <=> n \in NodesAt(w)
    <3> SUFFICES ASSUME NEW n PROVE n \in NodesAt(w)' <=> n \in NodesAt(w)
      OBVIOUS
    <3>1. \A m : m.type = "PROCESSED" => (m \in Sent(w)' <=> m \in Sent(w))
      BY <1>4, <1>7
    <3> QED
      BY <1>2, <1>7, <2>1, <3>1, NodesAtFacts
  <2>3. \A i \in 1..Len(outbox'[w]) :
          outbox'[w][i].type = "PROCESSED" \/ IsTask(outbox'[w][i]) => i \in 1..L
    <3>1. \A i \in 1..Len(outbox'[w]) :
            \/ i \in 1..L
            \/ \E j \in 1..k : i = L + j /\ outbox'[w][i] = answer[j]
            \/ outbox'[w][i].type \in {"IDLE", "ERROR"}
      BY <1>4, <1>7
    <3> QED
      BY <1>7, <3>1 DEF IsTask
  <2>4. L \in Nat /\ \A i \in 1..L : i \in 1..Len(outbox'[w]) /\ outbox'[w][i] = outbox[w][i]
    BY <1>4, <1>7
  <2>5. NodeOrder(w)'
    <3>1. ASSUME NEW i \in 1..Len(outbox'[w]), outbox'[w][i].type = "PROCESSED",
                 NEW j \in 1..Len(outbox'[w]), outbox'[w][j].type = "PROCESSED",
                 outbox'[w][j].name = outbox'[w][i].name
          PROVE  i = j
      BY <1>5, <2>3, <2>4, <3>1 DEF NodeOrder, L
    <3> QED
      BY <2>1, <3>1 DEF NodeOrder
  <2>6. \A v \in Worker \ {w} : inbox'[v] = inbox[v] /\ outbox'[v] = outbox[v]
    BY <1>4, <1>7, <2>1
  <2>7. \A i \in 1..Len(outbox'[w]) :
          IsTask(outbox'[w][i]) => \E n \in TaskName : ParentOf(w, i, n)'
    BY <1>6, <2>3, <2>4, <2>6
  <2>8. NodesAt(w)' = NodesAt(w)
    BY <2>2
  <2> QED
    BY <1>3, <2>5, <2>6, <2>7, <2>8, NodeStep
<1>8. CASE ExecutedNode(w, c)
  <2>1. PICK n, answer, gone, k, last :
          Ran(w, c, n, answer, gone, k, last) /\ Rest(w, c, n, last)
    BY <1>8, NodeRun
  <2>12. Answers(w, c, n, answer, k, last)
    BY <1>1, <2>1, RanFacts
  <2> DEFINE N == Len(answer)
  <2>2. /\ c \in Command /\ c.command = "PROCESS_JOBS" /\ n \in DOMAIN c.jobs /\ n \in TaskName
        /\ Sends(w, answer, k, last) /\ N \in Nat \ {0} /\ k \in 0..N
        /\ answer[N].type = "PROCESSED" /\ answer[N].name = n
        /\ \A j \in 1..k : j # N =>
             /\ answer[j].type = "NEW_TASK" /\ answer[j].name \in TaskName \ {Root}
             /\ IsAncestor(answer[j].name, n)
    BY <2>12 DEF Answers
  <2>3. /\ \A i \in 1..Len(outbox'[w]) :
             \/ i \in 1..L /\ outbox'[w][i] = outbox[w][i]
             \/ \E j \in 1..k : i = L + j /\ outbox'[w][i] = answer[j]
             \/ i = L + k + 1 /\ outbox'[w][i].type \in {"IDLE", "ERROR"}
        /\ L \in Nat /\ k \in Nat
        /\ \A i \in 1..L : i \in 1..Len(outbox'[w]) /\ outbox'[w][i] = outbox[w][i]
        /\ \A j \in 1..k :
             L + j \in 1..Len(outbox'[w]) /\ outbox'[w][L + j] = answer[j]
        /\ NoError' => k = N
        /\ \A v \in Worker \ {w} : outbox'[v] = outbox[v]
        /\ \A m : m \in Sent(w)' <=> \/ m \in Sent(w)
                                     \/ \E j \in 1..k : m = answer[j]
                                     \/ last # <<>> /\ m = last[1]
        /\ last # <<>> => last[1].type \in {"IDLE", "ERROR"}
    <3>1. Sends(w, answer, k, last)
      BY <2>2
    <3> QED
      BY <1>4, <3>1
  <2> HIDE DEF N
  <2>4. /\ \A v \in Worker \ {w} : inbox'[v] = inbox[v]
        /\ \A d \in Commands(w)' : d.command = "PROCESS_JOBS" /\ DOMAIN d.jobs = DOMAIN c.jobs \ {n}
        /\ NoError' => \/ DOMAIN c.jobs = {n}
                       \/ \E d \in Commands(w)' : DOMAIN d.jobs = DOMAIN c.jobs \ {n}
    <3>1. CASE Ended(w) /\ last = <<Error>>
      <4>1. last # <<>> /\ last[1] = Error
        BY <3>1
      <4>2. ~ NoError'
        BY <2>3, <4>1 DEF NoError
      <4> QED
        BY <3>1, <4>2, EndedCommand
    <3>2. CASE Ended(w) /\ DOMAIN c.jobs = {n}
      BY <3>2, EndedCommand
    <3>3. ASSUME NEW rest, rest.command = "PROCESS_JOBS",
                 DOMAIN rest.jobs = DOMAIN c.jobs \ {n}, LeftWith(w, rest)
          PROVE  /\ \A v \in Worker \ {w} : inbox'[v] = inbox[v]
                 /\ \A d \in Commands(w)' :
                      d.command = "PROCESS_JOBS" /\ DOMAIN d.jobs = DOMAIN c.jobs \ {n}
                 /\ \E d \in Commands(w)' : DOMAIN d.jobs = DOMAIN c.jobs \ {n}
      BY <3>3, NewCommand
    <3> QED
      BY <2>1, <3>1, <3>2, <3>3 DEF Rest
  <2>5. \A m \in Sent(w) : m.type = "PROCESSED" => m.name \notin DOMAIN c.jobs
    BY <1>2, <1>5, <2>2 DEF NodeOrder, Sent
  <2>6. /\ \A x \in NodesAt(w)' : x \in NodesAt(w)
        /\ NoError' => \A x \in NodesAt(w) : x \in NodesAt(w)'
    <3>1. \A x : x \in NodesAt(w) <=> \/ x \in DOMAIN c.jobs
                                      \/ \E m \in Sent(w) : m.type = "PROCESSED" /\ m.name = x
      <4> TAKE x
      <4> QED
        BY <1>2, <2>2, NodesAtFacts
    <3>2. \A m \in Sent(w)' : m.type = "PROCESSED" => m \in Sent(w) \/ m.name = n
      <4>1. \A j \in 1..k : answer[j].type = "PROCESSED" => answer[j].name = n
        BY <2>2
      <4> QED
        BY <2>3, <4>1
    <3>3. ASSUME NEW x \in NodesAt(w)' PROVE x \in NodesAt(w)
      <4>1. \/ \E d \in Commands(w)' : x \in DOMAIN d.jobs
            \/ \E m \in Sent(w)' : m.type = "PROCESSED" /\ m.name = x
        BY <3>3, NodesAtFacts
      <4> QED
        BY <2>2, <2>4, <3>1, <3>2, <4>1
    <3>4. ASSUME NoError', NEW x \in NodesAt(w) PROVE x \in NodesAt(w)'
      <4>1. CASE x = n
        <5>1. N \in 1..k
          BY <2>2, <2>3, <3>4
        <5>2. answer[N] \in Sent(w)'
          BY <2>3, <5>1
        <5> QED
          BY <2>2, <4>1, <5>2, NodesAtFacts
      <4>2. CASE x # n /\ x \in DOMAIN c.jobs
        <5>1. \E d \in Commands(w)' : x \in DOMAIN d.jobs /\ d.command = "PROCESS_JOBS"
          BY <2>4, <3>4, <4>2
        <5> QED
          BY <5>1, NodesAtFacts
      <4>3. CASE \E m \in Sent(w) : m.type = "PROCESSED" /\ m.name = x
        <5>1. \E m \in Sent(w)' : m.type = "PROCESSED" /\ m.name = x
          BY <2>3, <4>3
        <5> QED
          BY <5>1, NodesAtFacts
      <4> QED
        BY <3>1, <4>1, <4>2, <4>3
    <3> QED
      BY <3>3, <3>4
  <2>7. \A i \in 1..Len(outbox'[w]) :
          outbox'[w][i].type = "PROCESSED" =>
            \/ i \in 1..L /\ outbox'[w][i] = outbox[w][i] /\ outbox'[w][i].name \notin DOMAIN c.jobs
            \/ i = L + N /\ outbox'[w][i].name = n
    <3> SUFFICES ASSUME NEW i \in 1..Len(outbox'[w]), outbox'[w][i].type = "PROCESSED"
                 PROVE  \/ i \in 1..L /\ outbox'[w][i] = outbox[w][i]
                             /\ outbox'[w][i].name \notin DOMAIN c.jobs
                        \/ i = L + N /\ outbox'[w][i].name = n
      OBVIOUS
    <3>1. CASE i \in 1..L /\ outbox'[w][i] = outbox[w][i]
      <4>1. outbox[w][i] \in Sent(w)
        BY <3>1 DEF Sent, L
      <4> QED
        BY <2>5, <3>1, <4>1
    <3>2. ASSUME NEW j \in 1..k, i = L + j, outbox'[w][i] = answer[j]
          PROVE  i = L + N /\ outbox'[w][i].name = n
      BY <2>2, <3>2
    <3> QED
      BY <2>3, <3>1, <3>2
  <2>8. NodeOrder(w)'
    <3>1. ASSUME NEW i \in 1..Len(outbox'[w]), outbox'[w][i].type = "PROCESSED",
                 NEW j \in 1..Len(outbox'[w]), outbox'[w][j].type = "PROCESSED",
                 outbox'[w][j].name = outbox'[w][i].name
          PROVE  i = j
      <4>4. ASSUME NEW l \in 1..Len(outbox'[w]), outbox'[w][l].type = "PROCESSED",
                   outbox'[w][l].name = n
            PROVE  l = L + N
        BY <2>2, <2>7, <4>4
      <4>5. \A l \in 1..L : l # L + N
        BY <2>2, <2>3
      <4>1. CASE i = L + N
        <5>1. outbox'[w][i].name = n
          BY <2>7, <3>1, <4>1, <4>5
        <5> QED
          BY <3>1, <4>1, <4>4, <5>1
      <4>2. CASE j = L + N
        <5>1. outbox'[w][j].name = n
          BY <2>7, <3>1, <4>2, <4>5
        <5> QED
          BY <3>1, <4>2, <4>4, <5>1
      <4>3. CASE i \in 1..L /\ j \in 1..L /\ outbox'[w][i] = outbox[w][i] /\ outbox'[w][j] = outbox[w][j]
        BY <1>5, <3>1, <4>3 DEF NodeOrder, L
      <4> QED
        BY <2>7, <3>1, <4>1, <4>2, <4>3
    <3>2. \A i \in 1..Len(outbox'[w]), d \in Commands(w)' :
            outbox'[w][i].type = "PROCESSED" => outbox'[w][i].name \notin DOMAIN d.jobs
      BY <2>4, <2>7
    <3> QED
      BY <3>1, <3>2 DEF NodeOrder
  <2>9. \A v \in Worker \ {w} : inbox'[v] = inbox[v] /\ outbox'[v] = outbox[v]
    BY <2>3, <2>4
  <2>10. ASSUME NEW i \in 1..Len(outbox'[w]), IsTask(outbox'[w][i])
         PROVE  \E x \in TaskName : ParentOf(w, i, x)'
    <3>1. CASE i \in 1..L
      BY <1>6, <2>3, <2>9, <2>10, <3>1
    <3>2. ASSUME NEW j \in 1..k, i = L + j, outbox'[w][i] = answer[j]
          PROVE  ParentOf(w, i, n)'
      <4>1. j # N /\ IsAncestor(outbox'[w][i].name, n)
        BY <2>2, <2>10, <3>2 DEF IsTask
      <4>2. n \in NodesAt(w)
        BY <1>2, <2>2, NodesAtFacts
      <4>3. \A v \in Worker \ {w} : n \notin NodesAt(v)'
        <5>1. \A v \in Worker \ {w} : NodesAt(v)' = NodesAt(v)
          BY <2>9, SameChannels
        <5> QED
          BY <1>5, <4>2, <5>1
      <4>4. ASSUME NEW l \in 1..Len(outbox'[w]), l < i, outbox'[w][l].type = "PROCESSED"
            PROVE  outbox'[w][l].name # n
        <5>1. l # L + N
          BY <2>2, <2>3, <3>2, <4>1, <4>4
        <5> QED
          BY <2>2, <2>7, <4>4, <5>1
      <4>5. n \in processing_nodes'
        BY <1>3, <1>5, <4>2
      <4> QED
        BY <4>1, <4>3, <4>4, <4>5 DEF ParentOf
    <3>3. CASE outbox'[w][i].type \in {"IDLE", "ERROR"}
      BY <2>10, <3>3 DEF IsTask
    <3> QED
      BY <2>2, <2>3, <3>1, <3>2, <3>3
  <2>11. /\ NodesAt(w)' \subseteq NodesAt(w)
         /\ NoError' => NodesAt(w) \subseteq NodesAt(w)'
    BY <2>6
  <2> QED
    BY <1>3, <2>8, <2>9, <2>10, <2>11, NodeStep
<1>9. CASE ExecutedRead(w, c)
  <2> DEFINE answer == ReadMessages(c.portion)
  <2>1. PICK k \in Nat, last \in {<<Idle>>, <<Error>>} : Sends(w, answer, k, last)
    BY <1>9 DEF ExecutedRead
  <2>2. c.command = "READ_FILE" /\ Ended(w) /\ c.portion \in 1..Len(Portions)
    BY <1>9, CommandFields DEF ExecutedRead, Command
  <2>3. /\ Len(answer) \in Nat \ {0} /\ answer[Len(answer)] = [type |-> "READ"]
        /\ \A j \in 1..(Len(answer) - 1) : answer[j] = NewTask(Root, Portions[c.portion][j])
    BY <2>2, ReadAnswer
  <2>4. k \in 0..Len(answer)
    BY <2>1 DEF Sends
  <2>5. \A x, points : NewTask(x, points).type = "NEW_TASK" /\ NewTask(x, points).name = x
    BY DEF NewTask
  <2> HIDE DEF answer
  <2>6. \A j \in 1..k : answer[j].type # "PROCESSED" /\ ~ IsTask(answer[j])
    <3> SUFFICES ASSUME NEW j \in 1..k
                 PROVE  answer[j].type # "PROCESSED" /\ ~ IsTask(answer[j])
      OBVIOUS
    <3>1. CASE j = Len(answer)
      BY <2>3, <3>1 DEF IsTask
    <3>2. CASE j # Len(answer)
      <4>1. j \in 1..(Len(answer) - 1)
        BY <2>3, <2>4, <3>2
      <4> QED
        BY <2>3, <2>5, <4>1 DEF IsTask
    <3> QED
      BY <3>1, <3>2
  <2> QED
    BY <1>7, <2>1, <2>2, <2>6
<1>10. CASE ExecutedWrite(w, c)
  <2>1. PICK k, last : k \in {0, 1} /\ Sends(w, <<Written(c)>>, k, last)
    BY <1>10 DEF ExecutedWrite
  <2>2. \A j \in 1..k : <<Written(c)>>[j] = Written(c)
    BY <2>1
  <2>3. Written(c).type = "PNTS_WRITTEN"
    BY DEF Written
  <2> QED
    BY <1>7, <1>10, <2>1, <2>2, <2>3 DEF ExecutedWrite, IsTask
<1> QED
  BY <1>1, <1>8, <1>9, <1>10

LEMMA InitNode == Init => NodeInv
<1> SUFFICES ASSUME Init PROVE NodeInv
  OBVIOUS
<1>1. \A w \in Worker : Commands(w) = {} /\ Sent(w) = {} /\ Len(outbox[w]) = 0
  BY EmptyChannels DEF Init
<1>2. \A w \in Worker : NodesAt(w) = {}
  <2> TAKE w \in Worker
  <2>1. \A n : n \notin NodesAt(w)
    BY <1>1, NodesAtFacts
  <2> QED
    BY <2>1
<1>3. processing_nodes = {}
  BY DEF Init, TilerInit
<1> QED
  BY <1>1, <1>2, <1>3 DEF NodeInv, NodeOrder

LEMMA StillNode == NodeInv /\ Still => NodeInv'
<1> SUFFICES ASSUME NodeInv, Still PROVE NodeInv'
  OBVIOUS
<1>1. /\ \A w \in Worker : inbox'[w] = inbox[w] /\ outbox'[w] = outbox[w]
      /\ processing_nodes' = processing_nodes
  BY DEF Still, stateVars
<1>2. \A w \in Worker : Commands(w)' = Commands(w) /\ Sent(w)' = Sent(w) /\ NodesAt(w)' = NodesAt(w)
  BY <1>1, SameChannels
<1>3. NoError' => NoError
  BY <1>2 DEF NoError
<1>4. \A w \in Worker : NodeOrder(w)'
  BY <1>1, <1>2 DEF NodeInv, NodeOrder
<1>5. \A w \in Worker : \A i \in 1..Len(outbox'[w]) :
        IsTask(outbox'[w][i]) => \E n \in TaskName : ParentOf(w, i, n)'
  BY <1>1, <1>2 DEF NodeInv, ParentOf
<1> QED
  BY <1>1, <1>2, <1>3, <1>4, <1>5 DEF NodeInv

LEMMA EffectNode ==
    ASSUME TypeInv, DataInv, NodeInv, NEW w \in Worker, Effect(w)
    PROVE  NodeInv'
BY ReceivedNode, GivenNode, StartedNode, ExecutedNodeInv DEF Effect

-----------------------------------------------------------------------------
(* The stages of a node.  A node that is to be written is out of the reach *)
(* of the tasks in the lists and at the workers, and stays so: the tasks   *)
(* still to come go below the nodes that are being processed.              *)

WritingNodes == UNION {NodesToWriteAt(w) : w \in Worker}
Closed == pnts_to_writing \cup WritingNodes \cup WrittenNodes
StageInv ==
    /\ \A v, w \in Worker : v # w => NodesToWriteAt(v) \cap NodesToWriteAt(w) = {}
    /\ pnts_to_writing \cap WritingNodes = {} /\ pnts_to_writing \cap WrittenNodes = {}
    /\ WritingNodes \cap WrittenNodes = {}
    /\ waiting_writing_nodes \cap (processing_nodes \cup Closed) = {}
    /\ \A n \in waiting_writing_nodes \cup pnts_to_writing : node_store[n] # {}
    /\ Closed # {} => IsReadingFinish
    /\ \A n \in Closed : \A a \in InputNodes \cup processing_nodes : ~ IsAncestor(n, a)

LEMMA WritingFacts ==
    ASSUME NEW n
    PROVE  /\ \A w : n \in NodesToWriteAt(w) <=>
                       \E c \in Commands(w) : c.command = "WRITE_PNTS" /\ c.name = n
           /\ \A w : n \in NodesToWriteAt(w)' <=>
                       \E c \in Commands(w)' : c.command = "WRITE_PNTS" /\ c.name = n
           /\ n \in WritingNodes <=> \E w \in Worker : n \in NodesToWriteAt(w)
           /\ n \in WritingNodes' <=> \E w \in Worker : n \in NodesToWriteAt(w)'
BY DEF NodesToWriteAt, CommandsOf, WritingNodes

LEMMA ClosedApart ==
    ASSUME TypeInv, StageInv
    PROVE  /\ Closed \subseteq TaskName
           /\ Closed \cap (InputNodes \cup processing_nodes) = {}
<1>1. Closed \subseteq TaskName
  <2>1. \A w \in Worker : \A c \in Commands(w) : c.command = "WRITE_PNTS" => c.name \in TaskName
    BY ChannelsTyped, CommandFields
  <2>2. WritingNodes \subseteq TaskName
    BY <2>1, WritingFacts
  <2> QED
    BY <2>2 DEF Closed, WrittenNodes, TypeInv, TilerType
<1>2. \A n \in Closed : IsAncestor(n, n)
  BY <1>1, TaskNameType, AncestorOrder
<1> QED
  BY <1>1, <1>2 DEF StageInv

(* A task on its way when reading is over comes from a node being          *)
(* processed.                                                              *)
LEMMA TasksBelow ==
    ASSUME TypeInv, CountInv, NodeInv, IsReadingFinish, NEW w \in Worker, NEW m \in Sent(w),
           m.type = "NEW_TASK"
    PROVE  m.name \in TaskName /\ \E n \in processing_nodes : IsAncestor(m.name, n)
<1>1. m.name \in TaskName
  BY ChannelsTyped, MessageFields
<1>2. ~ Reads(w)
  <2> DEFINE R == {v \in Worker : Reads(v)}
  <2>1. number_of_reading_jobs >= Cardinality(R) /\ number_of_reading_jobs = 0
    BY DEF CountInv, IsReadingFinish
  <2>2. R \in SUBSET Worker /\ Cardinality(R) \in Nat
    BY FiniteWorkers
  <2>3. w \notin R
    <3> HIDE DEF R
    <3>1. w \in R => Cardinality(R) >= 1
      BY <2>2, CountWorkers
    <3> QED
      BY <2>1, <2>2, <3>1
  <2> QED
    BY <2>3
<1>3. IsTask(m)
  BY <1>2, ReadingWriting DEF IsTask, RootTask
<1>4. PICK i \in 1..Len(outbox[w]) : m = outbox[w][i]
  BY DEF Sent
<1>5. PICK n \in TaskName : ParentOf(w, i, n)
  BY <1>3, <1>4 DEF NodeInv
<1> QED
  BY <1>1, <1>4, <1>5 DEF ParentOf

LEMMA NoLateTasks ==
    ASSUME TypeInv, CountInv, NodeInv, StageInv
    PROVE  NoLateTask
<1> SUFFICES ASSUME NEW n \in Closed
             PROVE  /\ IsReadingFinish
                    /\ ~ IsAncestorInList(n, InputNodes \cup processing_nodes
                                               \cup UNION {TasksFrom(w) : w \in Worker})
  BY DEF NoLateTask, Closed, WritingNodes
<1>1. IsReadingFinish /\ n \in TaskName /\ n \in NodeName
  BY ClosedApart, TaskNameType DEF StageInv
<1>2. InputNodes \cup processing_nodes \subseteq TaskName
  BY DEF InputNodes, TypeInv, TilerType
<1>3. \A a \in InputNodes \cup processing_nodes : ~ IsAncestor(n, a)
  BY DEF StageInv
<1>4. ASSUME NEW w \in Worker, NEW a \in TasksFrom(w)
      PROVE  a \in TaskName /\ ~ IsAncestor(n, a)
  <2>1. PICK m \in Sent(w) : m.type = "NEW_TASK" /\ m.name = a
    BY <1>4 DEF TasksFrom, SentOf
  <2>2. a \in TaskName /\ \E b \in processing_nodes : IsAncestor(a, b)
    BY <1>1, <2>1, TasksBelow
  <2>3. PICK b \in processing_nodes : IsAncestor(a, b)
    BY <2>2
  <2>4. a \in NodeName /\ b \in NodeName
    BY <1>2, <2>2, TaskNameType
  <2> QED
    BY <1>1, <1>3, <2>2, <2>3, <2>4, AncestorOrder
<1>5. \A a \in TaskName : a = Root => IsAncestor(n, a)
  BY <1>1, RootIsAncestor
<1> QED
  BY <1>1, <1>2, <1>3, <1>4, <1>5 DEF IsAncestorInList

(* Steps that close no node.                                               *)
LEMMA StageStep ==
    ASSUME TypeInv, StageInv,
           WritingNodes' \subseteq WritingNodes, UNCHANGED <<pnts_to_writing, WrittenNodes>>,
           \A v, w \in Worker : v # w => NodesToWriteAt(v)' \cap NodesToWriteAt(w)' = {},
           waiting_writing_nodes' \subseteq waiting_writing_nodes,
           processing_nodes' \cap waiting_writing_nodes' = {},
           UNCHANGED node_store,
           \/ Closed = {}
           \/ /\ IsReadingFinish'
              /\ InputNodes' \cup processing_nodes' \subseteq InputNodes \cup processing_nodes
                   \cup {a \in TaskName : \A n \in Closed : ~ IsAncestor(n, a)}
    PROVE  StageInv'
<1>1. Closed' \subseteq Closed
  BY DEF Closed
<1>2. Closed' # {} => IsReadingFinish'
  BY <1>1 DEF StageInv
<1>3. \A n \in Closed' : \A a \in InputNodes' \cup processing_nodes' : ~ IsAncestor(n, a)
  BY <1>1 DEF StageInv
<1>4. /\ pnts_to_writing' \cap WritingNodes' = {} /\ pnts_to_writing' \cap WrittenNodes' = {}
      /\ WritingNodes' \cap WrittenNodes' = {}
      /\ waiting_writing_nodes' \cap (processing_nodes' \cup Closed') = {}
      /\ \A n \in waiting_writing_nodes' \cup pnts_to_writing' : node_store'[n] # {}
  BY <1>1 DEF StageInv
<1> QED
  BY <1>2, <1>3, <1>4 DEF StageInv

LEMMA ReceivedStage ==
    ASSUME TypeInv, DataInv, CountInv, NodeInv, StageInv, NEW w \in Worker, Received(w)
    PROVE  StageInv'
<1> DEFINE m == Head(outbox[w])
<1>1. /\ m \in Sent(w) /\ m \in Message /\ \A v \in Worker : Commands(v)' = Commands(v)
  BY ReceivedChannels
<1>2. Handled(m) /\ GoodMessage(m) /\ UNCHANGED tiles
  BY <1>1 DEF Received, DataInv
<1>3. \A v \in Worker : NodesToWriteAt(v)' = NodesToWriteAt(v)
  BY <1>1 DEF NodesToWriteAt, CommandsOf
<1>4. WritingNodes' = WritingNodes /\ WrittenNodes' = WrittenNodes
  BY <1>2, <1>3 DEF WritingNodes, WrittenNodes
<1>5. \A u, v \in Worker : u # v => NodesToWriteAt(u)' \cap NodesToWriteAt(v)' = {}
  BY <1>3 DEF StageInv
<1> HIDE DEF m
<1>6. CASE m.type \in {"REGISTER", "IDLE", "PNTS_WRITTEN"}
  <2>1. UNCHANGED <<nodeVars, point_cloud_file_parts, number_of_reading_jobs>>
    BY <1>2, <1>6 DEF Handled, stateVars, nodeVars, PntsWritten
  <2>2. /\ UNCHANGED <<pnts_to_writing, waiting_writing_nodes, processing_nodes, node_store>>
        /\ InputNodes' = InputNodes /\ (IsReadingFinish' <=> IsReadingFinish)
    BY <2>1 DEF nodeVars, InputNodes, IsReadingFinish
  <2> QED
    BY <1>4, <1>5, <2>2, StageStep DEF StageInv
<1>7. CASE m.type = "READ" /\ ReadDone
  <2>1. Reads(w)
    BY <1>1, <1>7, ReadingWriting
  <2>2. ~ IsReadingFinish
    <3> DEFINE R == {v \in Worker : Reads(v)}
    <3>1. number_of_reading_jobs >= Cardinality(R) /\ R \in SUBSET Worker /\ w \in R
      BY <2>1 DEF CountInv
    <3> HIDE DEF R
    <3>2. Cardinality(R) \in Nat /\ Cardinality(R) >= 1
      BY <3>1, FiniteWorkers, CountWorkers
    <3> QED
      BY <3>1, <3>2 DEF IsReadingFinish
  <2>3. /\ UNCHANGED <<pnts_to_writing, waiting_writing_nodes, processing_nodes, node_store>>
    BY <1>7 DEF ReadDone, nodeVars
  <2> QED
    BY <1>4, <1>5, <2>2, <2>3, StageStep DEF StageInv
<1>8. CASE m.type = "NEW_TASK" /\ AddTasksToProcess(m.name, m.points)
  <2>1. /\ UNCHANGED <<pnts_to_writing, waiting_writing_nodes, processing_nodes, node_store>>
        /\ IsReadingFinish' <=> IsReadingFinish
        /\ InputNodes' \subseteq InputNodes \cup {m.name}
    BY <1>8 DEF AddTasksToProcess, countVars, IsReadingFinish, InputNodes, TypeInv, TilerType
  <2>2. ASSUME Closed # {}
        PROVE  m.name \in {a \in TaskName : \A n \in Closed : ~ IsAncestor(n, a)}
    <3>1. IsReadingFinish
      BY <2>2 DEF StageInv
    <3>2. m.name \in TaskName /\ \E b \in processing_nodes : IsAncestor(m.name, b)
      BY <1>1, <1>8, <3>1, TasksBelow
    <3>3. PICK b \in processing_nodes : IsAncestor(m.name, b)
      BY <3>2
    <3>4. b \in NodeName /\ m.name \in NodeName /\ \A n \in Closed : n \in NodeName
      BY <3>2, TaskNameType, ClosedApart DEF TypeInv, TilerType
    <3>5. \A n \in Closed : ~ IsAncestor(n, b)
      BY DEF StageInv
    <3> QED
      BY <3>2, <3>3, <3>4, <3>5, AncestorOrder
  <2>3. Closed # {} => IsReadingFinish
    BY DEF StageInv
  <2> QED
    BY <1>4, <1>5, <2>1, <2>2, <2>3, StageStep DEF StageInv
<1>9. CASE m.type = "PROCESSED" /\ m.name \in processing_nodes /\ Processed(m.name, m.total, m.data)
  <2>1. /\ processing_nodes' = processing_nodes \ {m.name} /\ InputNodes' = InputNodes
        /\ IsReadingFinish' <=> IsReadingFinish
    BY <1>9 DEF Processed, InputNodes, IsReadingFinish
  <2>2. CASE m.name = Root
    <3>1. UNCHANGED <<pnts_to_writing, waiting_writing_nodes, node_store>>
      BY <1>9, <2>2 DEF Processed, DispatchProcessedNodes
    <3> QED
      BY <1>4, <1>5, <2>1, <3>1, StageStep DEF StageInv
  <2>3. CASE m.name # Root
    <3> DEFINE waiting == waiting_writing_nodes \cup {m.name}
               ready == IF IsReadingFinish THEN Writable(m.name, waiting, processing_nodes') ELSE {}
    <3>1. /\ node_store' = [node_store EXCEPT ![m.name] = m.data]
          /\ waiting_writing_nodes' = waiting \ ready
          /\ pnts_to_writing' = pnts_to_writing \cup ready
      BY <1>9, <2>3 DEF Processed, DispatchProcessedNodes
    <3>2. ready \subseteq waiting /\ (ready # {} => IsReadingFinish)
      BY DEF Writable
    <3>3. \A n \in ready : \A a \in InputNodes \cup processing_nodes' : ~ IsAncestor(n, a)
      BY DEF Writable, CanPntsBeWritten, IsAncestorInList
    <3> HIDE DEF ready
    <3>4. m.name \notin Closed /\ m.name \in TaskName /\ m.data # {}
      BY <1>2, <1>9, <2>3, ClosedApart DEF GoodMessage, TypeInv, TilerType
    <3>5. \A n \in TaskName : node_store'[n] = IF n = m.name THEN m.data ELSE node_store[n]
      BY <3>1, <3>4 DEF TypeInv, TilerType
    <3>6. \A n \in waiting_writing_nodes' \cup pnts_to_writing' : node_store'[n] # {}
      BY <3>1, <3>2, <3>4, <3>5 DEF StageInv, TypeInv, TilerType
    <3>7. Closed' = Closed \cup ready
      BY <1>4, <3>1 DEF Closed
    <3>8. /\ pnts_to_writing' \cap WritingNodes' = {} /\ pnts_to_writing' \cap WrittenNodes' = {}
          /\ WritingNodes' \cap WrittenNodes' = {}
          /\ waiting_writing_nodes' \cap (processing_nodes' \cup Closed') = {}
      BY <1>4, <2>1, <3>1, <3>2, <3>4, <3>7 DEF StageInv, Closed
    <3>9. /\ Closed' # {} => IsReadingFinish'
          /\ \A n \in Closed' : \A a \in (InputNodes \cup processing_nodes)' : ~ IsAncestor(n, a)
      BY <2>1, <3>2, <3>3, <3>7 DEF StageInv
    <3> QED
      BY <1>5, <3>6, <3>8, <3>9 DEF StageInv
  <2> QED
    BY <2>2, <2>3
<1> QED
  BY <1>2, <1>6, <1>7, <1>8, <1>9 DEF Handled

LEMMA GivenStage ==
    ASSUME TypeInv, StageInv, NEW w \in Worker, Given(w)
    PROVE  StageInv'
<1>1. /\ NodesToWriteAt(w) = {} /\ UNCHANGED tiles
      /\ \A v \in Worker : Sent(v)' = Sent(v)
  <2>1. Commands(w) = {}
    BY EmptyChannels DEF Given
  <2> QED
    BY <2>1 DEF Given, Sent, NodesToWriteAt, CommandsOf
<1>2. WrittenNodes' = WrittenNodes
  BY <1>1 DEF WrittenNodes
<1>3. ASSUME NEW c, LeftWith(w, c)
      PROVE  /\ \A v \in Worker \ {w} : NodesToWriteAt(v)' = NodesToWriteAt(v)
             /\ c.command = "WRITE_PNTS" => NodesToWriteAt(w)' = {c.name}
             /\ c.command # "WRITE_PNTS" => NodesToWriteAt(w)' = {}
  <2>1. Commands(w)' = {c} /\ \A v \in Worker \ {w} : Commands(v)' = Commands(v)
    BY <1>3, NewCommand
  <2>2. \A n : n \in NodesToWriteAt(w)' <=> c.command = "WRITE_PNTS" /\ c.name = n
    BY <2>1, WritingFacts
  <2> QED
    BY <2>1, <2>2 DEF NodesToWriteAt, CommandsOf
<1>4. ASSUME NEW c, LeftWith(w, c), c.command # "WRITE_PNTS"
      PROVE  /\ WritingNodes' \subseteq WritingNodes
             /\ \A u, v \in Worker : u # v => NodesToWriteAt(u)' \cap NodesToWriteAt(v)' = {}
  <2>1. \A v \in Worker : NodesToWriteAt(v)' \subseteq NodesToWriteAt(v)
    BY <1>3, <1>4
  <2> QED
    BY <2>1 DEF WritingNodes, StageInv
<1>5. CASE GivenRead(w)
  <2>1. /\ ReadCommand(point_cloud_file_parts).command # "WRITE_PNTS"
        /\ UNCHANGED <<pnts_to_writing, waiting_writing_nodes, processing_nodes, node_store>>
        /\ LeftWith(w, ReadCommand(point_cloud_file_parts))
    BY <1>5 DEF GivenRead, ReadCommand, SendFileToRead, nodeVars
  <2>2. Closed = {}
    <3>1. ~ IsReadingFinish
      BY <1>5 DEF GivenRead, CanRead, CanAddReadingJobs, IsReadingFinish
    <3> QED
      BY <3>1 DEF StageInv
  <2>3. /\ WritingNodes' \subseteq WritingNodes
        /\ \A u, v \in Worker : u # v => NodesToWriteAt(u)' \cap NodesToWriteAt(v)' = {}
    BY <1>4, <2>1
  <2> QED
    BY <1>2, <2>1, <2>2, <2>3, StageStep DEF StageInv
<1>6. CASE GivenNodes(w)
  <2>1. PICK batch \in SUBSET ReadyNodes :
          SendPointsToProcess(batch) /\ LeftWith(w, ProcessCommand(batch))
    BY <1>6 DEF GivenNodes
  <2>2. ProcessCommand(batch).command # "WRITE_PNTS"
    BY DEF ProcessCommand
  <2>3. /\ UNCHANGED <<pnts_to_writing, node_store, point_cloud_file_parts, number_of_reading_jobs>>
        /\ waiting_writing_nodes' = waiting_writing_nodes \ batch
        /\ processing_nodes' = processing_nodes \cup batch
        /\ node_to_process' = [n \in TaskName |-> IF n \in batch THEN {} ELSE node_to_process[n]]
    BY <2>1 DEF SendPointsToProcess, StillWaiting, countVars
  <2>4. InputNodes' \subseteq InputNodes /\ batch \subseteq InputNodes
    BY <2>3 DEF InputNodes, ReadyNodes
  <2>5. processing_nodes' \cap waiting_writing_nodes' = {}
    BY <2>3 DEF StageInv
  <2>6. Closed # {} => IsReadingFinish'
    BY <2>3 DEF StageInv, IsReadingFinish
  <2>7. /\ WritingNodes' \subseteq WritingNodes
        /\ \A u, v \in Worker : u # v => NodesToWriteAt(u)' \cap NodesToWriteAt(v)' = {}
    BY <1>4, <2>1, <2>2
  <2>8. InputNodes' \cup processing_nodes' \subseteq InputNodes \cup processing_nodes
    BY <2>3, <2>4
  <2> QED
    BY <1>2, <2>3, <2>5, <2>6, <2>7, <2>8, StageStep
<1>7. CASE GivenTile(w)
  <2>1. PICK n \in pnts_to_writing : SendPntsToWrite(n) /\ LeftWith(w, WriteCommand(n))
    BY <1>7 DEF GivenTile
  <2>2. WriteCommand(n).command = "WRITE_PNTS" /\ WriteCommand(n).name = n
    BY DEF WriteCommand
  <2>3. /\ UNCHANGED <<point_cloud_file_parts, number_of_reading_jobs, waiting_writing_nodes,
                        processing_nodes, node_to_process>>
        /\ pnts_to_writing' = pnts_to_writing \ {n}
        /\ \A k \in TaskName : k # n => node_store'[k] = node_store[k]
    BY <2>1 DEF SendPntsToWrite, StoreWithout, TypeInv, TilerType
  <2>4. /\ NodesToWriteAt(w)' = {n}
        /\ \A v \in Worker \ {w} : NodesToWriteAt(v)' = NodesToWriteAt(v)
    BY <1>3, <2>1, <2>2
  <2>5. WritingNodes' = WritingNodes \cup {n}
    <3>1. \A k : k \in WritingNodes' <=> k \in WritingNodes \/ k = n
      <4> TAKE k
      <4> QED
        BY <1>1, <2>4, WritingFacts
    <3> QED
      BY <3>1
  <2>6. Closed' = Closed
    BY <1>2, <2>3, <2>5 DEF Closed
  <2>7. n \notin WritingNodes /\ n \notin WrittenNodes /\ n \notin waiting_writing_nodes
    BY DEF StageInv, Closed
  <2>8. \A u, v \in Worker : u # v => NodesToWriteAt(u)' \cap NodesToWriteAt(v)' = {}
    BY <2>4, <2>7 DEF StageInv, WritingNodes
  <2>9. \A k \in waiting_writing_nodes' \cup pnts_to_writing' : node_store'[k] # {}
    BY <2>3, <2>7 DEF StageInv, TypeInv, TilerType
  <2>10. /\ Closed' # {} => IsReadingFinish'
         /\ \A k \in Closed' : \A a \in (InputNodes \cup processing_nodes)' : ~ IsAncestor(k, a)
    BY <2>3, <2>6 DEF StageInv, IsReadingFinish, InputNodes
  <2> QED
    BY <1>2, <2>3, <2>5, <2>6, <2>7, <2>8, <2>9, <2>10 DEF StageInv
<1> QED
  BY <1>5, <1>6, <1>7 DEF Given

(* A worker that only sends, or writes the tile it has.                    *)
LEMMA ExecutedStage ==
    ASSUME TypeInv, StageInv, NEW w \in Worker, Executed(w)
    PROVE  StageInv'
<1>1. PICK c \in WorkCommand :
        inbox[w] = <<c>> /\ (ExecutedRead(w, c) \/ ExecutedNode(w, c) \/ ExecutedWrite(w, c))
  BY DEF Executed
<1>2. Commands(w) = {c} /\ c \in Command
  BY <1>1, EmptyChannels DEF Command
<1>3. /\ UNCHANGED <<pnts_to_writing, waiting_writing_nodes, processing_nodes, node_store>>
      /\ InputNodes' = InputNodes /\ (IsReadingFinish' <=> IsReadingFinish)
  BY DEF Executed, stateVars, InputNodes, IsReadingFinish
<1>4. ASSUME NEW v \in Worker, Commands(v)' = Commands(v)
      PROVE  NodesToWriteAt(v)' = NodesToWriteAt(v)
  BY <1>4 DEF NodesToWriteAt, CommandsOf
<1>5. ASSUME UNCHANGED tiles, \A v \in Worker \ {w} : Commands(v)' = Commands(v),
             NodesToWriteAt(w)' = {}
      PROVE  StageInv'
  <2>1. \A v \in Worker : NodesToWriteAt(v)' \subseteq NodesToWriteAt(v)
    BY <1>4, <1>5
  <2>2. WrittenNodes' = WrittenNodes
    BY <1>5 DEF WrittenNodes
  <2>3. /\ WritingNodes' \subseteq WritingNodes
        /\ \A u, v \in Worker : u # v => NodesToWriteAt(u)' \cap NodesToWriteAt(v)' = {}
    BY <2>1 DEF WritingNodes, StageInv
  <2> QED
    BY <1>3, <2>2, <2>3, StageStep DEF StageInv
<1>6. ASSUME Ended(w)
      PROVE  NodesToWriteAt(w)' = {} /\ \A v \in Worker \ {w} : Commands(v)' = Commands(v)
  <2>1. Commands(w)' = {} /\ \A v \in Worker \ {w} : Commands(v)' = Commands(v)
    BY <1>6, EndedCommand
  <2> QED
    BY <2>1 DEF NodesToWriteAt, CommandsOf
<1>7. CASE ExecutedRead(w, c)
  BY <1>5, <1>6, <1>7 DEF ExecutedRead
<1>8. CASE ExecutedNode(w, c)
  <2>1. PICK n, answer, gone, k, last :
          Ran(w, c, n, answer, gone, k, last) /\ Rest(w, c, n, last)
    BY <1>8, NodeRun
  <2>2. UNCHANGED tiles
    BY <2>1 DEF Ran
  <2>3. ASSUME NEW rest, rest.command = "PROCESS_JOBS", LeftWith(w, rest)
        PROVE  NodesToWriteAt(w)' = {} /\ \A v \in Worker \ {w} : Commands(v)' = Commands(v)
    <3>1. Commands(w)' = {rest} /\ \A v \in Worker \ {w} : Commands(v)' = Commands(v)
      BY <2>3, NewCommand
    <3>2. \A x : x \notin NodesToWriteAt(w)'
      BY <2>3, <3>1, WritingFacts
    <3> QED
      BY <3>1, <3>2
  <2>4. NodesToWriteAt(w)' = {} /\ \A v \in Worker \ {w} : Commands(v)' = Commands(v)
    BY <1>6, <2>1, <2>3 DEF Rest
  <2> QED
    BY <1>5, <2>2, <2>4
<1>9. CASE ExecutedWrite(w, c)
  <2>1. /\ c.command = "WRITE_PNTS" /\ Ended(w) /\ c.name \in TaskName
        /\ UNCHANGED tiles \/ \E written : tiles' = [tiles EXCEPT ![c.name] = written]
    BY <1>2, <1>9, CommandFields DEF ExecutedWrite
  <2>2. CASE UNCHANGED tiles
    BY <1>5, <1>6, <2>1, <2>2
  <2>3. CASE \E written : tiles' = [tiles EXCEPT ![c.name] = written]
    <3>1. NodesToWriteAt(w) = {c.name}
      <4>1. \A n : n \in NodesToWriteAt(w) <=> c.name = n
        BY <1>2, <2>1, WritingFacts
      <4> QED
        BY <4>1
    <3>2. /\ NodesToWriteAt(w)' = {}
          /\ \A v \in Worker \ {w} : NodesToWriteAt(v)' = NodesToWriteAt(v)
      BY <1>4, <1>6, <2>1
    <3>3. c.name \in WritingNodes /\ WritingNodes' = WritingNodes \ {c.name}
      <4>1. \A v \in Worker \ {w} : c.name \notin NodesToWriteAt(v)
        BY <3>1 DEF StageInv
      <4>2. \A k : k \in WritingNodes' <=> k \in WritingNodes /\ k # c.name
        <5> TAKE k
        <5> QED
          BY <3>1, <3>2, <4>1, WritingFacts
      <4> QED
        BY <3>1, <4>2 DEF WritingNodes
    <3>4. WrittenNodes' \subseteq WrittenNodes \cup {c.name} /\ WrittenNodes \subseteq WrittenNodes'
      <4>1. \A k \in TaskName : k # c.name => tiles'[k] = tiles[k]
        BY <2>3 DEF TypeInv, ChannelType
      <4>2. c.name \notin WrittenNodes
        BY <3>3 DEF StageInv
      <4> QED
        BY <4>1, <4>2 DEF WrittenNodes
    <3>5. Closed' \subseteq Closed
      BY <1>3, <3>3, <3>4 DEF Closed
    <3>6. /\ pnts_to_writing' \cap WritingNodes' = {} /\ pnts_to_writing' \cap WrittenNodes' = {}
          /\ WritingNodes' \cap WrittenNodes' = {}
          /\ waiting_writing_nodes' \cap (processing_nodes' \cup Closed') = {}
      BY <1>3, <3>3, <3>4, <3>5 DEF StageInv
    <3>7. /\ Closed' # {} => IsReadingFinish'
          /\ \A k \in Closed' : \A a \in (InputNodes \cup processing_nodes)' : ~ IsAncestor(k, a)
      BY <1>3, <3>5 DEF StageInv
    <3>8. \A u, v \in Worker : u # v => NodesToWriteAt(u)' \cap NodesToWriteAt(v)' = {}
      BY <3>2 DEF StageInv
    <3>9. \A k \in waiting_writing_nodes' \cup pnts_to_writing' : node_store'[k] # {}
      BY <1>3 DEF StageInv
    <3> QED
      BY <3>6, <3>7, <3>8, <3>9 DEF StageInv
  <2> QED
    BY <2>1, <2>2, <2>3
<1> QED
  BY <1>1, <1>7, <1>8, <1>9

LEMMA InitStage == Init => StageInv
<1> SUFFICES ASSUME Init PROVE StageInv
  OBVIOUS
<1>1. \A w \in Worker : Commands(w) = {}
  BY EmptyChannels DEF Init
<1>2. \A w \in Worker : NodesToWriteAt(w) = {}
  BY <1>1 DEF NodesToWriteAt, CommandsOf
<1>3. Closed = {}
  BY <1>2 DEF Init, TilerInit, WritingNodes, WrittenNodes, Closed
<1> QED
  BY <1>2, <1>3 DEF Init, TilerInit, StageInv, Closed

LEMMA StillStage ==
    ASSUME StageInv, UNCHANGED <<inbox, tiles, stateVars>>
    PROVE  StageInv'
<1>1. \A w \in Worker : NodesToWriteAt(w)' = NodesToWriteAt(w)
  BY DEF NodesToWriteAt, CommandsOf, Commands
<1>2. Closed' = Closed /\ WritingNodes' = WritingNodes /\ WrittenNodes' = WrittenNodes
  BY <1>1 DEF Closed, WritingNodes, WrittenNodes, stateVars
<1>3. InputNodes' = InputNodes /\ (IsReadingFinish' <=> IsReadingFinish)
  BY DEF InputNodes, IsReadingFinish, stateVars
<1> QED
  BY <1>1, <1>2, <1>3 DEF StageInv, stateVars

LEMMA EffectStage ==
    ASSUME TypeInv, DataInv, CountInv, NodeInv, StageInv, NEW w \in Worker, Effect(w)
    PROVE  StageInv'
BY ReceivedStage, GivenStage, ExecutedStage, StillStage DEF Effect, Started

-----------------------------------------------------------------------------
(* The invariants of the loop together.                                    *)

LoopInv == DataInv /\ CountInv /\ NodeInv /\ StageInv
SafeInv == TypeInv /\ IdleInv /\ (Running => LoopInv)

LEMMA EffectLoop ==
    ASSUME TypeInv, LoopInv, NEW w \in Worker, Effect(w)
    PROVE  LoopInv'
<1>1. DataInv' /\ CountInv'
  BY EffectData, EffectCount DEF LoopInv
<1>2. NodeInv'
  BY EffectNode DEF LoopInv
<1>3. StageInv'
  BY EffectStage DEF LoopInv
<1> QED
  BY <1>1, <1>2, <1>3 DEF LoopInv

LEMMA InitSafe == Init => SafeInv
BY InitType, InitIdle, InitData, InitCount, InitNode, InitStage DEF SafeInv, LoopInv

LEMMA StepSafe == SafeInv /\ [Next]_vars => SafeInv'
<1> SUFFICES ASSUME SafeInv, [Next]_vars PROVE SafeInv'
  OBVIOUS
<1>1. TypeInv' /\ IdleInv'
  BY StepType, StepIdle DEF SafeInv
<1>2. ASSUME Running'
      PROVE  LoopInv'
  <2>1. Running /\ (Still \/ \E w \in Worker : Effect(w))
    BY <1>2, StepEffect DEF SafeInv
  <2>2. TypeInv /\ LoopInv
    BY <2>1 DEF SafeInv
  <2>3. CASE Still
    BY <2>2, <2>3, StillData, StillCount, StillNode, StillStage DEF LoopInv, Still
  <2>4. CASE \E w \in Worker : Effect(w)
    BY <2>2, <2>4, EffectLoop
  <2> QED
    BY <2>1, <2>3, <2>4
<1> QED
  BY <1>1, <1>2 DEF SafeInv

LEMMA SpecSafe == Spec => []SafeInv
BY InitSafe, StepSafe, PTL DEF Spec

(* No point reaches a tile that is at a writer or written, whatever raises *)
(* and in whatever order the messages come: it is what can_pnts_be_written *)
(* and the counter of the reading jobs are for.                            *)
THEOREM ConvertNoLateTask == Spec => []NoLateTask
<1>1. SafeInv => NoLateTask
  <2> SUFFICES ASSUME SafeInv, Running PROVE NoLateTask
    BY DEF NoLateTask
  <2>1. TypeInv /\ CountInv /\ NodeInv /\ StageInv
    BY DEF SafeInv, LoopInv
  <2> QED
    BY <2>1, NoLateTasks
<1> QED
  BY <1>1, SpecSafe, PTL

-----------------------------------------------------------------------------
(* The counters and the lists                                              *)

LEMMA Accounted ==
    ASSUME TypeInv, LoopInv, NoError
    PROVE  NodeAccounting
<1>1. \A w \in Worker : Reads(w) <=> Reading(w)
  <2> SUFFICES ASSUME NEW w \in Worker, NEW m \in Sent(w), RootTask(m)
               PROVE  Reading(w)
    BY DEF Reads
  <2>1. PICK i \in 1..Len(outbox[w]) : m = outbox[w][i]
    BY DEF Sent
  <2>2. PICK j \in 1..Len(outbox[w]) : outbox[w][j].type \in {"READ", "ERROR"}
    BY <2>1 DEF LoopInv, CountInv, Grammar
  <2>3. outbox[w][j] \in Sent(w) /\ outbox[w][j] \in Message
    BY ChannelsTyped
  <2>4. outbox[w][j].type # "ERROR"
    BY <2>3, MessageFields DEF NoError
  <2> QED
    BY <2>2, <2>3, <2>4 DEF Reading, SentOf
<1>2. {w \in Worker : Reads(w)} = {w \in Worker : Reading(w)}
  BY <1>1
<1>3. /\ number_of_reading_jobs = Cardinality({w \in Worker : Reading(w)})
      /\ number_of_writing_jobs = Cardinality({w \in Worker : Writing(w)})
  BY <1>2 DEF LoopInv, CountInv
<1>4. processing_nodes = UNION {NodesAt(w) : w \in Worker}
  BY DEF LoopInv, NodeInv
<1>5. \A v, w \in Worker : v # w => NodesAt(v) \cap NodesAt(w) = {}
  BY DEF LoopInv, NodeInv
<1> DEFINE stages == <<processing_nodes, waiting_writing_nodes, pnts_to_writing,
                       WritingNodes, WrittenNodes>>
<1>6. \A i, j \in 1..5 : i # j => stages[i] \cap stages[j] = {}
  <2>1. /\ stages[1] = processing_nodes /\ stages[2] = waiting_writing_nodes
        /\ stages[3] = pnts_to_writing /\ stages[4] = WritingNodes /\ stages[5] = WrittenNodes
    OBVIOUS
  <2>2. /\ processing_nodes \cap waiting_writing_nodes = {}
        /\ processing_nodes \cap (pnts_to_writing \cup WritingNodes \cup WrittenNodes) = {}
        /\ waiting_writing_nodes \cap (pnts_to_writing \cup WritingNodes \cup WrittenNodes) = {}
        /\ pnts_to_writing \cap WritingNodes = {} /\ pnts_to_writing \cap WrittenNodes = {}
        /\ WritingNodes \cap WrittenNodes = {}
    BY ClosedApart DEF LoopInv, StageInv, Closed
  <2> HIDE DEF stages
  <2>3. \A i \in 1..5 : i \in {1, 2, 3, 4, 5}
    OBVIOUS
  <2> QED
    BY <2>1, <2>2, <2>3
<1> QED
  BY <1>3, <1>4, <1>5, <1>6 DEF NodeAccounting, WritingNodes

(* As long as no command has raised, PointState's counters of reading and  *)
(* writing jobs are exact, processing_nodes holds exactly the nodes that   *)
(* are at a worker, each of them at one, and a node is in one stage.       *)
THEOREM ConvertNodeAccounting == Spec => []NodeAccounting
<1>1. SafeInv => NodeAccounting
  <2> SUFFICES ASSUME SafeInv, NoError, Running PROVE NodeAccounting
    BY DEF NodeAccounting
  <2> QED
    BY Accounted DEF SafeInv
<1> QED
  BY <1>1, SpecSafe, PTL

-----------------------------------------------------------------------------
(* The errors                                                              *)

(* The one exception of the manager is that of a worker: it gets no second *)
(* registration, no task without points, no node it had not given away and *)
(* finds no node without data among those to write.                        *)
LEMMA RaisesForError ==
    ASSUME SafeInv, [Next]_vars, outcome' = "raised", outcome # "raised"
    PROVE  \E w \in Worker :
             Running /\ outbox[w] # <<>> /\ Head(outbox[w]) = Error /\ Error \in Sent(w)
<1>1. CASE ManagerReceive
  <2>1. PICK w \in Worker : Receiving(w)
    BY <1>1 DEF ManagerReceive, Receiving
  <2> DEFINE m == Head(outbox[w])
  <2>2. /\ Running /\ Receive(w, m.type) /\ outbox[w] # <<>>
    BY <2>1 DEF Receiving, Running, Receive, ReceiveRegister, ReceiveIdle, ReceiveError,
                ReceiveRead, ReceiveNewTask, ReceiveProcessed, ReceivePntsWritten
  <2>3. WorkerState(w) /\ TypeInv /\ LoopInv
    BY <2>2 DEF SafeInv, IdleInv
  <2>4. m \in Sent(w) /\ m \in Message
    <3>1. outbox[w] \in Seq(Message)
      BY <2>3, ChannelsTyped
    <3>2. 1 \in 1..Len(outbox[w]) /\ m = outbox[w][1]
      BY <2>2, <3>1, TailFacts
    <3> QED
      BY <2>3, <3>2, ChannelsTyped
  <2>5. w \notin idle_clients
    BY <2>2, <2>3 DEF WorkerState, Starting, Registering, Waiting, Busy, Ending, Known
  <2>6. GoodMessage(m)
    BY <2>3, <2>4 DEF LoopInv, DataInv
  <2>7. ~ EndReceive
    BY DEF EndReceive
  <2>8. m.type = "PROCESSED" => m.name \in processing_nodes
    BY <2>3, <2>4, NodesAtFacts DEF LoopInv, NodeInv
  <2> HIDE DEF m
  <2>9. m.type = "ERROR"
    <3>1. CASE ReceiveRegister(w) \/ ReceiveIdle(w)
      BY <2>5, <2>7, <3>1 DEF ReceiveRegister, ReceiveIdle, AddIdleClient
    <3>2. CASE ReceiveError(w)
      BY <3>2 DEF ReceiveError, Receive, m
    <3>3. CASE ReceiveRead(w) \/ ReceivePntsWritten(w)
      BY <2>7, <3>3 DEF ReceiveRead, ReceivePntsWritten
    <3>4. CASE ReceiveNewTask(w)
      BY <2>6, <2>7, <3>4 DEF ReceiveNewTask, Receive, GoodMessage, m
    <3>5. CASE ReceiveProcessed(w)
      BY <2>7, <2>8, <3>5 DEF ReceiveProcessed, Receive, m
    <3> QED
      BY <2>1, <3>1, <3>2, <3>3, <3>4, <3>5 DEF Receiving
  <2> QED
    BY <2>2, <2>4, <2>9, MessageFields DEF m
<1>2. CASE ManagerDispatch
  <2>1. PICK w \in Worker : DispatchRead(w) \/ DispatchProcess(w) \/ DispatchWrite(w)
    BY <1>2 DEF ManagerDispatch
  <2>2. Running /\ \A command : ~ SendToProcess(w, command)
    BY <2>1 DEF SendToProcess, DispatchRead, DispatchProcess, DispatchWrite, Running
  <2>3. PICK n \in pnts_to_writing : node_store[n] = {}
    BY <2>1, <2>2 DEF DispatchRead, DispatchProcess, DispatchWrite
  <2> QED
    BY <2>2, <2>3 DEF SafeInv, LoopInv, StageInv
<1>3. CASE EndDispatch
  BY <1>3 DEF EndDispatch
<1>4. CASE ShutdownAllProcesses \/ JoinAllProcesses
  BY <1>4 DEF ShutdownAllProcesses, JoinAllProcesses
<1>5. CASE \E w \in Worker : Work(w)
  <2>1. UNCHANGED outcome
    BY <1>5 DEF Work, Start, ExecuteReadFile, ExecuteProcessJobs, ExecuteWritePnts, Fail, Halt,
                Executing, managerVars
  <2> QED
    BY <2>1
<1>6. CASE UNCHANGED vars
  BY <1>6 DEF vars, managerVars
<1> QED
  BY <1>1, <1>2, <1>3, <1>4, <1>5, <1>6 DEF Next, Manager, Finished

(* The manager raises only because it receives the error that a worker has *)
(* sent, whichever commands raise: in no order of the messages does a      *)
(* KeyError reach it, nor does a writer find its tile written.             *)
THEOREM ConvertRaisesForError == Spec => RaisesOnlyForErrors
<1>1. SafeInv => (Running => \A n \in UNION {NodesToWriteAt(w) : w \in Worker} : tiles[n] = {})
  <2> SUFFICES ASSUME SafeInv, Running, NEW w \in Worker, NEW n \in NodesToWriteAt(w)
               PROVE  tiles[n] = {}
    OBVIOUS
  <2>1. TypeInv /\ LoopInv
    BY DEF SafeInv
  <2>2. n \in WritingNodes
    BY WritingFacts
  <2>3. n \in TaskName
    <3>1. PICK c \in Commands(w) : c.command = "WRITE_PNTS" /\ c.name = n
      BY WritingFacts
    <3> QED
      BY <2>1, <3>1, ChannelsTyped, CommandFields
  <2> QED
    BY <2>1, <2>2, <2>3 DEF LoopInv, StageInv, WrittenNodes
<1>2. SafeInv /\ [Next]_vars =>
        [outcome' = "raised" /\ outcome # "raised" =>
           \E w \in Worker : outbox[w] # <<>> /\ Head(outbox[w]) = Error]_vars
  BY RaisesForError
<1> QED
  BY <1>1, <1>2, SpecSafe, PTL DEF Spec, RaisesOnlyForErrors

-----------------------------------------------------------------------------
(* A conversion in which no command raises.                                *)

(* Only a command that may raise sends an error: a writer always finds the *)
(* place of its tile free.                                                 *)
LEMMA ExecutingSendsNoError ==
    ASSUME FaultyCommands = {}, SafeInv, Running, NEW w \in Worker, Work(w), Error \notin Sent(w)
    PROVE  Error \notin Sent(w)'
<1>1. TypeInv /\ IdleInv /\ LoopInv
  BY DEF SafeInv
<1>2. ~ Fail(w)
  BY DEF Fail
<1>3. WorkerState(w)
  BY <1>1 DEF IdleInv
<1>4. outbox[w] \in Seq(Message) /\ outbox \in [Worker -> Seq(Message)] /\ Sent(w) \subseteq Message
  BY <1>1, ChannelsTyped
<1>5. ASSUME NEW messages \in Seq(Message \ {Error}), Send(w, messages)
      PROVE  Error \notin Sent(w)'
  <2>1. outbox'[w] = outbox[w] \o messages
    BY <1>4, <1>5 DEF Send
  <2>2. \A i \in 1..Len(outbox[w]) : outbox[w][i] # Error
    BY DEF Sent
  <2>3. PICK a \in Seq(Message), b \in Seq(Message \ {Error}), all \in {outbox'[w]} :
          a = outbox[w] /\ b = messages /\ all = outbox'[w]
    BY <1>4, <1>5
  <2>4. all = a \o b
    BY <2>1, <2>3
  <2>5. ASSUME NEW i \in 1..Len(all)
        PROVE  all[i] # Error
    <3>1. b \in Seq(Message)
      BY SeqMonotonic
    <3>2. CASE i \in 1..Len(a)
      BY <2>2, <2>3, <2>4, <3>1, <3>2
    <3>3. CASE i \notin 1..Len(a)
      <4>1. i - Len(a) \in 1..Len(b) /\ all[i] = b[i - Len(a)]
        BY <2>4, <3>1, <3>3
      <4> QED
        BY <4>1, ElementOfSeq
    <3> QED
      BY <3>2, <3>3
  <2> QED
    BY <2>3, <2>5 DEF Sent
<1>6. \A m \in WorkMessage \cup {Idle, Halted} : m \in Message \ {Error}
  BY DEF Message, WorkMessage, LastMessage, Error, Idle, Halted
<1>7. \A s \in Seq(WorkMessage) : s \in Seq(Message \ {Error}) /\ Append(s, Idle) \in Seq(Message \ {Error})
  <2> TAKE s \in Seq(WorkMessage)
  <2>1. s \in Seq(Message \ {Error}) /\ Idle \in Message \ {Error}
    BY <1>6, SeqMonotonic
  <2> QED
    BY <2>1, AppendProperties
<1>8. CASE Start(w) \/ Halt(w)
  <2>1. CASE Start(w)
    <3>1. outbox[w] = <<>>
      BY <1>3, <2>1 DEF Start, WorkerState, Starting, Registering, Waiting, Busy, Ending
    <3>2. outbox'[w] = <<Register>>
      BY <1>4, <2>1, <3>1 DEF Start
    <3>3. Len(<<Register>>) = 1 /\ <<Register>>[1] # Error
      BY DEF Register, Error
    <3> QED
      BY <3>2, <3>3 DEF Sent
  <2>2. CASE Halt(w)
    <3>1. <<Halted>> \in Seq(Message \ {Error})
      BY <1>6
    <3> QED
      BY <1>5, <2>2, <3>1 DEF Halt
  <2> QED
    BY <1>8, <2>1, <2>2
<1>9. ASSUME inbox[w] # <<>>
      PROVE  \E c \in WorkCommand : inbox[w] = <<c>>
  BY <1>3, <1>9 DEF WorkerState, Starting, Registering, Waiting, Busy, Ending
<1>10. CASE ExecuteReadFile(w) \/ ExecuteProcessJobs(w) \/ ExecuteWritePnts(w)
  <2>1. inbox[w] # <<>>
    BY <1>10 DEF ExecuteReadFile, ExecuteProcessJobs, ExecuteWritePnts, Executing
  <2>2. PICK c \in WorkCommand : inbox[w] = <<c>>
    BY <1>9, <2>1
  <2>3. Head(inbox[w]) = c /\ c \in Command /\ Commands(w) = {c}
    BY <2>2, EmptyChannels DEF Command
  <2>4. CASE ExecuteReadFile(w)
    <3>1. c.command = "READ_FILE" /\ Send(w, Append(ReadMessages(c.portion), Idle))
      BY <2>3, <2>4 DEF ExecuteReadFile, Executing
    <3>2. ReadMessages(c.portion) \in Seq(WorkMessage)
      BY <2>3, <3>1, CommandFields, ReadMessagesType
    <3> QED
      BY <1>5, <1>7, <3>1, <3>2
  <2>5. CASE ExecuteProcessJobs(w)
    <3>1. /\ c.command = "PROCESS_JOBS"
          /\ \E n \in NextNodes(c.jobs) : \E messages \in ProcessOutputs(n, c.jobs[n]) :
               Send(w, messages) \/ Send(w, Append(messages, Idle))
      BY <2>3, <2>5 DEF ExecuteProcessJobs, Executing
    <3>2. PICK n \in NextNodes(c.jobs) : \E messages \in ProcessOutputs(n, c.jobs[n]) :
            Send(w, messages) \/ Send(w, Append(messages, Idle))
      BY <3>1
    <3>3. n \in TaskName /\ c.jobs[n] \in Job
      BY <2>3, <3>1, CommandFields DEF NextNodes, Jobs
    <3>4. PICK messages \in ProcessOutputs(n, c.jobs[n]) :
            Send(w, messages) \/ Send(w, Append(messages, Idle))
      BY <3>2
    <3>5. messages \in Seq(WorkMessage)
      BY <3>3, ProcessOutputsType
    <3> QED
      BY <1>5, <1>7, <3>4, <3>5
  <2>6. CASE ExecuteWritePnts(w)
    <3>1. c.command = "WRITE_PNTS" /\ c.name \in TaskName
      BY <2>3, <2>6, CommandFields DEF ExecuteWritePnts, Executing
    <3>2. c.name \in WritingNodes
      BY <2>3, <3>1, WritingFacts
    <3>3. tiles[c.name] = {}
      BY <1>1, <3>1, <3>2 DEF LoopInv, StageInv, WrittenNodes
    <3>4. Send(w, <<Written(c), Idle>>)
      BY <2>3, <2>6, <3>3 DEF ExecuteWritePnts, Written
    <3>5. Written(c) \in WorkMessage
      BY <2>3, <3>1, CommandFields, ChunkFacts DEF Written, WorkMessage
    <3>6. <<Written(c), Idle>> \in Seq(Message \ {Error})
      BY <1>6, <3>5
    <3> QED
      BY <1>5, <3>4, <3>6
  <2> QED
    BY <1>10, <2>4, <2>5, <2>6
<1> QED
  BY <1>2, <1>8, <1>10 DEF Work

LEMMA NoErrorAfter ==
    ASSUME FaultyCommands = {}, SafeInv, NoError, [Next]_vars, Running'
    PROVE  Running /\ NoError'
<1>1. TypeInv /\ IdleInv
  BY DEF SafeInv
<1>2. Running
  BY <1>1, StepEffect
<1>3. ASSUME NEW w \in Worker, Work(w), NEW v \in Worker
      PROVE  Error \notin Sent(v)'
  <2>1. CASE v = w
    BY <1>2, <1>3, <2>1, ExecutingSendsNoError DEF NoError
  <2>2. CASE v # w
    <3>1. outbox'[v] = outbox[v]
      BY <1>1, <1>3, <2>2, ChannelsTyped
      DEF Work, Start, ExecuteReadFile, ExecuteProcessJobs, ExecuteWritePnts, Fail, Halt, Send
    <3> QED
      BY <3>1 DEF NoError, Sent
  <2> QED
    BY <2>1, <2>2
<1>4. CASE ManagerReceive
  <2>1. PICK w \in Worker : Receiving(w)
    BY <1>4 DEF ManagerReceive, Receiving
  <2>2. Received(w)
    BY <1>1, <2>1, ReceivingEffect
  <2> QED
    BY <1>1, <1>2, <2>2, ReceivedChannels DEF NoError
<1>5. CASE ManagerDispatch \/ EndDispatch \/ UNCHANGED vars
  <2>1. outbox' = outbox
    <3>1. CASE ManagerDispatch
      BY <1>1, <3>1, GivingEffect DEF ManagerDispatch, Given
    <3> QED
      BY <1>5, <3>1 DEF EndDispatch, workerVars, vars
  <2> QED
    BY <1>2, <2>1 DEF NoError, Sent
<1>6. CASE ShutdownAllProcesses \/ JoinAllProcesses
  BY <1>6 DEF ShutdownAllProcesses, JoinAllProcesses, Running
<1>7. CASE \E w \in Worker : Work(w)
  BY <1>2, <1>3, <1>7 DEF NoError
<1> QED
  BY <1>4, <1>5, <1>6, <1>7 DEF Next, Manager, Finished

FaultlessInv == FaultyCommands = {} => outcome # "raised" /\ (Running => NoError)

LEMMA SpecFaultless == Spec => [](SafeInv /\ FaultlessInv)
<1>1. Init => FaultlessInv
  <2>1. Init => \A w \in Worker : Sent(w) = {}
    BY EmptyChannels DEF Init
  <2>2. Init => outcome # "raised"
    BY DEF Init
  <2> QED
    BY <2>1, <2>2 DEF FaultlessInv, NoError
<1>2. SafeInv /\ FaultlessInv /\ [Next]_vars => FaultlessInv'
  <2> SUFFICES ASSUME SafeInv, FaultlessInv, [Next]_vars, FaultyCommands = {}
               PROVE  outcome' # "raised" /\ (Running' => NoError')
    BY DEF FaultlessInv
  <2>1. outcome # "raised" /\ (Running => NoError)
    BY DEF FaultlessInv
  <2>2. outcome' # "raised"
    BY <2>1, RaisesForError DEF NoError
  <2>3. Running' => Running
    BY StepEffect DEF SafeInv
  <2> QED
    BY <2>1, <2>2, <2>3, NoErrorAfter
<1> QED
  BY <1>1, <1>2, InitSafe, StepSafe, PTL DEF Spec

(* When no command raises the conversion does not either, and as long as  *)
(* its loop runs no error is on its way: the counters, the lists and the   *)
(* points are then accounted for in every state of the loop.               *)
THEOREM ConvertFaultless ==
    Spec => [](FaultyCommands = {} => outcome # "raised" /\ (Running => NoError))
BY SpecFaultless, PTL DEF FaultlessInv

-----------------------------------------------------------------------------
(* The points.  The places of ConvertProperties are taken together by what *)
(* moves at once: all that is unread, the tasks of a node, a stored node,  *)
(* a tile, and all that is at or on its way from or to a worker.           *)

Unread == UNION {PointsOf(Portions[i]) : i \in 1..point_cloud_file_parts}
Queued(n) == UNION node_to_process[n]
Stored(n) == IF n \in processing_nodes THEN {} ELSE node_store[n]
CommandPoints(c) ==
    IF c.command = "PROCESS_JOBS"
    THEN UNION {JobPoints(c.jobs[n]) : n \in DOMAIN c.jobs}
    ELSE FilePoints(c)
InPoints(w) == UNION {CommandPoints(c) : c \in Commands(w)}
OutPoints(w) == UNION {MessagePoints(m) : m \in Sent(w)}
AtWorker(w) == InPoints(w) \cup OutPoints(w)

Place ==
    ({"unread"} \X {Root}) \cup ({"task", "stored", "tile"} \X TaskName)
    \cup ({"worker"} \X Worker)
Held(x) ==
    CASE x[1] = "unread" -> Unread
      [] x[1] = "task"   -> Queued(x[2])
      [] x[1] = "stored" -> Stored(x[2])
      [] x[1] = "tile"   -> tiles[x[2]]
      [] x[1] = "worker" -> AtWorker(x[2])

Apart == \A x, y \in Place : x # y => Held(x) \cap Held(y) = {}
Kept == \A p \in Point : \E x \in Place : p \in Held(x)

(* At one worker: no two messages carry a point, nor a message and the     *)
(* command, nor two jobs; a job has the stored node and points that node   *)
(* does not have, and its answer counts what it adds to the stored node.   *)
GoodJobs(c) ==
    c.command = "PROCESS_JOBS" =>
      \A n \in DOMAIN c.jobs :
        /\ c.jobs[n].node = node_store[n]
        /\ c.jobs[n].node \cap (UNION c.jobs[n].tasks) = {}
        /\ \A k \in DOMAIN c.jobs : k # n => JobPoints(c.jobs[n]) \cap JobPoints(c.jobs[k]) = {}
GoodTotal(m) ==
    m.type = "PROCESSED" => m.total = Cardinality(m.data) - Cardinality(node_store[m.name])
MessagesApart(w) ==
    \A i, j \in 1..Len(outbox[w]) :
      i # j => MessagePoints(outbox[w][i]) \cap MessagePoints(outbox[w][j]) = {}
LocalPoints(w) ==
    /\ MessagesApart(w)
    /\ InPoints(w) \cap OutPoints(w) = {}
    /\ \A c \in Commands(w) : GoodJobs(c)
    /\ \A m \in Sent(w) : GoodTotal(m)

PointInv ==
    /\ Apart
    /\ NoError => Kept
    /\ \A w \in Worker : LocalPoints(w)

LEMMA HeldFacts ==
    /\ Held(<<"unread", Root>>) = Unread /\ Held(<<"unread", Root>>)' = Unread'
    /\ \A n : /\ Held(<<"task", n>>) = Queued(n) /\ Held(<<"task", n>>)' = Queued(n)'
              /\ Held(<<"stored", n>>) = Stored(n) /\ Held(<<"stored", n>>)' = Stored(n)'
              /\ Held(<<"tile", n>>) = tiles[n] /\ Held(<<"tile", n>>)' = tiles'[n]
    /\ \A w : Held(<<"worker", w>>) = AtWorker(w) /\ Held(<<"worker", w>>)' = AtWorker(w)'
BY DEF Held

LEMMA PlaceFacts ==
    /\ <<"unread", Root>> \in Place
    /\ \A n \in TaskName : <<"task", n>> \in Place /\ <<"stored", n>> \in Place /\ <<"tile", n>> \in Place
    /\ \A w \in Worker : <<"worker", w>> \in Place
    /\ \A x \in Place : \/ x = <<"unread", Root>>
                        \/ \E n \in TaskName : \/ x = <<"task", n>>
                                               \/ x = <<"stored", n>>
                                               \/ x = <<"tile", n>>
                        \/ \E w \in Worker : x = <<"worker", w>>
BY DEF Place

LEMMA WorkerPoints ==
    ASSUME NEW w, NEW p
    PROVE  /\ p \in InPoints(w) <=> \E c \in Commands(w) : p \in CommandPoints(c)
           /\ p \in OutPoints(w) <=> \E m \in Sent(w) : p \in MessagePoints(m)
           /\ p \in AtWorker(w) <=> p \in InPoints(w) \/ p \in OutPoints(w)
           /\ p \in InPoints(w)' <=> \E c \in Commands(w)' : p \in CommandPoints(c)
           /\ p \in OutPoints(w)' <=> \E m \in Sent(w)' : p \in MessagePoints(m)
           /\ p \in AtWorker(w)' <=> p \in InPoints(w)' \/ p \in OutPoints(w)'
BY DEF InPoints, OutPoints, AtWorker

(* A step moves points to place b only, and loses none unless there is an  *)
(* error.                                                                  *)
Moves(b) ==
    /\ \A x \in Place : x # b => Held(x)' \subseteq Held(x)
    /\ \A p \in Held(b)' : p \in Held(b) \/ \E a \in Place : p \in Held(a) /\ p \notin Held(a)'
    /\ NoError' => \A x \in Place : \A p \in Held(x) : p \in Held(x)' \/ p \in Held(b)'

LEMMA MovesApart ==
    ASSUME Apart, NEW b \in Place, Moves(b)
    PROVE  Apart'
<1>1. ASSUME NEW x \in Place, x # b, NEW p, p \in Held(x)', p \in Held(b)'
      PROVE  FALSE
  <2>1. p \in Held(x)
    BY <1>1 DEF Moves
  <2>2. CASE p \in Held(b)
    BY <1>1, <2>1, <2>2 DEF Apart
  <2>3. ASSUME NEW a \in Place, p \in Held(a), p \notin Held(a)'
        PROVE  FALSE
    <3>1. a # x
      BY <1>1, <2>3
    <3> QED
      BY <2>1, <2>3, <3>1 DEF Apart
  <2> QED
    BY <1>1, <2>2, <2>3 DEF Moves
<1>2. ASSUME NEW x \in Place, NEW y \in Place, x # y
      PROVE  Held(x)' \cap Held(y)' = {}
  <2>1. CASE x = b
    BY <1>1, <1>2, <2>1
  <2>2. CASE y = b
    BY <1>1, <1>2, <2>2
  <2>3. CASE x # b /\ y # b
    <3>1. Held(x)' \subseteq Held(x) /\ Held(y)' \subseteq Held(y)
      BY <2>3 DEF Moves
    <3> QED
      BY <1>2, <3>1 DEF Apart
  <2> QED
    BY <2>1, <2>2, <2>3
<1> QED
  BY <1>2 DEF Apart, Place

LEMMA MovesKept ==
    ASSUME Kept, NEW b \in Place, Moves(b), NoError'
    PROVE  Kept'
<1>1. ASSUME NEW p \in Point
      PROVE  \E x \in Place : p \in Held(x)'
  BY DEF Kept, Moves
<1> QED
  BY <1>1 DEF Kept, Place

(* What a step does when only worker w changes.                            *)
LEMMA PointStep ==
    ASSUME TypeInv, NodeInv, PointInv, NEW w \in Worker, NoError' => NoError,
           \A v \in Worker \ {w} : inbox'[v] = inbox[v] /\ outbox'[v] = outbox[v],
           \A v \in Worker \ {w} : \A n \in NodesAt(v) : node_store'[n] = node_store[n],
           NEW b \in Place, Moves(b), LocalPoints(w)'
    PROVE  PointInv'
<1>1. Apart' /\ (NoError' => Kept')
  BY MovesApart, MovesKept DEF PointInv
<1>2. ASSUME NEW v \in Worker \ {w}
      PROVE  LocalPoints(v)'
  <2>1. /\ outbox'[v] = outbox[v] /\ Commands(v)' = Commands(v) /\ Sent(v)' = Sent(v)
        /\ LocalPoints(v)
    BY SameChannels DEF PointInv
  <2>2. InPoints(v)' = InPoints(v) /\ OutPoints(v)' = OutPoints(v) /\ MessagesApart(v)'
    BY <2>1 DEF InPoints, OutPoints, LocalPoints, MessagesApart
  <2>3. ASSUME NEW c \in Commands(v)
        PROVE  GoodJobs(c)'
    <3>1. ASSUME c.command = "PROCESS_JOBS", NEW n \in DOMAIN c.jobs
          PROVE  node_store'[n] = node_store[n]
      BY <3>1, NodesAtFacts
    <3>2. GoodJobs(c)
      BY <2>1 DEF LocalPoints
    <3> QED
      BY <3>1, <3>2 DEF GoodJobs
  <2>4. ASSUME NEW m \in Sent(v)
        PROVE  GoodTotal(m)'
    <3>1. ASSUME m.type = "PROCESSED"
          PROVE  node_store'[m.name] = node_store[m.name]
      BY <3>1, NodesAtFacts
    <3>2. GoodTotal(m)
      BY <2>1 DEF LocalPoints
    <3> QED
      BY <3>1, <3>2 DEF GoodTotal
  <2> QED
    BY <2>1, <2>2, <2>3, <2>4 DEF LocalPoints
<1> QED
  BY <1>1, <1>2 DEF PointInv

(* A place whose variables do not change.                                  *)
LEMMA SamePlace ==
    /\ UNCHANGED point_cloud_file_parts => Unread' = Unread
    /\ \A n : node_to_process'[n] = node_to_process[n] => Queued(n)' = Queued(n)
    /\ \A n : (n \in processing_nodes' <=> n \in processing_nodes) /\ node_store'[n] = node_store[n]
                => Stored(n)' = Stored(n)
    /\ \A v \in Worker : inbox'[v] = inbox[v] /\ outbox'[v] = outbox[v]
         => AtWorker(v)' = AtWorker(v) /\ InPoints(v)' = InPoints(v) /\ OutPoints(v)' = OutPoints(v)
<1>1. UNCHANGED point_cloud_file_parts => Unread' = Unread
  BY DEF Unread
<1>2. \A n : node_to_process'[n] = node_to_process[n] => Queued(n)' = Queued(n)
  BY DEF Queued
<1>3. \A n : (n \in processing_nodes' <=> n \in processing_nodes) /\ node_store'[n] = node_store[n]
               => Stored(n)' = Stored(n)
  BY DEF Stored
<1>4. \A v \in Worker : inbox'[v] = inbox[v] /\ outbox'[v] = outbox[v]
        => AtWorker(v)' = AtWorker(v) /\ InPoints(v)' = InPoints(v) /\ OutPoints(v)' = OutPoints(v)
  BY SameChannels DEF AtWorker, InPoints, OutPoints
<1> QED
  BY <1>1, <1>2, <1>3, <1>4

(* A step that changes the places of worker w only.                        *)
LEMMA MovesWithin ==
    ASSUME NEW w \in Worker,
           UNCHANGED <<point_cloud_file_parts, node_to_process, processing_nodes, node_store, tiles>>,
           \A v \in Worker \ {w} : inbox'[v] = inbox[v] /\ outbox'[v] = outbox[v],
           AtWorker(w)' \subseteq AtWorker(w),
           NoError' => AtWorker(w) \subseteq AtWorker(w)'
    PROVE  Moves(<<"worker", w>>)
<1>1. /\ Unread' = Unread
      /\ \A n \in TaskName : Queued(n)' = Queued(n) /\ Stored(n)' = Stored(n) /\ tiles'[n] = tiles[n]
      /\ \A v \in Worker \ {w} : AtWorker(v)' = AtWorker(v)
  BY SamePlace
<1>2. \A x \in Place : x # <<"worker", w>> => Held(x)' = Held(x)
  BY <1>1, HeldFacts, PlaceFacts
<1>3. /\ Held(<<"worker", w>>)' \subseteq Held(<<"worker", w>>)
      /\ NoError' => Held(<<"worker", w>>) \subseteq Held(<<"worker", w>>)'
  BY HeldFacts
<1> QED
  BY <1>2, <1>3 DEF Moves

LEMMA StartedPoints ==
    ASSUME TypeInv, NodeInv, PointInv, NEW w \in Worker, Started(w)
    PROVE  PointInv'
<1>1. /\ outbox'[w] = <<Register>> /\ Sent(w)' = {Register}
      /\ Commands(w) = {} /\ Sent(w) = {} /\ Commands(w)' = {}
      /\ \A v \in Worker \ {w} : inbox'[v] = inbox[v] /\ outbox'[v] = outbox[v]
  BY StartedChannels
<1>2. (NoError' => NoError) /\ UNCHANGED <<stateVars, tiles>>
  BY NoErrorBefore DEF Effect, Started
<1>3. Register.type = "REGISTER" /\ MessagePoints(Register) = {}
  BY DEF Register, MessagePoints
<1>4. AtWorker(w) = {} /\ AtWorker(w)' = {} /\ InPoints(w)' = {}
  BY <1>1, <1>3 DEF AtWorker, InPoints, OutPoints
<1>5. LocalPoints(w)'
  <2>1. MessagesApart(w)'
    <3>1. Len(outbox'[w]) = 1
      BY <1>1
    <3> QED
      BY <3>1 DEF MessagesApart
  <2>2. \A m \in Sent(w)' : GoodTotal(m)'
    BY <1>1, <1>3 DEF GoodTotal
  <2> QED
    BY <1>1, <1>4, <2>1, <2>2 DEF LocalPoints
<1>6. Moves(<<"worker", w>>)
  <2>1. UNCHANGED <<point_cloud_file_parts, node_to_process, processing_nodes, node_store, tiles>>
    BY <1>2 DEF stateVars
  <2> QED
    BY <1>1, <1>4, <2>1, MovesWithin
<1>7. <<"worker", w>> \in Place /\ UNCHANGED node_store
  BY <1>2, PlaceFacts DEF stateVars
<1> QED
  BY <1>1, <1>2, <1>5, <1>6, <1>7, PointStep

(* The messages that stay.                                                 *)
LEMMA ReceivedLocal ==
    ASSUME TypeInv, NodeInv, NEW w \in Worker, LocalPoints(w), Received(w),
           \A n \in NodesAt(w)' : node_store'[n] = node_store[n]
    PROVE  /\ LocalPoints(w)'
           /\ InPoints(w)' = InPoints(w)
           /\ OutPoints(w) = OutPoints(w)' \cup MessagePoints(Head(outbox[w]))
           /\ MessagePoints(Head(outbox[w])) \cap AtWorker(w)' = {}
<1> DEFINE m == Head(outbox[w])
           L == Len(outbox[w])
<1>1. /\ m = outbox[w][1] /\ L \in Nat \ {0} /\ Len(outbox'[w]) = L - 1
      /\ \A i \in 1..(L - 1) : i + 1 \in 1..L /\ outbox'[w][i] = outbox[w][i + 1]
      /\ Sent(w) = {m} \cup Sent(w)' /\ Commands(w)' = Commands(w)
  BY ReceivedChannels
<1>2. /\ \A i, j \in 1..L :
           i # j => MessagePoints(outbox[w][i]) \cap MessagePoints(outbox[w][j]) = {}
      /\ InPoints(w) \cap OutPoints(w) = {}
      /\ \A c \in Commands(w) : GoodJobs(c)
      /\ \A x \in Sent(w) : GoodTotal(x)
  BY DEF LocalPoints, MessagesApart
<1> HIDE DEF m, L
<1>3. InPoints(w)' = InPoints(w)
  BY <1>1 DEF InPoints
<1>4. OutPoints(w) = OutPoints(w)' \cup MessagePoints(m)
  BY <1>1 DEF OutPoints
<1>5. ASSUME NEW p \in MessagePoints(m), p \in OutPoints(w)'
      PROVE  FALSE
  <2>1. PICK x \in Sent(w)' : p \in MessagePoints(x)
    BY <1>5 DEF OutPoints
  <2>2. PICK i \in 1..(L - 1) : x = outbox'[w][i]
    BY <1>1, <2>1 DEF Sent
  <2>3. i + 1 \in 1..L /\ 1 \in 1..L /\ i + 1 # 1 /\ x = outbox[w][i + 1]
    BY <1>1, <2>2
  <2> QED
    BY <1>1, <1>2, <1>5, <2>1, <2>3
<1>6. MessagePoints(m) \cap AtWorker(w)' = {}
  BY <1>2, <1>3, <1>4, <1>5 DEF AtWorker
<1>7. MessagesApart(w)'
  <2>1. ASSUME NEW i \in 1..(L - 1), NEW j \in 1..(L - 1), i # j
        PROVE  MessagePoints(outbox'[w][i]) \cap MessagePoints(outbox'[w][j]) = {}
    <3>1. /\ i + 1 \in 1..L /\ j + 1 \in 1..L /\ i + 1 # j + 1
          /\ outbox'[w][i] = outbox[w][i + 1] /\ outbox'[w][j] = outbox[w][j + 1]
      BY <1>1, <2>1
    <3> QED
      BY <1>2, <3>1
  <2> QED
    BY <1>1, <2>1 DEF MessagesApart
<1>8. ASSUME NEW c \in Commands(w)'
      PROVE  GoodJobs(c)'
  <2>1. ASSUME c.command = "PROCESS_JOBS", NEW n \in DOMAIN c.jobs
        PROVE  node_store'[n] = node_store[n]
    BY <2>1, NodesAtFacts
  <2>2. GoodJobs(c)
    BY <1>1, <1>2
  <2> QED
    BY <2>1, <2>2 DEF GoodJobs
<1>9. ASSUME NEW x \in Sent(w)'
      PROVE  GoodTotal(x)'
  <2>1. x.type = "PROCESSED" => node_store'[x.name] = node_store[x.name]
    BY NodesAtFacts
  <2>2. GoodTotal(x)
    BY <1>1, <1>2
  <2> QED
    BY <2>1, <2>2 DEF GoodTotal
<1>10. InPoints(w)' \cap OutPoints(w)' = {}
  BY <1>2, <1>3, <1>4
<1>11. LocalPoints(w)'
  BY <1>7, <1>8, <1>9, <1>10 DEF LocalPoints
<1> QED
  BY <1>3, <1>4, <1>6, <1>11 DEF m

LEMMA ReceivedPoints ==
    ASSUME TypeInv, DataInv, NodeInv, NodeInv', PointInv, NEW w \in Worker, Received(w)
    PROVE  PointInv'
<1>0. PICK m : m = Head(outbox[w])
  OBVIOUS
<1>1. /\ m \in Sent(w) /\ m \in Message
      /\ \A v \in Worker \ {w} : inbox'[v] = inbox[v] /\ outbox'[v] = outbox[v]
      /\ Handled(m) /\ UNCHANGED tiles /\ GoodMessage(m)
  BY <1>0, ReceivedChannels DEF Received, DataInv
<1>2. (NoError' => NoError) /\ LocalPoints(w)
  BY NoErrorBefore DEF Effect, PointInv
<1>3. ASSUME \A n \in NodesAt(w)' : node_store'[n] = node_store[n]
      PROVE  /\ LocalPoints(w)' /\ InPoints(w)' = InPoints(w)
             /\ OutPoints(w) = OutPoints(w)' \cup MessagePoints(m)
             /\ MessagePoints(m) \cap AtWorker(w)' = {}
  BY <1>0, <1>2, <1>3, ReceivedLocal
<1>4. CASE m.type \notin {"NEW_TASK", "PROCESSED"}
  <2>1. UNCHANGED <<point_cloud_file_parts, node_to_process, processing_nodes, node_store>>
    BY <1>1, <1>4 DEF Handled, stateVars, nodeVars, ReadDone, PntsWritten
  <2>2. MessagePoints(m) = {}
    BY <1>4 DEF MessagePoints
  <2>3. LocalPoints(w)' /\ AtWorker(w)' = AtWorker(w)
    BY <1>3, <2>1, <2>2 DEF AtWorker
  <2>4. Moves(<<"worker", w>>)
    BY <1>1, <2>1, <2>3, MovesWithin
  <2>5. <<"worker", w>> \in Place
    BY PlaceFacts
  <2> QED
    BY <1>1, <1>2, <2>1, <2>3, <2>4, <2>5, PointStep
<1>5. CASE m.type = "NEW_TASK" /\ AddTasksToProcess(m.name, m.points)
  <2> DEFINE b == <<"task", m.name>>
  <2>1. /\ UNCHANGED <<point_cloud_file_parts, processing_nodes, node_store>>
        /\ node_to_process' = [node_to_process EXCEPT ![m.name] = @ \cup {m.points}]
        /\ m.name \in TaskName /\ MessagePoints(m) = m.points
    BY <1>1, <1>5, MessageFields DEF AddTasksToProcess, countVars, MessagePoints
  <2>2. /\ LocalPoints(w)' /\ AtWorker(w) = AtWorker(w)' \cup m.points
        /\ m.points \cap AtWorker(w)' = {}
    BY <1>3, <2>1 DEF AtWorker
  <2>3. /\ Queued(m.name)' = Queued(m.name) \cup m.points
        /\ \A n \in TaskName : n # m.name => node_to_process'[n] = node_to_process[n]
    <3>1. /\ node_to_process'[m.name] = node_to_process[m.name] \cup {m.points}
          /\ \A n \in TaskName : n # m.name => node_to_process'[n] = node_to_process[n]
      BY <2>1 DEF TypeInv, TilerType
    <3> QED
      BY <3>1 DEF Queued
  <2>4. /\ Unread' = Unread
        /\ \A n \in TaskName : Stored(n)' = Stored(n) /\ tiles'[n] = tiles[n]
        /\ \A n \in TaskName : n # m.name => Queued(n)' = Queued(n)
        /\ \A v \in Worker \ {w} : AtWorker(v)' = AtWorker(v)
    BY <1>1, <2>1, <2>3, SamePlace
  <2>5. \A x \in Place : x # b /\ x # <<"worker", w>> => Held(x)' = Held(x)
    BY <2>4, HeldFacts, PlaceFacts
  <2>6. /\ b \in Place /\ <<"worker", w>> \in Place
        /\ Held(b) = Queued(m.name) /\ Held(b)' = Held(b) \cup m.points
        /\ Held(<<"worker", w>>) = Held(<<"worker", w>>)' \cup m.points
        /\ m.points \cap Held(<<"worker", w>>)' = {}
    BY <2>1, <2>2, <2>3, HeldFacts, PlaceFacts
  <2> HIDE DEF b
  <2>7. Moves(b)
    BY <2>5, <2>6 DEF Moves
  <2> QED
    BY <1>1, <1>2, <2>1, <2>2, <2>6, <2>7, PointStep
<1>6. CASE m.type = "PROCESSED" /\ m.name \in processing_nodes /\ Processed(m.name, m.total, m.data)
  <2> DEFINE b == <<"stored", m.name>>
  <2>1. /\ UNCHANGED <<point_cloud_file_parts, node_to_process>>
        /\ processing_nodes' = processing_nodes \ {m.name}
        /\ m.name \in TaskName /\ MessagePoints(m) = m.data
    BY <1>1, <1>6, MessageFields DEF Processed, MessagePoints
  <2>2. /\ node_store'[m.name] = m.data
        /\ \A n \in TaskName : n # m.name => node_store'[n] = node_store[n]
    <3>1. CASE m.name = Root
      <4>1. m.data = {} /\ node_store[Root] = {} /\ UNCHANGED node_store
        BY <1>1, <1>6, <3>1 DEF GoodMessage, DataInv, Processed, DispatchProcessedNodes
      <4> QED
        BY <3>1, <4>1
    <3>2. CASE m.name # Root
      <4>1. node_store' = [node_store EXCEPT ![m.name] = m.data]
        BY <1>6, <3>2 DEF Processed, DispatchProcessedNodes
      <4> QED
        BY <2>1, <4>1 DEF TypeInv, TilerType
    <3> QED
      BY <3>1, <3>2
  <2>3. \A v \in Worker : NodesAt(v)' \subseteq processing_nodes' /\ processing_nodes' \subseteq TaskName
    BY <2>1 DEF NodeInv, TypeInv, TilerType
  <2>4. \A n \in NodesAt(w)' : node_store'[n] = node_store[n]
    BY <2>1, <2>2, <2>3
  <2>5. \A v \in Worker \ {w} : \A n \in NodesAt(v) : node_store'[n] = node_store[n]
    <3>1. \A v \in Worker \ {w} : NodesAt(v)' = NodesAt(v)
      BY <1>1, SameChannels
    <3> QED
      BY <2>1, <2>2, <2>3, <3>1
  <2>6. /\ LocalPoints(w)' /\ AtWorker(w) = AtWorker(w)' \cup m.data
        /\ m.data \cap AtWorker(w)' = {}
    BY <1>3, <2>1, <2>4 DEF AtWorker
  <2>7. Stored(m.name) = {} /\ Stored(m.name)' = m.data
    BY <1>6, <2>1, <2>2 DEF Stored
  <2>8. /\ Unread' = Unread
        /\ \A n \in TaskName : Queued(n)' = Queued(n) /\ tiles'[n] = tiles[n]
        /\ \A n \in TaskName : n # m.name => Stored(n)' = Stored(n)
        /\ \A v \in Worker \ {w} : AtWorker(v)' = AtWorker(v)
    BY <1>1, <2>1, <2>2, SamePlace
  <2>9. \A x \in Place : x # b /\ x # <<"worker", w>> => Held(x)' = Held(x)
    BY <2>8, HeldFacts, PlaceFacts
  <2>10. /\ b \in Place /\ <<"worker", w>> \in Place
        /\ Held(b) = {} /\ Held(b)' = m.data
        /\ Held(<<"worker", w>>) = Held(<<"worker", w>>)' \cup m.data
        /\ m.data \cap Held(<<"worker", w>>)' = {}
    BY <2>1, <2>6, <2>7, HeldFacts, PlaceFacts
  <2> HIDE DEF b
  <2>11. Moves(b)
    BY <2>9, <2>10 DEF Moves
  <2> QED
    BY <1>1, <1>2, <2>5, <2>6, <2>10, <2>11, PointStep
<1> QED
  BY <1>1, <1>4, <1>5, <1>6 DEF Handled

LEMMA GivenLocal ==
    ASSUME TypeInv, NEW w \in Worker, Given(w), NEW c, LeftWith(w, c), GoodJobs(c)'
    PROVE  /\ LocalPoints(w)'
           /\ AtWorker(w) = {} /\ AtWorker(w)' = CommandPoints(c)
           /\ \A v \in Worker \ {w} : /\ inbox'[v] = inbox[v] /\ outbox'[v] = outbox[v]
                                      /\ AtWorker(v)' = AtWorker(v)
<1>1. /\ Commands(w) = {} /\ Sent(w) = {} /\ Sent(w)' = {} /\ outbox' = outbox /\ Len(outbox'[w]) = 0
  BY EmptyChannels DEF Given, Sent
<1>2. Commands(w)' = {c} /\ \A v \in Worker \ {w} : inbox'[v] = inbox[v]
  BY NewCommand
<1>3. AtWorker(w) = {}
  BY <1>1 DEF AtWorker, InPoints, OutPoints
<1>4. InPoints(w)' = CommandPoints(c) /\ OutPoints(w)' = {}
  BY <1>1, <1>2 DEF InPoints, OutPoints
<1>5. LocalPoints(w)'
  BY <1>1, <1>2, <1>4 DEF LocalPoints, MessagesApart
<1>6. \A v \in Worker \ {w} : inbox'[v] = inbox[v] /\ outbox'[v] = outbox[v]
  BY <1>1, <1>2
<1> QED
  BY <1>3, <1>4, <1>5, <1>6, SamePlace DEF AtWorker

LEMMA UnreadParts ==
    ASSUME TypeInv, point_cloud_file_parts > 0, point_cloud_file_parts' = point_cloud_file_parts - 1
    PROVE  LET part == PointsOf(Portions[point_cloud_file_parts])
           IN  Unread = Unread' \cup part /\ Unread' \cap part = {}
<1>1. PICK k \in 1..Len(Portions) : k = point_cloud_file_parts
  BY ChunkFacts DEF TypeInv, TilerType
<1>2. k \in Nat /\ 1..k = (1..(k - 1)) \cup {k} /\ \A i \in 1..(k - 1) : i \in 1..Len(Portions) /\ i # k
  BY ChunkFacts
<1>3. Unread = UNION {PointsOf(Portions[i]) : i \in 1..k}
  BY <1>1 DEF Unread
<1>4. Unread' = UNION {PointsOf(Portions[i]) : i \in 1..(k - 1)}
  BY <1>1 DEF Unread
<1>5. Unread = Unread' \cup PointsOf(Portions[k])
  BY <1>2, <1>3, <1>4
<1>6. ASSUME NEW i \in 1..(k - 1), NEW p \in PointsOf(Portions[i]), p \in PointsOf(Portions[k])
      PROVE  FALSE
  <2>1. PICK a \in 1..Len(Portions[i]) : p \in Portions[i][a]
    BY DEF PointsOf, ChunksOf
  <2>2. PICK b \in 1..Len(Portions[k]) : p \in Portions[k][b]
    BY <1>6 DEF PointsOf, ChunksOf
  <2>3. i \in 1..Len(Portions) /\ <<i, a>> # <<k, b>>
    BY <1>2
  <2> QED
    BY <2>1, <2>2, <2>3, PortionAssumption
<1>7. Unread' \cap PointsOf(Portions[k]) = {}
  BY <1>4, <1>6
<1> QED
  BY <1>1, <1>5, <1>7

LEMMA GivenReadPoints ==
    ASSUME TypeInv, NodeInv, PointInv, NEW w \in Worker, Given(w), GivenRead(w)
    PROVE  PointInv'
<1>1. PICK c : c = ReadCommand(point_cloud_file_parts)
  OBVIOUS
<1>2. /\ LeftWith(w, c) /\ c.command = "READ_FILE"
      /\ CommandPoints(c) = PointsOf(Portions[point_cloud_file_parts])
  BY <1>1 DEF GivenRead, ReadCommand, CommandPoints, FilePoints
<1>3. /\ UNCHANGED <<node_to_process, processing_nodes, node_store, tiles>>
      /\ point_cloud_file_parts > 0 /\ point_cloud_file_parts' = point_cloud_file_parts - 1
  BY DEF Given, GivenRead, CanRead, CanAddReadingJobs, SendFileToRead, nodeVars
<1>4. GoodJobs(c)'
  BY <1>2 DEF GoodJobs
<1>5. /\ LocalPoints(w)'
      /\ AtWorker(w) = {} /\ AtWorker(w)' = CommandPoints(c)
      /\ \A v \in Worker \ {w} : /\ inbox'[v] = inbox[v] /\ outbox'[v] = outbox[v]
                                 /\ AtWorker(v)' = AtWorker(v)
  BY <1>2, <1>4, GivenLocal
<1>6. Unread = Unread' \cup CommandPoints(c) /\ Unread' \cap CommandPoints(c) = {}
  BY <1>2, <1>3, UnreadParts
<1>7. \A n \in TaskName : Queued(n)' = Queued(n) /\ tiles'[n] = tiles[n] /\ Stored(n)' = Stored(n)
  BY <1>3, SamePlace
<1>8. \A x \in Place : x # <<"unread", Root>> /\ x # <<"worker", w>> => Held(x)' = Held(x)
  BY <1>5, <1>7, HeldFacts, PlaceFacts
<1>9. /\ <<"worker", w>> \in Place /\ <<"unread", Root>> \in Place
      /\ Held(<<"worker", w>>) = {} /\ Held(<<"worker", w>>)' = CommandPoints(c)
      /\ Held(<<"unread", Root>>) = Held(<<"unread", Root>>)' \cup CommandPoints(c)
      /\ Held(<<"unread", Root>>)' \cap CommandPoints(c) = {}
  BY <1>5, <1>6, HeldFacts, PlaceFacts
<1>10. Moves(<<"worker", w>>)
  BY <1>8, <1>9 DEF Moves
<1>11. NoError' => NoError
  BY NoErrorBefore DEF Effect
<1> QED
  BY <1>3, <1>5, <1>9, <1>10, <1>11, PointStep

LEMMA GivenTilePoints ==
    ASSUME TypeInv, NodeInv, StageInv, PointInv, NEW w \in Worker, Given(w), GivenTile(w)
    PROVE  PointInv'
<1>1. PICK n \in pnts_to_writing : SendPntsToWrite(n) /\ LeftWith(w, WriteCommand(n))
  BY DEF GivenTile
<1>2. PICK c : c = WriteCommand(n)
  OBVIOUS
<1>3. n \in TaskName /\ n \notin processing_nodes
  BY ClosedApart DEF Closed
<1>4. /\ LeftWith(w, c) /\ c.command = "WRITE_PNTS" /\ CommandPoints(c) = node_store[n]
      /\ Stored(n) = node_store[n]
  BY <1>1, <1>2, <1>3 DEF WriteCommand, CommandPoints, FilePoints, Stored
<1>5. /\ UNCHANGED <<point_cloud_file_parts, node_to_process, processing_nodes, tiles>>
      /\ node_store'[n] = {} /\ \A k \in TaskName : k # n => node_store'[k] = node_store[k]
  BY <1>1, <1>3 DEF Given, SendPntsToWrite, StoreWithout, TypeInv, TilerType
<1>6. GoodJobs(c)'
  BY <1>4 DEF GoodJobs
<1>7. /\ LocalPoints(w)'
      /\ AtWorker(w) = {} /\ AtWorker(w)' = CommandPoints(c)
      /\ \A v \in Worker \ {w} : /\ inbox'[v] = inbox[v] /\ outbox'[v] = outbox[v]
                                 /\ AtWorker(v)' = AtWorker(v)
  BY <1>4, <1>6, GivenLocal
<1>8. /\ Unread' = Unread /\ Stored(n)' = {}
      /\ \A k \in TaskName : /\ Queued(k)' = Queued(k) /\ tiles'[k] = tiles[k]
                             /\ k # n => Stored(k)' = Stored(k)
  BY <1>3, <1>5, SamePlace DEF Stored
<1>9. \A x \in Place : x # <<"stored", n>> /\ x # <<"worker", w>> => Held(x)' = Held(x)
  BY <1>7, <1>8, HeldFacts, PlaceFacts
<1>10. /\ <<"worker", w>> \in Place /\ <<"stored", n>> \in Place
       /\ Held(<<"worker", w>>) = {} /\ Held(<<"worker", w>>)' = node_store[n]
       /\ Held(<<"stored", n>>) = node_store[n] /\ Held(<<"stored", n>>)' = {}
  BY <1>3, <1>4, <1>7, <1>8, HeldFacts, PlaceFacts
<1>11. Moves(<<"worker", w>>)
  BY <1>9, <1>10 DEF Moves
<1>12. NoError' => NoError
  BY NoErrorBefore DEF Effect
<1>13. \A v \in Worker : \A k \in NodesAt(v) : node_store'[k] = node_store[k]
  BY <1>3, <1>5 DEF NodeInv, TypeInv, TilerType
<1> QED
  BY <1>7, <1>10, <1>11, <1>12, <1>13, PointStep

LEMMA GivenNodesPoints ==
    ASSUME TypeInv, NodeInv, PointInv, NEW w \in Worker, Given(w), GivenNodes(w)
    PROVE  PointInv'
<1>1. PICK batch \in SUBSET ReadyNodes :
        SendPointsToProcess(batch) /\ LeftWith(w, ProcessCommand(batch))
  BY DEF GivenNodes
<1>2. PICK c : c = ProcessCommand(batch)
  OBVIOUS
<1>3. batch \subseteq TaskName /\ batch \cap processing_nodes = {}
  BY DEF ReadyNodes, InputNodes
<1>4. /\ LeftWith(w, c) /\ c.command = "PROCESS_JOBS" /\ DOMAIN c.jobs = batch
      /\ \A n \in batch : /\ c.jobs[n].node = node_store[n] /\ UNION c.jobs[n].tasks = Queued(n)
                          /\ Stored(n) = node_store[n]
                          /\ JobPoints(c.jobs[n]) = Stored(n) \cup Queued(n)
  BY <1>1, <1>2, <1>3 DEF ProcessCommand, Queued, Stored, JobPoints
<1>5. /\ UNCHANGED <<point_cloud_file_parts, node_store, tiles>>
      /\ processing_nodes' = processing_nodes \cup batch
      /\ node_to_process' = [n \in TaskName |-> IF n \in batch THEN {} ELSE node_to_process[n]]
  BY <1>1 DEF Given, SendPointsToProcess, countVars
<1>6. Apart
  BY DEF PointInv
<1>7. /\ \A n \in TaskName : Stored(n) \cap Queued(n) = {}
      /\ \A n, k \in TaskName : n # k => (Stored(n) \cup Queued(n)) \cap (Stored(k) \cup Queued(k)) = {}
  <2>1. \A n, k \in TaskName : Stored(n) \cap Queued(k) = {}
    <3> TAKE n, k \in TaskName
    <3>1. <<"stored", n>> # <<"task", k>>
      OBVIOUS
    <3> QED
      BY <1>6, <3>1, HeldFacts, PlaceFacts DEF Apart
  <2>2. \A n, k \in TaskName : n # k => Stored(n) \cap Stored(k) = {}
    <3> TAKE n, k \in TaskName
    <3>1. n # k => <<"stored", n>> # <<"stored", k>>
      OBVIOUS
    <3> QED
      BY <1>6, <3>1, HeldFacts, PlaceFacts DEF Apart
  <2>3. \A n, k \in TaskName : n # k => Queued(n) \cap Queued(k) = {}
    <3> TAKE n, k \in TaskName
    <3>1. n # k => <<"task", n>> # <<"task", k>>
      OBVIOUS
    <3> QED
      BY <1>6, <3>1, HeldFacts, PlaceFacts DEF Apart
  <2> QED
    BY <2>1, <2>2, <2>3
<1>8. GoodJobs(c)'
  <2>1. \A n \in batch : /\ c.jobs[n].node = node_store'[n]
                         /\ c.jobs[n].node \cap (UNION c.jobs[n].tasks) = {}
    BY <1>3, <1>4, <1>5, <1>7
  <2>2. \A n, k \in batch : k # n => JobPoints(c.jobs[n]) \cap JobPoints(c.jobs[k]) = {}
    <3> TAKE n, k \in batch
    <3>1. n \in TaskName /\ k \in TaskName
      BY <1>3
    <3>2. JobPoints(c.jobs[n]) = Stored(n) \cup Queued(n) /\ JobPoints(c.jobs[k]) = Stored(k) \cup Queued(k)
      BY <1>4
    <3> QED
      BY <1>7, <3>1, <3>2
  <2> QED
    BY <1>4, <2>1, <2>2 DEF GoodJobs
<1>9. /\ LocalPoints(w)'
      /\ AtWorker(w) = {} /\ AtWorker(w)' = CommandPoints(c)
      /\ \A v \in Worker \ {w} : /\ inbox'[v] = inbox[v] /\ outbox'[v] = outbox[v]
                                 /\ AtWorker(v)' = AtWorker(v)
  BY <1>4, <1>8, GivenLocal
<1>10. \A p : p \in CommandPoints(c) <=> \E n \in batch : p \in Stored(n) \/ p \in Queued(n)
  BY <1>4 DEF CommandPoints
<1>11. /\ Unread' = Unread
       /\ \A n \in TaskName : /\ tiles'[n] = tiles[n]
                              /\ n \in batch => Queued(n)' = {} /\ Stored(n)' = {}
                              /\ n \notin batch => Queued(n)' = Queued(n) /\ Stored(n)' = Stored(n)
  <2>1. \A n \in batch : Queued(n)' = {} /\ Stored(n)' = {}
    BY <1>3, <1>5 DEF Queued, Stored
  <2>2. \A n \in TaskName \ batch : Queued(n)' = Queued(n) /\ Stored(n)' = Stored(n)
    <3> TAKE n \in TaskName \ batch
    <3>1. node_to_process'[n] = node_to_process[n] /\ (n \in processing_nodes' <=> n \in processing_nodes)
      BY <1>5
    <3> QED
      BY <1>5, <3>1, SamePlace
  <2> QED
    BY <1>5, <2>1, <2>2, SamePlace
<1> DEFINE b == <<"worker", w>>
<1>12. ASSUME NEW x \in Place, x # b
       PROVE  \/ Held(x)' = Held(x)
              \/ \E n \in batch : (x = <<"stored", n>> \/ x = <<"task", n>>) /\ Held(x)' = {}
  <2>1. CASE x = <<"unread", Root>>
    BY <1>11, <2>1, HeldFacts
  <2>2. ASSUME NEW v \in Worker, x = <<"worker", v>>
        PROVE  Held(x)' = Held(x)
    BY <1>9, <1>12, <2>2, HeldFacts
  <2>3. ASSUME NEW n \in TaskName, x = <<"tile", n>>
        PROVE  Held(x)' = Held(x)
    BY <1>11, <2>3, HeldFacts
  <2>4. ASSUME NEW n \in TaskName, x = <<"stored", n>> \/ x = <<"task", n>>
        PROVE  Held(x)' = Held(x) \/ (n \in batch /\ Held(x)' = {})
    BY <1>11, <2>4, HeldFacts
  <2> QED
    BY <2>1, <2>2, <2>3, <2>4, PlaceFacts
<1>13. /\ b \in Place /\ Held(b) = {} /\ Held(b)' = CommandPoints(c)
  BY <1>9, HeldFacts, PlaceFacts
<1>14. ASSUME NEW n \in batch
       PROVE  /\ <<"stored", n>> \in Place /\ <<"task", n>> \in Place
              /\ <<"stored", n>> # b /\ <<"task", n>> # b
              /\ Held(<<"stored", n>>)' = {} /\ Held(<<"task", n>>)' = {}
              /\ Held(<<"stored", n>>) = Stored(n) /\ Held(<<"task", n>>) = Queued(n)
  BY <1>3, <1>11, HeldFacts, PlaceFacts
<1> HIDE DEF b
<1>15. ASSUME NEW p \in CommandPoints(c)
       PROVE  \E a \in Place : p \in Held(a) /\ p \notin Held(a)'
  <2>1. PICK n \in batch : p \in Stored(n) \/ p \in Queued(n)
    BY <1>10
  <2>2. CASE p \in Stored(n)
    BY <1>14, <2>2
  <2>3. CASE p \in Queued(n)
    BY <1>14, <2>3
  <2> QED
    BY <2>1, <2>2, <2>3
<1>16. ASSUME NEW x \in Place, NEW p \in Held(x)
       PROVE  p \in Held(x)' \/ p \in Held(b)'
  <2>1. x # b
    BY <1>13, <1>16
  <2>2. CASE Held(x)' = Held(x)
    BY <1>16, <2>2
  <2>3. ASSUME NEW n \in batch, x = <<"stored", n>> \/ x = <<"task", n>>
        PROVE  p \in Held(b)'
    BY <1>10, <1>13, <1>14, <1>16, <2>3
  <2> QED
    BY <1>12, <2>1, <2>2, <2>3
<1>17. Moves(b)
  <2>1. \A x \in Place : x # b => Held(x)' \subseteq Held(x)
    BY <1>12
  <2>2. \A p \in Held(b)' : \E a \in Place : p \in Held(a) /\ p \notin Held(a)'
    BY <1>13, <1>15
  <2> QED
    BY <1>16, <2>1, <2>2 DEF Moves
<1>18. NoError' => NoError
  BY NoErrorBefore DEF Effect
<1> QED
  BY <1>5, <1>9, <1>13, <1>17, <1>18, PointStep

LEMMA GivenPoints ==
    ASSUME TypeInv, NodeInv, StageInv, PointInv, NEW w \in Worker, Given(w)
    PROVE  PointInv'
BY GivenReadPoints, GivenNodesPoints, GivenTilePoints DEF Given

(* The points of the messages after a worker has sent some that carry      *)
(* points it had in its command.                                           *)
LEMMA SendsPoints ==
    ASSUME TypeInv, NEW w \in Worker, NEW answer, NEW k, NEW last, Sends(w, answer, k, last),
           MessagesApart(w),
           \A j \in 1..k : MessagePoints(answer[j]) \cap OutPoints(w) = {},
           \A i, j \in 1..k : i # j => MessagePoints(answer[i]) \cap MessagePoints(answer[j]) = {}
    PROVE  /\ MessagesApart(w)'
           /\ \A p : p \in OutPoints(w)' <=>
                p \in OutPoints(w) \/ \E j \in 1..k : p \in MessagePoints(answer[j])
<1>1. /\ \A i \in 1..Len(outbox'[w]) :
           \/ i \in 1..Len(outbox[w]) /\ outbox'[w][i] = outbox[w][i]
           \/ \E j \in 1..k : i = Len(outbox[w]) + j /\ outbox'[w][i] = answer[j]
           \/ i = Len(outbox[w]) + k + 1 /\ outbox'[w][i] \in {Idle, Error}
      /\ Len(outbox[w]) \in Nat /\ k \in Nat
      /\ \A m : m \in Sent(w)' <=> \/ m \in Sent(w)
                                   \/ \E j \in 1..k : m = answer[j]
                                   \/ last # <<>> /\ m = last[1]
      /\ last # <<>> => last[1] \in {Idle, Error}
  BY SendsAt
<1> DEFINE L == Len(outbox[w])
<1>2. \A m \in {Idle, Error} : MessagePoints(m) = {}
  BY DEF Idle, Error, MessagePoints
<1>3. ASSUME NEW p
      PROVE  p \in OutPoints(w)' <=>
               p \in OutPoints(w) \/ \E j \in 1..k : p \in MessagePoints(answer[j])
  <2>1. /\ p \in OutPoints(w)' <=> \E m \in Sent(w)' : p \in MessagePoints(m)
        /\ p \in OutPoints(w) <=> \E m \in Sent(w) : p \in MessagePoints(m)
    BY WorkerPoints
  <2>2. p \in OutPoints(w)' => p \in OutPoints(w) \/ \E j \in 1..k : p \in MessagePoints(answer[j])
    BY <1>1, <1>2, <2>1
  <2>3. p \in OutPoints(w) \/ (\E j \in 1..k : p \in MessagePoints(answer[j])) => p \in OutPoints(w)'
    BY <1>1, <2>1
  <2> QED
    BY <2>2, <2>3
<1>4. \A i \in 1..L : MessagePoints(outbox[w][i]) \subseteq OutPoints(w)
  BY DEF OutPoints, Sent
<1>5. \A i, j \in 1..L : i # j => MessagePoints(outbox[w][i]) \cap MessagePoints(outbox[w][j]) = {}
  BY DEF MessagesApart
<1>6. /\ \A i \in 1..Len(outbox'[w]) :
           \/ i \in 1..L /\ outbox'[w][i] = outbox[w][i]
           \/ \E j \in 1..k : i = L + j /\ outbox'[w][i] = answer[j]
           \/ i = L + k + 1 /\ outbox'[w][i] \in {Idle, Error}
      /\ L \in Nat /\ k \in Nat
  BY <1>1
<1> HIDE DEF L
<1>7. ASSUME NEW i \in 1..Len(outbox'[w]), NEW j \in 1..Len(outbox'[w]), i # j
      PROVE  MessagePoints(outbox'[w][i]) \cap MessagePoints(outbox'[w][j]) = {}
  <2>1. PICK x, y : x = outbox'[w][i] /\ y = outbox'[w][j]
    OBVIOUS
  <2>2. /\ \/ i \in 1..L /\ x = outbox[w][i]
           \/ \E a \in 1..k : i = L + a /\ x = answer[a]
           \/ i = L + k + 1 /\ x \in {Idle, Error}
        /\ \/ j \in 1..L /\ y = outbox[w][j]
           \/ \E a \in 1..k : j = L + a /\ y = answer[a]
           \/ j = L + k + 1 /\ y \in {Idle, Error}
    BY <1>6, <2>1
  <2>3. CASE x \in {Idle, Error} \/ y \in {Idle, Error}
    BY <1>2, <2>1, <2>3
  <2>4. CASE i \in 1..L /\ x = outbox[w][i] /\ j \in 1..L /\ y = outbox[w][j]
    BY <1>5, <1>7, <2>1, <2>4
  <2>5. ASSUME NEW a \in 1..k, y = answer[a], i \in 1..L, x = outbox[w][i]
        PROVE  MessagePoints(x) \cap MessagePoints(y) = {}
    BY <1>4, <2>5
  <2>6. ASSUME NEW a \in 1..k, x = answer[a], j \in 1..L, y = outbox[w][j]
        PROVE  MessagePoints(x) \cap MessagePoints(y) = {}
    BY <1>4, <2>6
  <2>7. ASSUME NEW a \in 1..k, NEW b \in 1..k, i = L + a, x = answer[a], j = L + b, y = answer[b]
        PROVE  MessagePoints(x) \cap MessagePoints(y) = {}
    <3>1. a # b
      BY <1>7, <2>7
    <3> QED
      BY <2>7, <3>1
  <2> QED
    BY <2>1, <2>2, <2>3, <2>4, <2>5, <2>6, <2>7
<1>8. MessagesApart(w)'
  BY <1>7 DEF MessagesApart
<1> QED
  BY <1>3, <1>8

(* The points of the channels of a worker that has its command no more, or *)
(* the rest of it.                                                         *)
Gives(w, answer, k) ==
    /\ InPoints(w)' \subseteq InPoints(w)
    /\ \A j \in 1..k : MessagePoints(answer[j]) \subseteq InPoints(w) \ InPoints(w)'
    /\ \A i, j \in 1..k : i # j => MessagePoints(answer[i]) \cap MessagePoints(answer[j]) = {}
    /\ \A j \in 1..k : GoodTotal(answer[j])
    /\ \A c \in Commands(w)' : GoodJobs(c)
Gave(w, answer, k) ==
    /\ LocalPoints(w)'
    /\ AtWorker(w)' \subseteq AtWorker(w)
    /\ \A p : p \in OutPoints(w)' <=>
         p \in OutPoints(w) \/ \E j \in 1..k : p \in MessagePoints(answer[j])

LEMMA ExecutedLocal ==
    ASSUME TypeInv, NEW w \in Worker, NEW answer, NEW k, NEW last, Sends(w, answer, k, last),
           UNCHANGED node_store, LocalPoints(w), Gives(w, answer, k)
    PROVE  Gave(w, answer, k)
<1>1. /\ MessagesApart(w) /\ InPoints(w) \cap OutPoints(w) = {}
      /\ \A m \in Sent(w) : GoodTotal(m)
  BY DEF LocalPoints
<1>2. /\ InPoints(w)' \subseteq InPoints(w)
      /\ \A j \in 1..k : MessagePoints(answer[j]) \subseteq InPoints(w) \ InPoints(w)'
      /\ \A i, j \in 1..k : i # j => MessagePoints(answer[i]) \cap MessagePoints(answer[j]) = {}
      /\ \A j \in 1..k : GoodTotal(answer[j])
      /\ \A c \in Commands(w)' : GoodJobs(c)
  BY DEF Gives
<1>3. \A j \in 1..k : MessagePoints(answer[j]) \cap OutPoints(w) = {}
  BY <1>2, <1>1
<1>4. /\ MessagesApart(w)'
      /\ \A p : p \in OutPoints(w)' <=>
           p \in OutPoints(w) \/ \E j \in 1..k : p \in MessagePoints(answer[j])
  BY <1>2, <1>1, <1>3, SendsPoints
<1>5. ASSUME NEW p \in OutPoints(w)'
      PROVE  p \notin InPoints(w)' /\ (p \in OutPoints(w) \/ p \in InPoints(w))
  BY <1>2, <1>1, <1>4
<1>6. InPoints(w)' \cap OutPoints(w)' = {} /\ AtWorker(w)' \subseteq AtWorker(w)
  BY <1>2, <1>5 DEF AtWorker
<1>7. ASSUME NEW m \in Sent(w)'
      PROVE  GoodTotal(m)'
  <2>1. /\ \A x : x \in Sent(w)' <=> \/ x \in Sent(w)
                                     \/ \E j \in 1..k : x = answer[j]
                                     \/ last # <<>> /\ x = last[1]
        /\ last # <<>> => last[1] \in {Idle, Error}
    BY SendsAt
  <2>2. m \in Sent(w) \/ (\E j \in 1..k : m = answer[j]) \/ m \in {Idle, Error}
    BY <2>1
  <2>3. \A x \in {Idle, Error} : GoodTotal(x)
    BY DEF Idle, Error, GoodTotal
  <2>4. GoodTotal(m)
    BY <1>2, <1>1, <2>2, <2>3
  <2> QED
    BY <2>4 DEF GoodTotal
<1>8. \A c \in Commands(w)' : GoodJobs(c)'
  BY <1>2 DEF GoodJobs
<1>9. LocalPoints(w)'
  BY <1>4, <1>6, <1>7, <1>8 DEF LocalPoints
<1> QED
  BY <1>4, <1>6, <1>9 DEF Gave

LEMMA ExecutedReadPoints ==
    ASSUME TypeInv, CountInv, NodeInv, PointInv, NEW w \in Worker, NEW c \in WorkCommand,
           inbox[w] = <<c>>, UNCHANGED stateVars, ExecutedRead(w, c), NoError' => NoError
    PROVE  PointInv'
<1>1. PICK k \in Nat, last \in {<<Idle>>, <<Error>>} : Sends(w, ReadMessages(c.portion), k, last)
  BY DEF ExecutedRead
<1>2. PICK answer : answer = ReadMessages(c.portion)
  OBVIOUS
<1>3. /\ Commands(w) = {c} /\ c \in Command /\ c.command = "READ_FILE"
      /\ c.portion \in 1..Len(Portions)
      /\ CommandPoints(c) = PointsOf(Portions[c.portion])
  BY EmptyChannels, CommandFields DEF Command, ExecutedRead, CommandPoints, FilePoints
<1>4. PICK i \in 1..Len(Portions) : i = c.portion
  BY <1>3
<1>5. outbox[w] = <<>>
  BY <1>3 DEF CountInv, Grammar
<1>6. /\ InPoints(w) = PointsOf(Portions[i]) /\ OutPoints(w) = {} /\ InPoints(w)' = {}
      /\ Commands(w)' = {}
      /\ \A v \in Worker \ {w} : inbox'[v] = inbox[v]
  <2>1. Commands(w)' = {} /\ \A v \in Worker \ {w} : inbox'[v] = inbox[v]
    BY EndedCommand DEF ExecutedRead
  <2>2. Sent(w) = {}
    BY <1>5, EmptyChannels
  <2> QED
    BY <1>3, <1>4, <2>1, <2>2 DEF InPoints, OutPoints
<1>7. /\ Len(answer) \in Nat \ {0} /\ answer[Len(answer)] = [type |-> "READ"]
      /\ \A j \in 1..(Len(answer) - 1) :
           /\ answer[j] = NewTask(Root, Portions[i][j])
           /\ Portions[i][j] \subseteq PointsOf(Portions[i])
           /\ \A l \in 1..(Len(answer) - 1) : l # j => Portions[i][j] \cap Portions[i][l] = {}
      /\ \A p \in PointsOf(Portions[i]) : \E j \in 1..(Len(answer) - 1) : p \in Portions[i][j]
  BY <1>2, <1>4, ReadAnswer
<1>8. /\ k \in 0..Len(answer) /\ (NoError' => k = Len(answer))
      /\ \A v \in Worker \ {w} : outbox'[v] = outbox[v]
  BY <1>1, <1>2, SendsAt
<1>9. ASSUME NEW j \in 1..Len(answer)
      PROVE  /\ j # Len(answer) => /\ j \in 1..(Len(answer) - 1)
                                   /\ MessagePoints(answer[j]) = Portions[i][j]
             /\ j = Len(answer) => MessagePoints(answer[j]) = {}
             /\ GoodTotal(answer[j])
  <2>1. CASE j = Len(answer)
    BY <1>7, <2>1 DEF MessagePoints, GoodTotal
  <2>2. CASE j # Len(answer)
    <3>1. j \in 1..(Len(answer) - 1)
      BY <1>7, <2>2
    <3>3. answer[j] = NewTask(Root, Portions[i][j])
      BY <1>7, <3>1
    <3>2. answer[j].type = "NEW_TASK" /\ answer[j].points = Portions[i][j]
      BY <3>3 DEF NewTask
    <3> QED
      BY <2>2, <3>1, <3>2 DEF MessagePoints, GoodTotal
  <2> QED
    BY <2>1, <2>2
<1>10. \A j \in 1..k : j \in 1..Len(answer)
  BY <1>7, <1>8
<1>11. \A j \in 1..k : MessagePoints(answer[j]) \subseteq InPoints(w) \ InPoints(w)'
  <2> TAKE j \in 1..k
  <2>1. j \in 1..Len(answer)
    BY <1>10
  <2>2. MessagePoints(answer[j]) \subseteq PointsOf(Portions[i])
    BY <1>7, <1>9, <2>1
  <2> QED
    BY <1>6, <2>2
<1>12. \A a, b \in 1..k : a # b => MessagePoints(answer[a]) \cap MessagePoints(answer[b]) = {}
  BY <1>7, <1>9, <1>10
<1>13. LocalPoints(w) /\ UNCHANGED node_store /\ \A j \in 1..k : GoodTotal(answer[j])
  BY <1>9, <1>10 DEF PointInv, stateVars
<1>14. /\ LocalPoints(w)' /\ AtWorker(w)' \subseteq AtWorker(w)
       /\ \A p : p \in OutPoints(w)' <=>
            p \in OutPoints(w) \/ \E j \in 1..k : p \in MessagePoints(answer[j])
  <2>1. Sends(w, answer, k, last)
    BY <1>1, <1>2
  <2>2. Gives(w, answer, k)
    BY <1>6, <1>11, <1>12, <1>13 DEF Gives
  <2>3. Gave(w, answer, k)
    BY <1>13, <2>1, <2>2, ExecutedLocal
  <2> QED
    BY <2>3 DEF Gave
<1>15. ASSUME NoError', NEW p \in AtWorker(w)
       PROVE  p \in AtWorker(w)'
  <2>1. p \in PointsOf(Portions[i])
    BY <1>6, <1>15 DEF AtWorker
  <2>2. PICK j \in 1..(Len(answer) - 1) : p \in Portions[i][j]
    BY <1>7, <2>1
  <2>3. j \in 1..k /\ j \in 1..Len(answer) /\ j # Len(answer)
    BY <1>7, <1>8, <1>15
  <2>4. p \in MessagePoints(answer[j])
    BY <1>9, <2>2, <2>3
  <2> QED
    BY <1>14, <2>3, <2>4 DEF AtWorker
<1>16. Moves(<<"worker", w>>)
  <2>1. UNCHANGED <<point_cloud_file_parts, node_to_process, processing_nodes, node_store, tiles>>
    BY DEF stateVars, ExecutedRead
  <2> QED
    BY <1>6, <1>8, <1>14, <1>15, <2>1, MovesWithin
<1>17. <<"worker", w>> \in Place
  BY PlaceFacts
<1> QED
  BY <1>6, <1>8, <1>13, <1>14, <1>16, <1>17, PointStep

LEMMA ExecutedWritePoints ==
    ASSUME TypeInv, NodeInv, PointInv, NEW w \in Worker, NEW c \in WorkCommand,
           inbox[w] = <<c>>, UNCHANGED stateVars, ExecutedWrite(w, c), NoError' => NoError
    PROVE  PointInv'
<1>1. PICK answer : answer = <<Written(c)>>
  OBVIOUS
<1>2. Len(answer) = 1 /\ answer[1] = Written(c)
  BY <1>1
<1>3. /\ Commands(w) = {c} /\ c \in Command /\ c.command = "WRITE_PNTS"
      /\ c.name \in TaskName /\ CommandPoints(c) = c.data
  BY EmptyChannels, CommandFields DEF Command, ExecutedWrite, CommandPoints, FilePoints
<1>4. /\ Commands(w)' = {}
      /\ \A v \in Worker \ {w} : inbox'[v] = inbox[v]
      /\ InPoints(w) = c.data /\ InPoints(w)' = {}
  <2>1. Commands(w)' = {} /\ \A v \in Worker \ {w} : inbox'[v] = inbox[v]
    BY EndedCommand DEF ExecutedWrite
  <2> QED
    BY <1>3, <2>1 DEF InPoints
<1>5. LocalPoints(w) /\ UNCHANGED <<node_store, point_cloud_file_parts, node_to_process, processing_nodes>>
  BY DEF PointInv, stateVars
<1>6. ASSUME NEW k \in 0..1, NEW last, Sends(w, answer, k, last)
      PROVE  /\ LocalPoints(w)' /\ OutPoints(w)' = OutPoints(w)
             /\ \A v \in Worker \ {w} : outbox'[v] = outbox[v]
             /\ NoError' => k = 1
  <2>1. \A j \in 1..k : j = 1 /\ answer[j] = Written(c)
    BY <1>2
  <2>2. MessagePoints(Written(c)) = {} /\ GoodTotal(Written(c))
    BY DEF MessagePoints, GoodTotal, Written
  <2>3. /\ \A j \in 1..k : /\ MessagePoints(answer[j]) \subseteq InPoints(w) \ InPoints(w)'
                           /\ GoodTotal(answer[j])
        /\ \A i, j \in 1..k : i # j => MessagePoints(answer[i]) \cap MessagePoints(answer[j]) = {}
        /\ \A j \in 1..k : MessagePoints(answer[j]) = {}
    BY <2>1, <2>2
  <2>4. /\ LocalPoints(w)'
        /\ \A p : p \in OutPoints(w)' <=>
             p \in OutPoints(w) \/ \E j \in 1..k : p \in MessagePoints(answer[j])
    <3>1. Gives(w, answer, k)
      BY <1>4, <2>3 DEF Gives
    <3>2. Gave(w, answer, k)
      BY <1>5, <1>6, <3>1, ExecutedLocal
    <3> QED
      BY <3>2 DEF Gave
  <2>5. OutPoints(w)' = OutPoints(w)
    BY <2>3, <2>4
  <2>6. (\A v \in Worker \ {w} : outbox'[v] = outbox[v]) /\ (NoError' => k = Len(answer))
    BY <1>6, SendsAt
  <2> QED
    BY <1>2, <2>4, <2>5, <2>6
<1>7. CASE UNCHANGED tiles /\ Sends(w, answer, 0, <<Error>>)
  <2>1. /\ LocalPoints(w)' /\ OutPoints(w)' = OutPoints(w) /\ ~ NoError'
        /\ \A v \in Worker \ {w} : outbox'[v] = outbox[v]
    BY <1>6, <1>7
  <2>2. AtWorker(w)' \subseteq AtWorker(w)
    BY <1>4, <2>1 DEF AtWorker
  <2>3. Moves(<<"worker", w>>)
    BY <1>4, <1>5, <1>7, <2>1, <2>2, MovesWithin
  <2>4. <<"worker", w>> \in Place
    BY PlaceFacts
  <2> QED
    BY <1>4, <1>5, <2>1, <2>3, <2>4, PointStep
<1>8. ASSUME NEW k \in 0..1, NEW last, Sends(w, answer, k, last),
             tiles[c.name] = {}, NEW written \in SUBSET c.data,
             tiles' = [tiles EXCEPT ![c.name] = written], NoError' => written = c.data
      PROVE  PointInv'
  <2>1. /\ LocalPoints(w)' /\ OutPoints(w)' = OutPoints(w)
        /\ \A v \in Worker \ {w} : outbox'[v] = outbox[v]
    BY <1>6, <1>8
  <2>2. /\ AtWorker(w) = AtWorker(w)' \cup c.data
        /\ AtWorker(w)' \cap c.data = {}
    BY <1>4, <1>5, <2>1 DEF AtWorker, LocalPoints
  <2>3. tiles'[c.name] = written /\ \A n \in TaskName : n # c.name => tiles'[n] = tiles[n]
    BY <1>3, <1>8 DEF TypeInv, ChannelType
  <2>4. PICK b : b = <<"tile", c.name>>
    OBVIOUS
  <2>5. /\ Unread' = Unread
        /\ \A n \in TaskName : Queued(n)' = Queued(n) /\ Stored(n)' = Stored(n)
        /\ \A v \in Worker \ {w} : AtWorker(v)' = AtWorker(v)
    BY <1>4, <1>5, <2>1, SamePlace
  <2>6. \A x \in Place : x # b /\ x # <<"worker", w>> => Held(x)' = Held(x)
    BY <2>3, <2>4, <2>5, HeldFacts, PlaceFacts
  <2>7. /\ b \in Place /\ <<"worker", w>> \in Place
        /\ Held(b) = {} /\ Held(b)' = written
        /\ Held(<<"worker", w>>) = Held(<<"worker", w>>)' \cup c.data
        /\ c.data \cap Held(<<"worker", w>>)' = {}
    BY <1>3, <1>8, <2>2, <2>3, <2>4, HeldFacts, PlaceFacts
  <2>8. Moves(b)
    <3>1. NoError' => Held(b)' = c.data
      BY <1>8, <2>7
    <3>2. \A p \in Held(b)' : p \in Held(<<"worker", w>>) /\ p \notin Held(<<"worker", w>>)'
      BY <1>8, <2>7
    <3>3. \A x \in Place : x # b => Held(x)' \subseteq Held(x)
      BY <2>6, <2>7
    <3> QED
      BY <2>6, <2>7, <3>1, <3>2, <3>3 DEF Moves
  <2> QED
    BY <1>4, <1>5, <2>1, <2>7, <2>8, PointStep
<1>9. CASE /\ tiles[c.name] = {} /\ tiles' = [tiles EXCEPT ![c.name] = c.data]
           /\ Sends(w, answer, 1, <<Idle>>)
  <2>1. 1 \in 0..1 /\ c.data \in SUBSET c.data
    OBVIOUS
  <2> QED
    BY <1>8, <1>9, <2>1
<1>10. CASE /\ tiles[c.name] = {}
            /\ \E written \in SUBSET c.data : tiles' = [tiles EXCEPT ![c.name] = written]
            /\ Sends(w, answer, 0, <<Error>>)
  <2>1. ~ NoError'
    BY <1>6, <1>10
  <2>2. PICK written \in SUBSET c.data : tiles' = [tiles EXCEPT ![c.name] = written]
    BY <1>10
  <2>3. 0 \in 0..1
    OBVIOUS
  <2> QED
    BY <1>8, <1>10, <2>1, <2>2, <2>3
<1> QED
  BY <1>1, <1>7, <1>9, <1>10 DEF ExecutedWrite

(* The answer to a job shares out the points of the job, and counts what   *)
(* it adds to the stored node.                                             *)
LEMMA AnswerPoints ==
    ASSUME NEW n \in TaskName, NEW job \in Job, NEW answer, NEW gone \in SUBSET JobPoints(job),
           Len(answer) \in Nat \ {0}, Forwards(answer, n, gone),
           answer[Len(answer)] = ProcessedMessage(n,
             Cardinality(UNION job.tasks) - Cardinality(gone), JobPoints(job) \ gone),
           job.node = node_store[n], job.node \cap (UNION job.tasks) = {}
    PROVE  /\ \A j \in 1..Len(answer) :
                MessagePoints(answer[j]) \subseteq JobPoints(job) /\ GoodTotal(answer[j])
           /\ \A i, j \in 1..Len(answer) :
                i # j => MessagePoints(answer[i]) \cap MessagePoints(answer[j]) = {}
           /\ \A p \in JobPoints(job) : \E j \in 1..Len(answer) : p \in MessagePoints(answer[j])
<1>1. /\ \A k \in 1..(Len(answer) - 1) :
           /\ answer[k].type = "NEW_TASK" /\ answer[k].points \subseteq gone
           /\ \A l \in 1..(Len(answer) - 1) : l # k => answer[k].points \cap answer[l].points = {}
      /\ \A p \in gone : \E k \in 1..(Len(answer) - 1) : p \in answer[k].points
  BY DEF Forwards
<1>2. \A k \in 1..(Len(answer) - 1) :
        MessagePoints(answer[k]) = answer[k].points /\ GoodTotal(answer[k])
  BY <1>1 DEF MessagePoints, GoodTotal
<1>3. PICK m : m = answer[Len(answer)]
  OBVIOUS
<1>4. /\ m.type = "PROCESSED" /\ m.name = n /\ m.data = JobPoints(job) \ gone
      /\ m.total = Cardinality(UNION job.tasks) - Cardinality(gone)
  BY <1>3 DEF ProcessedMessage
<1>5. MessagePoints(m) = JobPoints(job) \ gone
  BY <1>4 DEF MessagePoints
<1>6. Cardinality(JobPoints(job) \ gone)
        = Cardinality(job.node) + Cardinality(UNION job.tasks) - Cardinality(gone)
  <2>1. /\ job.node \in SUBSET Point /\ (UNION job.tasks) \in SUBSET Point
        /\ JobPoints(job) \in SUBSET Point /\ gone \in SUBSET Point
        /\ JobPoints(job) = job.node \cup (UNION job.tasks)
    BY DEF Job, Chunk, JobPoints
  <2>2. /\ IsFiniteSet(job.node) /\ IsFiniteSet(UNION job.tasks)
        /\ IsFiniteSet(JobPoints(job)) /\ IsFiniteSet(gone)
        /\ Cardinality(job.node) \in Nat /\ Cardinality(UNION job.tasks) \in Nat
        /\ Cardinality(gone) \in Nat /\ Cardinality(JobPoints(job)) \in Nat
    BY <2>1, FinitePoints
  <2>3. Cardinality(JobPoints(job)) = Cardinality(job.node) + Cardinality(UNION job.tasks)
    <3>1. Cardinality(JobPoints(job)) = Cardinality(job.node) + Cardinality(UNION job.tasks)
                                        - Cardinality(job.node \cap (UNION job.tasks))
      BY <2>1, <2>2, FS_Union
    <3>2. Cardinality(job.node \cap (UNION job.tasks)) = 0
      BY FS_EmptySet
    <3> QED
      BY <2>2, <3>1, <3>2
  <2>4. Cardinality(JobPoints(job) \ gone)
          = Cardinality(JobPoints(job)) - Cardinality(JobPoints(job) \cap gone)
    BY <2>2, FS_Difference
  <2>5. JobPoints(job) \cap gone = gone
    OBVIOUS
  <2> QED
    <3>1. \A a, b, x, y, z \in Nat : y = a + b /\ x = y - z => x = a + b - z
      OBVIOUS
    <3>2. Cardinality(JobPoints(job) \ gone) \in Nat
      BY <2>1, FinitePoints
    <3>3. Cardinality(JobPoints(job) \ gone) = Cardinality(JobPoints(job)) - Cardinality(gone)
      BY <2>4, <2>5
    <3> QED
      BY <2>2, <2>3, <3>1, <3>2, <3>3
<1>7. GoodTotal(m)
  <2>1. /\ Cardinality(job.node) \in Nat /\ Cardinality(UNION job.tasks) \in Nat
        /\ Cardinality(gone) \in Nat
    BY FinitePoints DEF Job, Chunk, JobPoints
  <2> QED
    BY <1>4, <1>6, <2>1 DEF GoodTotal
<1>8. \A j \in 1..Len(answer) : j = Len(answer) \/ j \in 1..(Len(answer) - 1)
  OBVIOUS
<1>9. Len(answer) \in 1..Len(answer) /\ \A j \in 1..(Len(answer) - 1) : j \in 1..Len(answer)
  OBVIOUS
<1>10. ASSUME NEW j \in 1..Len(answer)
       PROVE  MessagePoints(answer[j]) \subseteq JobPoints(job) /\ GoodTotal(answer[j])
  <2>1. CASE j = Len(answer)
    BY <1>3, <1>5, <1>7, <2>1
  <2>2. CASE j \in 1..(Len(answer) - 1)
    BY <1>1, <1>2, <2>2
  <2> QED
    BY <1>8, <2>1, <2>2
<1>11. ASSUME NEW i \in 1..Len(answer), NEW j \in 1..Len(answer), i # j
       PROVE  MessagePoints(answer[i]) \cap MessagePoints(answer[j]) = {}
  <2>1. CASE i \in 1..(Len(answer) - 1) /\ j \in 1..(Len(answer) - 1)
    <3>1. answer[i].points \cap answer[j].points = {}
      BY <1>1, <1>11, <2>1
    <3> QED
      BY <1>2, <2>1, <3>1
  <2>2. \A l \in 1..(Len(answer) - 1) : MessagePoints(answer[l]) \cap MessagePoints(m) = {}
    <3> TAKE l \in 1..(Len(answer) - 1)
    <3>1. MessagePoints(answer[l]) \subseteq gone
      BY <1>1, <1>2
    <3> QED
      BY <1>5, <3>1
  <2>3. CASE i = Len(answer) /\ j \in 1..(Len(answer) - 1)
    BY <1>3, <2>2, <2>3
  <2>4. CASE j = Len(answer) /\ i \in 1..(Len(answer) - 1)
    BY <1>3, <2>2, <2>4
  <2> QED
    BY <1>8, <1>11, <2>1, <2>3, <2>4
<1>12. ASSUME NEW p \in JobPoints(job)
       PROVE  \E j \in 1..Len(answer) : p \in MessagePoints(answer[j])
  <2>1. CASE p \in gone
    BY <1>1, <1>2, <1>9, <2>1
  <2>2. CASE p \notin gone
    BY <1>3, <1>5, <1>9, <2>2
  <2> QED
    BY <2>1, <2>2
<1> QED
  BY <1>10, <1>11, <1>12

(* What is left of a command of which node n has been processed.           *)
LEMMA RestPoints ==
    ASSUME TypeInv, NEW w \in Worker, NEW c, NEW n, NEW last,
           inbox[w] = <<c>>, c.command = "PROCESS_JOBS", n \in DOMAIN c.jobs, GoodJobs(c),
           UNCHANGED node_store, Rest(w, c, n, last)
    PROVE  /\ JobPoints(c.jobs[n]) \subseteq InPoints(w)
           /\ InPoints(w)' \subseteq InPoints(w) \ JobPoints(c.jobs[n])
           /\ last # <<Error>> => InPoints(w) \subseteq InPoints(w)' \cup JobPoints(c.jobs[n])
           /\ \A x \in Commands(w)' : GoodJobs(x)
           /\ \A v \in Worker \ {w} : inbox'[v] = inbox[v]
<1>1. Commands(w) = {c}
  BY EmptyChannels
<1>2. InPoints(w) = UNION {JobPoints(c.jobs[k]) : k \in DOMAIN c.jobs}
  BY <1>1 DEF InPoints, CommandPoints
<1>3. /\ JobPoints(c.jobs[n]) \subseteq InPoints(w)
      /\ \A k \in DOMAIN c.jobs : k # n => JobPoints(c.jobs[k]) \cap JobPoints(c.jobs[n]) = {}
  BY <1>2 DEF GoodJobs
<1>4. CASE Ended(w) /\ (last = <<Error>> \/ DOMAIN c.jobs = {n})
  <2>1. Commands(w)' = {} /\ \A v \in Worker \ {w} : inbox'[v] = inbox[v]
    BY <1>4, EndedCommand
  <2>2. InPoints(w)' = {}
    BY <2>1 DEF InPoints
  <2>3. DOMAIN c.jobs = {n} => InPoints(w) \subseteq JobPoints(c.jobs[n])
    BY <1>2
  <2> QED
    BY <1>3, <1>4, <2>1, <2>2, <2>3
<1>5. ASSUME NEW rest \in Command, rest.command = "PROCESS_JOBS",
             DOMAIN rest.jobs = DOMAIN c.jobs \ {n},
             \A i \in DOMAIN rest.jobs : rest.jobs[i] = c.jobs[i],
             LeftWith(w, rest)
      PROVE  /\ InPoints(w)' \subseteq InPoints(w) \ JobPoints(c.jobs[n])
             /\ InPoints(w) \subseteq InPoints(w)' \cup JobPoints(c.jobs[n])
             /\ \A x \in Commands(w)' : GoodJobs(x)
             /\ \A v \in Worker \ {w} : inbox'[v] = inbox[v]
  <2>1. Commands(w)' = {rest} /\ \A v \in Worker \ {w} : inbox'[v] = inbox[v]
    BY <1>5, NewCommand
  <2>2. InPoints(w)' = UNION {JobPoints(rest.jobs[k]) : k \in DOMAIN rest.jobs}
    BY <1>5, <2>1 DEF InPoints, CommandPoints
  <2>3. GoodJobs(rest)
    BY <1>5 DEF GoodJobs
  <2>4. ASSUME NEW p \in InPoints(w)'
        PROVE  p \in InPoints(w) /\ p \notin JobPoints(c.jobs[n])
    <3>1. PICK k \in DOMAIN rest.jobs : p \in JobPoints(rest.jobs[k])
      BY <2>2
    <3>2. k \in DOMAIN c.jobs /\ k # n /\ p \in JobPoints(c.jobs[k])
      BY <1>5, <3>1
    <3> QED
      BY <1>2, <1>3, <3>2
  <2>5. ASSUME NEW p \in InPoints(w), p \notin JobPoints(c.jobs[n])
        PROVE  p \in InPoints(w)'
    <3>1. PICK k \in DOMAIN c.jobs : p \in JobPoints(c.jobs[k])
      BY <1>2
    <3>2. k \in DOMAIN rest.jobs /\ p \in JobPoints(rest.jobs[k])
      BY <1>5, <2>5, <3>1
    <3> QED
      BY <2>2, <3>2
  <2> QED
    BY <2>1, <2>3, <2>4, <2>5
<1>6. CASE \E rest \in Command :
             /\ rest.command = "PROCESS_JOBS"
             /\ DOMAIN rest.jobs = DOMAIN c.jobs \ {n} /\ DOMAIN rest.jobs # {}
             /\ \A i \in DOMAIN rest.jobs : rest.jobs[i] = c.jobs[i]
             /\ LeftWith(w, rest)
             /\ last = <<>>
  <2>1. PICK rest \in Command :
             /\ rest.command = "PROCESS_JOBS"
             /\ DOMAIN rest.jobs = DOMAIN c.jobs \ {n} /\ DOMAIN rest.jobs # {}
             /\ \A i \in DOMAIN rest.jobs : rest.jobs[i] = c.jobs[i]
             /\ LeftWith(w, rest)
             /\ last = <<>>
    BY <1>6
  <2> QED
    BY <1>3, <1>5, <2>1
<1> QED
  BY <1>4, <1>6 DEF Rest

LEMMA ExecutedNodePoints ==
    ASSUME TypeInv, NodeInv, PointInv, NEW w \in Worker, NEW c \in WorkCommand,
           inbox[w] = <<c>>, UNCHANGED stateVars, ExecutedNode(w, c), NoError' => NoError
    PROVE  PointInv'
<1>1. PICK n, answer, gone, k, last : Ran(w, c, n, answer, gone, k, last) /\ Rest(w, c, n, last)
  BY NodeRun
<1>2. PICK job : job = c.jobs[n]
  OBVIOUS
<1>3. /\ c.command = "PROCESS_JOBS" /\ n \in DOMAIN c.jobs /\ n \in TaskName /\ job \in Job
      /\ Sends(w, answer, k, last)
      /\ Len(answer) \in Nat \ {0} /\ k \in 0..Len(answer)
      /\ Forwards(answer, n, gone) /\ gone \in SUBSET JobPoints(job)
      /\ answer[Len(answer)] = ProcessedMessage(n,
            Cardinality(UNION job.tasks) - Cardinality(gone), JobPoints(job) \ gone)
      /\ UNCHANGED tiles
  BY <1>1, <1>2 DEF Ran
<1>4. /\ LocalPoints(w)
      /\ UNCHANGED <<node_store, point_cloud_file_parts, node_to_process, processing_nodes>>
  BY DEF PointInv, stateVars
<1>5. GoodJobs(c)
  BY <1>4, EmptyChannels DEF LocalPoints
<1>6. job.node = node_store[n] /\ job.node \cap (UNION job.tasks) = {}
  BY <1>2, <1>3, <1>5 DEF GoodJobs
<1>7. /\ \A j \in 1..Len(answer) :
           MessagePoints(answer[j]) \subseteq JobPoints(job) /\ GoodTotal(answer[j])
      /\ \A i, j \in 1..Len(answer) :
           i # j => MessagePoints(answer[i]) \cap MessagePoints(answer[j]) = {}
      /\ \A p \in JobPoints(job) : \E j \in 1..Len(answer) : p \in MessagePoints(answer[j])
  BY <1>3, <1>6, AnswerPoints
<1>8. /\ JobPoints(job) \subseteq InPoints(w)
      /\ InPoints(w)' \subseteq InPoints(w) \ JobPoints(job)
      /\ last # <<Error>> => InPoints(w) \subseteq InPoints(w)' \cup JobPoints(job)
      /\ \A x \in Commands(w)' : GoodJobs(x)
      /\ \A v \in Worker \ {w} : inbox'[v] = inbox[v]
  BY <1>1, <1>2, <1>3, <1>4, <1>5, RestPoints
<1>9. \A j \in 1..k : j \in 1..Len(answer)
  BY <1>3
<1>10. Gives(w, answer, k)
  <2>1. /\ \A j \in 1..k : /\ MessagePoints(answer[j]) \subseteq InPoints(w) \ InPoints(w)'
                           /\ GoodTotal(answer[j])
        /\ \A i, j \in 1..k : i # j => MessagePoints(answer[i]) \cap MessagePoints(answer[j]) = {}
    BY <1>7, <1>8, <1>9
  <2> QED
    BY <1>8, <2>1 DEF Gives
<1>11. Gave(w, answer, k)
  BY <1>3, <1>4, <1>10, ExecutedLocal
<1>12. /\ LocalPoints(w)' /\ AtWorker(w)' \subseteq AtWorker(w)
       /\ \A p : p \in OutPoints(w)' <=>
            p \in OutPoints(w) \/ \E j \in 1..k : p \in MessagePoints(answer[j])
  BY <1>11 DEF Gave
<1>13. /\ \A v \in Worker \ {w} : outbox'[v] = outbox[v]
       /\ NoError' => k = Len(answer)
       /\ \A m : m \in Sent(w)' <=> \/ m \in Sent(w)
                                    \/ \E j \in 1..k : m = answer[j]
                                    \/ last # <<>> /\ m = last[1]
  BY <1>3, SendsAt
<1>14. NoError' => last # <<Error>>
  <2>1. CASE last = <<Error>>
    <3>1. Error \in Sent(w)'
      BY <1>13, <2>1
    <3> QED
      BY <3>1 DEF NoError
  <2> QED
    BY <2>1
<1>15. ASSUME NoError', NEW p \in AtWorker(w)
       PROVE  p \in AtWorker(w)'
  <2>1. p \in OutPoints(w) \/ p \in InPoints(w)' \/ p \in JobPoints(job)
    BY <1>8, <1>14, <1>15 DEF AtWorker
  <2>2. CASE p \in JobPoints(job)
    BY <1>7, <1>12, <1>13, <1>15, <2>2 DEF AtWorker
  <2> QED
    BY <1>12, <2>1, <2>2 DEF AtWorker
<1>16. Moves(<<"worker", w>>)
  BY <1>3, <1>4, <1>8, <1>12, <1>13, <1>15, MovesWithin
<1>17. <<"worker", w>> \in Place
  BY PlaceFacts
<1> QED
  BY <1>4, <1>8, <1>12, <1>13, <1>16, <1>17, PointStep

LEMMA InitPoints == Init => PointInv
<1> SUFFICES ASSUME Init PROVE PointInv
  OBVIOUS
<1>1. \A w \in Worker : Commands(w) = {} /\ Sent(w) = {} /\ Len(outbox[w]) = 0
  BY EmptyChannels DEF Init
<1>2. \A w \in Worker : InPoints(w) = {} /\ OutPoints(w) = {} /\ AtWorker(w) = {}
  BY <1>1 DEF InPoints, OutPoints, AtWorker
<1>3. \A w \in Worker : LocalPoints(w)
  BY <1>1, <1>2 DEF LocalPoints, MessagesApart
<1>4. \A n \in TaskName : Queued(n) = {} /\ Stored(n) = {} /\ tiles[n] = {}
  BY DEF Init, TilerInit, Queued, Stored
<1>5. \A x \in Place : x # <<"unread", Root>> => Held(x) = {}
  BY <1>2, <1>4, PlaceFacts, HeldFacts
<1>6. Held(<<"unread", Root>>) = Point
  BY HeldFacts, PortionAssumption DEF Unread, Init, TilerInit
<1>7. Apart /\ Kept
  BY <1>5, <1>6, PlaceFacts DEF Apart, Kept
<1> QED
  BY <1>3, <1>7 DEF PointInv

LEMMA StillPoints == PointInv /\ Still => PointInv'
<1> SUFFICES ASSUME PointInv, Still PROVE PointInv'
  OBVIOUS
<1>1. /\ \A w \in Worker : inbox'[w] = inbox[w] /\ outbox'[w] = outbox[w]
      /\ UNCHANGED <<point_cloud_file_parts, node_to_process, processing_nodes, node_store, tiles>>
  BY DEF Still, stateVars
<1>2. \A w \in Worker : Commands(w)' = Commands(w) /\ Sent(w)' = Sent(w)
  BY <1>1, SameChannels
<1>3. NoError' => NoError
  BY <1>2 DEF NoError
<1>4. /\ Unread' = Unread
      /\ \A n \in TaskName : Queued(n)' = Queued(n) /\ Stored(n)' = Stored(n)
      /\ \A w \in Worker : AtWorker(w)' = AtWorker(w) /\ InPoints(w)' = InPoints(w)
                           /\ OutPoints(w)' = OutPoints(w)
  BY <1>1, SamePlace
<1>5. \A x \in Place : Held(x)' = Held(x)
  BY <1>1, <1>4, HeldFacts, PlaceFacts
<1>6. Apart' /\ (NoError' => Kept')
  BY <1>3, <1>5 DEF PointInv, Apart, Kept, Place
<1>7. ASSUME NEW w \in Worker
      PROVE  LocalPoints(w)'
  <2>1. MessagesApart(w)' /\ InPoints(w)' \cap OutPoints(w)' = {}
    BY <1>1, <1>4 DEF PointInv, LocalPoints, MessagesApart
  <2>2. \A c \in Commands(w)' : GoodJobs(c)'
    BY <1>1, <1>2 DEF PointInv, LocalPoints, GoodJobs
  <2>3. \A m \in Sent(w)' : GoodTotal(m)'
    BY <1>1, <1>2 DEF PointInv, LocalPoints, GoodTotal
  <2> QED
    BY <2>1, <2>2, <2>3 DEF LocalPoints
<1> QED
  BY <1>6, <1>7 DEF PointInv

LEMMA ExecutedPoints ==
    ASSUME TypeInv, CountInv, NodeInv, PointInv, NEW w \in Worker, Executed(w)
    PROVE  PointInv'
<1>1. NoError' => NoError
  BY NoErrorBefore DEF Effect
<1>2. PICK c \in WorkCommand :
        inbox[w] = <<c>> /\ (ExecutedRead(w, c) \/ ExecutedNode(w, c) \/ ExecutedWrite(w, c))
  BY DEF Executed
<1>3. UNCHANGED stateVars
  BY DEF Executed
<1>4. CASE ExecutedRead(w, c)
  BY <1>1, <1>2, <1>3, <1>4, ExecutedReadPoints
<1>5. CASE ExecutedNode(w, c)
  BY <1>1, <1>2, <1>3, <1>5, ExecutedNodePoints
<1>6. CASE ExecutedWrite(w, c)
  BY <1>1, <1>2, <1>3, <1>6, ExecutedWritePoints
<1> QED
  BY <1>2, <1>4, <1>5, <1>6

LEMMA EffectPoints ==
    ASSUME TypeInv, LoopInv, PointInv, NEW w \in Worker, Effect(w)
    PROVE  PointInv'
<1>1. DataInv /\ CountInv /\ NodeInv /\ StageInv /\ NodeInv'
  BY EffectNode DEF LoopInv
<1> QED
  BY <1>1, ReceivedPoints, GivenPoints, StartedPoints, ExecutedPoints DEF Effect

PointsInv == Running => PointInv

LEMMA SpecPoints == Spec => [](SafeInv /\ PointsInv)
<1>1. Init => PointsInv
  BY InitPoints DEF PointsInv
<1>2. SafeInv /\ PointsInv /\ [Next]_vars => PointsInv'
  <2> SUFFICES ASSUME SafeInv, PointsInv, [Next]_vars, Running'
               PROVE  PointInv'
    BY DEF PointsInv
  <2>1. Running /\ (Still \/ \E w \in Worker : Effect(w))
    BY StepEffect DEF SafeInv
  <2>2. TypeInv /\ LoopInv /\ PointInv
    BY <2>1 DEF SafeInv, PointsInv
  <2>3. CASE Still
    BY <2>2, <2>3, StillPoints
  <2>4. CASE \E w \in Worker : Effect(w)
    BY <2>2, <2>4, EffectPoints
  <2> QED
    BY <2>1, <2>3, <2>4
<1> QED
  BY <1>1, <1>2, InitSafe, StepSafe, PTL DEF Spec

-----------------------------------------------------------------------------
(* Each point is at one place.                                             *)

LEMMA PlacesAtFacts ==
    ASSUME NEW w, NEW p, NEW x
    PROVE  x \in PlacesAt(w, p) <=>
             \/ \E i \in 1..Len(inbox[w]) : x = <<"command", w, i>> /\ p \in FilePoints(inbox[w][i])
             \/ \E n \in TaskName : \E c \in Commands(w) :
                  /\ x = <<"job", w, n>> /\ c.command = "PROCESS_JOBS"
                  /\ n \in DOMAIN c.jobs /\ p \in JobPoints(c.jobs[n])
             \/ \E i \in 1..Len(outbox[w]) : x = <<"message", w, i>> /\ p \in MessagePoints(outbox[w][i])
<1> DEFINE A == {i \in 1..Len(inbox[w]) : p \in FilePoints(inbox[w][i])}
           B == {n \in TaskName :
                   \E c \in CommandsOf(w, "PROCESS_JOBS") : n \in DOMAIN c.jobs /\ p \in JobPoints(c.jobs[n])}
           C == {i \in 1..Len(outbox[w]) : p \in MessagePoints(outbox[w][i])}
<1>1. PlacesAt(w, p) = {<<"command", w, i>> : i \in A} \cup {<<"job", w, n>> : n \in B}
                       \cup {<<"message", w, i>> : i \in C}
  BY DEF PlacesAt
<1>2. x \in PlacesAt(w, p) <=> \/ \E i \in A : x = <<"command", w, i>>
                               \/ \E n \in B : x = <<"job", w, n>>
                               \/ \E i \in C : x = <<"message", w, i>>
  <2> HIDE DEF A, B, C
  <2> QED
    BY <1>1
<1>3. (\E n \in B : x = <<"job", w, n>>) <=>
        \E n \in TaskName : \E c \in Commands(w) :
          /\ x = <<"job", w, n>> /\ c.command = "PROCESS_JOBS"
          /\ n \in DOMAIN c.jobs /\ p \in JobPoints(c.jobs[n])
  BY DEF CommandsOf
<1> QED
  BY <1>2, <1>3

LEMMA OnePlaceAt ==
    ASSUME TypeInv, NEW w \in Worker, NEW p, LocalPoints(w), inbox[w] = <<>> \/ \E c : inbox[w] = <<c>>
    PROVE  /\ \A x, y \in PlacesAt(w, p) : x = y
           /\ p \in AtWorker(w) <=> PlacesAt(w, p) # {}
<1>1. /\ \A i \in 1..Len(inbox[w]) : i = 1
      /\ \A c, d \in Commands(w) : c = d
      /\ \A i \in 1..Len(inbox[w]) : inbox[w][i] \in Commands(w)
      /\ \A i \in 1..Len(outbox[w]) : outbox[w][i] \in Sent(w)
  <2>1. /\ \A i \in 1..Len(inbox[w]) : inbox[w][i] \in Commands(w)
        /\ \A i \in 1..Len(outbox[w]) : outbox[w][i] \in Sent(w)
    BY DEF Commands, Sent
  <2>2. CASE inbox[w] = <<>>
    <3>1. Len(inbox[w]) = 0 /\ Commands(w) = {}
      BY <2>2, EmptyChannels
    <3> QED
      BY <2>1, <3>1
  <2>3. ASSUME NEW c, inbox[w] = <<c>>
        PROVE  (\A i \in 1..Len(inbox[w]) : i = 1) /\ \A a, b \in Commands(w) : a = b
    <3>1. Len(inbox[w]) = 1 /\ Commands(w) = {c}
      BY <2>3, EmptyChannels
    <3> QED
      BY <3>1
  <2> QED
    BY <2>1, <2>2, <2>3
<1>2. \A c \in Commands(w) : c.command = "PROCESS_JOBS" =>
        FilePoints(c) = {} /\ CommandPoints(c) = UNION {JobPoints(c.jobs[n]) : n \in DOMAIN c.jobs}
  BY DEF FilePoints, CommandPoints
<1>3. \A c \in Commands(w) : c.command # "PROCESS_JOBS" => CommandPoints(c) = FilePoints(c)
  BY DEF CommandPoints
<1>4. ASSUME NEW i \in 1..Len(inbox[w]), p \in FilePoints(inbox[w][i])
      PROVE  /\ inbox[w][i].command # "PROCESS_JOBS" /\ p \in InPoints(w)
  <2>1. PICK c : c = inbox[w][i]
    OBVIOUS
  <2>2. c \in Commands(w) /\ p \in FilePoints(c)
    BY <1>1, <1>4, <2>1
  <2>3. c.command # "PROCESS_JOBS"
    BY <1>2, <2>2
  <2>4. p \in CommandPoints(c)
    BY <1>3, <2>2, <2>3
  <2> QED
    BY <2>1, <2>2, <2>3, <2>4, WorkerPoints
<1>5. ASSUME NEW c \in Commands(w), c.command = "PROCESS_JOBS", NEW n \in DOMAIN c.jobs,
             p \in JobPoints(c.jobs[n])
      PROVE  p \in InPoints(w)
  BY <1>2, <1>5, WorkerPoints
<1>6. ASSUME NEW i \in 1..Len(outbox[w]), p \in MessagePoints(outbox[w][i])
      PROVE  p \in OutPoints(w)
  BY <1>1, <1>6, WorkerPoints
<1>7. ASSUME NEW x \in PlacesAt(w, p), NEW y \in PlacesAt(w, p)
      PROVE  x = y
  <2> DEFINE InFile(z) == \E i \in 1..Len(inbox[w]) :
                            z = <<"command", w, i>> /\ p \in FilePoints(inbox[w][i])
             InJob(z) == \E n \in TaskName : \E c \in Commands(w) :
                           /\ z = <<"job", w, n>> /\ c.command = "PROCESS_JOBS"
                           /\ n \in DOMAIN c.jobs /\ p \in JobPoints(c.jobs[n])
             InMessage(z) == \E i \in 1..Len(outbox[w]) :
                               z = <<"message", w, i>> /\ p \in MessagePoints(outbox[w][i])
  <2>1. /\ InFile(x) \/ InJob(x) \/ InMessage(x)
        /\ InFile(y) \/ InJob(y) \/ InMessage(y)
    BY PlacesAtFacts
  <2>2. \A z : InFile(z) \/ InJob(z) => p \in InPoints(w)
    BY <1>4, <1>5
  <2>3. \A z : InMessage(z) => p \in OutPoints(w)
    BY <1>6
  <2>4. InPoints(w) \cap OutPoints(w) = {}
    BY DEF LocalPoints
  <2>5. CASE InMessage(x) /\ InMessage(y)
    BY <2>5 DEF LocalPoints, MessagesApart
  <2>6. CASE InFile(x) /\ InFile(y)
    BY <1>1, <2>6
  <2>7. \A z, u : ~ (InFile(z) /\ InJob(u))
    BY <1>1, <1>4
  <2>8. CASE InJob(x) /\ InJob(y)
    <3>1. PICK m \in TaskName, c \in Commands(w) :
            /\ x = <<"job", w, m>> /\ c.command = "PROCESS_JOBS"
            /\ m \in DOMAIN c.jobs /\ p \in JobPoints(c.jobs[m])
      BY <2>8
    <3>2. PICK n \in TaskName, d \in Commands(w) :
            /\ y = <<"job", w, n>> /\ d.command = "PROCESS_JOBS"
            /\ n \in DOMAIN d.jobs /\ p \in JobPoints(d.jobs[n])
      BY <2>8
    <3>3. c = d /\ GoodJobs(c)
      BY <1>1 DEF LocalPoints
    <3>4. m = n
      BY <3>1, <3>2, <3>3 DEF GoodJobs
    <3> QED
      BY <3>1, <3>2, <3>4
  <2> HIDE DEF InFile, InJob, InMessage
  <2> QED
    BY <2>1, <2>2, <2>3, <2>4, <2>5, <2>6, <2>7, <2>8
<1>8. ASSUME p \in AtWorker(w)
      PROVE  \E x : x \in PlacesAt(w, p)
  <2>1. CASE p \in OutPoints(w)
    <3>1. PICK i \in 1..Len(outbox[w]) : p \in MessagePoints(outbox[w][i])
      BY <2>1, WorkerPoints DEF Sent
    <3> QED
      BY <3>1, PlacesAtFacts
  <2>2. CASE p \in InPoints(w)
    <3>1. PICK c \in Commands(w) : p \in CommandPoints(c)
      BY <2>2, WorkerPoints
    <3>2. CASE c.command = "PROCESS_JOBS"
      <4>1. PICK n \in DOMAIN c.jobs : p \in JobPoints(c.jobs[n])
        BY <1>2, <3>1, <3>2
      <4>2. n \in TaskName
        <5>1. c \in Command /\ c.jobs \in Jobs
          BY <3>2, ChannelsTyped, CommandFields
        <5> QED
          BY <5>1 DEF Jobs
      <4> QED
        BY <3>2, <4>1, <4>2, PlacesAtFacts
    <3>3. CASE c.command # "PROCESS_JOBS"
      <4>1. PICK i \in 1..Len(inbox[w]) : c = inbox[w][i]
        BY DEF Commands
      <4>2. p \in FilePoints(inbox[w][i])
        BY <1>3, <3>1, <3>3, <4>1
      <4> QED
        BY <4>2, PlacesAtFacts
    <3> QED
      BY <3>2, <3>3
  <2> QED
    BY <1>8, <2>1, <2>2 DEF AtWorker
<1>9. ASSUME NEW x \in PlacesAt(w, p)
      PROVE  p \in AtWorker(w)
  BY <1>4, <1>5, <1>6, PlacesAtFacts DEF AtWorker
<1> QED
  BY <1>7, <1>8, <1>9

(* The portions share no point.                                            *)
LEMMA PortionsApart ==
    ASSUME NEW i \in 1..Len(Portions), NEW j \in 1..Len(Portions), i # j
    PROVE  PointsOf(Portions[i]) \cap PointsOf(Portions[j]) = {}
<1> SUFFICES ASSUME NEW p \in PointsOf(Portions[i]), p \in PointsOf(Portions[j])
             PROVE  FALSE
  OBVIOUS
<1>1. PICK a \in 1..Len(Portions[i]) : p \in Portions[i][a]
  BY DEF PointsOf, ChunksOf
<1>2. PICK b \in 1..Len(Portions[j]) : p \in Portions[j][b]
  BY DEF PointsOf, ChunksOf
<1>3. <<i, a>> # <<j, b>>
  OBVIOUS
<1> QED
  BY <1>1, <1>2, <1>3, PortionAssumption

(* Where a place of ConvertProperties belongs.                             *)
BelongsTo(x, p, b) ==
    \/ b = <<"unread", Root>> /\ \E i \in 1..Len(Portions) : x = <<"unread", i>> /\ p \in PointsOf(Portions[i])
    \/ b = x /\ b[1] \in {"task", "stored", "tile"}
    \/ \E w \in Worker : b = <<"worker", w>> /\ x \in PlacesAt(w, p)

LEMMA PlacesFacts ==
    ASSUME NEW p, NEW x
    PROVE  x \in Places(p) <=>
             \/ \E i \in 1..point_cloud_file_parts : x = <<"unread", i>> /\ p \in PointsOf(Portions[i])
             \/ \E n \in TaskName : x = <<"task", n>> /\ p \in Queued(n)
             \/ \E n \in TaskName : x = <<"stored", n>> /\ p \in Stored(n)
             \/ \E n \in TaskName : x = <<"tile", n>> /\ p \in tiles[n]
             \/ \E w \in Worker : x \in PlacesAt(w, p)
<1> DEFINE A == {i \in 1..point_cloud_file_parts : p \in PointsOf(Portions[i])}
           B == {n \in TaskName : p \in UNION node_to_process[n]}
           C == {n \in TaskName \ processing_nodes : p \in node_store[n]}
           D == {n \in TaskName : p \in tiles[n]}
<1>1. x \in Places(p) <=> \/ \E i \in A : x = <<"unread", i>>
                          \/ \E n \in B : x = <<"task", n>>
                          \/ \E n \in C : x = <<"stored", n>>
                          \/ \E n \in D : x = <<"tile", n>>
                          \/ \E w \in Worker : x \in PlacesAt(w, p)
  <2>1. Places(p) = {<<"unread", i>> : i \in A} \cup {<<"task", n>> : n \in B}
                    \cup {<<"stored", n>> : n \in C} \cup {<<"tile", n>> : n \in D}
                    \cup UNION {PlacesAt(w, p) : w \in Worker}
    BY DEF Places
  <2> HIDE DEF A, B, C, D
  <2> QED
    BY <2>1
<1>2. (\E n \in C : x = <<"stored", n>>) <=> \E n \in TaskName : x = <<"stored", n>> /\ p \in Stored(n)
  BY DEF Stored
<1>3. (\E n \in B : x = <<"task", n>>) <=> \E n \in TaskName : x = <<"task", n>> /\ p \in Queued(n)
  BY DEF Queued
<1> QED
  BY <1>1, <1>2, <1>3

LEMMA OnePlace ==
    ASSUME TypeInv, PointInv, NoError, NEW p \in Point,
           \A w \in Worker : inbox[w] = <<>> \/ \E c : inbox[w] = <<c>>
    PROVE  \E x : Places(p) = {x}
<1>1. \A w \in Worker : /\ \A x, y \in PlacesAt(w, p) : x = y
                        /\ p \in AtWorker(w) <=> PlacesAt(w, p) # {}
  BY OnePlaceAt DEF PointInv
<1>2. point_cloud_file_parts \in 0..Len(Portions) /\ Len(Portions) \in Nat
  BY ChunkFacts DEF TypeInv, TilerType
<1>3. ASSUME NEW x \in Places(p)
      PROVE  \E b \in Place : p \in Held(b) /\ BelongsTo(x, p, b)
  <2>1. CASE \E i \in 1..point_cloud_file_parts : x = <<"unread", i>> /\ p \in PointsOf(Portions[i])
    <3>1. PICK i \in 1..point_cloud_file_parts : x = <<"unread", i>> /\ p \in PointsOf(Portions[i])
      BY <2>1
    <3>2. i \in 1..Len(Portions) /\ p \in Unread
      BY <1>2, <3>1 DEF Unread
    <3> QED
      BY <3>1, <3>2, PlaceFacts, HeldFacts DEF BelongsTo
  <2>2. ASSUME NEW n \in TaskName, x = <<"task", n>>, p \in Queued(n)
        PROVE  \E b \in Place : p \in Held(b) /\ BelongsTo(x, p, b)
    <3>1. BelongsTo(x, p, x)
      BY <2>2 DEF BelongsTo
    <3> QED
      BY <2>2, <3>1, PlaceFacts, HeldFacts
  <2>3. ASSUME NEW n \in TaskName, x = <<"stored", n>>, p \in Stored(n)
        PROVE  \E b \in Place : p \in Held(b) /\ BelongsTo(x, p, b)
    <3>1. BelongsTo(x, p, x)
      BY <2>3 DEF BelongsTo
    <3> QED
      BY <2>3, <3>1, PlaceFacts, HeldFacts
  <2>4. ASSUME NEW n \in TaskName, x = <<"tile", n>>, p \in tiles[n]
        PROVE  \E b \in Place : p \in Held(b) /\ BelongsTo(x, p, b)
    <3>1. BelongsTo(x, p, x)
      BY <2>4 DEF BelongsTo
    <3> QED
      BY <2>4, <3>1, PlaceFacts, HeldFacts
  <2>5. ASSUME NEW w \in Worker, x \in PlacesAt(w, p)
        PROVE  \E b \in Place : p \in Held(b) /\ BelongsTo(x, p, b)
    <3>1. BelongsTo(x, p, <<"worker", w>>)
      BY <2>5 DEF BelongsTo
    <3>2. p \in AtWorker(w)
      BY <1>1, <2>5
    <3> QED
      BY <3>1, <3>2, PlaceFacts, HeldFacts
  <2> QED
    BY <2>1, <2>2, <2>3, <2>4, <2>5, PlacesFacts
<1>4. ASSUME NEW x, NEW y, NEW b, BelongsTo(x, p, b), BelongsTo(y, p, b)
      PROVE  x = y
  <2>1. CASE b[1] = "unread"
    <3>1. /\ \E i \in 1..Len(Portions) : x = <<"unread", i>> /\ p \in PointsOf(Portions[i])
          /\ \E i \in 1..Len(Portions) : y = <<"unread", i>> /\ p \in PointsOf(Portions[i])
      BY <1>4, <2>1 DEF BelongsTo
    <3> QED
      BY <3>1, PortionsApart
  <2>2. CASE b[1] \in {"task", "stored", "tile"}
    BY <1>4, <2>2 DEF BelongsTo
  <2>3. CASE b[1] = "worker"
    <3>1. /\ \E w \in Worker : b = <<"worker", w>> /\ x \in PlacesAt(w, p)
          /\ \E w \in Worker : b = <<"worker", w>> /\ y \in PlacesAt(w, p)
      BY <1>4, <2>3 DEF BelongsTo
    <3>2. PICK w \in Worker : b = <<"worker", w>> /\ x \in PlacesAt(w, p)
      BY <3>1
    <3>3. PICK v \in Worker : b = <<"worker", v>> /\ y \in PlacesAt(v, p)
      BY <3>1
    <3>4. v = w
      BY <3>2, <3>3
    <3> QED
      BY <1>1, <3>2, <3>3, <3>4
  <2>4. b[1] \in {"unread", "task", "stored", "tile", "worker"}
    BY <1>4 DEF BelongsTo
  <2> QED
    BY <2>1, <2>2, <2>3, <2>4
<1>5. ASSUME NEW x \in Places(p), NEW y \in Places(p)
      PROVE  x = y
  <2>1. PICK b \in Place : p \in Held(b) /\ BelongsTo(x, p, b)
    BY <1>3
  <2>2. PICK d \in Place : p \in Held(d) /\ BelongsTo(y, p, d)
    BY <1>3
  <2>3. b = d
    BY <2>1, <2>2 DEF PointInv, Apart
  <2> QED
    BY <1>4, <2>1, <2>2, <2>3
<1>6. \E x : x \in Places(p)
  <2>1. PICK b \in Place : p \in Held(b)
    BY DEF PointInv, Kept
  <2>2. CASE b = <<"unread", Root>>
    <3>1. PICK i \in 1..point_cloud_file_parts : p \in PointsOf(Portions[i])
      BY <2>1, <2>2, HeldFacts DEF Unread
    <3> QED
      BY <3>1, PlacesFacts
  <2>3. ASSUME NEW w \in Worker, b = <<"worker", w>>
        PROVE  \E x : x \in Places(p)
    <3>1. PICK x : x \in PlacesAt(w, p)
      BY <1>1, <2>1, <2>3, HeldFacts
    <3> QED
      BY <3>1, PlacesFacts
  <2>4. ASSUME NEW n \in TaskName, b = <<"task", n>> \/ b = <<"stored", n>> \/ b = <<"tile", n>>
        PROVE  \E x : x \in Places(p)
    <3>1. b \in Places(p)
      BY <2>1, <2>4, HeldFacts, PlacesFacts
    <3> QED
      BY <3>1
  <2> QED
    BY <2>2, <2>3, <2>4, PlaceFacts
<1> QED
  BY <1>5, <1>6

LEMMA SafeInboxes ==
    ASSUME SafeInv, Running
    PROVE  \A w \in Worker : inbox[w] = <<>> \/ \E c : inbox[w] = <<c>>
<1>1. \A w \in Worker : WorkerState(w)
  BY DEF SafeInv, IdleInv
<1> QED
  BY <1>1 DEF WorkerState, Starting, Registering, Waiting, Busy, Ending

(* While the loop runs and no error is on its way, every point of the      *)
(* input is at exactly one place: no task, stored node, command, message   *)
(* or tile loses or doubles a point, in whatever order the messages of the *)
(* workers are received.                                                   *)
THEOREM ConvertPointsKept == Spec => []PointsKept
<1>1. SafeInv /\ PointsInv => PointsKept
  <2> SUFFICES ASSUME SafeInv, PointsInv, NoError, Running, NEW p \in Point
               PROVE  Cardinality(Places(p)) = 1
    BY DEF PointsKept
  <2>1. TypeInv /\ PointInv
    BY DEF SafeInv, PointsInv
  <2>2. PICK x : Places(p) = {x}
    BY <2>1, SafeInboxes, OnePlace
  <2> QED
    BY <2>2, FS_Singleton
<1> QED
  BY <1>1, SpecPoints, PTL

(* The counters of points.  A sum over the nodes is the number of pairs of *)
(* a node and one of its points, as in SizesOf, and a sum over the workers *)
(* the number of pairs of a worker and a number up to its count.           *)

LEMMA FiniteTaskName == IsFiniteSet(TaskName)
<1>1. ASSUME NEW p \in Point
      PROVE  IsFiniteSet(Prefixes(Path[p]))
  <2>1. Path[p] \in NodeName /\ Len(Path[p]) \in Nat
    BY PathAssumption DEF NodeName
  <2> DEFINE f == [k \in 1..Len(Path[p]) |-> SubSeq(Path[p], 1, k)]
  <2>2. {f[k] : k \in 1..Len(Path[p])} = Prefixes(Path[p])
    BY DEF Prefixes
  <2>3. IsFiniteSet(1..Len(Path[p]))
    BY <2>1, FS_Interval
  <2>4. f \in [1..Len(Path[p]) -> {f[k] : k \in 1..Len(Path[p])}]
    OBVIOUS
  <2> HIDE DEF f
  <2>5. IsFiniteSet({f[k] : k \in 1..Len(Path[p])})
    BY <2>3, <2>4, FiniteImage
  <2> QED
    BY <2>2, <2>5
<1> DEFINE g == [p \in Point |-> Prefixes(Path[p])]
<1>2. {g[p] : p \in Point} = {Prefixes(Path[p]) : p \in Point}
  OBVIOUS
<1>3. g \in [Point -> {g[p] : p \in Point}]
  OBVIOUS
<1> HIDE DEF g
<1>4. IsFiniteSet({g[p] : p \in Point})
  BY <1>3, PathAssumption, FiniteImage
<1>5. IsFiniteSet(UNION {Prefixes(Path[p]) : p \in Point})
  BY <1>1, <1>2, <1>4, FS_UNION
<1> QED
  BY <1>5, FS_AddElement DEF TaskName

Pairs(I, E, content) == {q \in I \X E : q[2] \in content[q[1]]}

LEMMA PairsFinite ==
    ASSUME NEW I, NEW E, IsFiniteSet(I), IsFiniteSet(E), NEW content
    PROVE  IsFiniteSet(Pairs(I, E, content)) /\ Cardinality(Pairs(I, E, content)) \in Nat
<1>1. IsFiniteSet(I \X E)
  BY FS_Product
<1>2. Pairs(I, E, content) \in SUBSET (I \X E)
  BY DEF Pairs
<1>3. IsFiniteSet(Pairs(I, E, content))
  BY <1>1, <1>2, FS_Subset
<1> QED
  BY <1>3, FS_CardinalityType

(* The content of one index changes.                                       *)
LEMMA PairsUpdate ==
    ASSUME NEW I, NEW E, IsFiniteSet(I), IsFiniteSet(E), NEW old, NEW new, NEW n \in I,
           \A i \in I : i # n => new[i] = old[i],
           old[n] \subseteq E, new[n] \subseteq E
    PROVE  /\ Cardinality(old[n]) \in Nat /\ Cardinality(new[n]) \in Nat
           /\ Cardinality(Pairs(I, E, new))
                = Cardinality(Pairs(I, E, old)) - Cardinality(old[n]) + Cardinality(new[n])
<1> DEFINE Others == {q \in I \X E : q[1] # n /\ q[2] \in old[q[1]]}
<1>1. IsFiniteSet(Others) /\ Cardinality(Others) \in Nat
  <2>1. IsFiniteSet(I \X E)
    BY FS_Product
  <2>2. IsFiniteSet(Others)
    BY <2>1, FS_Subset
  <2> QED
    BY <2>2, FS_CardinalityType
<1>2. ASSUME NEW content, content[n] \subseteq E, \A i \in I : i # n => content[i] = old[i]
      PROVE  /\ Cardinality(content[n]) \in Nat
             /\ Cardinality(Pairs(I, E, content)) = Cardinality(Others) + Cardinality(content[n])
  <2> DEFINE Own == {n} \X content[n]
  <2>1. IsFiniteSet(content[n]) /\ Cardinality(content[n]) \in Nat
    BY <1>2, FS_Subset, FS_CardinalityType
  <2>2. IsFiniteSet(Own) /\ Cardinality(Own) = Cardinality(content[n])
    <3>1. IsFiniteSet({n}) /\ Cardinality({n}) = 1
      BY FS_Singleton
    <3>2. IsFiniteSet(Own) /\ Cardinality(Own) = Cardinality({n}) * Cardinality(content[n])
      BY <2>1, <3>1, FS_Product
    <3> QED
      BY <2>1, <3>1, <3>2
  <2>3. Pairs(I, E, content) = Others \cup Own
    <3>1. ASSUME NEW q \in Pairs(I, E, content)
          PROVE  q \in Others \cup Own
      <4>1. q \in I \X E /\ q[2] \in content[q[1]] /\ q[1] \in I /\ q = <<q[1], q[2]>>
        BY DEF Pairs
      <4>2. CASE q[1] = n
        BY <4>1, <4>2
      <4>3. CASE q[1] # n
        BY <1>2, <4>1, <4>3
      <4> QED
        BY <4>2, <4>3
    <3>2. ASSUME NEW q \in Own
          PROVE  q \in Pairs(I, E, content)
      BY <1>2 DEF Pairs
    <3>3. ASSUME NEW q \in Others
          PROVE  q \in Pairs(I, E, content)
      <4>1. q \in I \X E /\ q[1] \in I /\ q[1] # n /\ q[2] \in old[q[1]]
        OBVIOUS
      <4>2. content[q[1]] = old[q[1]]
        BY <1>2, <4>1
      <4> QED
        BY <4>1, <4>2 DEF Pairs
    <3> QED
      BY <3>1, <3>2, <3>3
  <2>4. Others \cap Own = {}
    OBVIOUS
  <2>5. Cardinality(Others \cup Own) = Cardinality(Others) + Cardinality(Own)
    <3> HIDE DEF Others, Own
    <3>1. Cardinality(Others \cup Own)
            = Cardinality(Others) + Cardinality(Own) - Cardinality(Others \cap Own)
      BY <1>1, <2>2, FS_Union
    <3>2. Cardinality(Others \cap Own) = 0
      BY <2>4, FS_EmptySet
    <3> QED
      BY <1>1, <2>1, <2>2, <3>1, <3>2
  <2> QED
    BY <2>1, <2>2, <2>3, <2>5
<1> HIDE DEF Others
<1>3. /\ Cardinality(old[n]) \in Nat
      /\ Cardinality(Pairs(I, E, old)) = Cardinality(Others) + Cardinality(old[n])
  BY <1>2
<1>4. /\ Cardinality(new[n]) \in Nat
      /\ Cardinality(Pairs(I, E, new)) = Cardinality(Others) + Cardinality(new[n])
  BY <1>2
<1> QED
  BY <1>1, <1>3, <1>4

(* Contents that have no point in common count each of their points once.  *)
LEMMA PairsApart ==
    ASSUME NEW I, NEW E, IsFiniteSet(I), IsFiniteSet(E), NEW content,
           \A i \in I : content[i] \subseteq E,
           \A i, j \in I : i # j => content[i] \cap content[j] = {}
    PROVE  Cardinality(Pairs(I, E, content)) = Cardinality(UNION {content[i] : i \in I})
<1> DEFINE P == Pairs(I, E, content)
           U == UNION {content[i] : i \in I}
           f == [q \in P |-> q[2]]
<1>1. IsFiniteSet(P)
  BY PairsFinite
<1>2. \A q \in P : q \in I \X E /\ q[1] \in I /\ q[2] \in content[q[1]] /\ q = <<q[1], q[2]>>
  BY DEF Pairs
<1>3. f \in [P -> U]
  BY <1>2
<1>4. f \in Injection(P, U)
  <2>1. ASSUME NEW q \in P, NEW r \in P, f[q] = f[r]
        PROVE  q = r
    <3>1. q[2] = r[2] /\ q[2] \in content[q[1]] /\ q[2] \in content[r[1]]
      BY <1>2, <2>1
    <3>2. q[1] = r[1]
      BY <1>2, <3>1
    <3> QED
      BY <1>2, <3>1, <3>2
  <2> QED
    BY <1>3, <2>1 DEF Injection, IsInjective
<1>5. f \in Surjection(P, U)
  <2>1. ASSUME NEW u \in U
        PROVE  \E q \in P : f[q] = u
    <3>1. PICK i \in I : u \in content[i]
      OBVIOUS
    <3>2. <<i, u>> \in P
      BY <3>1 DEF Pairs
    <3>3. f[<<i, u>>] = u
      BY <3>2
    <3> QED
      BY <3>2, <3>3
  <2> QED
    BY <1>3, <2>1 DEF Surjection
<1>6. f \in Bijection(P, U)
  BY <1>4, <1>5 DEF Bijection
<1> HIDE DEF P, U, f
<1>7. Cardinality(P) = Cardinality(U)
  BY <1>1, <1>6, FS_Bijection DEF ExistsBijection
<1> QED
  BY <1>7 DEF P, U

(* What is at the workers: the counts on their way to the manager, at most *)
(* one from each worker.                                                   *)
Counts(w) ==
    {i \in 1..Cardinality(Point) : \E m \in Sent(w) : m.type = "PNTS_WRITTEN" /\ i <= m.count}
CountsOf == [w \in Worker |-> Counts(w)]
Announced == Cardinality(Pairs(Worker, 1..Cardinality(Point), CountsOf))

ProgInv ==
    /\ points_in_progress + processed_points = Cardinality(ReadPoints)
    /\ \A w \in Worker : \A m \in Sent(w) :
         m.type = "PNTS_WRITTEN" => m.count \in 0..Cardinality(Point)
    /\ NoError => processed_points = SizesOf(node_store) + SizesOf(AtWriters) + SizesOf(tiles)
    /\ NoError => points_in_pnts + Announced = SizesOf(tiles)

LEMMA SizesPairs == \A content : SizesOf(content) = Cardinality(Pairs(TaskName, Point, content))
BY DEF SizesOf, Pairs

LEMMA SizesType == \A content : SizesOf(content) \in Nat
<1> SUFFICES ASSUME NEW content PROVE SizesOf(content) \in Nat
  OBVIOUS
<1>1. IsFiniteSet(TaskName) /\ IsFiniteSet(Point)
  BY FiniteTaskName, PathAssumption
<1>2. Cardinality(Pairs(TaskName, Point, content)) \in Nat
  BY <1>1, PairsFinite
<1> QED
  BY <1>2, SizesPairs

LEMMA SizesUpdate ==
    ASSUME NEW old, NEW new, NEW n \in TaskName, \A i \in TaskName : i # n => new[i] = old[i],
           old[n] \subseteq Point, new[n] \subseteq Point
    PROVE  /\ Cardinality(old[n]) \in Nat /\ Cardinality(new[n]) \in Nat
           /\ SizesOf(old) \in Nat /\ SizesOf(new) \in Nat
           /\ SizesOf(new) = SizesOf(old) - Cardinality(old[n]) + Cardinality(new[n])
<1>1. IsFiniteSet(TaskName) /\ IsFiniteSet(Point)
  BY FiniteTaskName, PathAssumption
<1>2. /\ Cardinality(old[n]) \in Nat /\ Cardinality(new[n]) \in Nat
      /\ Cardinality(Pairs(TaskName, Point, new))
           = Cardinality(Pairs(TaskName, Point, old)) - Cardinality(old[n]) + Cardinality(new[n])
  BY <1>1, PairsUpdate
<1> QED
  BY <1>2, SizesPairs, SizesType

LEMMA AnnouncedType == Announced \in Nat
<1>1. Cardinality(Point) \in Nat
  BY FinitePoints
<1>2. IsFiniteSet(Worker) /\ IsFiniteSet(1..Cardinality(Point))
  BY <1>1, WorkerAssumption, FS_Interval
<1> QED
  BY <1>2, PairsFinite DEF Announced

(* The counts that come from worker w change.                              *)
LEMMA AnnouncedUpdate ==
    ASSUME NEW w \in Worker, \A v \in Worker : v # w => Counts(v)' = Counts(v)
    PROVE  /\ Cardinality(Counts(w)) \in Nat /\ Cardinality(Counts(w)') \in Nat
           /\ Announced \in Nat /\ Announced' \in Nat
           /\ Announced' = Announced - Cardinality(Counts(w)) + Cardinality(Counts(w)')
<1> DEFINE N == 1..Cardinality(Point)
<1>1. Cardinality(Point) \in Nat
  BY FinitePoints
<1>2. IsFiniteSet(Worker) /\ IsFiniteSet(N)
  BY <1>1, WorkerAssumption, FS_Interval
<1>3. PICK old, new : old = CountsOf /\ new = CountsOf'
  OBVIOUS
<1>4. /\ \A v \in Worker : old[v] = Counts(v) /\ new[v] = Counts(v)'
      /\ Announced = Cardinality(Pairs(Worker, N, old))
      /\ Announced' = Cardinality(Pairs(Worker, N, new))
  BY <1>3 DEF CountsOf, Announced
<1>5. old[w] \subseteq N /\ new[w] \subseteq N /\ \A v \in Worker : v # w => new[v] = old[v]
  BY <1>4 DEF Counts
<1> HIDE DEF N
<1>6. /\ Cardinality(old[w]) \in Nat /\ Cardinality(new[w]) \in Nat
      /\ Cardinality(Pairs(Worker, N, new))
           = Cardinality(Pairs(Worker, N, old)) - Cardinality(old[w]) + Cardinality(new[w])
  BY <1>2, <1>5, PairsUpdate
<1>7. Cardinality(Pairs(Worker, N, old)) \in Nat /\ Cardinality(Pairs(Worker, N, new)) \in Nat
  BY <1>2, PairsFinite
<1> QED
  BY <1>4, <1>6, <1>7

LEMMA WriterFacts ==
    ASSUME NEW n \in TaskName, NEW p
    PROVE  /\ p \in AtWriters[n] <=> \E w \in Worker : \E c \in Commands(w) :
                c.command = "WRITE_PNTS" /\ c.name = n /\ p \in c.data
           /\ p \in AtWriters'[n] <=> \E w \in Worker : \E c \in Commands(w)' :
                c.command = "WRITE_PNTS" /\ c.name = n /\ p \in c.data
<1>1. AtWriters[n] = UNION {UNION {c.data : c \in {c \in CommandsOf(w, "WRITE_PNTS") : c.name = n}} :
                              w \in Worker}
  BY DEF AtWriters
<1>2. AtWriters'[n] = UNION {UNION {c.data : c \in {c \in CommandsOf(w, "WRITE_PNTS")' : c.name = n}} :
                               w \in Worker}
  BY DEF AtWriters
<1>3. \A S, w : UNION {c.data : c \in {c \in {c \in S : c.command = "WRITE_PNTS"} : c.name = n}}
                = UNION {c.data : c \in {c \in S : c.command = "WRITE_PNTS" /\ c.name = n}}
  OBVIOUS
<1>4. p \in AtWriters[n] <=> \E w \in Worker :
        p \in UNION {c.data : c \in {c \in CommandsOf(w, "WRITE_PNTS") : c.name = n}}
  BY <1>1
<1>5. p \in AtWriters'[n] <=> \E w \in Worker :
        p \in UNION {c.data : c \in {c \in CommandsOf(w, "WRITE_PNTS")' : c.name = n}}
  BY <1>2
<1>6. \A S : p \in (UNION {c.data : c \in {c \in {c \in S : c.command = "WRITE_PNTS"} : c.name = n}})
             <=> \E c \in S : c.command = "WRITE_PNTS" /\ c.name = n /\ p \in c.data
  OBVIOUS
<1>7. \A w : /\ CommandsOf(w, "WRITE_PNTS") = {c \in Commands(w) : c.command = "WRITE_PNTS"}
             /\ CommandsOf(w, "WRITE_PNTS")' = {c \in Commands(w)' : c.command = "WRITE_PNTS"}
  BY DEF CommandsOf
<1> QED
  BY <1>4, <1>5, <1>6, <1>7

LEMMA SameWriters ==
    ASSUME \A w \in Worker : \A c : c.command = "WRITE_PNTS" => (c \in Commands(w)' <=> c \in Commands(w))
    PROVE  AtWriters' = AtWriters
<1>1. ASSUME NEW n \in TaskName
      PROVE  AtWriters'[n] = AtWriters[n]
  <2>1. ASSUME NEW p
        PROVE  p \in AtWriters'[n] <=> p \in AtWriters[n]
    BY WriterFacts
  <2> QED
    BY <2>1
<1>2. AtWriters = [n \in TaskName |-> AtWriters[n]] /\ AtWriters' = [n \in TaskName |-> AtWriters'[n]]
  BY DEF AtWriters
<1> QED
  BY <1>1, <1>2

LEMMA SameCounts ==
    ASSUME NEW w, \A m : m.type = "PNTS_WRITTEN" => (m \in Sent(w)' <=> m \in Sent(w))
    PROVE  Counts(w)' = Counts(w)
BY DEF Counts

(* A step that moves no counted point, unless there is an error.           *)
LEMMA ProgSame ==
    ASSUME ProgInv,
           UNCHANGED <<point_cloud_file_parts, points_in_progress, processed_points,
                       points_in_pnts, node_store>>,
           NoError' => /\ NoError /\ tiles' = tiles /\ AtWriters' = AtWriters
                       /\ \A w \in Worker : Counts(w)' = Counts(w),
           \A w \in Worker : \A m \in Sent(w)' :
             m.type = "PNTS_WRITTEN" => m \in Sent(w) \/ m.count \in 0..Cardinality(Point)
    PROVE  ProgInv'
<1>1. ReadPoints' = ReadPoints
  BY DEF ReadPoints
<1>2. NoError' => SizesOf(node_store)' = SizesOf(node_store) /\ SizesOf(AtWriters)' = SizesOf(AtWriters)
                  /\ SizesOf(tiles)' = SizesOf(tiles)
  BY DEF SizesOf
<1>3. NoError' => CountsOf' = CountsOf
  BY DEF CountsOf
<1>4. NoError' => Announced' = Announced
  BY <1>3 DEF Announced
<1>5. \A w \in Worker : \A m \in Sent(w)' :
        m.type = "PNTS_WRITTEN" => m.count \in 0..Cardinality(Point)
  BY DEF ProgInv
<1> QED
  BY <1>1, <1>2, <1>4, <1>5 DEF ProgInv

LEMMA StillProg == ProgInv /\ Still => ProgInv'
<1> SUFFICES ASSUME ProgInv, Still PROVE ProgInv'
  OBVIOUS
<1>1. /\ \A w \in Worker : inbox'[w] = inbox[w] /\ outbox'[w] = outbox[w]
      /\ UNCHANGED <<point_cloud_file_parts, points_in_progress, processed_points,
                     points_in_pnts, node_store, tiles>>
  BY DEF Still, stateVars
<1>2. \A w \in Worker : Commands(w)' = Commands(w) /\ Sent(w)' = Sent(w)
  BY <1>1, SameChannels
<1>3. AtWriters' = AtWriters /\ \A w \in Worker : Counts(w)' = Counts(w)
  BY <1>2, SameWriters, SameCounts
<1>4. NoError' => NoError
  BY <1>2 DEF NoError
<1> QED
  BY <1>1, <1>2, <1>3, <1>4, ProgSame

LEMMA InitProg == Init => ProgInv
<1> SUFFICES ASSUME Init PROVE ProgInv
  OBVIOUS
<1>1. \A w \in Worker : Commands(w) = {} /\ Sent(w) = {}
  BY EmptyChannels DEF Init
<1>2. \A n \in TaskName : AtWriters[n] = {} /\ tiles[n] = {} /\ node_store[n] = {}
  <2>1. \A n \in TaskName : \A p : p \notin AtWriters[n]
    BY <1>1, WriterFacts
  <2> QED
    BY <2>1 DEF Init, TilerInit
<1>3. ASSUME NEW content, \A n \in TaskName : content[n] = {}
      PROVE  SizesOf(content) = 0
  <2>1. {q \in TaskName \X Point : q[2] \in content[q[1]]} = {}
    BY <1>3
  <2> QED
    BY <2>1, FS_EmptySet DEF SizesOf
<1>4. SizesOf(AtWriters) = 0 /\ SizesOf(tiles) = 0 /\ SizesOf(node_store) = 0
  BY <1>2, <1>3
<1>5. Announced = 0
  <2>1. \A w \in Worker : CountsOf[w] = {}
    BY <1>1 DEF CountsOf, Counts
  <2>2. Pairs(Worker, 1..Cardinality(Point), CountsOf) = {}
    BY <2>1 DEF Pairs
  <2> QED
    BY <2>2, FS_EmptySet DEF Announced
<1>6. ReadPoints = {}
  <2>1. point_cloud_file_parts = Len(Portions) /\ Len(Portions) \in Nat
    BY ChunkFacts DEF Init, TilerInit
  <2>2. (point_cloud_file_parts + 1)..Len(Portions) = {}
    BY <2>1
  <2> QED
    BY <2>2 DEF ReadPoints
<1>7. points_in_progress = 0 /\ processed_points = 0 /\ points_in_pnts = 0
  BY DEF Init, TilerInit
<1>8. Cardinality(ReadPoints) = 0
  BY <1>6, FS_EmptySet
<1> QED
  BY <1>1, <1>4, <1>5, <1>7, <1>8 DEF ProgInv

LEMMA StartedProg ==
    ASSUME TypeInv, ProgInv, NEW w \in Worker, Started(w)
    PROVE  ProgInv'
<1>1. /\ Sent(w)' = {Register} /\ Commands(w) = {} /\ Sent(w) = {} /\ Commands(w)' = {}
      /\ \A v \in Worker \ {w} : Sent(v)' = Sent(v) /\ Commands(v)' = Commands(v)
  BY StartedChannels
<1>2. Register.type = "REGISTER"
  BY DEF Register
<1>3. /\ (NoError' => NoError)
      /\ UNCHANGED <<point_cloud_file_parts, points_in_progress, processed_points,
                     points_in_pnts, node_store, tiles>>
  BY NoErrorBefore DEF Effect, Started, stateVars
<1>4. AtWriters' = AtWriters
  BY <1>1, SameWriters
<1>5. \A v \in Worker : \A m : m.type = "PNTS_WRITTEN" => (m \in Sent(v)' <=> m \in Sent(v))
  BY <1>1, <1>2
<1>6. \A v \in Worker : Counts(v)' = Counts(v)
  BY <1>5, SameCounts
<1> QED
  BY <1>3, <1>4, <1>5, <1>6, ProgSame

LEMMA ExecutedProg ==
    ASSUME TypeInv, LoopInv, ProgInv, NEW w \in Worker, Executed(w)
    PROVE  ProgInv'
<1>1. PICK c \in WorkCommand :
        inbox[w] = <<c>> /\ (ExecutedRead(w, c) \/ ExecutedNode(w, c) \/ ExecutedWrite(w, c))
  BY DEF Executed
<1>2. /\ (NoError' => NoError)
      /\ UNCHANGED <<point_cloud_file_parts, points_in_progress, processed_points,
                     points_in_pnts, node_store>>
  BY NoErrorBefore DEF Effect, Executed, stateVars
<1>3. Commands(w) = {c}
  BY <1>1, EmptyChannels
<1>4. ASSUME c.command # "WRITE_PNTS", UNCHANGED tiles,
             \A x : x.command = "WRITE_PNTS" => x \notin Commands(w)',
             \A v \in Worker \ {w} : Commands(v)' = Commands(v),
             NEW answer, NEW k, NEW last, Sends(w, answer, k, last),
             \A j \in 1..k : answer[j].type # "PNTS_WRITTEN"
      PROVE  ProgInv'
  <2>1. /\ \A v \in Worker \ {w} : Sent(v)' = Sent(v)
        /\ \A m : m \in Sent(w)' <=> \/ m \in Sent(w)
                                     \/ \E j \in 1..k : m = answer[j]
                                     \/ last # <<>> /\ m = last[1]
        /\ last # <<>> => last[1] \in {Idle, Error}
    BY <1>4, SendsAt
  <2>2. \A m \in {Idle, Error} : m.type # "PNTS_WRITTEN"
    BY DEF Idle, Error
  <2>3. \A m : m.type = "PNTS_WRITTEN" => (m \in Sent(w)' <=> m \in Sent(w))
    BY <1>4, <2>1, <2>2
  <2>4. AtWriters' = AtWriters
    BY <1>3, <1>4, SameWriters
  <2>5. \A v \in Worker : \A m : m.type = "PNTS_WRITTEN" => (m \in Sent(v)' <=> m \in Sent(v))
    BY <2>1, <2>3
  <2>6. \A v \in Worker : Counts(v)' = Counts(v)
    BY <2>5, SameCounts
  <2> QED
    BY <1>2, <1>4, <2>4, <2>5, <2>6, ProgSame
<1>5. CASE ExecutedRead(w, c)
  <2>1. PICK k \in Nat, last \in {<<Idle>>, <<Error>>} : Sends(w, ReadMessages(c.portion), k, last)
    BY <1>5 DEF ExecutedRead
  <2>2. PICK answer : answer = ReadMessages(c.portion)
    OBVIOUS
  <2>3. c \in Command /\ c.command = "READ_FILE" /\ c.portion \in 1..Len(Portions)
    BY <1>5, CommandFields DEF Command, ExecutedRead
  <2>4. /\ Commands(w)' = {} /\ \A v \in Worker \ {w} : Commands(v)' = Commands(v)
        /\ UNCHANGED tiles
    BY <1>5, EndedCommand DEF ExecutedRead
  <2>5. PICK i \in 1..Len(Portions) : i = c.portion
    BY <2>3
  <2>6. /\ Len(answer) \in Nat \ {0} /\ answer[Len(answer)] = [type |-> "READ"]
        /\ \A j \in 1..(Len(answer) - 1) : answer[j] = NewTask(Root, Portions[i][j])
    BY <2>2, <2>5, ReadAnswer
  <2>7. Sends(w, answer, k, last)
    BY <2>1, <2>2
  <2>8. k \in 0..Len(answer)
    BY <2>7, SendsAt
  <2>9. ASSUME NEW j \in 1..k
        PROVE  answer[j].type # "PNTS_WRITTEN"
    <3>1. CASE j = Len(answer)
      BY <2>6, <3>1
    <3>2. CASE j # Len(answer)
      <4>1. j \in 1..(Len(answer) - 1)
        BY <2>6, <2>8, <3>2
      <4>2. answer[j] = NewTask(Root, Portions[i][j])
        BY <2>6, <4>1
      <4> QED
        BY <4>2 DEF NewTask
    <3> QED
      BY <3>1, <3>2
  <2> QED
    BY <1>4, <2>3, <2>4, <2>7, <2>9
<1>6. CASE ExecutedNode(w, c)
  <2>1. PICK n, answer, gone, k, last : Ran(w, c, n, answer, gone, k, last) /\ Rest(w, c, n, last)
    BY <1>6, NodeRun
  <2>2. Answers(w, c, n, answer, k, last)
    BY <1>1, <2>1, RanFacts DEF LoopInv
  <2>3. /\ c.command = "PROCESS_JOBS" /\ Sends(w, answer, k, last)
        /\ answer[Len(answer)].type = "PROCESSED"
        /\ \A j \in 1..k : j # Len(answer) => answer[j].type = "NEW_TASK"
        /\ UNCHANGED tiles
    BY <2>1, <2>2 DEF Answers, Ran
  <2>4. \A j \in 1..k : answer[j].type # "PNTS_WRITTEN"
    BY <2>3
  <2>5. /\ \A x : x.command = "WRITE_PNTS" => x \notin Commands(w)'
        /\ \A v \in Worker \ {w} : Commands(v)' = Commands(v)
    <3>1. CASE Ended(w)
      BY <3>1, EndedCommand
    <3>2. ASSUME NEW rest, rest.command = "PROCESS_JOBS", LeftWith(w, rest)
          PROVE  /\ \A x : x.command = "WRITE_PNTS" => x \notin Commands(w)'
                 /\ \A v \in Worker \ {w} : Commands(v)' = Commands(v)
      BY <3>2, NewCommand
    <3> QED
      BY <2>1, <3>1, <3>2 DEF Rest
  <2> QED
    BY <1>4, <2>3, <2>4, <2>5
<1>7. CASE ExecutedWrite(w, c)
  <2>1. /\ c \in Command /\ c.command = "WRITE_PNTS" /\ c.name \in TaskName /\ c.data \in SUBSET Point
        /\ Commands(w)' = {} /\ \A v \in Worker \ {w} : Commands(v)' = Commands(v)
    BY <1>7, CommandFields, EndedCommand DEF ExecutedWrite, Command, Chunk
  <2>2. PICK d, n : d = c.data /\ n = c.name
    OBVIOUS
  <2>3. PICK answer : answer = <<Written(c)>>
    OBVIOUS
  <2>4. Len(answer) = 1 /\ answer[1] = Written(c)
    BY <2>3
  <2>5. Written(c).type = "PNTS_WRITTEN" /\ Written(c).count = Cardinality(d)
    BY <2>2 DEF Written
  <2>6. /\ Cardinality(d) \in Nat /\ Cardinality(d) <= Cardinality(Point) /\ Cardinality(Point) \in Nat
        /\ d \subseteq Point /\ n \in TaskName
    BY <2>1, <2>2, FinitePoints, PathAssumption, FS_Subset
  <2>7. ASSUME NEW k \in 0..1, NEW last, Sends(w, answer, k, last)
        PROVE  /\ \A v \in Worker \ {w} : Sent(v)' = Sent(v) /\ Counts(v)' = Counts(v)
               /\ \A v \in Worker : \A m \in Sent(v)' :
                    m.type = "PNTS_WRITTEN" => m \in Sent(v) \/ m.count \in 0..Cardinality(Point)
               /\ NoError' => k = 1
               /\ k = 1 => \A m : m.type = "PNTS_WRITTEN" => (m \in Sent(w)' <=> m \in Sent(w) \/ m = Written(c))
    <3>1. /\ \A v \in Worker \ {w} : Sent(v)' = Sent(v)
          /\ \A m : m \in Sent(w)' <=> \/ m \in Sent(w)
                                       \/ \E j \in 1..k : m = answer[j]
                                       \/ last # <<>> /\ m = last[1]
          /\ last # <<>> => last[1] \in {Idle, Error}
          /\ NoError' => k = 1
      BY <2>4, <2>7, SendsAt
    <3>2. \A m \in {Idle, Error} : m.type # "PNTS_WRITTEN"
      BY DEF Idle, Error
    <3>3. \A j \in 1..k : answer[j] = Written(c)
      BY <2>4
    <3>4. \A m : m.type = "PNTS_WRITTEN" /\ m \in Sent(w)' => m \in Sent(w) \/ m = Written(c)
      BY <3>1, <3>2, <3>3
    <3>5. k = 1 => Written(c) \in Sent(w)'
      BY <3>1, <3>3
    <3>6. \A v \in Worker \ {w} : Counts(v)' = Counts(v)
      BY <3>1, SameCounts
    <3>7. \A m \in Sent(w)' : m.type = "PNTS_WRITTEN" => m \in Sent(w) \/ m.count \in 0..Cardinality(Point)
      BY <2>5, <2>6, <3>4
    <3> QED
      BY <3>1, <3>4, <3>5, <3>6, <3>7
  <2>8. CASE Sends(w, answer, 0, <<Error>>)
    <3>1. /\ ~ NoError'
          /\ \A v \in Worker : \A m \in Sent(v)' :
               m.type = "PNTS_WRITTEN" => m \in Sent(v) \/ m.count \in 0..Cardinality(Point)
      BY <2>7, <2>8
    <3> QED
      BY <1>2, <3>1, ProgSame
  <2>9. CASE /\ tiles[c.name] = {} /\ tiles' = [tiles EXCEPT ![c.name] = c.data]
             /\ Sends(w, answer, 1, <<Idle>>)
    <3>1. /\ tiles[n] = {} /\ tiles'[n] = d /\ \A i \in TaskName : i # n => tiles'[i] = tiles[i]
      BY <2>1, <2>2, <2>9 DEF TypeInv, ChannelType
    <3>2. /\ SizesOf(tiles) \in Nat /\ SizesOf(tiles') \in Nat
          /\ SizesOf(tiles') = SizesOf(tiles) + Cardinality(d)
      <4>1. Cardinality({}) = 0 /\ tiles[n] \subseteq Point /\ tiles'[n] \subseteq Point
        BY <2>6, <3>1, FS_EmptySet
      <4>2. /\ SizesOf(tiles) \in Nat /\ SizesOf(tiles') \in Nat
            /\ SizesOf(tiles') = SizesOf(tiles) - Cardinality(tiles[n]) + Cardinality(tiles'[n])
        BY <2>6, <3>1, <4>1, SizesUpdate
      <4> QED
        BY <2>6, <3>1, <4>1, <4>2
    <3>3. \A v \in Worker \ {w} : n \notin NodesToWriteAt(v)
      <4>1. n \in NodesToWriteAt(w)
        BY <1>3, <2>1, <2>2, WritingFacts
      <4> QED
        BY <4>1 DEF LoopInv, StageInv
    <3>4. AtWriters[n] = d /\ AtWriters'[n] = {} /\ \A i \in TaskName : i # n => AtWriters'[i] = AtWriters[i]
      <4>1. \A v \in Worker \ {w} : \A x \in Commands(v) : ~ (x.command = "WRITE_PNTS" /\ x.name = n)
        BY <3>3, WritingFacts
      <4>2. \A p : p \in AtWriters[n] <=> p \in d
        BY <1>3, <2>1, <2>2, <4>1, WriterFacts
      <4>3. \A p : p \notin AtWriters'[n]
        BY <2>1, <2>6, <4>1, WriterFacts
      <4>4. ASSUME NEW i \in TaskName, i # n
            PROVE  AtWriters'[i] = AtWriters[i]
        <5>1. \A p : p \in AtWriters'[i] <=> p \in AtWriters[i]
          BY <1>3, <2>1, <2>2, <4>4, WriterFacts
        <5> QED
          BY <5>1
      <4> QED
        BY <4>2, <4>3, <4>4
    <3>5. /\ SizesOf(AtWriters) \in Nat /\ SizesOf(AtWriters') \in Nat
          /\ SizesOf(AtWriters') = SizesOf(AtWriters) - Cardinality(d)
      <4>1. PICK old, new : old = AtWriters /\ new = AtWriters'
        OBVIOUS
      <4>2. /\ old[n] = d /\ new[n] = {} /\ \A i \in TaskName : i # n => new[i] = old[i]
            /\ Cardinality({}) = 0
        BY <3>4, <4>1, FS_EmptySet
      <4>3. /\ SizesOf(old) \in Nat /\ SizesOf(new) \in Nat
            /\ SizesOf(new) = SizesOf(old) - Cardinality(old[n]) + Cardinality(new[n])
        BY <2>6, <4>2, SizesUpdate
      <4> QED
        BY <2>6, <4>1, <4>2, <4>3
    <3>6. Counts(w) = {} /\ Counts(w)' = 1..Cardinality(d)
      <4>1. \A m \in Sent(w) : m.type # "PNTS_WRITTEN"
        <5>1. outbox[w] = <<>>
          BY <1>3, <2>1 DEF LoopInv, CountInv, Grammar
        <5> QED
          BY <5>1, EmptyChannels
      <4>2. \A m : m.type = "PNTS_WRITTEN" => (m \in Sent(w)' <=> m = Written(c))
        BY <2>7, <2>9, <4>1
      <4>3. Counts(w) = {}
        BY <4>1 DEF Counts
      <4>4. \A i : i \in Counts(w)' <=> i \in 1..Cardinality(Point) /\ i <= Cardinality(d)
        BY <2>5, <4>2 DEF Counts
      <4>5. \A D, N \in Nat : D <= N =>
              \A i : (i \in 1..N /\ i <= D) <=> i \in 1..D
        OBVIOUS
      <4>6. \A i : i \in Counts(w)' <=> i \in 1..Cardinality(d)
        BY <2>6, <4>4, <4>5
      <4> QED
        BY <4>3, <4>6
    <3>7. Announced \in Nat /\ Announced' = Announced + Cardinality(d)
      <4>1. Cardinality(1..Cardinality(d)) = Cardinality(d) /\ Cardinality({}) = 0
        BY <2>6, FS_Interval, FS_EmptySet
      <4>2. \A v \in Worker : v # w => Counts(v)' = Counts(v)
        BY <2>7, <2>9
      <4>3. /\ Announced \in Nat /\ Announced' \in Nat
            /\ Announced' = Announced - Cardinality(Counts(w)) + Cardinality(Counts(w)')
        BY <4>2, AnnouncedUpdate
      <4> QED
        BY <2>6, <3>6, <4>1, <4>3
    <3>8. /\ \A v \in Worker : \A m \in Sent(v)' :
               m.type = "PNTS_WRITTEN" => m.count \in 0..Cardinality(Point)
      BY <2>7, <2>9 DEF ProgInv
    <3>9. /\ SizesOf(node_store)' = SizesOf(node_store) /\ SizesOf(node_store) \in Nat
          /\ SizesOf(AtWriters)' = SizesOf(AtWriters') /\ SizesOf(tiles)' = SizesOf(tiles')
          /\ ReadPoints' = ReadPoints
      <4>1. SizesOf(node_store)' = SizesOf(node_store) /\ SizesOf(AtWriters)' = SizesOf(AtWriters')
            /\ SizesOf(tiles)' = SizesOf(tiles')
        BY <1>2 DEF SizesOf
      <4>2. ReadPoints' = ReadPoints
        BY <1>2 DEF ReadPoints
      <4> QED
        BY <4>1, <4>2, SizesType
    <3>10. /\ points_in_progress \in Int /\ processed_points \in Int /\ points_in_pnts \in Nat
      BY DEF TypeInv, TilerType
    <3>11. NoError' => /\ processed_points = SizesOf(node_store) + SizesOf(AtWriters) + SizesOf(tiles)
                       /\ points_in_pnts + Announced = SizesOf(tiles)
      BY <1>2 DEF ProgInv
    <3>12. NoError' => /\ processed_points' = (SizesOf(node_store) + SizesOf(AtWriters) + SizesOf(tiles))'
                       /\ (points_in_pnts + Announced)' = SizesOf(tiles)'
      BY <1>2, <2>6, <3>2, <3>5, <3>7, <3>9, <3>10, <3>11
    <3>13. (points_in_progress + processed_points)' = Cardinality(ReadPoints)'
      BY <1>2, <3>9 DEF ProgInv
    <3> QED
      BY <3>8, <3>12, <3>13 DEF ProgInv
  <2> QED
    BY <1>7, <2>3, <2>8, <2>9 DEF ExecutedWrite
<1> QED
  BY <1>1, <1>5, <1>6, <1>7

LEMMA ReceivedProg ==
    ASSUME TypeInv, LoopInv, PointInv, ProgInv, NEW w \in Worker, Received(w)
    PROVE  ProgInv'
<1>0. PICK m : m = Head(outbox[w])
  OBVIOUS
<1>1. /\ m \in Sent(w) /\ m \in Message /\ Handled(m) /\ UNCHANGED tiles
      /\ Sent(w) = {m} \cup Sent(w)'
      /\ \A v \in Worker : Commands(v)' = Commands(v)
      /\ \A v \in Worker \ {w} : Sent(v)' = Sent(v)
      /\ GoodMessage(m) /\ GoodTotal(m)
  BY <1>0, ReceivedChannels DEF Received, LoopInv, DataInv, PointInv, LocalPoints
<1>2. (NoError' => NoError) /\ AtWriters' = AtWriters
  BY <1>1, NoErrorBefore, SameWriters DEF Effect
<1>3. \A v \in Worker : \A x \in Sent(v)' : x \in Sent(v)
  BY <1>1
<1>4. \A v \in Worker \ {w} : Counts(v)' = Counts(v)
  BY <1>1, SameCounts
<1>5. m.type # "PNTS_WRITTEN" => \A v \in Worker : Counts(v)' = Counts(v)
  <2> SUFFICES ASSUME m.type # "PNTS_WRITTEN" PROVE Counts(w)' = Counts(w)
    BY <1>4
  <2>1. \A x : x.type = "PNTS_WRITTEN" => (x \in Sent(w)' <=> x \in Sent(w))
    BY <1>1
  <2> QED
    BY <2>1, SameCounts
<1>6. CASE m.type \notin {"PROCESSED", "PNTS_WRITTEN"}
  <2>1. UNCHANGED <<point_cloud_file_parts, points_in_progress, processed_points,
                    points_in_pnts, node_store>>
    BY <1>1, <1>6 DEF Handled, stateVars, countVars, nodeVars, ReadDone, AddTasksToProcess
  <2> QED
    BY <1>1, <1>2, <1>3, <1>5, <1>6, <2>1, ProgSame
<1>7. \A v \in Worker : \A x \in Sent(v)' : x.type = "PNTS_WRITTEN" => x.count \in 0..Cardinality(Point)
  BY <1>3 DEF ProgInv
<1>8. /\ points_in_progress \in Int /\ processed_points \in Int /\ points_in_pnts \in Nat
      /\ node_store \in [TaskName -> SUBSET Point]
  BY DEF TypeInv, TilerType, Chunk
<1>9. SizesOf(AtWriters)' = SizesOf(AtWriters) /\ SizesOf(tiles)' = SizesOf(tiles)
  BY <1>1, <1>2 DEF SizesOf
<1>10. SizesOf(node_store) \in Nat /\ SizesOf(AtWriters) \in Nat /\ SizesOf(tiles) \in Nat
  BY SizesType
<1>11. CASE m.type = "PROCESSED"
  <2>1. Processed(m.name, m.total, m.data)
    BY <1>1, <1>11 DEF Handled
  <2>2. m.name \in TaskName /\ m.total \in Int /\ m.data \in SUBSET Point
    BY <1>1, <1>11, MessageFields DEF Chunk
  <2>3. PICK n, t, d : n = m.name /\ t = m.total /\ d = m.data
    OBVIOUS
  <2>4. /\ processed_points' = processed_points + t /\ points_in_progress' = points_in_progress - t
        /\ UNCHANGED <<point_cloud_file_parts, points_in_pnts>>
        /\ n # Root => node_store' = [node_store EXCEPT ![n] = d]
        /\ n = Root => node_store' = node_store
    BY <2>1, <2>3 DEF Processed, DispatchProcessedNodes
  <2>5. n \in TaskName /\ t \in Int /\ d \in SUBSET Point
    BY <2>2, <2>3
  <2>6. t = Cardinality(d) - Cardinality(node_store[n])
    BY <1>1, <1>11, <2>3 DEF GoodTotal
  <2>7. node_store'[n] = d /\ \A i \in TaskName : i # n => node_store'[i] = node_store[i]
    <3>1. CASE n = Root
      BY <1>1, <1>11, <2>3, <2>4, <3>1 DEF GoodMessage, LoopInv, DataInv
    <3>2. CASE n # Root
      BY <1>8, <2>4, <2>5, <3>2
    <3> QED
      BY <3>1, <3>2
  <2>8. SizesOf(node_store') = SizesOf(node_store) + t /\ SizesOf(node_store') \in Nat
    <3>1. node_store[n] \subseteq Point /\ node_store'[n] \subseteq Point
      BY <1>8, <2>5, <2>7
    <3>2. /\ Cardinality(node_store[n]) \in Nat /\ Cardinality(node_store'[n]) \in Nat
          /\ SizesOf(node_store') \in Nat
          /\ SizesOf(node_store')
               = SizesOf(node_store) - Cardinality(node_store[n]) + Cardinality(node_store'[n])
      BY <2>5, <2>7, <3>1, SizesUpdate
    <3> QED
      BY <1>10, <2>6, <2>7, <3>2
  <2>9. SizesOf(node_store)' = SizesOf(node_store')
    BY DEF SizesOf
  <2>10. NoError' => processed_points' = (SizesOf(node_store) + SizesOf(AtWriters) + SizesOf(tiles))'
    <3>1. NoError' => processed_points = SizesOf(node_store) + SizesOf(AtWriters) + SizesOf(tiles)
      BY <1>2 DEF ProgInv
    <3> QED
      BY <1>8, <1>9, <1>10, <2>4, <2>5, <2>8, <2>9, <3>1
  <2>11. NoError' => (points_in_pnts + Announced)' = SizesOf(tiles)'
    <3>1. Announced' = Announced
      <4>1. CountsOf' = CountsOf
        BY <1>5, <1>11 DEF CountsOf
      <4> QED
        BY <4>1 DEF Announced
    <3> QED
      BY <1>2, <1>9, <2>4, <3>1 DEF ProgInv
  <2>12. (points_in_progress + processed_points)' = Cardinality(ReadPoints)'
    <3>1. ReadPoints' = ReadPoints
      BY <2>4 DEF ReadPoints
    <3>2. points_in_progress + processed_points = Cardinality(ReadPoints)
      BY DEF ProgInv
    <3> QED
      BY <1>8, <2>4, <2>5, <3>1, <3>2
  <2> QED
    BY <1>7, <2>10, <2>11, <2>12 DEF ProgInv
<1>12. CASE m.type = "PNTS_WRITTEN"
  <2>1. PICK k : k = m.count
    OBVIOUS
  <2>2. /\ points_in_pnts' = points_in_pnts + k
        /\ UNCHANGED <<point_cloud_file_parts, points_in_progress, processed_points, node_store>>
    BY <1>1, <1>12, <2>1 DEF Handled, PntsWritten, nodeVars
  <2>3. k \in 0..Cardinality(Point) /\ Cardinality(Point) \in Nat
    BY <1>1, <1>12, <2>1, FinitePoints DEF ProgInv
  <2>4. \A x \in Sent(w)' : x.type # "PNTS_WRITTEN"
    <3>1. /\ outbox[w][1] = m /\ Len(outbox[w]) \in Nat \ {0} /\ Len(outbox'[w]) = Len(outbox[w]) - 1
          /\ \A i \in 1..Len(outbox'[w]) :
               i + 1 \in 1..Len(outbox[w]) /\ outbox'[w][i] = outbox[w][i + 1]
      BY <1>0, ReceivedChannels
    <3>2. \A i \in 1..Len(outbox[w]) :
            outbox[w][i].type = "PNTS_WRITTEN" => i + 1 = Len(outbox[w])
      BY DEF LoopInv, CountInv, Grammar
    <3>5. 1 \in 1..Len(outbox[w])
      BY <3>1
    <3>6. outbox[w][1].type = "PNTS_WRITTEN"
      BY <1>12, <3>1
    <3>7. 1 + 1 = Len(outbox[w])
      BY <3>2, <3>5, <3>6
    <3>4. ASSUME NEW i \in 1..Len(outbox'[w])
          PROVE  outbox'[w][i].type # "PNTS_WRITTEN"
      <4>1. i + 1 \in 1..Len(outbox[w]) /\ outbox'[w][i] = outbox[w][i + 1] /\ i = 1
        BY <3>1, <3>7
      <4>2. 1 + 1 \in 1..Len(outbox[w]) /\ outbox'[w][i] = outbox[w][1 + 1]
        BY <4>1
      <4>3. (1 + 1) + 1 # Len(outbox[w])
        BY <3>7
      <4> QED
        BY <3>2, <4>2, <4>3
    <3> QED
      BY <3>4 DEF Sent
  <2>5. Counts(w)' = {} /\ Counts(w) = 1..k
    <3>1. \A x : x.type = "PNTS_WRITTEN" => (x \in Sent(w) <=> x = m)
      BY <1>1, <1>12, <2>4
    <3>2. Counts(w)' = {}
      BY <2>4 DEF Counts
    <3>3. \A i : i \in Counts(w) <=> i \in 1..Cardinality(Point) /\ i <= k
      BY <1>12, <2>1, <3>1 DEF Counts
    <3>4. \A N \in Nat : \A D \in 0..N : \A i : (i \in 1..N /\ i <= D) <=> i \in 1..D
      OBVIOUS
    <3>5. \A i : i \in Counts(w) <=> i \in 1..k
      BY <2>3, <3>3, <3>4
    <3> QED
      BY <3>2, <3>5
  <2>6. Announced \in Nat /\ Announced' = Announced - k
    <3>1. Cardinality(1..k) = k /\ Cardinality({}) = 0
      BY <2>3, FS_Interval, FS_EmptySet
    <3>2. \A v \in Worker : v # w => Counts(v)' = Counts(v)
      BY <1>4
    <3>3. /\ Announced \in Nat /\ Announced' \in Nat
          /\ Announced' = Announced - Cardinality(Counts(w)) + Cardinality(Counts(w)')
      BY <3>2, AnnouncedUpdate
    <3> QED
      BY <2>3, <2>5, <3>1, <3>3
  <2>7. NoError' => (points_in_pnts + Announced)' = SizesOf(tiles)'
    <3>1. NoError' => points_in_pnts + Announced = SizesOf(tiles)
      BY <1>2 DEF ProgInv
    <3> QED
      BY <1>8, <1>9, <2>2, <2>3, <2>6, <3>1
  <2>8. NoError' => processed_points' = (SizesOf(node_store) + SizesOf(AtWriters) + SizesOf(tiles))'
    <3>1. SizesOf(node_store)' = SizesOf(node_store)
      BY <2>2 DEF SizesOf
    <3> QED
      BY <1>2, <1>9, <2>2, <3>1 DEF ProgInv
  <2>9. (points_in_progress + processed_points)' = Cardinality(ReadPoints)'
    <3>1. ReadPoints' = ReadPoints
      BY <2>2 DEF ReadPoints
    <3> QED
      BY <2>2, <3>1 DEF ProgInv
  <2> QED
    BY <1>7, <2>7, <2>8, <2>9 DEF ProgInv
<1> QED
  BY <1>6, <1>11, <1>12

(* A portion that is sent to a reader has not been read before.            *)
LEMMA ReadPart ==
    ASSUME TypeInv, point_cloud_file_parts > 0, point_cloud_file_parts' = point_cloud_file_parts - 1
    PROVE  LET part == PointsOf(Portions[point_cloud_file_parts])
           IN  /\ Cardinality(part) \in Nat /\ Cardinality(ReadPoints) \in Nat
               /\ Cardinality(ReadPoints') = Cardinality(ReadPoints) + Cardinality(part)
<1>1. PICK k \in 1..Len(Portions) : k = point_cloud_file_parts
  BY ChunkFacts DEF TypeInv, TilerType
<1>2. Len(Portions) \in Nat
  BY ChunkFacts
<1>3. /\ k..Len(Portions) = ((k + 1)..Len(Portions)) \cup {k}
      /\ \A i \in (k + 1)..Len(Portions) : i \in 1..Len(Portions) /\ i # k
  BY <1>2
<1>4. ReadPoints = UNION {PointsOf(Portions[i]) : i \in (k + 1)..Len(Portions)}
  BY <1>1 DEF ReadPoints
<1>5. ReadPoints' = UNION {PointsOf(Portions[i]) : i \in k..Len(Portions)}
  <2>1. point_cloud_file_parts' + 1 = k
    BY <1>1, <1>2
  <2> QED
    BY <2>1 DEF ReadPoints
<1>6. ReadPoints' = ReadPoints \cup PointsOf(Portions[k])
  BY <1>3, <1>4, <1>5
<1>7. ReadPoints \cap PointsOf(Portions[k]) = {}
  <2>1. ASSUME NEW i \in (k + 1)..Len(Portions)
        PROVE  PointsOf(Portions[i]) \cap PointsOf(Portions[k]) = {}
    BY <1>3, PortionsApart
  <2> QED
    BY <1>4, <2>1
<1>8. \A i \in 1..Len(Portions) : PointsOf(Portions[i]) \in SUBSET Point
  BY PortionAssumption
<1>9. ReadPoints \in SUBSET Point
  BY <1>3, <1>4, <1>8
<1>10. PICK part : part = PointsOf(Portions[k])
  OBVIOUS
<1>11. /\ IsFiniteSet(part) /\ Cardinality(part) \in Nat
       /\ IsFiniteSet(ReadPoints) /\ Cardinality(ReadPoints) \in Nat
  BY <1>8, <1>9, <1>10, FinitePoints
<1>12. Cardinality(ReadPoints \cup part) = Cardinality(ReadPoints) + Cardinality(part)
  <2>1. Cardinality(ReadPoints \cup part)
          = Cardinality(ReadPoints) + Cardinality(part) - Cardinality(ReadPoints \cap part)
    BY <1>11, FS_Union
  <2>2. Cardinality(ReadPoints \cap part) = 0
    BY <1>7, <1>10, FS_EmptySet
  <2> QED
    BY <1>11, <2>1, <2>2
<1> QED
  BY <1>1, <1>6, <1>10, <1>11, <1>12

LEMMA GivenProg ==
    ASSUME TypeInv, LoopInv, ProgInv, NEW w \in Worker, Given(w)
    PROVE  ProgInv'
<1>1. /\ (NoError' => NoError) /\ UNCHANGED tiles
      /\ \A v \in Worker : Sent(v)' = Sent(v) /\ Counts(v)' = Counts(v)
      /\ Commands(w) = {}
  <2>1. outbox' = outbox /\ inbox[w] = <<>> /\ UNCHANGED tiles
    BY DEF Given
  <2>2. \A v \in Worker : Sent(v)' = Sent(v)
    BY <2>1 DEF Sent
  <2> QED
    BY <2>1, <2>2, NoErrorBefore, SameCounts, EmptyChannels DEF Effect
<1>2. \A v \in Worker : \A m \in Sent(v)' : m.type = "PNTS_WRITTEN" => m \in Sent(v)
  BY <1>1
<1>3. Announced' = Announced
  <2>1. CountsOf' = CountsOf
    BY <1>1 DEF CountsOf
  <2> QED
    BY <2>1 DEF Announced
<1>4. \A c : LeftWith(w, c) /\ c.command # "WRITE_PNTS" => AtWriters' = AtWriters
  <2> SUFFICES ASSUME NEW c, LeftWith(w, c), c.command # "WRITE_PNTS" PROVE AtWriters' = AtWriters
    OBVIOUS
  <2>1. Commands(w)' = {c} /\ \A v \in Worker \ {w} : Commands(v)' = Commands(v)
    BY NewCommand
  <2> QED
    BY <1>1, <2>1, SameWriters
<1>5. SizesOf(tiles)' = SizesOf(tiles)
  BY <1>1 DEF SizesOf
<1>6. points_in_progress \in Int /\ processed_points \in Int
  BY DEF TypeInv, TilerType
<1>7. CASE GivenNodes(w)
  <2>1. PICK batch \in SUBSET ReadyNodes :
          SendPointsToProcess(batch) /\ LeftWith(w, ProcessCommand(batch))
    BY <1>7 DEF GivenNodes
  <2>2. ProcessCommand(batch).command # "WRITE_PNTS"
    BY DEF ProcessCommand
  <2>3. AtWriters' = AtWriters
    BY <1>4, <2>1, <2>2
  <2>4. UNCHANGED <<point_cloud_file_parts, points_in_progress, processed_points,
                    points_in_pnts, node_store>>
    BY <2>1 DEF SendPointsToProcess, countVars
  <2> QED
    BY <1>1, <1>2, <2>3, <2>4, ProgSame
<1>8. CASE GivenRead(w)
  <2>1. PICK part : part = PointsOf(Portions[point_cloud_file_parts])
    OBVIOUS
  <2>2. /\ point_cloud_file_parts > 0 /\ point_cloud_file_parts' = point_cloud_file_parts - 1
        /\ points_in_progress' = points_in_progress + Cardinality(part)
        /\ UNCHANGED <<processed_points, points_in_pnts, node_store>>
        /\ LeftWith(w, ReadCommand(point_cloud_file_parts))
    BY <1>8, <2>1 DEF GivenRead, CanRead, CanAddReadingJobs, SendFileToRead, nodeVars
  <2>3. /\ Cardinality(part) \in Nat /\ Cardinality(ReadPoints) \in Nat
        /\ Cardinality(ReadPoints') = Cardinality(ReadPoints) + Cardinality(part)
    BY <2>1, <2>2, ReadPart
  <2>4. AtWriters' = AtWriters
    BY <1>4, <2>2 DEF ReadCommand
  <2>5. SizesOf(AtWriters)' = SizesOf(AtWriters) /\ SizesOf(node_store)' = SizesOf(node_store)
    BY <2>2, <2>4 DEF SizesOf
  <2>6. (points_in_progress + processed_points)' = Cardinality(ReadPoints)'
    <3>1. points_in_progress + processed_points = Cardinality(ReadPoints)
      BY DEF ProgInv
    <3> QED
      BY <1>6, <2>2, <2>3, <3>1
  <2>7. NoError' => /\ processed_points' = (SizesOf(node_store) + SizesOf(AtWriters) + SizesOf(tiles))'
                    /\ (points_in_pnts + Announced)' = SizesOf(tiles)'
    BY <1>1, <1>3, <1>5, <2>2, <2>5 DEF ProgInv
  <2>8. \A v \in Worker : \A m \in Sent(v)' :
          m.type = "PNTS_WRITTEN" => m.count \in 0..Cardinality(Point)
    BY <1>2 DEF ProgInv
  <2> QED
    BY <2>6, <2>7, <2>8 DEF ProgInv
<1>9. CASE GivenTile(w)
  <2>1. PICK n \in pnts_to_writing : SendPntsToWrite(n) /\ LeftWith(w, WriteCommand(n))
    BY <1>9 DEF GivenTile
  <2>2. PICK d : d = node_store[n]
    OBVIOUS
  <2>3. PICK c : c = WriteCommand(n)
    OBVIOUS
  <2>4. /\ c.command = "WRITE_PNTS" /\ c.name = n /\ c.data = d
        /\ Commands(w)' = {c} /\ \A v \in Worker \ {w} : Commands(v)' = Commands(v)
    BY <2>1, <2>2, <2>3, NewCommand DEF WriteCommand
  <2>5. n \in TaskName /\ d \in SUBSET Point /\ node_store \in [TaskName -> SUBSET Point]
    BY <2>2 DEF TypeInv, TilerType, Chunk
  <2>6. /\ UNCHANGED <<point_cloud_file_parts, points_in_progress, processed_points, points_in_pnts>>
        /\ node_store'[n] = {} /\ \A k \in TaskName : k # n => node_store'[k] = node_store[k]
    BY <2>1, <2>5 DEF SendPntsToWrite, StoreWithout
  <2>7. \A v \in Worker : \A x \in Commands(v) : ~ (x.command = "WRITE_PNTS" /\ x.name = n)
    <3>1. n \notin WritingNodes
      BY DEF LoopInv, StageInv
    <3> QED
      BY <3>1, WritingFacts
  <2>8. AtWriters[n] = {} /\ AtWriters'[n] = d /\ \A i \in TaskName : i # n => AtWriters'[i] = AtWriters[i]
    <3>1. \A p : p \notin AtWriters[n]
      BY <2>5, <2>7, WriterFacts
    <3>2. \A p : p \in AtWriters'[n] <=> p \in d
      BY <2>4, <2>5, <2>7, WriterFacts
    <3>3. ASSUME NEW i \in TaskName, i # n
          PROVE  AtWriters'[i] = AtWriters[i]
      <4>1. \A p : p \in AtWriters'[i] <=> p \in AtWriters[i]
        BY <1>1, <2>4, <3>3, WriterFacts
      <4> QED
        BY <4>1
    <3> QED
      BY <3>1, <3>2, <3>3
  <2>9. PICK N, D : N = Cardinality({}) /\ D = Cardinality(d)
    OBVIOUS
  <2>10. N = 0 /\ D \in Nat
    BY <2>5, <2>9, FS_EmptySet, FinitePoints
  <2>11. /\ SizesOf(node_store) \in Nat /\ SizesOf(node_store') \in Nat
         /\ SizesOf(node_store') = SizesOf(node_store) - D
    <3>1. /\ SizesOf(node_store) \in Nat /\ SizesOf(node_store') \in Nat
          /\ SizesOf(node_store')
               = SizesOf(node_store) - Cardinality(node_store[n]) + Cardinality(node_store'[n])
      BY <2>2, <2>5, <2>6, SizesUpdate
    <3> QED
      BY <2>2, <2>6, <2>9, <2>10, <3>1
  <2>12. /\ SizesOf(AtWriters) \in Nat /\ SizesOf(AtWriters') \in Nat
         /\ SizesOf(AtWriters') = SizesOf(AtWriters) + D
    <3>1. PICK old, new : old = AtWriters /\ new = AtWriters'
      OBVIOUS
    <3>2. old[n] = {} /\ new[n] = d /\ \A i \in TaskName : i # n => new[i] = old[i]
      BY <2>8, <3>1
    <3>3. /\ SizesOf(old) \in Nat /\ SizesOf(new) \in Nat
          /\ SizesOf(new) = SizesOf(old) - Cardinality(old[n]) + Cardinality(new[n])
      BY <2>5, <3>2, SizesUpdate
    <3> QED
      BY <2>9, <2>10, <3>1, <3>2, <3>3
  <2>13. /\ SizesOf(node_store)' = SizesOf(node_store') /\ SizesOf(AtWriters)' = SizesOf(AtWriters')
         /\ SizesOf(tiles) \in Nat
    <3>1. SizesOf(node_store)' = SizesOf(node_store') /\ SizesOf(AtWriters)' = SizesOf(AtWriters')
      BY DEF SizesOf
    <3> QED
      BY <3>1, SizesType
  <2>14. NoError' => processed_points' = (SizesOf(node_store) + SizesOf(AtWriters) + SizesOf(tiles))'
    <3>1. NoError' => processed_points = SizesOf(node_store) + SizesOf(AtWriters) + SizesOf(tiles)
      BY <1>1 DEF ProgInv
    <3> QED
      BY <1>5, <1>6, <2>6, <2>10, <2>11, <2>12, <2>13, <3>1
  <2>15. NoError' => (points_in_pnts + Announced)' = SizesOf(tiles)'
    BY <1>1, <1>3, <1>5, <2>6 DEF ProgInv
  <2>16. (points_in_progress + processed_points)' = Cardinality(ReadPoints)'
    <3>1. ReadPoints' = ReadPoints
      BY <2>6 DEF ReadPoints
    <3> QED
      BY <2>6, <3>1 DEF ProgInv
  <2>17. \A v \in Worker : \A m \in Sent(v)' :
          m.type = "PNTS_WRITTEN" => m.count \in 0..Cardinality(Point)
    BY <1>2 DEF ProgInv
  <2> QED
    BY <2>14, <2>15, <2>16, <2>17 DEF ProgInv
<1> QED
  BY <1>7, <1>8, <1>9 DEF Given

CountedInv == Running => ProgInv

LEMMA SpecCounted == Spec => [](SafeInv /\ PointsInv /\ CountedInv)
<1>1. Init => CountedInv
  BY InitProg DEF CountedInv
<1>2. SafeInv /\ PointsInv /\ CountedInv /\ [Next]_vars => CountedInv'
  <2> SUFFICES ASSUME SafeInv, PointsInv, CountedInv, [Next]_vars, Running'
               PROVE  ProgInv'
    BY DEF CountedInv
  <2>1. Running /\ (Still \/ \E w \in Worker : Effect(w))
    BY StepEffect DEF SafeInv
  <2>2. TypeInv /\ LoopInv /\ PointInv /\ ProgInv
    BY <2>1 DEF SafeInv, PointsInv, CountedInv
  <2>3. CASE Still
    BY <2>2, <2>3, StillProg
  <2>4. ASSUME NEW w \in Worker, Effect(w)
        PROVE  ProgInv'
    BY <2>2, <2>4, ReceivedProg, GivenProg, StartedProg, ExecutedProg DEF Effect
  <2> QED
    BY <2>1, <2>3, <2>4
<1> QED
  BY <1>1, <1>2, SpecPoints, PTL DEF Spec

(* While the loop runs and no error is on its way, the two counters that   *)
(* the dispatcher and the progress bar read are exact: processed_points is *)
(* what the stored nodes, the writers and the tiles hold, and with         *)
(* points_in_progress it makes up what has been sent to the readers.       *)
THEOREM ConvertProgressAccounting == Spec => []ProgressAccounting
<1>1. CountedInv => ProgressAccounting
  BY DEF CountedInv, ProgInv, ProgressAccounting
<1> QED
  BY <1>1, SpecCounted, PTL

-----------------------------------------------------------------------------
(* The end of the loop                                                     *)

(* What the tiles, and the stored nodes, hold is what the counters say.    *)
LEMMA SizesApart ==
    ASSUME NEW content, \A n \in TaskName : content[n] \subseteq Point,
           \A i, j \in TaskName : i # j => content[i] \cap content[j] = {}
    PROVE  SizesOf(content) = Cardinality(UNION {content[n] : n \in TaskName})
<1>1. IsFiniteSet(TaskName) /\ IsFiniteSet(Point)
  BY FiniteTaskName, PathAssumption
<1> QED
  BY <1>1, SizesPairs, PairsApart

LEMMA AllIdle ==
    ASSUME TypeInv, LoopInv, PointInv, ProgInv, ~ HasTasks,
           \A w \in Worker : inbox[w] = <<>> /\ outbox[w] = <<>>
    PROVE  /\ point_cloud_file_parts = 0 /\ points_in_progress = 0
           /\ InputNodes = {} /\ processing_nodes = {} /\ pnts_to_writing = {}
           /\ CountIsRight => UNION {tiles[n] : n \in TaskName} = Point
           /\ (\A n \in TaskName : node_store[n] = {}) => CountIsRight
<1>1. \A w \in Worker : Commands(w) = {} /\ Sent(w) = {}
  BY EmptyChannels
<1>2. NoError
  BY <1>1 DEF NoError
<1>3. processing_nodes = {}
  <2>1. processing_nodes \subseteq UNION {NodesAt(w) : w \in Worker}
    BY <1>2 DEF LoopInv, NodeInv
  <2>2. \A w \in Worker : \A n : n \notin NodesAt(w)
    BY <1>1, NodesAtFacts
  <2> QED
    BY <2>1, <2>2
<1>4. InputNodes = {} /\ pnts_to_writing = {} /\ ~ CanAddReadingJobs
  BY <1>3 DEF HasTasks, CanWrite, CanProcess, CanRead, ReadyNodes
<1>5. number_of_reading_jobs = 0
  <2>1. {w \in Worker : Reads(w)} = {}
    BY <1>1, ReadingWriting
  <2> QED
    BY <1>2, <2>1, FS_EmptySet DEF LoopInv, CountInv
<1>6. /\ \A n \in TaskName : Queued(n) = {} /\ Stored(n) = node_store[n]
      /\ \A w \in Worker : AtWorker(w) = {}
  <2>1. \A n \in TaskName : Queued(n) = {}
    BY <1>4 DEF InputNodes, Queued
  <2>2. \A n \in TaskName : Stored(n) = node_store[n]
    BY <1>3 DEF Stored
  <2>3. \A w \in Worker : AtWorker(w) = {}
    BY <1>1 DEF AtWorker, InPoints, OutPoints
  <2> QED
    BY <2>1, <2>2, <2>3
<1>7. \A n \in TaskName : node_store[n] \subseteq Point /\ tiles[n] \subseteq Point
  BY DEF TypeInv, TilerType, ChannelType, Chunk
<1> DEFINE S == UNION {node_store[n] : n \in TaskName}
           T == UNION {tiles[n] : n \in TaskName}
<1>8. /\ \A i, j \in TaskName : i # j => node_store[i] \cap node_store[j] = {}
      /\ \A i, j \in TaskName : i # j => tiles[i] \cap tiles[j] = {}
      /\ \A i, j \in TaskName : node_store[i] \cap tiles[j] = {}
      /\ \A i \in TaskName : node_store[i] \cap Unread = {} /\ tiles[i] \cap Unread = {}
  <2>1. ASSUME NEW x \in Place, NEW y \in Place, x # y
        PROVE  Held(x) \cap Held(y) = {}
    BY <2>1 DEF PointInv, Apart
  <2>2. ASSUME NEW i \in TaskName, NEW j \in TaskName
        PROVE  /\ i # j => node_store[i] \cap node_store[j] = {}
               /\ i # j => tiles[i] \cap tiles[j] = {}
               /\ node_store[i] \cap tiles[j] = {}
               /\ node_store[i] \cap Unread = {} /\ tiles[i] \cap Unread = {}
    <3>1. /\ <<"stored", i>> \in Place /\ <<"stored", j>> \in Place /\ <<"unread", Root>> \in Place
          /\ <<"tile", i>> \in Place /\ <<"tile", j>> \in Place
          /\ Held(<<"stored", i>>) = node_store[i] /\ Held(<<"stored", j>>) = node_store[j]
          /\ Held(<<"tile", i>>) = tiles[i] /\ Held(<<"tile", j>>) = tiles[j]
          /\ Held(<<"unread", Root>>) = Unread
      BY <1>6, PlaceFacts, HeldFacts
    <3>2. i # j => node_store[i] \cap node_store[j] = {}
      BY <2>1, <3>1
    <3>3. i # j => tiles[i] \cap tiles[j] = {}
      BY <2>1, <3>1
    <3>4. node_store[i] \cap tiles[j] = {}
      BY <2>1, <3>1
    <3>5. node_store[i] \cap Unread = {} /\ tiles[i] \cap Unread = {}
      BY <2>1, <3>1
    <3> QED
      BY <3>2, <3>3, <3>4, <3>5
  <2> QED
    BY <2>2
<1>9. \A p \in Point : p \in Unread \/ p \in S \/ p \in T
  <2> SUFFICES ASSUME NEW p \in Point PROVE p \in Unread \/ p \in S \/ p \in T
    OBVIOUS
  <2>1. PICK x \in Place : p \in Held(x)
    BY <1>2 DEF PointInv, Kept
  <2> QED
    BY <1>6, <2>1, PlaceFacts, HeldFacts
<1>10. ReadPoints \subseteq Point /\ Unread \cup ReadPoints = Point /\ Unread \cap ReadPoints = {}
  <2> DEFINE k == point_cloud_file_parts
             L == Len(Portions)
             part(i) == PointsOf(Portions[i])
  <2>1. k \in 0..L /\ L \in Nat
    BY ChunkFacts DEF TypeInv, TilerType
  <2>2. /\ Unread = UNION {part(i) : i \in 1..k} /\ ReadPoints = UNION {part(i) : i \in (k + 1)..L}
        /\ UNION {part(i) : i \in 1..L} = Point
        /\ \A i, j \in 1..L : i # j => part(i) \cap part(j) = {}
    BY PortionAssumption, PortionsApart DEF Unread, ReadPoints
  <2> HIDE DEF k, L, part
  <2>3. /\ \A i \in 1..L : i \in 1..k \/ i \in (k + 1)..L
        /\ \A i \in 1..k : i \in 1..L /\ \A j \in (k + 1)..L : i # j /\ j \in 1..L
        /\ \A j \in (k + 1)..L : j \in 1..L
    BY <2>1
  <2> QED
    BY <2>2, <2>3
<1>11. ReadPoints = S \cup T
  BY <1>7, <1>8, <1>9, <1>10
<1>12. SizesOf(node_store) = Cardinality(S) /\ SizesOf(tiles) = Cardinality(T)
  BY <1>7, <1>8, SizesApart
<1>13. S \subseteq Point /\ T \subseteq Point /\ S \cap T = {}
  BY <1>7, <1>8
<1>14. SizesOf(AtWriters) = 0
  <2>1. \A n \in TaskName : \A p : p \notin AtWriters[n]
    BY <1>1, WriterFacts
  <2>2. {q \in TaskName \X Point : q[2] \in AtWriters[q[1]]} = {}
    BY <2>1
  <2> QED
    BY <2>2, FS_EmptySet DEF SizesOf
<1>15. Announced = 0
  <2>1. \A w \in Worker : CountsOf[w] = {}
    BY <1>1 DEF CountsOf, Counts
  <2>2. Pairs(Worker, 1..Cardinality(Point), CountsOf) = {}
    BY <2>1 DEF Pairs
  <2> QED
    BY <2>2, FS_EmptySet DEF Announced
<1> HIDE DEF S, T
<1>16. /\ IsFiniteSet(S) /\ Cardinality(S) \in Nat /\ IsFiniteSet(T) /\ Cardinality(T) \in Nat
  BY <1>13, FinitePoints
<1>17. Cardinality(ReadPoints) = Cardinality(S) + Cardinality(T)
  <2>1. Cardinality(S \cup T) = Cardinality(S) + Cardinality(T) - Cardinality(S \cap T)
    BY <1>16, FS_Union
  <2>2. Cardinality(S \cap T) = 0
    BY <1>13, FS_EmptySet
  <2> QED
    BY <1>11, <1>16, <2>1, <2>2
<1>18. points_in_progress = 0
  <2>1. /\ points_in_progress + processed_points = Cardinality(ReadPoints)
        /\ processed_points = SizesOf(node_store) + SizesOf(AtWriters) + SizesOf(tiles)
        /\ points_in_progress \in Int /\ processed_points \in Int
    BY <1>2 DEF ProgInv, TypeInv, TilerType
  <2> QED
    BY <1>12, <1>14, <1>16, <1>17, <2>1
<1>19. point_cloud_file_parts = 0
  <2>1. point_cloud_file_parts \in Nat
    BY ChunkFacts DEF TypeInv, TilerType
  <2>2. 0 < MaxPointInProgress /\ 0 < MaxReadingJobs
    BY LimitAssumption
  <2>3. ~ (point_cloud_file_parts > 0)
    BY <1>4, <1>5, <1>18, <2>2 DEF CanAddReadingJobs
  <2> QED
    BY <2>1, <2>3
<1>20. CountIsRight => T = Point
  <2> SUFFICES ASSUME points_in_pnts = Cardinality(Point) PROVE T = Point
    BY DEF CountIsRight
  <2>1. points_in_pnts + Announced = SizesOf(tiles) /\ points_in_pnts \in Nat
    BY <1>2 DEF ProgInv, TypeInv, TilerType
  <2>2. Cardinality(Point) = Cardinality(T)
    BY <1>12, <1>15, <2>1
  <2> QED
    BY <1>13, <2>2, PathAssumption, FS_Subset
<1>21. (\A n \in TaskName : node_store[n] = {}) => CountIsRight
  <2> SUFFICES ASSUME \A n \in TaskName : node_store[n] = {} PROVE points_in_pnts = Cardinality(Point)
    BY DEF CountIsRight
  <2>1. S = {} /\ Unread = {}
    BY <1>19 DEF S, Unread
  <2>2. T = Point
    BY <1>9, <1>13, <2>1
  <2>3. points_in_pnts + Announced = SizesOf(tiles) /\ points_in_pnts \in Nat
    BY <1>2 DEF ProgInv, TypeInv, TilerType
  <2> QED
    BY <1>12, <1>15, <2>2, <2>3
<1> QED
  BY <1>3, <1>4, <1>18, <1>19, <1>20, <1>21 DEF T

(* After the loop has ended by itself there is nothing left but to stop.   *)
Finishing ==
    /\ point_cloud_file_parts = 0 /\ points_in_progress = 0
    /\ InputNodes = {} /\ processing_nodes = {} /\ pnts_to_writing = {}
    /\ \A w \in Worker : /\ worker[w] # "starting"
                         /\ Commands(w) \subseteq {Shutdown} /\ Sent(w) \subseteq {Halted}
EndInv ==
    /\ Running <=> outcome = "running"
    /\ outcome \in {"ok", "bad count"} => Finishing
    /\ outcome = "ok" => UNION {tiles[n] : n \in TaskName} = Point

(* The loop ends when all the workers wait.                                *)
LEMMA LoopEnds ==
    ASSUME SafeInv, PointsInv, CountedInv, EndDispatch, idle_clients = Worker
    PROVE  /\ Finishing
           /\ CountIsRight => UNION {tiles[n] : n \in TaskName} = Point
<1>1. Running
  BY DEF EndDispatch, Running
<1>2. TypeInv /\ LoopInv /\ PointInv /\ ProgInv /\ \A w \in Worker : WorkerState(w)
  BY <1>1 DEF SafeInv, PointsInv, CountedInv, IdleInv
<1>3. ~ HasTasks
  BY WorkerAssumption DEF EndDispatch
<1>4. ASSUME NEW w \in Worker
      PROVE  worker[w] = "running" /\ inbox[w] = <<>> /\ outbox[w] = <<>>
  BY <1>2 DEF WorkerState, Starting, Registering, Waiting, Busy, Ending, Known
<1>5. \A w \in Worker : Commands(w) = {} /\ Sent(w) = {}
  BY <1>4, EmptyChannels
<1>6. \A w \in Worker : worker[w] # "starting"
  BY <1>4
<1>7. /\ point_cloud_file_parts = 0 /\ points_in_progress = 0
      /\ InputNodes = {} /\ processing_nodes = {} /\ pnts_to_writing = {}
      /\ CountIsRight => UNION {tiles[n] : n \in TaskName} = Point
  BY <1>2, <1>3, <1>4, AllIdle
<1> QED
  BY <1>5, <1>6, <1>7 DEF Finishing

(* A worker that has only its shutdown message to take can only halt.      *)
LEMMA FinishingWork ==
    ASSUME TypeInv, Finishing, NEW w \in Worker, Work(w)
    PROVE  Finishing' /\ tiles' = tiles
<1>1. Commands(w) \subseteq {Shutdown} /\ worker[w] # "starting"
  BY DEF Finishing
<1>2. ~ Execute(w)
  <2> SUFFICES ASSUME Execute(w) PROVE FALSE
    OBVIOUS
  <2>1. inbox[w] \in Seq(Command) /\ inbox[w] # <<>> /\ Head(inbox[w]) \in WorkCommand
    BY ExecuteEffect DEF TypeInv
  <2>2. Head(inbox[w]) \in Commands(w)
    BY <2>1, TailFacts DEF Commands
  <2> QED
    BY <1>1, <2>1, <2>2 DEF WorkCommand, Shutdown
<1>3. Halt(w)
  BY <1>1, <1>2 DEF Work, Start, Execute
<1>4. /\ inbox \in [Worker -> Seq(Command)] /\ outbox \in [Worker -> Seq(Message)]
      /\ worker \in [Worker -> {"starting", "running", "halted"}]
  BY DEF TypeInv, ChannelType
<1>5. inbox[w] # <<>> /\ UNCHANGED <<stateVars, tiles>>
  BY <1>3 DEF Halt, Executing
<1>6. /\ outbox'[w] = outbox[w] \o <<Halted>> /\ inbox'[w] = Tail(inbox[w])
      /\ \A v \in Worker \ {w} : outbox'[v] = outbox[v] /\ inbox'[v] = inbox[v]
      /\ \A v \in Worker : worker[v] # "starting" => worker'[v] # "starting"
  BY <1>3, <1>4 DEF Halt, Send, NextCommand
<1>7. Commands(w)' \subseteq Commands(w)
  <2>1. PICK old, new : old = inbox[w] /\ new = inbox'[w]
    OBVIOUS
  <2>2. old \in Seq(Command) /\ old # <<>> /\ new = Tail(old)
    BY <1>4, <1>5, <1>6, <2>1
  <2>3. \A i \in 1..Len(new) : i + 1 \in 1..Len(old) /\ new[i] = old[i + 1]
    BY <2>2, TailFacts
  <2> QED
    BY <2>1, <2>3 DEF Commands
<1>8. Sent(w)' \subseteq Sent(w) \cup {Halted}
  <2>1. /\ Len(outbox[w]) \in Nat /\ Len(outbox'[w]) = Len(outbox[w]) + 1
        /\ \A i \in 1..Len(outbox[w]) : outbox'[w][i] = outbox[w][i]
        /\ outbox'[w][Len(outbox[w]) + 1] = Halted
    BY <1>4, <1>6
  <2> QED
    BY <2>1 DEF Sent
<1>9. \A v \in Worker \ {w} : Commands(v)' = Commands(v) /\ Sent(v)' = Sent(v)
  BY <1>6 DEF Commands, Sent
<1>10. InputNodes' = InputNodes
  BY <1>5 DEF stateVars, InputNodes
<1>11. ASSUME NEW v \in Worker
       PROVE  /\ worker'[v] # "starting"
              /\ Commands(v)' \subseteq {Shutdown} /\ Sent(v)' \subseteq {Halted}
  <2>1. /\ worker[v] # "starting"
        /\ Commands(v) \subseteq {Shutdown} /\ Sent(v) \subseteq {Halted}
    BY DEF Finishing
  <2>2. CASE v = w
    BY <1>6, <1>7, <1>8, <2>1, <2>2
  <2>3. CASE v # w
    BY <1>6, <1>9, <2>1, <2>3
  <2> QED
    BY <2>2, <2>3
<1>12. /\ point_cloud_file_parts' = 0 /\ points_in_progress' = 0
       /\ InputNodes' = {} /\ processing_nodes' = {} /\ pnts_to_writing' = {}
  BY <1>5, <1>10 DEF Finishing, stateVars
<1> QED
  BY <1>5, <1>11, <1>12 DEF Finishing

(* The two states of an outcome: the loop runs or it has ended.            *)
LEMMA StepOutcome ==
    ASSUME TypeInv, Running <=> outcome = "running", [Next]_vars
    PROVE  /\ Running' <=> outcome' = "running"
           /\ outcome' # outcome => /\ outcome = "running"
                                    /\ \/ outcome' = "raised"
                                       \/ EndDispatch /\ idle_clients = Worker
<1>1. CASE ManagerReceive
  BY <1>1 DEF ManagerReceive, ReceiveRegister, ReceiveIdle, ReceiveError, ReceiveRead, ReceiveNewTask,
     ReceiveProcessed, ReceivePntsWritten, Receive, AddIdleClient, EndReceive, Raise, Running
<1>2. CASE ManagerDispatch
  BY <1>2 DEF ManagerDispatch, DispatchRead, DispatchProcess, DispatchWrite, SendToProcess, Raise,
     Running
<1>3. CASE EndDispatch
  BY <1>3 DEF EndDispatch, Running
<1>4. CASE ShutdownAllProcesses \/ JoinAllProcesses
  BY <1>4 DEF ShutdownAllProcesses, JoinAllProcesses, Running
<1>5. CASE \E w \in Worker : Work(w)
  <2>1. UNCHANGED managerVars
    BY <1>5, ExecuteEffect DEF Work, Execute, Start, Halt, Executing, TypeInv
  <2> QED
    BY <2>1 DEF managerVars, Running
<1>6. CASE UNCHANGED vars
  BY <1>6 DEF vars, managerVars, Running
<1> QED
  BY <1>1, <1>2, <1>3, <1>4, <1>5, <1>6 DEF Next, Manager, Finished

(* From then on every step leaves the tiles as they are.                   *)
LEMMA FinishingStep ==
    ASSUME TypeInv, Finishing, ~ Running, [Next]_vars
    PROVE  Finishing' /\ tiles' = tiles
<1>1. ~ ManagerReceive /\ ~ ManagerDispatch /\ ~ EndDispatch
  BY DEF Running, ManagerReceive, ReceiveRegister, ReceiveIdle, ReceiveError, ReceiveRead, ReceiveNewTask,
     ReceiveProcessed, ReceivePntsWritten, Receive, ManagerDispatch, DispatchRead, DispatchProcess,
     DispatchWrite, EndDispatch
<1>2. CASE ShutdownAllProcesses
  <2>1. UNCHANGED <<worker, outbox, tiles, stateVars>>
    BY <1>2 DEF ShutdownAllProcesses
  <2>2. \A w \in Worker : Sent(w)' = Sent(w)
    BY <2>1 DEF Sent
  <2>3. ASSUME NEW w \in Worker
        PROVE  Commands(w)' \subseteq Commands(w) \cup {Shutdown}
    <3>1. inbox[w] \in Seq(Command) /\ (inbox'[w] = inbox[w] \/ inbox'[w] = Append(inbox[w], Shutdown))
      BY <1>2 DEF ShutdownAllProcesses, TypeInv, ChannelType
    <3>2. CASE inbox'[w] = inbox[w]
      BY <3>2 DEF Commands
    <3>3. CASE inbox'[w] = Append(inbox[w], Shutdown)
      <4>1. /\ Len(inbox[w]) \in Nat /\ Len(inbox'[w]) = Len(inbox[w]) + 1
            /\ \A i \in 1..Len(inbox[w]) : inbox'[w][i] = inbox[w][i]
            /\ inbox'[w][Len(inbox[w]) + 1] = Shutdown
        BY <3>1, <3>3
      <4> QED
        BY <4>1 DEF Commands
    <3> QED
      BY <3>1, <3>2, <3>3
  <2>4. InputNodes' = InputNodes
    BY <2>1 DEF stateVars, InputNodes
  <2> QED
    BY <2>1, <2>2, <2>3, <2>4 DEF Finishing, stateVars
<1>3. CASE JoinAllProcesses \/ UNCHANGED vars
  <2>1. UNCHANGED <<workerVars, stateVars>>
    BY <1>3 DEF JoinAllProcesses, vars
  <2> QED
    BY <2>1 DEF Finishing, workerVars, stateVars, Commands, Sent, InputNodes
<1>4. CASE \E w \in Worker : Work(w)
  BY <1>4, FinishingWork
<1> QED
  BY <1>1, <1>2, <1>3, <1>4 DEF Next, Manager, Finished

LEMMA StepEnd == SafeInv /\ PointsInv /\ CountedInv /\ EndInv /\ [Next]_vars => EndInv'
<1> SUFFICES ASSUME SafeInv, PointsInv, CountedInv, EndInv, [Next]_vars PROVE EndInv'
  OBVIOUS
<1>1. TypeInv /\ (Running <=> outcome = "running")
  BY DEF SafeInv, EndInv
<1>2. /\ Running' <=> outcome' = "running"
      /\ outcome' # outcome => /\ outcome = "running"
                               /\ outcome' = "raised" \/ (EndDispatch /\ idle_clients = Worker)
  BY <1>1, StepOutcome
<1>3. ASSUME EndDispatch, idle_clients = Worker
      PROVE  EndInv'
  <2>1. Finishing /\ (CountIsRight => UNION {tiles[n] : n \in TaskName} = Point)
    BY <1>3, LoopEnds
  <2>2. UNCHANGED <<workerVars, stateVars>> /\ (outcome' = "ok" => CountIsRight)
    BY <1>3 DEF EndDispatch
  <2>3. Finishing' /\ tiles' = tiles
    BY <2>1, <2>2 DEF Finishing, workerVars, stateVars, Commands, Sent, InputNodes
  <2> QED
    BY <1>2, <2>1, <2>2, <2>3 DEF EndInv
<1>4. ASSUME outcome' = outcome, outcome \in {"ok", "bad count"}
      PROVE  EndInv'
  <2>1. Finishing' /\ tiles' = tiles
    BY <1>1, <1>4, FinishingStep DEF EndInv
  <2> QED
    BY <1>2, <1>4, <2>1 DEF EndInv
<1> QED
  BY <1>1, <1>2, <1>3, <1>4 DEF EndInv

LEMMA SpecEnd == Spec => [](SafeInv /\ PointsInv /\ CountedInv /\ EndInv)
<1>1. Init => EndInv
  BY DEF Init, EndInv, Running
<1> QED
  BY <1>1, StepEnd, SpecCounted, PTL DEF Spec

(* When the loop ends by itself every portion has been read, every task    *)
(* processed and every node written, whatever the limit on the points in   *)
(* progress is: get_tasks never gives up on a portion, and no worker has   *)
(* anything to do or to say but to halt.                                   *)
THEOREM ConvertNothingStranded == Spec => []NothingStranded
<1>1. EndInv => NothingStranded
  BY DEF EndInv, Finishing, NothingStranded
<1> QED
  BY <1>1, SpecEnd, PTL

-----------------------------------------------------------------------------
(* One worker.  Its messages are received in the order it sends them, so   *)
(* the last node it answers for finds nothing left: as long as a node      *)
(* waits, something is still to come that ends with such an answer.        *)

TaskComing(w) == InputNodes # {} \/ \E m \in Sent(w) : m.type = "NEW_TASK"
RootAt(w) == \E c \in Commands(w) : c.command = "PROCESS_JOBS" /\ Root \in DOMAIN c.jobs
WorkComing(w) ==
    \/ point_cloud_file_parts > 0 \/ Reading(w) \/ TaskComing(w)
    \/ processing_nodes \ {Root} # {} \/ RootAt(w)
AfterTasks(m) == m.type = "READ" \/ (m.type = "PROCESSED" /\ m.name = Root)
OneInv(w) ==
    /\ \A c \in Commands(w) :
         c.command = "PROCESS_JOBS" => \A n \in DOMAIN c.jobs : JobPoints(c.jobs[n]) # {}
    /\ \A m \in Sent(w) : AfterTasks(m) => TaskComing(w)
    /\ waiting_writing_nodes # {} => WorkComing(w)
    /\ \A n \in TaskName : node_store[n] # {} =>
         n \in waiting_writing_nodes \cup pnts_to_writing \cup processing_nodes

LEMMA ReadingFacts ==
    ASSUME NEW w
    PROVE  /\ Reading(w) <=> \/ \E c \in Commands(w) : c.command = "READ_FILE"
                             \/ \E m \in Sent(w) : m.type = "READ"
           /\ Reading(w)' <=> \/ \E c \in Commands(w)' : c.command = "READ_FILE"
                              \/ \E m \in Sent(w)' : m.type = "READ"
BY DEF Reading, CommandsOf, SentOf

LEMMA GivenOne ==
    ASSUME TypeInv, DataInv, NEW w \in Worker, OneInv(w), Given(w)
    PROVE  OneInv(w)'
<1>1. Commands(w) = {} /\ Sent(w) = {} /\ Sent(w)' = {}
  BY EmptyChannels DEF Given, Sent
<1>2. waiting_writing_nodes # {} =>
        point_cloud_file_parts > 0 \/ InputNodes # {} \/ processing_nodes \ {Root} # {}
  BY <1>1, ReadingFacts DEF OneInv, WorkComing, TaskComing, RootAt
<1>3. CASE GivenRead(w)
  <2> DEFINE c == ReadCommand(point_cloud_file_parts)
  <2>1. Commands(w)' = {c} /\ c.command = "READ_FILE"
    BY <1>3, NewCommand DEF GivenRead, ReadCommand
  <2>2. UNCHANGED nodeVars
    BY <1>3 DEF GivenRead, SendFileToRead
  <2>3. Reading(w)'
    BY <2>1, ReadingFacts
  <2> QED
    BY <1>1, <2>1, <2>2, <2>3 DEF OneInv, WorkComing, nodeVars
<1>4. CASE GivenNodes(w)
  <2>1. PICK batch \in SUBSET ReadyNodes :
          batch # {} /\ SendPointsToProcess(batch) /\ LeftWith(w, ProcessCommand(batch))
    BY <1>4 DEF GivenNodes
  <2> DEFINE c == ProcessCommand(batch)
  <2>2. /\ Commands(w)' = {c} /\ c.command = "PROCESS_JOBS" /\ DOMAIN c.jobs = batch
        /\ \A n \in batch : c.jobs[n].tasks = node_to_process[n]
    BY <2>1, NewCommand DEF ProcessCommand
  <2>3. \A n \in batch : JobPoints(c.jobs[n]) # {}
    <3> SUFFICES ASSUME NEW n \in batch PROVE UNION c.jobs[n].tasks # {}
      BY DEF JobPoints
    <3>1. n \in TaskName /\ node_to_process[n] # {}
      BY DEF ReadyNodes, InputNodes
    <3>2. \A t \in node_to_process[n] : t # {}
      BY <3>1 DEF DataInv, GoodNode
    <3> QED
      BY <2>2, <3>1, <3>2
  <2>4. /\ processing_nodes' = processing_nodes \cup batch
        /\ waiting_writing_nodes' = waiting_writing_nodes \ batch
        /\ UNCHANGED <<pnts_to_writing, node_store>>
    BY <2>1 DEF SendPointsToProcess, StillWaiting
  <2> HIDE DEF c
  <2>5. RootAt(w)' \/ processing_nodes' \ {Root} # {}
    BY <2>1, <2>2, <2>4 DEF RootAt
  <2> QED
    BY <1>1, <2>2, <2>3, <2>4, <2>5 DEF OneInv, WorkComing
<1>5. CASE GivenTile(w)
  <2>1. PICK n \in pnts_to_writing : SendPntsToWrite(n) /\ LeftWith(w, WriteCommand(n))
    BY <1>5 DEF GivenTile
  <2>2. Commands(w)' = {WriteCommand(n)} /\ WriteCommand(n).command = "WRITE_PNTS"
    BY <2>1, NewCommand DEF WriteCommand
  <2>3. /\ pnts_to_writing' = pnts_to_writing \ {n}
        /\ node_store' = [node_store EXCEPT ![n] = {}]
        /\ UNCHANGED <<point_cloud_file_parts, node_to_process, processing_nodes,
                       waiting_writing_nodes>>
    BY <2>1 DEF SendPntsToWrite, StoreWithout
  <2>4. InputNodes' = InputNodes
    BY <2>3 DEF InputNodes
  <2>5. n \in TaskName /\ node_store \in [TaskName -> Chunk]
    BY DEF TypeInv, TilerType
  <2>6. \A x \in TaskName : node_store'[x] # {} =>
          x \in waiting_writing_nodes' \cup pnts_to_writing' \cup processing_nodes'
    BY <2>3, <2>5 DEF OneInv
  <2>7. waiting_writing_nodes' # {} => WorkComing(w)'
    BY <1>2, <2>3, <2>4 DEF WorkComing, TaskComing
  <2> QED
    BY <1>1, <2>2, <2>6, <2>7 DEF OneInv
<1> QED
  BY <1>3, <1>4, <1>5 DEF Given

LEMMA StartedOne ==
    ASSUME TypeInv, NEW w \in Worker, OneInv(w), Started(w)
    PROVE  OneInv(w)'
<1>1. Commands(w) = {} /\ Sent(w) = {} /\ Commands(w)' = {} /\ Sent(w)' = {Register}
  BY StartedChannels
<1>2. UNCHANGED stateVars /\ Register.type = "REGISTER"
  BY DEF Started, Register
<1>3. InputNodes' = InputNodes
  BY <1>2 DEF stateVars, InputNodes
<1>4. \A m \in Sent(w)' : ~ AfterTasks(m)
  BY <1>1, <1>2 DEF AfterTasks
<1>5. WorkComing(w) => WorkComing(w)'
  BY <1>1, <1>2, <1>3, ReadingFacts DEF WorkComing, TaskComing, RootAt, stateVars
<1> QED
  BY <1>1, <1>2, <1>4, <1>5 DEF OneInv, stateVars

(* What a worker that has no error to report leaves behind.                *)
LEMMA ExecutedOne ==
    ASSUME TypeInv, DataInv, NEW w \in Worker, OneInv(w), Executed(w), NoError'
    PROVE  OneInv(w)'
<1>1. PICK c \in WorkCommand :
        inbox[w] = <<c>> /\ (ExecutedRead(w, c) \/ ExecutedNode(w, c) \/ ExecutedWrite(w, c))
  BY DEF Executed
<1>2. Commands(w) = {c} /\ UNCHANGED stateVars
  BY <1>1, EmptyChannels DEF Executed
<1>3. InputNodes' = InputNodes
  BY <1>2 DEF stateVars, InputNodes
<1>4. Idle.type = "IDLE" /\ Error.type = "ERROR"
  BY DEF Idle, Error
<1>5. ASSUME NEW answer, NEW k, NEW last, Sends(w, answer, k, last)
      PROVE  /\ k = Len(answer)
             /\ \A m \in Sent(w) : m \in Sent(w)'
             /\ \A j \in 1..k : answer[j] \in Sent(w)'
             /\ \A m \in Sent(w)' : \/ m \in Sent(w) \/ \E j \in 1..k : m = answer[j]
                                    \/ m.type \in {"IDLE", "ERROR"}
             /\ TaskComing(w) => TaskComing(w)'
  <2>1. /\ \A m : m \in Sent(w)' <=> \/ m \in Sent(w) \/ \E j \in 1..k : m = answer[j]
                                     \/ last # <<>> /\ m = last[1]
        /\ last # <<>> => last[1] \in {Idle, Error}
        /\ k = Len(answer)
    BY <1>5, SendsAt
  <2> QED
    BY <1>3, <1>4, <2>1 DEF TaskComing
<1>6. ASSUME \A d \in Commands(w)' : d.command = "PROCESS_JOBS" =>
               \A n \in DOMAIN d.jobs : JobPoints(d.jobs[n]) # {},
             \A m \in Sent(w)' : AfterTasks(m) => TaskComing(w)',
             WorkComing(w) => WorkComing(w)'
      PROVE  OneInv(w)'
  BY <1>2, <1>6 DEF OneInv, stateVars
<1>7. CASE ExecutedRead(w, c)
  <2> DEFINE answer == ReadMessages(c.portion)
  <2>1. PICK k \in Nat, last \in {<<Idle>>, <<Error>>} : Sends(w, answer, k, last)
    BY <1>7 DEF ExecutedRead
  <2>2. Ended(w) /\ c.portion \in 1..Len(Portions)
    BY <1>7, CommandFields DEF ExecutedRead, Command
  <2>3. /\ Len(answer) \in Nat \ {0} /\ answer[Len(answer)] = [type |-> "READ"]
        /\ \A j \in 1..(Len(answer) - 1) : answer[j] = NewTask(Root, Portions[c.portion][j])
    BY <2>2, ReadAnswer
  <2>4. Len(answer) = Len(Portions[c.portion]) + 1 /\ Len(Portions[c.portion]) \in Nat \ {0}
    <3>1. Portions[c.portion] \in Seq((SUBSET Point) \ {{}}) /\ Len(Portions[c.portion]) >= 1
      BY <2>2, PortionAssumption, ElementOfSeq
    <3> QED
      BY <3>1 DEF ReadMessages
  <2> HIDE DEF answer
  <2>5. k = Len(answer) /\ \A j \in 1..k : answer[j] \in Sent(w)'
    BY <1>5, <2>1
  <2>6. \E m \in Sent(w)' : m.type = "NEW_TASK"
    <3>1. 1 \in 1..k /\ 1 \in 1..(Len(answer) - 1)
      BY <2>3, <2>4, <2>5
    <3>2. \A x, points : NewTask(x, points).type = "NEW_TASK"
      BY DEF NewTask
    <3>3. answer[1].type = "NEW_TASK" /\ answer[1] \in Sent(w)'
      BY <2>3, <2>5, <3>1, <3>2
    <3> QED
      BY <3>3
  <2>7. TaskComing(w)' /\ WorkComing(w)'
    BY <2>6 DEF TaskComing, WorkComing
  <2>8. Commands(w)' = {}
    BY <2>2, EndedCommand
  <2> QED
    BY <1>6, <2>7, <2>8
<1>8. CASE ExecutedNode(w, c)
  <2>1. PICK n, answer, gone, k, last :
          Ran(w, c, n, answer, gone, k, last) /\ Rest(w, c, n, last)
    BY <1>8, NodeRun
  <2>2. /\ c.command = "PROCESS_JOBS" /\ n \in DOMAIN c.jobs
        /\ Sends(w, answer, k, last) /\ Len(answer) \in Nat \ {0}
        /\ answer[Len(answer)].type = "PROCESSED" /\ answer[Len(answer)].name = n
        /\ \A j \in 1..k : j # Len(answer) => answer[j].type = "NEW_TASK"
    <3>1. Answers(w, c, n, answer, k, last)
      BY <1>1, <2>1, RanFacts
    <3> QED
      BY <3>1 DEF Answers
  <2>3. k = Len(answer) /\ \A j \in 1..k : answer[j] \in Sent(w)'
    BY <1>5, <2>2
  <2>4. n = Root => TaskComing(w)'
    <3> SUFFICES ASSUME n = Root PROVE TaskComing(w)'
      OBVIOUS
    <3>1. gone = JobPoints(c.jobs[n]) /\ Forwards(answer, n, gone)
      BY <2>1 DEF Ran
    <3>2. gone # {}
      BY <1>2, <2>2, <3>1 DEF OneInv
    <3>3. PICK j \in 1..(Len(answer) - 1) : answer[j].type = "NEW_TASK"
      BY <3>1, <3>2 DEF Forwards
    <3>4. j \in 1..k
      BY <2>2, <2>3, <3>3
    <3> QED
      BY <2>3, <3>3, <3>4 DEF TaskComing
  <2>5. last # <<Error>>
    <3>1. last = <<Error>> => Error \in Sent(w)'
      <4>1. Len(<<Error>>) = 1 /\ <<Error>>[1] = Error /\ <<Error>> # <<>>
        OBVIOUS
      <4> QED
        BY <2>2, <4>1, SendsAt
    <3> QED
      BY <3>1 DEF NoError
  <2>6. \A d \in Commands(w)' :
          /\ d.command = "PROCESS_JOBS" /\ DOMAIN d.jobs = DOMAIN c.jobs \ {n}
          /\ \A i \in DOMAIN d.jobs : d.jobs[i] = c.jobs[i]
    <3>1. CASE Ended(w)
      BY <3>1, EndedCommand
    <3>2. ASSUME NEW rest \in Command, rest.command = "PROCESS_JOBS",
                 DOMAIN rest.jobs = DOMAIN c.jobs \ {n},
                 \A i \in DOMAIN rest.jobs : rest.jobs[i] = c.jobs[i], LeftWith(w, rest)
          PROVE  \A d \in Commands(w)' :
                   /\ d.command = "PROCESS_JOBS" /\ DOMAIN d.jobs = DOMAIN c.jobs \ {n}
                   /\ \A i \in DOMAIN d.jobs : d.jobs[i] = c.jobs[i]
      BY <3>2, NewCommand
    <3> QED
      BY <2>1, <3>1, <3>2 DEF Rest
  <2>7. \A d \in Commands(w)' : \A i \in DOMAIN d.jobs : JobPoints(d.jobs[i]) # {}
    BY <1>2, <2>2, <2>6 DEF OneInv
  <2>8. \A m \in Sent(w)' : AfterTasks(m) => TaskComing(w)'
    <3> SUFFICES ASSUME NEW m \in Sent(w)', AfterTasks(m) PROVE TaskComing(w)'
      OBVIOUS
    <3>1. m \in Sent(w) \/ (\E j \in 1..k : m = answer[j]) \/ m.type \in {"IDLE", "ERROR"}
      BY <1>5, <2>2
    <3>2. CASE m \in Sent(w)
      BY <1>5, <2>2, <3>2 DEF OneInv
    <3>3. ASSUME NEW j \in 1..k, m = answer[j] PROVE n = Root
      BY <2>2, <3>3 DEF AfterTasks
    <3> QED
      BY <2>4, <3>1, <3>2, <3>3 DEF AfterTasks
  <2>9. WorkComing(w) => WorkComing(w)'
    <3>1. Reading(w) => Reading(w)'
      BY <1>2, <1>5, <2>2, ReadingFacts
    <3>2. TaskComing(w) => TaskComing(w)'
      BY <1>5, <2>2
    <3>3. RootAt(w) => RootAt(w)' \/ TaskComing(w)'
      <4> SUFFICES ASSUME Root \in DOMAIN c.jobs, n # Root PROVE RootAt(w)'
        BY <1>2, <2>4 DEF RootAt
      <4>1. \E d \in Commands(w)' : d.command = "PROCESS_JOBS" /\ DOMAIN d.jobs = DOMAIN c.jobs \ {n}
        BY <2>1, <2>5, NewCommand DEF Rest
      <4> QED
        BY <4>1 DEF RootAt
    <3> QED
      BY <1>2, <3>1, <3>2, <3>3 DEF WorkComing, stateVars
  <2> QED
    BY <1>6, <2>7, <2>8, <2>9
<1>9. CASE ExecutedWrite(w, c)
  <2>1. PICK k, last : k \in {0, 1} /\ Sends(w, <<Written(c)>>, k, last)
    BY <1>9 DEF ExecutedWrite
  <2>2. Ended(w) /\ c.command = "WRITE_PNTS"
    BY <1>9 DEF ExecutedWrite
  <2>3. \A j \in 1..k : <<Written(c)>>[j].type = "PNTS_WRITTEN"
    BY <2>1 DEF Written
  <2>4. Commands(w)' = {}
    BY <2>2, EndedCommand
  <2>5. \A m \in Sent(w)' : AfterTasks(m) => TaskComing(w)'
    <3> SUFFICES ASSUME NEW m \in Sent(w)', AfterTasks(m) PROVE TaskComing(w)'
      OBVIOUS
    <3>1. m \in Sent(w)
      BY <1>5, <2>1, <2>3 DEF AfterTasks
    <3> QED
      BY <1>5, <2>1, <3>1 DEF OneInv
  <2>6. Reading(w) => Reading(w)'
    BY <1>2, <1>5, <2>1, <2>2, ReadingFacts
  <2>7. ~ RootAt(w) /\ (TaskComing(w) => TaskComing(w)')
    BY <1>2, <1>5, <2>1, <2>2 DEF RootAt
  <2>8. WorkComing(w) => WorkComing(w)'
    BY <1>2, <2>6, <2>7 DEF WorkComing, stateVars
  <2> QED
    BY <1>6, <2>4, <2>5, <2>8
<1> QED
  BY <1>1, <1>7, <1>8, <1>9

(* A message other than PROCESSED leaves the lists of nodes as they are,   *)
(* or adds a task.                                                         *)
LEMMA ReceivedOther ==
    ASSUME TypeInv, DataInv, NEW w \in Worker, OneInv(w), Received(w),
           Head(outbox[w]).type # "PROCESSED"
    PROVE  OneInv(w)'
<1> DEFINE m == Head(outbox[w])
<1>1. /\ m \in Message /\ Sent(w) = {m} \cup Sent(w)' /\ Commands(w)' = Commands(w)
  BY ReceivedChannels
<1>2. Handled(m) /\ m.type # "PROCESSED"
  BY DEF Received
<1>3. m.type = "NEW_TASK" => m.name \in TaskName
  BY <1>1, MessageFields
<1> HIDE DEF m
<1>4. UNCHANGED <<point_cloud_file_parts, processing_nodes, waiting_writing_nodes,
                  pnts_to_writing, node_store>>
  BY <1>2 DEF Handled, ReadDone, AddTasksToProcess, PntsWritten, stateVars, nodeVars, countVars
<1>5. TaskComing(w) => TaskComing(w)'
  <2>1. CASE m.type = "NEW_TASK"
    <3>1. node_to_process' = [node_to_process EXCEPT ![m.name] = @ \cup {m.points}]
      BY <1>2, <2>1 DEF Handled, AddTasksToProcess
    <3>2. node_to_process'[m.name] # {} /\ m.name \in TaskName
      BY <1>3, <2>1, <3>1 DEF TypeInv, TilerType
    <3> QED
      BY <3>2 DEF TaskComing, InputNodes
  <2>2. CASE m.type # "NEW_TASK"
    <3>1. node_to_process' = node_to_process
      BY <1>2, <2>2 DEF Handled, ReadDone, PntsWritten, stateVars, nodeVars
    <3> QED
      BY <1>1, <2>2, <3>1 DEF TaskComing, InputNodes
  <2> QED
    BY <2>1, <2>2
<1>6. \A x \in Sent(w)' : AfterTasks(x) => TaskComing(w)'
  BY <1>1, <1>5 DEF OneInv
<1>7. WorkComing(w) => WorkComing(w)'
  <2>1. Reading(w) => Reading(w)' \/ TaskComing(w)'
    <3>1. m.type = "READ" => TaskComing(w)
      BY <1>1 DEF OneInv, AfterTasks
    <3> QED
      BY <1>1, <1>5, <3>1, ReadingFacts
  <2> QED
    BY <1>1, <1>4, <1>5, <2>1 DEF WorkComing, RootAt
<1> QED
  BY <1>1, <1>4, <1>6, <1>7 DEF OneInv

(* With one worker, a node that is processed when nothing is to come, its  *)
(* parents included, frees all the nodes that wait.                        *)
LEMMA ReceivedLast ==
    ASSUME TypeInv, LoopInv, LoopInv', NoError', NEW w \in Worker, Worker = {w}, OneInv(w),
           Received(w), Head(outbox[w]).type = "PROCESSED"
    PROVE  OneInv(w)'
<1> DEFINE m == Head(outbox[w])
<1>1. /\ m \in Message /\ Sent(w) = {m} \cup Sent(w)' /\ Commands(w)' = Commands(w)
  BY ReceivedChannels
<1>2. Handled(m) /\ m.type = "PROCESSED"
  BY DEF Received
<1> HIDE DEF m
<1>3. /\ m.name \in processing_nodes /\ Processed(m.name, m.total, m.data)
      /\ m.name \in TaskName
  BY <1>1, <1>2, MessageFields DEF Handled
<1>4. /\ processing_nodes' = processing_nodes \ {m.name}
      /\ UNCHANGED <<point_cloud_file_parts, number_of_reading_jobs, node_to_process>>
      /\ DispatchProcessedNodes(m.name, m.data, processing_nodes')
  BY <1>3 DEF Processed
<1>5. InputNodes' = InputNodes
  BY <1>4 DEF InputNodes
<1>6. TaskComing(w) => TaskComing(w)'
  BY <1>1, <1>2, <1>5 DEF TaskComing
<1>7. \A x \in Sent(w)' : AfterTasks(x) => TaskComing(w)'
  BY <1>1, <1>6 DEF OneInv
<1>8. (Reading(w) => Reading(w)') /\ (RootAt(w) => RootAt(w)')
  BY <1>1, <1>2, ReadingFacts DEF RootAt
<1>9. CASE m.name = Root
  <2>1. UNCHANGED <<node_store, waiting_writing_nodes, pnts_to_writing>>
    BY <1>4, <1>9 DEF DispatchProcessedNodes
  <2>2. node_store[Root] = {}
    BY DEF LoopInv, DataInv
  <2>3. WorkComing(w) => WorkComing(w)'
    BY <1>4, <1>6, <1>8, <1>9 DEF WorkComing
  <2> QED
    BY <1>1, <1>4, <1>7, <1>9, <2>1, <2>2, <2>3 DEF OneInv
<1>10. CASE m.name # Root
  <2> DEFINE waiting == waiting_writing_nodes \cup {m.name}
             ready == IF IsReadingFinish THEN Writable(m.name, waiting, processing_nodes') ELSE {}
  <2>1. /\ node_store' = [node_store EXCEPT ![m.name] = m.data]
        /\ waiting_writing_nodes' = waiting \ ready
        /\ pnts_to_writing' = pnts_to_writing \cup ready
    BY <1>4, <1>10 DEF DispatchProcessedNodes
  <2>2. \A n \in TaskName : node_store'[n] # {} =>
          n \in waiting_writing_nodes' \cup pnts_to_writing' \cup processing_nodes'
    <3>1. \A n \in TaskName : node_store'[n] # {} => n = m.name \/ node_store[n] # {}
      BY <1>3, <2>1 DEF TypeInv, TilerType
    <3> HIDE DEF ready
    <3> QED
      BY <1>4, <2>1, <3>1 DEF OneInv
  <2>3. ASSUME ~ WorkComing(w)'
        PROVE  waiting_writing_nodes' = {}
    <3>1. /\ ~ (point_cloud_file_parts > 0) /\ InputNodes = {} /\ processing_nodes' \subseteq {Root}
          /\ ~ Reading(w)' /\ ~ RootAt(w)' /\ ~ TaskComing(w)'
      BY <1>4, <1>5, <2>3 DEF WorkComing, TaskComing
    <3>2. processing_nodes' = {}
      <4>1. processing_nodes' \subseteq NodesAt(w)'
        BY DEF LoopInv, NodeInv
      <4>2. Root \notin NodesAt(w)'
        <5>1. ~ \E x \in Sent(w)' : x.type = "PROCESSED" /\ x.name = Root
          BY <1>7, <3>1 DEF AfterTasks
        <5> QED
          BY <3>1, <5>1, NodesAtFacts DEF RootAt
      <4> QED
        BY <3>1, <4>1, <4>2
    <3>3. IsReadingFinish
      <4>1. ~ Reads(w)
        <5>1. ~ \E x \in Sent(w)' : RootTask(x)
          BY <3>1 DEF TaskComing, RootTask
        <5>2. ~ Reading(w)
          BY <1>8, <3>1
        <5> QED
          BY <1>1, <1>2, <5>1, <5>2 DEF Reads, RootTask
      <4>2. {v \in Worker : Reads(v)} = {}
        BY <4>1
      <4>3. NoError
        BY NoErrorBefore DEF Effect
      <4>4. number_of_reading_jobs = 0
        BY <4>2, <4>3, FS_EmptySet DEF LoopInv, CountInv
      <4>5. point_cloud_file_parts \in Nat
        BY ChunkFacts DEF TypeInv, TilerType
      <4> QED
        BY <3>1, <4>4, <4>5 DEF IsReadingFinish
    <3>4. ready = waiting
      BY <3>1, <3>2, <3>3 DEF Writable
    <3> QED
      BY <2>1, <3>4
  <2> QED
    BY <1>1, <1>7, <2>2, <2>3 DEF OneInv
<1> QED
  BY <1>9, <1>10

OneWorkerInv == Cardinality(Worker) = 1 /\ Running /\ NoError => \A w \in Worker : OneInv(w)

LEMMA StepOne == SafeInv /\ OneWorkerInv /\ [Next]_vars => OneWorkerInv'
<1> SUFFICES ASSUME SafeInv, OneWorkerInv, [Next]_vars,
                    Cardinality(Worker) = 1, Running', NoError', NEW w \in Worker
             PROVE  OneInv(w)'
  BY DEF OneWorkerInv
<1>1. Running /\ (Still \/ \E v \in Worker : Effect(v)) /\ TypeInv /\ LoopInv
  BY StepEffect DEF SafeInv
<1>2. Worker = {w}
  <2>1. PICK v : Worker = {v}
    BY WorkerAssumption, FS_Singleton
  <2> QED
    BY <2>1
<1>3. LoopInv'
  BY StepSafe DEF SafeInv
<1>4. CASE Still
  <2>1. Sent(w)' = Sent(w) /\ Commands(w)' = Commands(w) /\ Reading(w)' = Reading(w)
    BY <1>4, SameChannels DEF Still
  <2>2. NoError
    BY <1>2, <2>1 DEF NoError
  <2>3. OneInv(w)
    BY <1>1, <2>2 DEF OneWorkerInv
  <2>4. InputNodes' = InputNodes
    BY <1>4 DEF Still, stateVars, InputNodes
  <2> QED
    BY <1>4, <2>1, <2>3, <2>4 DEF OneInv, WorkComing, TaskComing, RootAt, Still, stateVars
<1>5. CASE \E v \in Worker : Effect(v)
  <2>1. Effect(w)
    BY <1>2, <1>5
  <2>2. NoError
    BY <1>1, <2>1, NoErrorBefore
  <2>3. OneInv(w)
    BY <1>1, <2>2 DEF OneWorkerInv
  <2>4. DataInv
    BY <1>1 DEF LoopInv
  <2> QED
    BY <1>1, <1>2, <1>3, <2>1, <2>3, <2>4, ReceivedOther, ReceivedLast, GivenOne, StartedOne,
       ExecutedOne DEF Effect
<1> QED
  BY <1>1, <1>4, <1>5

LEMMA InitOne == Init => OneWorkerInv
<1> SUFFICES ASSUME Init, NEW w \in Worker PROVE OneInv(w)
  BY DEF OneWorkerInv
<1>1. Commands(w) = {} /\ Sent(w) = {}
  BY EmptyChannels DEF Init
<1> QED
  BY <1>1 DEF OneInv, Init, TilerInit

(* When the one worker waits and there is no task, no node waits either:   *)
(* all the points are in tiles, and counted.                               *)
LEMMA OneWorkerCounts ==
    ASSUME SafeInv, PointsInv, CountedInv, OneWorkerInv, Cardinality(Worker) = 1,
           EndDispatch, idle_clients = Worker
    PROVE  CountIsRight
<1>1. Running
  BY DEF EndDispatch, Running
<1>2. TypeInv /\ LoopInv /\ PointInv /\ ProgInv /\ \A w \in Worker : WorkerState(w)
  BY <1>1 DEF SafeInv, PointsInv, CountedInv, IdleInv
<1>3. ~ HasTasks
  BY WorkerAssumption DEF EndDispatch
<1>4. ASSUME NEW w \in Worker
      PROVE  inbox[w] = <<>> /\ outbox[w] = <<>>
  BY <1>2 DEF WorkerState, Starting, Registering, Waiting, Busy, Ending, Known
<1>5. /\ point_cloud_file_parts = 0
      /\ InputNodes = {} /\ processing_nodes = {} /\ pnts_to_writing = {}
  BY <1>2, <1>3, <1>4, AllIdle
<1>6. PICK w : w \in Worker
  BY WorkerAssumption
<1>7. \A v \in Worker : Commands(v) = {} /\ Sent(v) = {}
  BY <1>4, EmptyChannels
<1>8. OneInv(w)
  BY <1>1, <1>6, <1>7 DEF OneWorkerInv, NoError
<1>9. waiting_writing_nodes = {}
  BY <1>5, <1>6, <1>7, <1>8, ReadingFacts DEF OneInv, WorkComing, TaskComing, RootAt
<1>10. \A n \in TaskName : node_store[n] = {}
  BY <1>5, <1>8, <1>9 DEF OneInv
<1> QED
  BY <1>2, <1>3, <1>4, <1>10, AllIdle

(* With one worker process the conversion never ends with a wrong number   *)
(* of points, in whatever order the portions come and the nodes are taken, *)
(* whatever the limits are and whether commands raise or not.              *)
THEOREM ConvertOneWorker == Spec => [](Cardinality(Worker) = 1 => CountsMatch)
<1> DEFINE CountInvariant == Cardinality(Worker) = 1 => CountsMatch
<1>1. Init => CountInvariant
  BY DEF Init, CountsMatch
<1>2. SafeInv /\ PointsInv /\ CountedInv /\ EndInv /\ OneWorkerInv /\ CountInvariant /\ [Next]_vars
        => CountInvariant'
  <2> SUFFICES ASSUME SafeInv, PointsInv, CountedInv, EndInv, OneWorkerInv, CountsMatch,
                      Cardinality(Worker) = 1, [Next]_vars, outcome' = "bad count"
               PROVE  FALSE
    BY DEF CountsMatch
  <2>1. EndDispatch /\ idle_clients = Worker
    BY StepOutcome DEF SafeInv, EndInv, CountsMatch
  <2>2. CountIsRight
    BY <2>1, OneWorkerCounts
  <2> QED
    BY <2>1, <2>2 DEF EndDispatch
<1> QED
  BY <1>1, <1>2, InitOne, StepOne, SpecEnd, PTL DEF Spec

-----------------------------------------------------------------------------
(* The conversion implements Tiling                                        *)

(* What holds of the commands to write, after the loop too: none is for    *)
(* the root, and the points of each are in its octant, in no tile and in   *)
(* no other command.                                                       *)
WriteInv ==
    \A w \in Worker : \A i \in 1..Len(inbox[w]) : inbox[w][i].command = "WRITE_PNTS" =>
      /\ inbox[w][i].name # Root /\ Octant(inbox[w][i].data, inbox[w][i].name)
      /\ \A n \in TaskName : inbox[w][i].data \cap tiles[n] = {}
      /\ \A v \in Worker : \A j \in 1..Len(inbox[v]) :
           inbox[v][j].command = "WRITE_PNTS" /\ <<v, j>> # <<w, i>> =>
             inbox[v][j].data \cap inbox[w][i].data = {}

(* While the loop runs it is a case of the invariant of the points.        *)
LEMMA RunningWrite == SafeInv /\ PointsInv /\ Running => WriteInv
<1> SUFFICES ASSUME SafeInv, PointsInv, Running,
                    NEW w \in Worker, NEW i \in 1..Len(inbox[w]), inbox[w][i].command = "WRITE_PNTS"
             PROVE  /\ inbox[w][i].name # Root /\ Octant(inbox[w][i].data, inbox[w][i].name)
                    /\ \A n \in TaskName : inbox[w][i].data \cap tiles[n] = {}
                    /\ \A v \in Worker : \A j \in 1..Len(inbox[v]) :
                         inbox[v][j].command = "WRITE_PNTS" /\ <<v, j>> # <<w, i>> =>
                           inbox[v][j].data \cap inbox[w][i].data = {}
  BY DEF WriteInv
<1>1. TypeInv /\ DataInv /\ PointInv /\ \A v \in Worker : inbox[v] = <<>> \/ \E c : inbox[v] = <<c>>
  BY SafeInboxes DEF SafeInv, PointsInv, LoopInv
<1>2. ASSUME NEW v \in Worker, NEW j \in 1..Len(inbox[v]), inbox[v][j].command = "WRITE_PNTS"
      PROVE  /\ j = 1 /\ inbox[v][j] \in Commands(v)
             /\ inbox[v][j].data \subseteq Held(<<"worker", v>>)
  <2>1. PICK d : d = inbox[v][j]
    OBVIOUS
  <2>2. j = 1
    <3>1. PICK s : s = inbox[v]
      OBVIOUS
    <3>2. CASE s = <<>>
      <4>1. j \in 1..0
        BY <3>1, <3>2
      <4> QED
        BY <4>1
    <3>3. CASE \E x : s = <<x>>
      <4>1. Len(s) = 1
        BY <3>3
      <4>2. j \in 1..1
        BY <3>1, <4>1
      <4> QED
        BY <4>2
    <3> QED
      BY <1>1, <3>1, <3>2, <3>3
  <2>3. d \in Commands(v)
    BY <2>1 DEF Commands
  <2>4. CommandPoints(d) = d.data
    BY <1>2, <2>1 DEF CommandPoints, FilePoints
  <2>5. d.data \subseteq AtWorker(v)
    BY <2>3, <2>4, WorkerPoints
  <2> QED
    BY <2>1, <2>2, <2>3, <2>5, HeldFacts
<1>3. PICK c : c = inbox[w][i]
  OBVIOUS
<1>4. c \in Commands(w) /\ c.command = "WRITE_PNTS" /\ c.data \subseteq Held(<<"worker", w>>) /\ i = 1
  BY <1>2, <1>3
<1>5. c.name # Root /\ Octant(c.data, c.name)
  BY <1>1, <1>4 DEF DataInv, GoodCommand
<1>6. ASSUME NEW n \in TaskName
      PROVE  c.data \cap tiles[n] = {}
  <2>1. Held(<<"worker", w>>) \cap Held(<<"tile", n>>) = {}
    BY <1>1, PlaceFacts DEF PointInv, Apart
  <2> QED
    BY <1>4, <2>1, HeldFacts
<1>7. ASSUME NEW v \in Worker, NEW j \in 1..Len(inbox[v]), inbox[v][j].command = "WRITE_PNTS",
             <<v, j>> # <<w, i>>
      PROVE  inbox[v][j].data \cap c.data = {}
  <2>1. v # w /\ inbox[v][j].data \subseteq Held(<<"worker", v>>)
    BY <1>2, <1>4, <1>7
  <2>2. Held(<<"worker", v>>) \cap Held(<<"worker", w>>) = {}
    BY <1>1, <2>1, PlaceFacts DEF PointInv, Apart
  <2> QED
    BY <1>4, <2>1, <2>2
<1> QED
  BY <1>3, <1>5, <1>6, <1>7

(* A step may write files of the first command of worker w, which has then *)
(* left.                                                                   *)
Writes(w) ==
    /\ inbox[w] # <<>> /\ inbox[w][1].command = "WRITE_PNTS" /\ tiles[inbox[w][1].name] = {}
    /\ \E written \in SUBSET inbox[w][1].data :
         tiles' = [tiles EXCEPT ![inbox[w][1].name] = written]
(* The commands to write after a step are commands of before it, s places  *)
(* further in the inbox.                                                   *)
Shifted(w, s) ==
    \A i \in 1..Len(inbox'[w]) : inbox'[w][i].command = "WRITE_PNTS" =>
      i + s \in 1..Len(inbox[w]) /\ inbox'[w][i] = inbox[w][i + s]

LEMMA WriteStep ==
    ASSUME TypeInv, WriteInv, NEW shift \in [Worker -> {0, 1}], \A w \in Worker : Shifted(w, shift[w]),
           tiles' = tiles \/ \E w \in Worker : shift[w] = 1 /\ Writes(w)
    PROVE  WriteInv'
<1> SUFFICES ASSUME NEW w \in Worker, NEW i \in 1..Len(inbox'[w]), inbox'[w][i].command = "WRITE_PNTS"
             PROVE  /\ inbox'[w][i].name # Root /\ Octant(inbox'[w][i].data, inbox'[w][i].name)
                    /\ \A n \in TaskName : inbox'[w][i].data \cap tiles'[n] = {}
                    /\ \A v \in Worker : \A j \in 1..Len(inbox'[v]) :
                         inbox'[v][j].command = "WRITE_PNTS" /\ <<v, j>> # <<w, i>> =>
                           inbox'[v][j].data \cap inbox'[w][i].data = {}
  BY DEF WriteInv, Octant
<1>1. PICK k : k = i + shift[w]
  OBVIOUS
<1>2. PICK c : c = inbox[w][k]
  OBVIOUS
<1>3. inbox'[w][i] = c /\ k \in 1..Len(inbox[w]) /\ c.command = "WRITE_PNTS" /\ k = i + shift[w]
  BY <1>1, <1>2 DEF Shifted
<1>4. /\ c.name # Root /\ Octant(c.data, c.name)
      /\ \A n \in TaskName : c.data \cap tiles[n] = {}
      /\ \A v \in Worker : \A j \in 1..Len(inbox[v]) :
           inbox[v][j].command = "WRITE_PNTS" /\ <<v, j>> # <<w, k>> => inbox[v][j].data \cap c.data = {}
  BY <1>2, <1>3 DEF WriteInv
<1>5. ASSUME NEW v \in Worker, shift[v] = 1, Writes(v)
      PROVE  \A n \in TaskName : c.data \cap tiles'[n] = {}
  <2>1. PICK d : d = inbox[v][1]
    OBVIOUS
  <2>2. inbox[v] \in Seq(Command) /\ 1 \in 1..Len(inbox[v]) /\ d.command = "WRITE_PNTS"
    <3>1. inbox[v] \in Seq(Command) /\ inbox[v] # <<>>
      BY <1>5 DEF Writes, TypeInv, ChannelType
    <3>2. Len(inbox[v]) \in Nat \ {0}
      BY <3>1, LenProperties
    <3> QED
      BY <1>5, <2>1, <3>1, <3>2 DEF Writes
  <2>3. <<v, 1>> # <<w, k>>
    <3>1. CASE v # w
      BY <3>1
    <3>2. CASE v = w
      BY <1>3, <1>5, <3>2
    <3> QED
      BY <3>1, <3>2
  <2>4. d.data \cap c.data = {}
    BY <1>4, <2>1, <2>2, <2>3
  <2>5. PICK written \in SUBSET d.data : tiles' = [tiles EXCEPT ![d.name] = written]
    BY <1>5, <2>1 DEF Writes
  <2>6. tiles \in [TaskName -> Chunk]
    BY DEF TypeInv, ChannelType
  <2> QED
    BY <1>4, <2>4, <2>5, <2>6
<1>6. \A n \in TaskName : c.data \cap tiles'[n] = {}
  BY <1>4, <1>5
<1>7. ASSUME NEW v \in Worker, NEW j \in 1..Len(inbox'[v]), inbox'[v][j].command = "WRITE_PNTS",
             <<v, j>> # <<w, i>>
      PROVE  inbox'[v][j].data \cap c.data = {}
  <2>1. PICK l : l = j + shift[v]
    OBVIOUS
  <2>2. l \in 1..Len(inbox[v]) /\ inbox'[v][j] = inbox[v][l] /\ inbox[v][l].command = "WRITE_PNTS"
    BY <1>7, <2>1 DEF Shifted
  <2>3. <<v, l>> # <<w, k>>
    <3>1. shift[v] \in {0, 1}
      OBVIOUS
    <3> QED
      BY <1>3, <1>7, <2>1, <3>1
  <2> QED
    BY <1>4, <2>2, <2>3
<1> QED
  BY <1>3, <1>4, <1>6, <1>7

LEMMA SameShifted == \A w : inbox'[w] = inbox[w] /\ inbox[w] \in Seq(Command) => Shifted(w, 0)
<1> SUFFICES ASSUME NEW w, inbox'[w] = inbox[w], NEW i \in 1..Len(inbox[w])
             PROVE  i + 0 \in 1..Len(inbox[w]) /\ inbox'[w][i] = inbox[w][i + 0]
  BY DEF Shifted
<1>1. i + 0 = i
  OBVIOUS
<1> QED
  BY <1>1

(* What a worker does to the commands and to the tiles.                    *)
LEMMA WorkWrites ==
    ASSUME TypeInv, NEW w \in Worker, Work(w)
    PROVE  /\ UNCHANGED managerVars
           /\ \A v \in Worker \ {w} : inbox'[v] = inbox[v]
           /\ \/ Shifted(w, 0) /\ tiles' = tiles
              \/ Shifted(w, 1) /\ (tiles' = tiles \/ Writes(w))
<1>1. UNCHANGED managerVars
  BY ExecuteEffect DEF Work, Execute, Start, Halt, Executing, TypeInv
<1>2. /\ inbox \in [Worker -> Seq(Command)] /\ tiles \in [TaskName -> Chunk]
      /\ inbox[w] \in Seq(Command) /\ ChannelType
  BY DEF TypeInv, ChannelType
<1>3. ASSUME NextCommand(w), inbox[w] # <<>>
      PROVE  Shifted(w, 1) /\ \A v \in Worker \ {w} : inbox'[v] = inbox[v]
  <2>1. inbox'[w] = Tail(inbox[w]) /\ \A v \in Worker \ {w} : inbox'[v] = inbox[v]
    BY <1>2, <1>3 DEF NextCommand
  <2>2. \A i \in 1..Len(Tail(inbox[w])) : i + 1 \in 1..Len(inbox[w]) /\ Tail(inbox[w])[i] = inbox[w][i + 1]
    BY <1>2, <1>3, TailFacts
  <2> QED
    BY <2>1, <2>2 DEF Shifted
<1>4. CASE Start(w)
  <2>1. UNCHANGED <<inbox, tiles>>
    BY <1>4 DEF Start
  <2> QED
    BY <1>1, <1>2, <2>1, SameShifted
<1>5. CASE Halt(w) \/ ExecuteReadFile(w)
  BY <1>1, <1>3, <1>5 DEF Halt, ExecuteReadFile, Executing
<1>6. CASE ExecuteWritePnts(w)
  <2>1. /\ inbox[w] # <<>> /\ Head(inbox[w]) = inbox[w][1]
        /\ Head(inbox[w]).command = "WRITE_PNTS"
    BY <1>2, <1>6, ExecutingFacts DEF ExecuteWritePnts
  <2>2. NextCommand(w) /\ (tiles' = tiles \/ Writes(w))
    BY <1>6, <2>1 DEF ExecuteWritePnts, Writes
  <2> QED
    BY <1>1, <1>3, <2>1, <2>2
<1>7. CASE Fail(w)
  <2>1. PICK command \in FaultyCommands : Executing(w, command)
    BY <1>7 DEF Fail
  <2>2. /\ inbox[w] # <<>> /\ Head(inbox[w]) = inbox[w][1] /\ Head(inbox[w]) \in Command
    BY <1>2, <2>1, ExecutingFacts
  <2>3. PICK c : c = Head(inbox[w])
    OBVIOUS
  <2>4. \/ tiles' = tiles
        \/ /\ c.command = "WRITE_PNTS" /\ tiles[c.name] = {}
           /\ \E written \in SUBSET c.data : tiles' = [tiles EXCEPT ![c.name] = written]
    BY <1>7, <2>3 DEF Fail
  <2>5. tiles' = tiles \/ Writes(w)
    BY <2>2, <2>3, <2>4 DEF Writes
  <2>6. NextCommand(w)
    BY <1>7 DEF Fail
  <2> QED
    BY <1>1, <1>3, <2>2, <2>5, <2>6
<1>8. CASE ExecuteProcessJobs(w)
  <2> DEFINE c == Head(inbox[w])
             rest(n) == Restrict(c.jobs, DOMAIN c.jobs \ {n})
  <2>1. inbox[w] # <<>> /\ c = inbox[w][1] /\ c.command = "PROCESS_JOBS" /\ c \in Command
    BY <1>2, <1>8, ExecutingFacts DEF ExecuteProcessJobs
  <2>2. tiles' = tiles /\ (NextCommand(w) \/ \E n : inbox' = [inbox EXCEPT ![w][1].jobs = rest(n)])
    BY <1>8 DEF ExecuteProcessJobs
  <2>3. ASSUME NEW n, inbox' = [inbox EXCEPT ![w][1].jobs = rest(n)]
        PROVE  Shifted(w, 0) /\ \A v \in Worker \ {w} : inbox'[v] = inbox[v]
    <3>1. inbox' = [inbox EXCEPT ![w] = [@ EXCEPT ![1] = [c EXCEPT !.jobs = rest(n)]]]
      BY <2>1, <2>3
    <3>2. [c EXCEPT !.jobs = rest(n)].command = "PROCESS_JOBS"
      <4>1. c \in [command : {"PROCESS_JOBS"}, jobs : Jobs]
        BY <2>1 DEF Command, WorkCommand, Shutdown
      <4> QED
        BY <4>1
    <3>3. PICK d : d = [c EXCEPT !.jobs = rest(n)]
      OBVIOUS
    <3> HIDE DEF c, rest
    <3>4. inbox'[w] = [inbox[w] EXCEPT ![1] = d] /\ d.command = "PROCESS_JOBS"
          /\ \A v \in Worker \ {w} : inbox'[v] = inbox[v]
      BY <1>2, <3>1, <3>2, <3>3
    <3>5. /\ Len(inbox'[w]) = Len(inbox[w]) /\ Len(inbox[w]) \in Nat
          /\ \A i \in 1..Len(inbox[w]) : i + 0 = i /\ (inbox'[w][i] = d \/ inbox'[w][i] = inbox[w][i])
      BY <1>2, <3>4
    <3> QED
      BY <3>4, <3>5 DEF Shifted
  <2> QED
    BY <1>1, <1>3, <2>1, <2>2, <2>3
<1> QED
  BY <1>4, <1>5, <1>6, <1>7, <1>8 DEF Work

(* Outside the loop the commands to write are those of before: the manager *)
(* only appends Shutdown and the workers take what they have.              *)
LEMMA StoppedWrite ==
    ASSUME TypeInv, WriteInv, [Next]_vars, ~ Running'
    PROVE  WriteInv'
<1>1. inbox \in [Worker -> Seq(Command)] /\ \A w \in Worker : inbox[w] \in Seq(Command)
  BY DEF TypeInv, ChannelType
<1> DEFINE still == [w \in Worker |-> 0]
<1>2. ASSUME UNCHANGED <<inbox, tiles>>
      PROVE  WriteInv'
  BY <1>2 DEF WriteInv, Octant
<1>3. CASE ManagerReceive
  <2>1. UNCHANGED <<inbox, tiles>>
    BY <1>3 DEF ManagerReceive, ReceiveRegister, ReceiveIdle, ReceiveError, ReceiveRead, ReceiveNewTask,
       ReceiveProcessed, ReceivePntsWritten, Receive
  <2> QED
    BY <1>2, <2>1
<1>4. CASE ManagerDispatch
  <2>1. UNCHANGED workerVars
    BY <1>4 DEF ManagerDispatch, DispatchRead, DispatchProcess, DispatchWrite, SendToProcess, Running
  <2> QED
    BY <1>2, <2>1 DEF workerVars
<1>5. CASE EndDispatch \/ JoinAllProcesses \/ UNCHANGED vars
  <2>1. UNCHANGED workerVars
    BY <1>5 DEF EndDispatch, JoinAllProcesses, vars
  <2> QED
    BY <1>2, <2>1 DEF workerVars
<1>6. CASE ShutdownAllProcesses
  <2>1. ASSUME NEW w \in Worker
        PROVE  Shifted(w, 0)
    <3>1. inbox'[w] = inbox[w] \/ inbox'[w] = Append(inbox[w], Shutdown)
      BY <1>6 DEF ShutdownAllProcesses
    <3>2. CASE inbox'[w] = inbox[w]
      BY <1>1, <3>2, SameShifted
    <3>3. CASE inbox'[w] = Append(inbox[w], Shutdown)
      <4>1. /\ Len(inbox[w]) \in Nat /\ Len(inbox'[w]) = Len(inbox[w]) + 1
            /\ \A i \in 1..Len(inbox[w]) : i + 0 = i /\ inbox'[w][i] = inbox[w][i]
            /\ inbox'[w][Len(inbox[w]) + 1] = Shutdown
        BY <1>1, <3>3
      <4>2. Shutdown.command # "WRITE_PNTS"
        BY DEF Shutdown
      <4> QED
        BY <4>1, <4>2 DEF Shifted
    <3> QED
      BY <3>1, <3>2, <3>3
  <2>2. still \in [Worker -> {0, 1}] /\ \A w \in Worker : Shifted(w, still[w])
    BY <2>1
  <2>3. tiles' = tiles
    BY <1>6 DEF ShutdownAllProcesses
  <2> QED
    BY <2>2, <2>3, WriteStep
<1>7. ASSUME NEW w \in Worker, Work(w)
      PROVE  WriteInv'
  <2>1. /\ \A v \in Worker \ {w} : inbox'[v] = inbox[v]
        /\ \/ Shifted(w, 0) /\ tiles' = tiles
           \/ Shifted(w, 1) /\ (tiles' = tiles \/ Writes(w))
    BY <1>7, WorkWrites
  <2>2. \A v \in Worker \ {w} : Shifted(v, 0)
    BY <1>1, <2>1, SameShifted
  <2>3. CASE Shifted(w, 0) /\ tiles' = tiles
    <3>1. still \in [Worker -> {0, 1}] /\ \A v \in Worker : Shifted(v, still[v])
      BY <2>2, <2>3
    <3> QED
      BY <2>3, <3>1, WriteStep
  <2>4. CASE Shifted(w, 1) /\ (tiles' = tiles \/ Writes(w))
    <3> DEFINE taken == [v \in Worker |-> IF v = w THEN 1 ELSE 0]
    <3>1. taken \in [Worker -> {0, 1}] /\ \A v \in Worker : Shifted(v, taken[v])
      BY <2>2, <2>4
    <3>2. tiles' = tiles \/ \E v \in Worker : taken[v] = 1 /\ Writes(v)
      BY <2>4
    <3> HIDE DEF taken
    <3> QED
      BY <3>1, <3>2, WriteStep
  <2> QED
    BY <2>1, <2>3, <2>4
<1> QED
  BY <1>3, <1>4, <1>5, <1>6, <1>7 DEF Next, Manager, Finished

LEMMA SpecWrite == Spec => []WriteInv
<1>1. Init => WriteInv
  BY DEF Init, WriteInv
<1>2. TypeInv /\ WriteInv /\ [Next]_vars /\ ~ Running' => WriteInv'
  BY StoppedWrite
<1>3. SafeInv => TypeInv
  BY DEF SafeInv
<1> QED
  BY <1>1, <1>2, <1>3, RunningWrite, SpecPoints, PTL DEF Spec

(* A tile is published when its command is executed.                       *)
LEMMA WritePublishes ==
    ASSUME TypeInv, WriteInv, NEW w \in Worker, Writes(w), UNCHANGED outcome
    PROVE  Promise!Next
<1>1. PICK c : c = inbox[w][1]
  OBVIOUS
<1>2. inbox[w] \in Seq(Command) /\ inbox[w] # <<>> /\ 1 \in 1..Len(inbox[w]) /\ c \in Command
  <2>1. inbox[w] \in Seq(Command) /\ inbox[w] # <<>>
    BY DEF Writes, TypeInv, ChannelType
  <2>2. Len(inbox[w]) \in Nat \ {0}
    BY <2>1, LenProperties
  <2> QED
    BY <1>1, <2>1, <2>2
<1>3. c.command = "WRITE_PNTS" /\ tiles[c.name] = {}
  BY <1>1 DEF Writes
<1> PICK written \in SUBSET c.data : tiles' = [tiles EXCEPT ![c.name] = written]
  BY <1>1 DEF Writes
<1>4. c.name \in TaskName /\ c.data \subseteq Point
  BY <1>2, <1>3, CommandFields DEF Chunk
<1>5. /\ c.name # Root /\ \A p \in c.data : IsAncestor(Path[p], c.name)
      /\ \A n \in TaskName : c.data \cap tiles[n] = {}
  BY <1>1, <1>2, <1>3 DEF WriteInv, Octant
<1>6. written \in SUBSET Promise!Pending
  BY <1>4, <1>5 DEF Promise!Pending
<1>7. Status' = Status
  BY DEF Status
<1>8. Promise!Publish(c.name, written)
  BY <1>3, <1>5, <1>6, <1>7 DEF Promise!Publish, Promise!Root, Root, Promise!IsAncestor, IsAncestor
<1> QED
  BY <1>4, <1>6, <1>8 DEF Promise!Next

LEMMA StepPromise ==
    ASSUME SafeInv, EndInv, EndInv', WriteInv, [Next]_vars
    PROVE  [Promise!Next]_(Promise!vars)
<1>1. TypeInv /\ (Running <=> outcome = "running")
  BY DEF SafeInv, EndInv
<1>2. /\ Running' <=> outcome' = "running"
      /\ outcome' # outcome => outcome = "running"
  BY <1>1, StepOutcome
<1>3. \/ tiles' = tiles
      \/ \E w \in Worker : Writes(w) /\ UNCHANGED outcome
  <2>1. CASE Manager \/ UNCHANGED vars
    BY <2>1 DEF Manager, ManagerReceive, ReceiveRegister, ReceiveIdle, ReceiveError, ReceiveRead,
       ReceiveNewTask, ReceiveProcessed, ReceivePntsWritten, Receive, ManagerDispatch, DispatchRead,
       DispatchProcess, DispatchWrite, SendToProcess, EndDispatch, ShutdownAllProcesses,
       JoinAllProcesses, workerVars, vars
  <2>2. CASE \E w \in Worker : Work(w)
    BY <1>1, <2>2, WorkWrites DEF managerVars
  <2> QED
    BY <2>1, <2>2 DEF Next, Finished
<1>4. CASE \E w \in Worker : Writes(w) /\ UNCHANGED outcome
  BY <1>1, <1>4, WritePublishes
<1>5. CASE tiles' = tiles /\ outcome' = outcome
  BY <1>5 DEF Promise!vars, Status
<1>6. CASE tiles' = tiles /\ outcome' # outcome
  <2>1. Status = "running"
    BY <1>2, <1>6 DEF Status
  <2>2. CASE outcome' = "ok"
    <3>1. UNION {tiles'[n] : n \in TaskName} = Point
      BY <2>2 DEF EndInv
    <3>2. Promise!Pending = {} /\ Status' = "ok"
      BY <1>6, <2>2, <3>1 DEF Promise!Pending, Status
    <3> QED
      BY <1>6, <2>1, <3>2 DEF Promise!Next, Promise!Succeed
  <2>3. CASE outcome' # "ok"
    <3>1. Status' = "failed"
      BY <1>2, <1>6, <2>3 DEF Status
    <3> QED
      BY <1>6, <2>1, <3>1 DEF Promise!Next, Promise!GiveUp
  <2> QED
    BY <2>2, <2>3
<1> QED
  BY <1>3, <1>4, <1>5, <1>6

(* Whatever raises and in whatever order the messages come, the conversion *)
(* does what Tiling promises: a tile is written once, with points of its   *)
(* octant that no other tile has, and convert() ends without an exception  *)
(* only when every point of the input is in a tile.                        *)
THEOREM ConvertImplementsTiling == Spec => ConvertTiles
<1>1. Init => Promise!Init
  BY DEF Init, Promise!Init, Status
<1>2. SafeInv /\ EndInv /\ EndInv' /\ WriteInv /\ [Next]_vars => [Promise!Next]_(Promise!vars)
  BY StepPromise
<1> QED
  BY <1>1, <1>2, SpecEnd, SpecWrite, PTL DEF Spec, ConvertTiles, Promise!Spec
=============================================================================
