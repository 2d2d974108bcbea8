------------------------- MODULE ConvertProperties -------------------------
(***************************************************************************)
(* What makes the conversion correct.                                      *)
(***************************************************************************)
EXTENDS Convert

(* What is on its way between the manager and worker w.                    *)
Commands(w) == {inbox[w][i] : i \in 1..Len(inbox[w])}
Sent(w) == {outbox[w][i] : i \in 1..Len(outbox[w])}
CommandsOf(w, command) == {c \in Commands(w) : c.command = command}
SentOf(w, type) == {m \in Sent(w) : m.type = type}

Reading(w) == CommandsOf(w, "READ_FILE") # {} \/ SentOf(w, "READ") # {}
Writing(w) == CommandsOf(w, "WRITE_PNTS") # {} \/ SentOf(w, "PNTS_WRITTEN") # {}
NodesAt(w) == (UNION {DOMAIN c.jobs : c \in CommandsOf(w, "PROCESS_JOBS")})
              \cup {m.name : m \in SentOf(w, "PROCESSED")}
NodesToWriteAt(w) == {c.name : c \in CommandsOf(w, "WRITE_PNTS")}
TasksFrom(w) == {m.name : m \in SentOf(w, "NEW_TASK")}

WrittenNodes == {n \in TaskName : tiles[n] # {}}
Running == phase \in {"receive", "dispatch"}
(* No worker has sent an error that the manager has not received.          *)
NoError == \A w \in Worker : Error \notin Sent(w)

-----------------------------------------------------------------------------
(* Types                                                                   *)

Chunk == SUBSET Point
Job == [node : Chunk, tasks : SUBSET Chunk]
IsCommand(c) ==
    \/ c.command = "READ_FILE" /\ c.portion \in 1..Len(Portions)
    \/ /\ c.command = "PROCESS_JOBS"
       /\ DOMAIN c.jobs \subseteq TaskName
       /\ c.jobs \in [DOMAIN c.jobs -> Job]
    \/ c.command = "WRITE_PNTS" /\ c.name \in TaskName /\ c.data \in Chunk
    \/ c = Shutdown
IsMessage(m) ==
    \/ m \in {Register, Idle, Error, Halted, [type |-> "READ"]}
    \/ m.type = "NEW_TASK" /\ m.name \in TaskName /\ m.points \in Chunk
    \/ /\ m.type = "PROCESSED"
       /\ m.name \in TaskName /\ m.total \in Int /\ m.data \in Chunk
    \/ m.type = "PNTS_WRITTEN" /\ m.count \in Nat

(* The type of every variable, the commands and messages in the channels   *)
(* included.                                                               *)
TypeOK ==
    /\ point_cloud_file_parts \in 0..Len(Portions)
    /\ number_of_reading_jobs \in Int /\ number_of_writing_jobs \in Int
    /\ points_in_progress \in Int /\ processed_points \in Int /\ points_in_pnts \in Nat
    /\ node_to_process \in [TaskName -> SUBSET Chunk]
    /\ processing_nodes \subseteq TaskName
    /\ waiting_writing_nodes \subseteq TaskName
    /\ pnts_to_writing \subseteq TaskName
    /\ node_store \in [TaskName -> Chunk]
    /\ phase \in {"receive", "dispatch", "shutdown", "join", "done"}
    /\ outcome \in {"running", "ok", "bad count", "raised"}
    /\ clients \subseteq Worker /\ idle_clients \subseteq Worker
    /\ worker \in [Worker -> {"starting", "running", "halted"}]
    /\ DOMAIN inbox = Worker /\ DOMAIN outbox = Worker
    /\ \A w \in Worker :
         /\ \A c \in Commands(w) : IsCommand(c)
         /\ \A m \in Sent(w) : IsMessage(m)
    /\ tiles \in [TaskName -> Chunk]

-----------------------------------------------------------------------------
(* Safety                                                                  *)

(* The manager knows exactly which workers wait: while the loop runs, a    *)
(* registered worker is in idle_clients if and only if it has no command   *)
(* and nothing of what it sent is still to be received.  Were a busy       *)
(* worker idle, the loop could end before its last messages; were an idle  *)
(* one forgotten, the loop would wait for ever.                            *)
IdleExact ==
    Running =>
      \A w \in clients :
        w \in idle_clients <=> inbox[w] = <<>> /\ outbox[w] = <<>>

(* PointState's counters and lists agree with what is really at the        *)
(* workers, and a node is in one of the stages only: queued at a worker,   *)
(* waiting, to write, at a writer or written; until a worker sends an      *)
(* error, which ends the loop once it is received.                         *)
NodeAccounting ==
    Running /\ NoError =>
      /\ number_of_reading_jobs = Cardinality({w \in Worker : Reading(w)})
      /\ number_of_writing_jobs = Cardinality({w \in Worker : Writing(w)})
      /\ processing_nodes = UNION {NodesAt(w) : w \in Worker}
      /\ \A v, w \in Worker : v # w => NodesAt(v) \cap NodesAt(w) = {}
      /\ LET writing == UNION {NodesToWriteAt(w) : w \in Worker}
             stages == <<processing_nodes, waiting_writing_nodes, pnts_to_writing,
                         writing, WrittenNodes>>
         IN  \A i, j \in 1..5 : i # j => stages[i] \cap stages[j] = {}

(* Points never reach a tile that is being written or has been: every task *)
(* still queued, at a worker or in a message is outside the octant of such *)
(* a tile or below it, and reading is over.  It is what can_pnts_be_written*)
(* is there to ensure.                                                     *)
NoLateTask ==
    Running =>
      \A n \in pnts_to_writing \cup WrittenNodes \cup UNION {NodesToWriteAt(w) : w \in Worker} :
        /\ IsReadingFinish
        /\ ~ IsAncestorInList(n, InputNodes \cup processing_nodes
                                 \cup UNION {TasksFrom(w) : w \in Worker})

(* The points that a message carries, and those that a command to read or  *)
(* to write carries.                                                       *)
MessagePoints(m) ==
    CASE m.type = "NEW_TASK"  -> m.points
      [] m.type = "PROCESSED" -> m.data
      [] OTHER                -> {}
FilePoints(c) ==
    CASE c.command = "READ_FILE"  -> PointsOf(Portions[c.portion])
      [] c.command = "WRITE_PNTS" -> c.data
      [] OTHER                    -> {}

(* The places where the program holds point p: a portion to read or being  *)
(* read, a task (sent, queued or at a worker), a stored node (a copy at a  *)
(* worker replaces the stored one), a node at a writer or a tile.          *)
PlacesAt(w, p) ==
    {<<"command", w, i>> : i \in {i \in 1..Len(inbox[w]) : p \in FilePoints(inbox[w][i])}}
    \cup {<<"job", w, n>> : n \in {n \in TaskName :
            \E c \in CommandsOf(w, "PROCESS_JOBS") : n \in DOMAIN c.jobs /\ p \in JobPoints(c.jobs[n])}}
    \cup {<<"message", w, i>> : i \in {i \in 1..Len(outbox[w]) : p \in MessagePoints(outbox[w][i])}}
Places(p) ==
    {<<"unread", i>> : i \in {i \in 1..point_cloud_file_parts : p \in PointsOf(Portions[i])}}
    \cup {<<"task", n>> : n \in {n \in TaskName : p \in UNION node_to_process[n]}}
    \cup {<<"stored", n>> : n \in {n \in TaskName \ processing_nodes : p \in node_store[n]}}
    \cup {<<"tile", n>> : n \in {n \in TaskName : p \in tiles[n]}}
    \cup UNION {PlacesAt(w, p) : w \in Worker}

(* No step of the conversion loses a point or keeps two copies of it: not  *)
(* a node split that forwards stored points, not a node processed again,   *)
(* not a tile handed to a writer; until a worker sends an error.           *)
PointsKept == Running /\ NoError => \A p \in Point : Cardinality(Places(p)) = 1

(* processed_points is the number of points in the stored nodes, at the    *)
(* writers and in the tiles, and points_in_progress the other points that  *)
(* have been read, minus those a node has forwarded without the manager    *)
(* knowing yet: the two add up to the portions sent to the readers, until  *)
(* a worker sends an error.                                                *)
ReadPoints ==
    UNION {PointsOf(Portions[i]) : i \in (point_cloud_file_parts + 1)..Len(Portions)}
SizesOf(content) == Cardinality({q \in TaskName \X Point : q[2] \in content[q[1]]})
AtWriters ==
    [n \in TaskName |->
       UNION {UNION {c.data : c \in {c \in CommandsOf(w, "WRITE_PNTS") : c.name = n}} :
                w \in Worker}]
ProgressAccounting ==
    Running /\ NoError =>
      /\ points_in_progress + processed_points = Cardinality(ReadPoints)
      /\ processed_points = SizesOf(node_store) + SizesOf(AtWriters) + SizesOf(tiles)

(* When the loop ends by itself nothing is left to read or to process: the *)
(* limit on the points in progress never makes it give up on a portion.    *)
NothingStranded ==
    outcome \in {"ok", "bad count"} =>
      /\ point_cloud_file_parts = 0
      /\ points_in_progress = 0
      /\ InputNodes = {} /\ processing_nodes = {} /\ pnts_to_writing = {}
      /\ \A w \in Worker : Sent(w) \subseteq {Halted}

(* The manager raises nothing by itself, no KeyError in particular, and no *)
(* writer finds a file of its tile: a conversion that raises has received  *)
(* the error of a command that failed.                                     *)
RaisesOnlyForErrors ==
    /\ [](Running => \A n \in UNION {NodesToWriteAt(w) : w \in Worker} : tiles[n] = {})
    /\ [][outcome' = "raised" /\ outcome # "raised" =>
            \E w \in Worker : outbox[w] # <<>> /\ Head(outbox[w]) = Error]_vars

(* validate_binary_data finds the count of the input files.                *)
CountsMatch == outcome # "bad count"

(* Every worker gets the shutdown message, or has stopped: the reason the  *)
(* code gives for sending no command before all workers have registered.   *)
ShutdownReachesAll ==
    phase = "join" => \A w \in Worker : worker[w] = "halted" \/ Shutdown \in Commands(w)

-----------------------------------------------------------------------------
(* The abstract specification                                              *)

Status ==
    CASE outcome = "running" -> "running"
      [] outcome = "ok"      -> "ok"
      [] OTHER               -> "failed"
Promise == INSTANCE Tiling WITH Tile <- TaskName, status <- Status
(* The conversion implements Tiling: a tile is written once, a point has   *)
(* one tile, in its octant, and success means that every point has one.    *)
ConvertTiles == Promise!Spec

-----------------------------------------------------------------------------
(* Liveness                                                                *)

(* convert() returns: all the workers are joined, after a failure too.     *)
Terminates == <>(phase = "done")

(* An exception in a worker is never swallowed: it ends the conversion     *)
(* with an error.                                                          *)
ErrorsReported ==
    \A w \in Worker : (Error \in Sent(w)) ~> (outcome = "raised")
=============================================================================
