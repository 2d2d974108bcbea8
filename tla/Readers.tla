------------------------------ MODULE Readers ------------------------------
(***************************************************************************)
(* src/py3dtiles/reader: how the readers cut a file of count points into   *)
(* portions (get_metadata, in the manager) and each portion into chunks    *)
(* (run, in a worker).  A point is its row, 0 the first one.  The workers  *)
(* read the portions independently of each other, so one reader that takes *)
(* them as the manager does, from the last to the first, stands for all.   *)
(*                                                                         *)
(* Abstracted: what a row holds, except that the classifications of a      *)
(* chunk are those of a set of rows; the box and the reference system of   *)
(* the file; fraction, which no caller passes.                             *)
(***************************************************************************)
EXTENDS Integers, Sequences

CONSTANTS
    MaxCount,       \* bound on the number of points of the file
    PortionSize,    \* _1M: 1_000_000
    MinStep,        \* 100_000
    Parts,          \* 10
    Batch           \* 10_000: lines xyz_reader.get_metadata scans at a time

Smaller(a, b) == IF a < b THEN a ELSE b
Larger(a, b) == IF a < b THEN b ELSE a

Step(point_count) == Smaller(point_count, Larger(point_count \div Parts, MinStep))

(* The batches of xyz_reader and its steps, which never look where the     *)
(* portion ends, fall on the ends of the portions.                         *)
ASSUME ReaderAssumption ==
    /\ MaxCount \in Nat
    /\ PortionSize \in Nat \ {0} /\ MinStep \in Nat \ {0}
    /\ Parts \in Nat \ {0} /\ Batch \in Nat \ {0}
    /\ PortionSize % Batch = 0
    /\ PortionSize % Step(PortionSize) = 0

VARIABLES
    format,         \* which reader
    count,          \* the number of points of the file
    stage,          \* "scan" (get_metadata), "read" (run), "done", "raised"
    scanned,        \* xyz get_metadata: the points counted so far
    seek_values,    \* xyz get_metadata: the row each portion starts at
    left,           \* how many portions are left to read
    portion,        \* the portion being read, 0 when there is none
    index,          \* how many chunks of it have been read
    chunk,          \* the last chunk: the rows of its points, of its classifications
    times           \* how many times each row has been yielded

vars == <<format, count, stage, scanned, seek_values, left, portion, index, chunk, times>>

Rows == 0..(count - 1)

(* math.ceil(a / b)                                                        *)
CeilDiv(a, b) == (a + b - 1) \div b

Size == IF format = "ply" THEN count ELSE Smaller(count, PortionSize)
PortionCount == CeilDiv(count, Size)
First(i) == (i - 1) * Size
Last(i) == Smaller(count, i * Size)
PointCount(i) == Last(i) - First(i)

NoChunk == [rows |-> {}, classification |-> {}]

Init ==
    /\ format \in {"las", "xyz", "ply"}
    /\ count \in 0..MaxCount
    /\ stage = "scan"
    /\ scanned = 0 /\ seek_values = <<>>
    /\ left = 0 /\ portion = 0 /\ index = 0
    /\ chunk = NoChunk
    /\ times = [row \in Rows |-> 0]

StartReading ==
    /\ stage' = "read"
    /\ left' = PortionCount
    /\ UNCHANGED <<format, count, portion, index, chunk, times>>

Raise ==
    /\ stage' = "raised"
    /\ UNCHANGED <<format, count, left, portion, index, chunk, times>>

(* get_metadata of las_reader and ply_reader: an empty file is a division  *)
(* by zero in the first, a minimum of nothing in the second.               *)
GetMetadata ==
    /\ stage = "scan" /\ format # "xyz"
    /\ IF count = 0 THEN Raise ELSE StartReading
    /\ UNCHANGED <<scanned, seek_values>>

(* get_metadata of xyz_reader: one batch of lines.                         *)
(* The definitions whose name starts with Bug are mutations, each of the   *)
(* definition after it: no specification uses them, they show that a       *)
(* property fails when the code has that bug.                              *)
BugSeeks == scanned % Batch = 0
Seeks == scanned % PortionSize = 0
BugBatchLines == Batch
BatchLines == Smaller(Batch, count - scanned)
ScanBatch ==
    /\ stage = "scan" /\ format = "xyz"
    /\ scanned < count
    /\ seek_values' = IF Seeks THEN Append(seek_values, scanned) ELSE seek_values
    /\ scanned' = scanned + BatchLines
    /\ UNCHANGED <<format, count, stage, left, portion, index, chunk, times>>

(* The batch is empty: the portions are computed, one per seek value.  A   *)
(* file without points is a division by zero here too.                     *)
EndScan ==
    /\ stage = "scan" /\ format = "xyz"
    /\ scanned = count
    /\ IF count = 0 \/ PortionCount # Len(seek_values) THEN Raise ELSE StartReading
    /\ UNCHANGED <<scanned, seek_values>>

NextPortion ==
    /\ stage = "read" /\ portion = 0 /\ left > 0
    /\ portion' = left
    /\ left' = left - 1
    /\ index' = 0
    /\ UNCHANGED <<format, count, stage, scanned, seek_values, chunk, times>>

Yield(rows, classification) ==
    /\ chunk' = [rows |-> rows, classification |-> classification]
    /\ times' = [row \in Rows |-> times[row] + (IF row \in rows THEN 1 ELSE 0)]
    /\ index' = index + 1
    /\ UNCHANGED <<format, count, stage, scanned, seek_values, left, portion>>

ChunkStep == Step(PointCount(portion))
HasChunk == stage = "read" /\ portion # 0 /\ index * ChunkStep < PointCount(portion)

(* las_reader and ply_reader: the chunk ends with the portion.  ply_reader *)
(* slices the coordinates and the colors only.                             *)
BugChunkRows ==
    LET start_offset == index * ChunkStep
        num == Smaller(ChunkStep, Last(portion) - start_offset)
    IN  start_offset..(start_offset + num - 1)
BugWholeSteps ==
    LET start_offset == First(portion) + index * ChunkStep
    IN  start_offset..(start_offset + ChunkStep - 1)
ChunkRows ==
    LET start_offset == First(portion) + index * ChunkStep
        num == Smaller(ChunkStep, Last(portion) - start_offset)
    IN  start_offset..(start_offset + num - 1)
ReadChunk ==
    /\ HasChunk /\ format # "xyz"
    /\ Yield(ChunkRows, IF format = "ply" THEN Rows ELSE ChunkRows)

(* xyz_reader: the next lines of the file, a whole step of them unless the *)
(* file ends.                                                              *)
ReadLines ==
    /\ HasChunk /\ format = "xyz"
    /\ LET line == seek_values[portion] + index * ChunkStep
           lines == line..(Smaller(count, line + ChunkStep) - 1)
       IN  Yield(lines, lines)

EndPortion ==
    /\ stage = "read" /\ portion # 0 /\ ~ HasChunk
    /\ portion' = 0
    /\ UNCHANGED <<format, count, stage, scanned, seek_values, left, index, chunk, times>>

EndFile ==
    /\ stage = "read" /\ portion = 0 /\ left = 0
    /\ stage' = "done"
    /\ UNCHANGED <<format, count, scanned, seek_values, left, portion, index, chunk, times>>

Next ==
    \/ GetMetadata
    \/ ScanBatch
    \/ EndScan
    \/ NextPortion
    \/ ReadChunk
    \/ ReadLines
    \/ EndPortion
    \/ EndFile

Spec == Init /\ [][Next]_vars

-----------------------------------------------------------------------------
(* Properties                                                              *)

(* The type of every variable.                                             *)
TypeOK ==
    /\ format \in {"las", "xyz", "ply"}
    /\ count \in 0..MaxCount
    /\ stage \in {"scan", "read", "done", "raised"}
    /\ scanned \in 0..count
    /\ seek_values \in Seq(Nat)
    /\ left \in Nat /\ portion \in Nat /\ index \in Nat
    /\ chunk \in [rows : SUBSET Rows, classification : SUBSET Rows]
    /\ times \in [Rows -> Nat]

(* The chunks are a partition of the file: no row is yielded twice and, in *)
(* the end, every row has been.  xyz_reader relies on the sizes for it: it *)
(* seeks where a batch began and reads whole steps.  PointTiler assumes it *)
(* (PortionAssumption), and the count of the written points depends on it. *)
EachRowOnce ==
    /\ \A row \in Rows : times[row] <= 1
    /\ stage = "done" => \A row \in Rows : times[row] = 1

(* A chunk has points, all of them of the portion that was announced to    *)
(* the manager, which counts them as in progress from the portion's bounds.*)
ChunkInPortion ==
    stage = "read" /\ portion # 0 /\ index > 0 =>
        /\ chunk.rows # {}
        /\ chunk.rows \subseteq First(portion)..(Last(portion) - 1)

(* get_metadata accepts every file that has points: the check of the seek  *)
(* values of xyz_reader never fails.                                       *)
MetadataAccepted == stage = "raised" => count = 0

(* A chunk comes with the classifications of its points.                   *)
ClassificationAligned == chunk.classification = chunk.rows
=============================================================================
