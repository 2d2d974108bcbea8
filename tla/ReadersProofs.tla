--------------------------- MODULE ReadersProofs ---------------------------
(***************************************************************************)
(* Proofs about Readers, for files of any length and sizes of portions,    *)
(* steps and batches that satisfy ReaderAssumption.                        *)
(***************************************************************************)
EXTENDS Readers, TLAPS

-----------------------------------------------------------------------------
(* Arithmetic                                                              *)

LEMMA MulType == \A a, b \in Nat : a * b \in Nat
  OBVIOUS

LEMMA MulMono ==
    ASSUME NEW a \in Int, NEW b \in Int, NEW c \in Nat, a <= b
    PROVE  a * c <= b * c
<1>1. (b - a) * c >= 0
  OBVIOUS
<1> QED
  BY <1>1

(* A multiple of c below another one is below it by c.                     *)
LEMMA MulGap ==
    ASSUME NEW a \in Int, NEW b \in Int, NEW c \in Nat, a * c < b * c
    PROVE  (a + 1) * c <= b * c
<1>1. a < b
  BY MulMono
<1> QED
  BY <1>1, MulMono

LEMMA DivMod ==
    ASSUME NEW a \in Int, NEW b \in Int, b > 0
    PROVE  /\ a \div b \in Int
           /\ a % b \in 0..(b - 1)
           /\ a % b = a - b * (a \div b)
<1>1. a \div b \in Int /\ a % b \in 0..(b - 1)
  OBVIOUS
<1>2. a % b = a - b * (a \div b)
  OBVIOUS
<1> QED
  BY <1>1, <1>2

LEMMA Divides ==
    ASSUME NEW a \in Nat, NEW b \in Nat \ {0}, a % b = 0
    PROVE  \E k \in Nat : a = k * b
<1>1. a = (a \div b) * b
  BY DivMod
<1>2. a \div b \in Nat
  OBVIOUS
<1> QED
  BY <1>1, <1>2

LEMMA NotDivides ==
    ASSUME NEW a \in Nat, NEW b \in Nat \ {0}, NEW k \in Nat,
           k * b < a, a < (k + 1) * b
    PROVE  a % b # 0
<1> SUFFICES ASSUME a % b = 0 PROVE FALSE
  OBVIOUS
<1>1. PICK m \in Nat : a = m * b
  BY Divides
<1>2. (k + 1) * b <= m * b
  BY <1>1, MulGap
<1> QED
  BY <1>1, <1>2

LEMMA ModOfMultiple ==
    ASSUME NEW k \in Nat, NEW b \in Nat \ {0}
    PROVE  (k * b) % b = 0
  OBVIOUS

LEMMA CeilDivBounds ==
    ASSUME NEW a \in Nat \ {0}, NEW b \in Nat \ {0}
    PROVE  /\ CeilDiv(a, b) \in Nat \ {0}
           /\ (CeilDiv(a, b) - 1) * b < a
           /\ a <= CeilDiv(a, b) * b
<1> DEFINE n == a + b - 1
           q == n \div b
<1>1. n \in Int /\ q \in Int /\ n % b \in 0..(b - 1) /\ n % b = n - b * q
  BY DivMod
<1>2. b * q <= a + b - 1 /\ a <= b * q
  BY <1>1
<1>3. (q - 1) * b = b * q - b /\ q * b = b * q
  BY <1>1
<1>4. q > 0
  <2>1. 0 * b < q * b
    BY <1>1, <1>2, <1>3
  <2> QED
    BY <2>1, <1>1, MulMono
<1> HIDE DEF q
<1>5. (q - 1) * b < a /\ a <= q * b
  BY <1>1, <1>2, <1>3
<1> QED
  BY <1>1, <1>4, <1>5 DEF CeilDiv, q

-----------------------------------------------------------------------------
(* The sizes of portions and chunks                                        *)

LEMMA SizeFacts ==
    ASSUME TypeOK, count > 0
    PROVE  /\ Size \in Nat \ {0}
           /\ Size <= count
           /\ format # "ply" /\ Size < count => Size = PortionSize
           /\ format # "ply" /\ PortionSize <= count => Size = PortionSize
           /\ PortionCount \in Nat \ {0}
           /\ (PortionCount - 1) * Size < count
           /\ count <= PortionCount * Size
<1>1. /\ Size \in Nat \ {0}
      /\ Size <= count
      /\ format # "ply" /\ Size < count => Size = PortionSize
      /\ format # "ply" /\ PortionSize <= count => Size = PortionSize
  BY ReaderAssumption DEF TypeOK, Size, Smaller
<1>2. count \in Nat \ {0}
  BY ReaderAssumption DEF TypeOK
<1> QED
  BY <1>1, <1>2, CeilDivBounds DEF PortionCount

LEMMA StepType == \A n \in Nat \ {0} : Step(n) \in Nat \ {0} /\ Step(n) <= n
<1> TAKE n \in Nat \ {0}
<1>1. n \div Parts \in Int
  BY DivMod, ReaderAssumption
<1> QED
  BY <1>1, ReaderAssumption DEF Step, Smaller, Larger

(* A portion starts and ends in the file, and only the last one is shorter *)
(* than the others.                                                        *)
LEMMA PortionFacts ==
    ASSUME TypeOK, count > 0, NEW i \in Nat \ {0}, i <= PortionCount
    PROVE  /\ First(i) \in Nat /\ First(i) < count
           /\ i * Size \in Nat /\ i * Size = First(i) + Size
           /\ Last(i) \in Nat /\ Last(i) = Smaller(count, i * Size)
           /\ First(i) < Last(i)
           /\ PointCount(i) \in Nat \ {0} /\ PointCount(i) = Last(i) - First(i)
           /\ Step(PointCount(i)) \in Nat \ {0}
           /\ format # "ply" /\ i * Size < count => PointCount(i) = PortionSize
<1>1. Size \in Nat \ {0} /\ PortionCount \in Nat \ {0} /\ count \in Nat \ {0}
  BY SizeFacts DEF TypeOK
<1>2. First(i) \in Nat /\ i * Size \in Nat /\ i * Size = First(i) + Size
  <2>1. i - 1 \in Nat
    OBVIOUS
  <2>2. (i - 1) * Size \in Nat /\ i * Size \in Nat
    BY <1>1, <2>1, MulType
  <2>3. i * Size = (i - 1) * Size + Size
    BY <1>1
  <2> QED
    BY <2>2, <2>3 DEF First
<1>3. First(i) < count
  <2>1. (i - 1) * Size <= (PortionCount - 1) * Size
    BY <1>1, MulMono
  <2>2. (PortionCount - 1) * Size < count
    BY SizeFacts
  <2>3. (PortionCount - 1) * Size \in Int
    BY <1>1
  <2> QED
    BY <1>1, <1>2, <2>1, <2>2, <2>3 DEF First
<1>4. Last(i) = Smaller(count, i * Size) /\ Last(i) \in Nat /\ First(i) < Last(i)
  BY <1>1, <1>2, <1>3 DEF Last, Smaller
<1>5. PointCount(i) \in Nat \ {0} /\ PointCount(i) = Last(i) - First(i)
  BY <1>2, <1>4 DEF PointCount
<1>6. Step(PointCount(i)) \in Nat \ {0}
  BY <1>5, StepType
<1>7. ASSUME format # "ply", i * Size < count PROVE PointCount(i) = PortionSize
  <2>1. Size < count
    <3>1. 1 * Size <= i * Size
      BY <1>1, MulMono
    <3> QED
      BY <3>1, <1>1, <1>2, <1>7
  <2>2. Size = PortionSize
    BY <2>1, <1>7, SizeFacts
  <2> QED
    BY <1>1, <1>2, <1>4, <1>5, <1>7, <2>2 DEF Smaller
<1> QED
  BY <1>2, <1>3, <1>4, <1>5, <1>6, <1>7

-----------------------------------------------------------------------------
(* The inductive invariant                                                 *)

(* The rows from here on are in portions that have been read.              *)
Upper == (IF portion = 0 THEN left ELSE portion) * Size
WasRead(row) ==
    \/ row >= Upper
    \/ portion # 0 /\ First(portion) <= row /\ row < First(portion) + index * ChunkStep

Unread == [row \in Rows |-> 0]

(* get_metadata has read nothing; the one of xyz_reader has recorded the   *)
(* beginning of every portion it has scanned a part of.                    *)
Scanning ==
    stage = "scan" =>
      /\ left = 0 /\ portion = 0 /\ index = 0
      /\ chunk = NoChunk /\ times = Unread
SeeksScanned ==
    stage = "scan" /\ format = "xyz" =>
      /\ scanned = 0 => Len(seek_values) = 0
      /\ scanned # 0 => /\ Len(seek_values) > 0
                        /\ (Len(seek_values) - 1) * PortionSize < scanned
                        /\ scanned <= Len(seek_values) * PortionSize
      /\ scanned < count => \E k \in Nat : scanned = k * Batch
      /\ \A i \in 1..Len(seek_values) : seek_values[i] = (i - 1) * PortionSize

Reading ==
    stage \in {"read", "done"} =>
      /\ count > 0
      /\ IF portion = 0 THEN left <= PortionCount
                        ELSE portion = left + 1 /\ portion <= PortionCount
      /\ \A row \in Rows : times[row] = IF WasRead(row) THEN 1 ELSE 0
SeeksKnown ==
    stage \in {"read", "done"} /\ format = "xyz" =>
      /\ Len(seek_values) = PortionCount
      /\ \A i \in 1..PortionCount : seek_values[i] = First(i)
AllRead == stage = "done" => portion = 0 /\ left = 0
NotReadYet == stage = "raised" => times = Unread

IInv ==
    /\ TypeOK
    /\ Scanning
    /\ SeeksScanned
    /\ Reading
    /\ SeeksKnown
    /\ AllRead
    /\ NotReadYet
    /\ ChunkInPortion
    /\ MetadataAccepted

LEMMA InitIInv == Init => IInv
<1> SUFFICES ASSUME Init PROVE IInv
  OBVIOUS
<1>1. TypeOK
  BY ReaderAssumption DEF Init, TypeOK, NoChunk
<1>2. SeeksScanned
  <2>1. 0 = 0 * Batch
    BY ReaderAssumption
  <2> QED
    BY <2>1 DEF Init, SeeksScanned
<1>3. Scanning /\ Reading /\ SeeksKnown /\ AllRead /\ NotReadYet /\ ChunkInPortion /\ MetadataAccepted
  BY DEF Init, Scanning, Reading, SeeksKnown, AllRead, NotReadYet, ChunkInPortion,
         MetadataAccepted, Unread
<1> QED
  BY <1>1, <1>2, <1>3 DEF IInv

(* When the scan ends there is one seek value per portion.                 *)
LEMMA SeeksAreFirsts ==
    ASSUME IInv, stage = "scan", format = "xyz", scanned = count, count > 0
    PROVE  /\ PortionCount = Len(seek_values)
           /\ \A i \in 1..PortionCount : seek_values[i] = First(i)
<1> DEFINE s == Len(seek_values)
<1>1. /\ s \in Nat \ {0} /\ (s - 1) * PortionSize < count /\ count <= s * PortionSize
      /\ \A i \in 1..s : seek_values[i] = (i - 1) * PortionSize
  <2>1. s \in Nat
    BY DEF IInv, TypeOK
  <2> QED
    BY <2>1 DEF IInv, SeeksScanned
<1>2. PortionSize \in Nat \ {0} /\ count \in Nat \ {0}
  BY ReaderAssumption DEF IInv, TypeOK
<1>3. /\ Size \in Nat \ {0} /\ Size <= count
      /\ PortionSize <= count => Size = PortionSize
      /\ Size < count => Size = PortionSize
      /\ PortionCount \in Nat \ {0}
      /\ (PortionCount - 1) * Size < count /\ count <= PortionCount * Size
  BY SizeFacts DEF IInv
<1> HIDE DEF s
<1>4. CASE PortionSize <= count
  <2>1. Size = PortionSize
    BY <1>3, <1>4
  <2>2. (PortionCount - 1) * PortionSize < s * PortionSize
    BY <1>1, <1>2, <1>3, <2>1
  <2>3. (s - 1) * PortionSize < PortionCount * PortionSize
    BY <1>1, <1>2, <1>3, <2>1
  <2>4. PortionCount - 1 < s
    <3>1. CASE s <= PortionCount - 1
      BY <3>1, <2>2, <1>1, <1>2, <1>3, MulMono
    <3> QED
      BY <3>1, <1>1, <1>3
  <2>5. s - 1 < PortionCount
    <3>1. CASE PortionCount <= s - 1
      BY <3>1, <2>3, <1>1, <1>2, <1>3, MulMono
    <3> QED
      BY <3>1, <1>1, <1>3
  <2>6. PortionCount = s
    BY <2>4, <2>5, <1>1, <1>3
  <2> QED
    BY <2>1, <2>6, <1>1 DEF First, s
<1>5. CASE count < PortionSize
  <2>1. Size = count
    BY <1>2, <1>3, <1>5
  <2>2. s = 1
    <3>1. CASE 1 <= s - 1
      <4>1. 1 * PortionSize <= (s - 1) * PortionSize
        BY <3>1, <1>1, <1>2, MulMono
      <4> QED
        BY <4>1, <1>1, <1>2, <1>5
    <3> QED
      BY <3>1, <1>1
  <2>3. PortionCount = 1
    <3>1. CASE 1 <= PortionCount - 1
      <4>1. 1 * count <= (PortionCount - 1) * count
        BY <3>1, <1>2, <1>3, MulMono
      <4> QED
        BY <4>1, <2>1, <1>2, <1>3
    <3> QED
      BY <3>1, <1>3
  <2>4. seek_values[1] = 0 /\ First(1) = 0
    BY <1>1, <1>2, <1>3, <2>2 DEF First
  <2> QED
    BY <2>2, <2>3, <2>4 DEF s
<1> QED
  BY <1>2, <1>4, <1>5

-----------------------------------------------------------------------------
(* One lemma per action                                                    *)

(* The first portion to be read is the last of the file: nothing is read.  *)
LEMMA StartReads ==
    ASSUME IInv, stage = "scan", count > 0, StartReading,
           UNCHANGED <<scanned, seek_values>>,
           format = "xyz" => /\ PortionCount = Len(seek_values)
                             /\ \A i \in 1..PortionCount : seek_values[i] = First(i)
    PROVE  IInv'
<1> USE DEF IInv
<1>1. portion = 0 /\ index = 0 /\ chunk = NoChunk /\ times = Unread
  BY DEF Scanning
<1>2. /\ format' = format /\ count' = count /\ Size' = Size /\ PortionCount' = PortionCount
      /\ portion' = 0 /\ left' = PortionCount /\ stage' = "read"
      /\ \A i : First(i)' = First(i)
  BY <1>1 DEF StartReading, Size, PortionCount, First
<1>3. PortionCount \in Nat \ {0} /\ count <= PortionCount * Size /\ Size \in Nat
  BY SizeFacts
<1>4. TypeOK'
  BY <1>1, <1>2, <1>3 DEF TypeOK, StartReading, Rows
<1>5. Reading'
  <2>1. \A row \in Rows : times[row] = 0 /\ ~ (row >= PortionCount * Size)
    BY <1>1, <1>3 DEF Unread, Rows, TypeOK
  <2>2. \A row : WasRead(row)' <=> row >= PortionCount * Size
    BY <1>2 DEF WasRead, Upper
  <2>3. Rows' = Rows /\ times' = times
    BY <1>2 DEF StartReading, Rows
  <2> QED
    BY <1>2, <1>3, <2>1, <2>2, <2>3 DEF Reading
<1>6. SeeksKnown'
  BY <1>2 DEF SeeksKnown
<1>7. (Scanning /\ SeeksScanned /\ AllRead /\ NotReadYet /\ ChunkInPortion /\ MetadataAccepted)'
  BY <1>1, <1>2 DEF Scanning, SeeksScanned, AllRead, NotReadYet, ChunkInPortion, MetadataAccepted
<1> QED
  BY <1>4, <1>5, <1>6, <1>7

LEMMA RaiseKeeps ==
    ASSUME IInv, stage = "scan", count = 0, Raise, UNCHANGED <<scanned, seek_values>>
    PROVE  IInv'
<1>1. TypeOK'
  BY DEF IInv, TypeOK, Raise, Rows
<1>2. (Scanning /\ SeeksScanned /\ Reading /\ SeeksKnown /\ AllRead /\ NotReadYet
       /\ ChunkInPortion /\ MetadataAccepted)'
  BY DEF IInv, Raise, Scanning, SeeksScanned, Reading, SeeksKnown, AllRead, NotReadYet,
         Unread, Rows, ChunkInPortion, MetadataAccepted
<1> QED
  BY <1>1, <1>2 DEF IInv

LEMMA GetMetadataIInv == IInv /\ GetMetadata => IInv'
<1> SUFFICES ASSUME IInv, GetMetadata PROVE IInv'
  OBVIOUS
<1>1. count \in Nat
  BY DEF IInv, TypeOK
<1>2. CASE count = 0
  BY <1>2, RaiseKeeps DEF GetMetadata
<1>3. CASE count > 0
  BY <1>3, StartReads DEF GetMetadata
<1> QED
  BY <1>1, <1>2, <1>3

LEMMA EndScanIInv == IInv /\ EndScan => IInv'
<1> SUFFICES ASSUME IInv, EndScan PROVE IInv'
  OBVIOUS
<1>1. count \in Nat
  BY DEF IInv, TypeOK
<1>2. CASE count = 0
  BY <1>2, RaiseKeeps DEF EndScan
<1>3. CASE count > 0
  <2>1. /\ PortionCount = Len(seek_values)
        /\ \A i \in 1..PortionCount : seek_values[i] = First(i)
    BY <1>3, SeeksAreFirsts DEF EndScan
  <2> QED
    BY <1>3, <2>1, StartReads DEF EndScan
<1> QED
  BY <1>1, <1>2, <1>3

LEMMA ScanBatchIInv == IInv /\ ScanBatch => IInv'
<1> SUFFICES ASSUME IInv, ScanBatch PROVE IInv'
  OBVIOUS
<1> DEFINE s == Len(seek_values)
           P == PortionSize
<1>1. /\ stage = "scan" /\ format = "xyz" /\ scanned < count
      /\ scanned \in Nat /\ count \in Nat /\ s \in Nat /\ seek_values \in Seq(Nat)
  BY DEF IInv, TypeOK, ScanBatch
<1>2. P \in Nat \ {0} /\ Batch \in Nat \ {0}
  BY ReaderAssumption
<1>3. PICK k \in Nat : scanned = k * Batch
  BY <1>1 DEF IInv, SeeksScanned
<1>4. PICK m \in Nat : P = m * Batch
  BY ReaderAssumption, Divides
<1>5. /\ scanned = 0 => s = 0
      /\ scanned # 0 => s > 0 /\ (s - 1) * P < scanned /\ scanned <= s * P
      /\ \A i \in 1..s : seek_values[i] = (i - 1) * P
  BY <1>1 DEF IInv, SeeksScanned
<1> DEFINE n == scanned + BatchLines
<1>6. /\ scanned' = n /\ n \in Nat /\ n <= count /\ scanned < n /\ n <= scanned + Batch
      /\ n < count => n = scanned + Batch
  BY <1>1, <1>2 DEF ScanBatch, BatchLines, Smaller
<1>7. \A t \in Nat : scanned < t * P => n <= t * P
  <2> TAKE t \in Nat
  <2> HAVE scanned < t * P
  <2>1. t * P = (t * m) * Batch /\ t * m \in Nat
    BY <1>2, <1>4
  <2>2. (k + 1) * Batch <= (t * m) * Batch
    BY <1>2, <1>3, <2>1, MulGap
  <2>3. (k + 1) * Batch = scanned + Batch
    BY <1>2, <1>3
  <2>4. t * P \in Nat
    BY <1>2
  <2> QED
    BY <1>1, <1>2, <1>6, <2>1, <2>2, <2>3, <2>4
<1>8. s * P \in Nat /\ (s + 1) * P = s * P + P
  BY <1>1, <1>2
<1>9. n < count => n = (k + 1) * Batch
  BY <1>1, <1>2, <1>3, <1>6
<1> HIDE DEF n, s
<1>10. Seeks <=> scanned = s * P
  <2>1. ASSUME scanned = s * P PROVE Seeks
    BY <1>1, <1>2, <2>1, ModOfMultiple DEF Seeks
  <2>2. ASSUME scanned # s * P PROVE ~ Seeks
    <3>1. scanned # 0
      BY <1>2, <1>5, <2>2
    <3>2. s - 1 \in Nat /\ (s - 1) * P < scanned /\ scanned < ((s - 1) + 1) * P
      BY <1>1, <1>2, <1>5, <1>8, <2>2, <3>1
    <3> QED
      BY <1>1, <1>2, <3>2, NotDivides DEF Seeks
  <2> QED
    BY <2>1, <2>2
<1>11. /\ Len(seek_values') \in Nat \ {0} /\ seek_values' \in Seq(Nat)
       /\ (Len(seek_values') - 1) * P < n /\ n <= Len(seek_values') * P
       /\ \A i \in 1..Len(seek_values') : seek_values'[i] = (i - 1) * P
  <2>1. CASE Seeks
    <3>1. scanned = s * P
      BY <1>10, <2>1
    <3>2. seek_values' = Append(seek_values, scanned)
      BY <2>1 DEF ScanBatch
    <3>3. /\ seek_values' \in Seq(Nat) /\ Len(seek_values') = s + 1
          /\ \A i \in 1..s : seek_values'[i] = seek_values[i]
          /\ seek_values'[s + 1] = scanned
      BY <1>1, <3>2 DEF s
    <3>4. n <= (s + 1) * P
      BY <1>1, <1>2, <1>7, <1>8, <3>1
    <3>5. ((s + 1) - 1) * P = s * P
      BY <1>1
    <3>6. \A i \in 1..(s + 1) : seek_values'[i] = (i - 1) * P
      <4> TAKE i \in 1..(s + 1)
      <4>1. CASE i = s + 1
        BY <3>1, <3>3, <3>5, <4>1
      <4>2. CASE i \in 1..s
        BY <1>5, <3>3, <4>2
      <4> QED
        BY <1>1, <4>1, <4>2
    <3>7. Len(seek_values') \in Nat \ {0} /\ Len(seek_values') - 1 = s
      BY <1>1, <3>3
    <3>8. s * P < n
      BY <1>6, <3>1
    <3> QED
      BY <3>3, <3>4, <3>6, <3>7, <3>8
  <2>2. CASE ~ Seeks
    <3>1. seek_values' = seek_values /\ scanned # s * P
      BY <1>10, <2>2 DEF ScanBatch
    <3>2. scanned # 0
      BY <1>2, <1>5, <3>1
    <3>3. s > 0 /\ (s - 1) * P < scanned /\ scanned < s * P
      BY <1>1, <1>5, <1>8, <3>1, <3>2
    <3>4. n <= s * P
      BY <1>1, <1>7, <3>3
    <3>5. (s - 1) * P \in Int
      BY <1>1, <1>2
    <3> QED
      BY <1>1, <1>5, <1>6, <3>1, <3>3, <3>4, <3>5 DEF s
  <2> QED
    BY <2>1, <2>2
<1>12. TypeOK'
  <2>1. Rows' = Rows /\ UNCHANGED <<format, count, stage, left, portion, index, chunk, times>>
    BY DEF ScanBatch, Rows
  <2>2. scanned' \in 0..count /\ seek_values' \in Seq(Nat)
    BY <1>1, <1>6, <1>11
  <2>3. TypeOK
    BY DEF IInv
  <2> QED
    BY <2>1, <2>2, <2>3 DEF TypeOK
<1>13. SeeksScanned'
  <2>1. count' = count
    BY DEF ScanBatch
  <2>2. n # 0
    BY <1>1, <1>6
  <2>3. k + 1 \in Nat
    OBVIOUS
  <2> QED
    BY <1>6, <1>9, <1>11, <2>1, <2>2, <2>3 DEF SeeksScanned
<1>14. (Scanning /\ Reading /\ SeeksKnown /\ AllRead /\ NotReadYet
        /\ ChunkInPortion /\ MetadataAccepted)'
  BY <1>1 DEF IInv, ScanBatch, Scanning, Unread, Rows, Reading, SeeksKnown, AllRead,
              NotReadYet, ChunkInPortion, MetadataAccepted
<1> QED
  BY <1>12, <1>13, <1>14 DEF IInv

LEMMA NextPortionIInv == IInv /\ NextPortion => IInv'
<1> SUFFICES ASSUME IInv, NextPortion PROVE IInv'
  OBVIOUS
<1>1. /\ stage = "read" /\ portion = 0 /\ left > 0 /\ left \in Nat
      /\ portion' = left /\ left' = left - 1 /\ index' = 0
      /\ format' = format /\ count' = count /\ stage' = stage
      /\ seek_values' = seek_values /\ chunk' = chunk /\ times' = times
      /\ scanned' = scanned
  BY DEF IInv, TypeOK, NextPortion
<1>2. Size' = Size /\ PortionCount' = PortionCount /\ Rows' = Rows /\ (\A i : First(i)' = First(i))
  BY <1>1 DEF Size, PortionCount, First, Rows
<1>3. count > 0 /\ left <= PortionCount /\ count \in Nat /\ Rows \subseteq Int
  BY <1>1 DEF IInv, TypeOK, Reading, Rows
<1>4. TypeOK'
  BY <1>1, <1>2 DEF IInv, TypeOK
<1>5. Reading'
  <2>1. First(left) \in Nat /\ Step(PointCount(left)) \in Nat
    BY <1>1, <1>3, PortionFacts DEF IInv
  <2>2. ChunkStep' = Step(PointCount(left))
    BY <1>1, <1>2 DEF ChunkStep, PointCount, Last
  <2>3. index' * ChunkStep' = 0
    BY <1>1, <2>1, <2>2
  <2>4. Upper' = Upper
    BY <1>1, <1>2 DEF Upper
  <2>5. \A row \in Rows : WasRead(row)' <=> row >= Upper
    BY <1>1, <1>2, <1>3, <2>1, <2>3, <2>4 DEF WasRead
  <2>6. \A row \in Rows : WasRead(row) <=> row >= Upper
    BY <1>1 DEF WasRead
  <2>7. \A row \in Rows : times[row] = IF WasRead(row) THEN 1 ELSE 0
    BY <1>1 DEF IInv, Reading
  <2> QED
    BY <1>1, <1>2, <1>3, <2>5, <2>6, <2>7 DEF Reading
<1>6. (Scanning /\ SeeksScanned /\ SeeksKnown /\ AllRead /\ NotReadYet
       /\ ChunkInPortion /\ MetadataAccepted)'
  BY <1>1, <1>2 DEF IInv, Scanning, SeeksScanned, SeeksKnown, AllRead, NotReadYet,
                    ChunkInPortion, MetadataAccepted
<1> QED
  BY <1>4, <1>5, <1>6 DEF IInv

(* Rows below f + i, or from u on, have been read: those of the chunk are  *)
(* the next ones below f + i + step.                                       *)
LEMMA NextRows ==
    ASSUME NEW n \in Nat, NEW u \in Nat, NEW f \in Nat, NEW i \in Nat, NEW step \in Nat,
           NEW end \in Int, NEW last \in Int, f + i < end,
           end <= f + i + step, end <= n, end <= u, end <= last,
           end = f + i + step \/ end = n \/ end = u
    PROVE  /\ f + i \in (f + i)..(end - 1)
           /\ (f + i)..(end - 1) \subseteq f..(last - 1)
           /\ (f + i)..(end - 1) \subseteq 0..(n - 1)
           /\ \A row \in 0..(n - 1) :
                (row >= u \/ (f <= row /\ row < f + (i + step)))
                <=> \/ row >= u \/ (f <= row /\ row < f + i)
                    \/ row \in (f + i)..(end - 1)
           /\ \A row \in (f + i)..(end - 1) :
                ~ (row >= u \/ (f <= row /\ row < f + i))
  OBVIOUS

(* A chunk that begins where the last one ended and goes on to the end of  *)
(* the step, of the portion or of the file reads new rows of the portion.  *)
LEMMA YieldKeeps ==
    ASSUME IInv, HasChunk, NEW classification \in SUBSET Rows, NEW end \in Int,
           LET begin == First(portion) + index * ChunkStep
           IN  /\ begin < end
               /\ end = Smaller(begin + ChunkStep, Last(portion))
               /\ Yield(begin..(end - 1), classification)
    PROVE  IInv'
<1> DEFINE begin == First(portion) + index * ChunkStep
           rows == begin..(end - 1)
<1>1. /\ stage = "read" /\ portion # 0 /\ portion \in Nat /\ index \in Nat /\ count \in Nat
      /\ index' = index + 1 /\ chunk' = [rows |-> rows, classification |-> classification]
      /\ times' = [row \in Rows |-> times[row] + (IF row \in rows THEN 1 ELSE 0)]
      /\ portion' = portion /\ left' = left /\ format' = format /\ count' = count
      /\ stage' = stage /\ seek_values' = seek_values /\ scanned' = scanned
  BY DEF IInv, TypeOK, HasChunk, Yield
<1>2. /\ Size' = Size /\ PortionCount' = PortionCount /\ Rows' = Rows
      /\ (\A i : First(i)' = First(i) /\ Last(i)' = Last(i))
      /\ ChunkStep' = ChunkStep
  BY <1>1 DEF Size, PortionCount, First, Last, Rows, ChunkStep, PointCount
<1>3. count > 0 /\ portion <= PortionCount
  BY <1>1 DEF IInv, Reading
<1>4. /\ First(portion) \in Nat /\ portion * Size \in Nat
      /\ Last(portion) \in Nat /\ Last(portion) = Smaller(count, portion * Size)
      /\ ChunkStep \in Nat \ {0}
  BY <1>1, <1>3, PortionFacts DEF IInv, ChunkStep
<1>5. index * ChunkStep \in Nat /\ (index + 1) * ChunkStep = index * ChunkStep + ChunkStep
  BY <1>1, <1>4
<1> DEFINE i == index * ChunkStep
           j == (index + 1) * ChunkStep
           u == portion * Size
<1>6. Upper = u /\ Upper' = u
  BY <1>1, <1>2 DEF Upper
<1>7. /\ \A row : WasRead(row) <=> row >= u \/ (First(portion) <= row /\ row < First(portion) + i)
      /\ \A row : WasRead(row)' <=> row >= u \/ (First(portion) <= row /\ row < First(portion) + j)
  BY <1>1, <1>2, <1>6 DEF WasRead
<1> HIDE DEF i, j, u
<1>8. /\ i \in Nat /\ j = i + ChunkStep /\ u \in Nat
      /\ begin = First(portion) + i /\ begin \in Nat /\ begin < end
      /\ Last(portion) = Smaller(count, u)
      /\ end = Smaller(begin + ChunkStep, Last(portion))
  BY <1>4, <1>5 DEF i, j, u
<1> HIDE DEF begin
<1> DEFINE f == First(portion)
<1>a. /\ count \in Nat /\ u \in Nat /\ f \in Nat /\ i \in Nat /\ ChunkStep \in Nat /\ end \in Int
      /\ Last(portion) \in Int /\ f + i < end
      /\ end <= f + i + ChunkStep /\ end <= count /\ end <= u /\ end <= Last(portion)
      /\ end = f + i + ChunkStep \/ end = count \/ end = u
  <2>1. /\ count \in Nat /\ u \in Nat /\ f \in Nat /\ i \in Nat /\ ChunkStep \in Nat
        /\ end \in Int /\ Last(portion) \in Nat /\ begin = f + i /\ f + i < end
    BY <1>1, <1>4, <1>8
  <2>2. Last(portion) <= count /\ Last(portion) <= u
        /\ (Last(portion) = count \/ Last(portion) = u)
    BY <2>1, <1>8 DEF Smaller
  <2>3. end <= begin + ChunkStep /\ end <= Last(portion)
        /\ (end = begin + ChunkStep \/ end = Last(portion))
    BY <2>1, <1>8 DEF Smaller
  <2> QED
    BY <2>1, <2>2, <2>3
<1> HIDE DEF f
<1>b. /\ f + i \in (f + i)..(end - 1)
      /\ (f + i)..(end - 1) \subseteq f..(Last(portion) - 1)
      /\ (f + i)..(end - 1) \subseteq 0..(count - 1)
      /\ \A row \in 0..(count - 1) :
           (row >= u \/ (f <= row /\ row < f + (i + ChunkStep)))
           <=> \/ row >= u \/ (f <= row /\ row < f + i)
               \/ row \in (f + i)..(end - 1)
      /\ \A row \in (f + i)..(end - 1) :
           ~ (row >= u \/ (f <= row /\ row < f + i))
  BY <1>a, NextRows
<1>c. rows = (f + i)..(end - 1) /\ Rows = 0..(count - 1)
      /\ First(portion) = f /\ j = i + ChunkStep
  BY <1>8 DEF f, Rows
<1>9. rows \subseteq Rows /\ rows # {} /\ rows \subseteq First(portion)..(Last(portion) - 1)
  BY <1>b, <1>c
<1>10. \A row \in Rows : WasRead(row)' <=> WasRead(row) \/ row \in rows
  BY <1>7, <1>b, <1>c
<1>11. \A row \in rows : ~ WasRead(row)
  BY <1>7, <1>b, <1>c
<1>12. TypeOK'
  BY <1>1, <1>2, <1>9 DEF IInv, TypeOK
<1>13. Reading'
  <2>1. \A row \in Rows : times[row] = IF WasRead(row) THEN 1 ELSE 0
    BY <1>1 DEF IInv, Reading
  <2>2. \A row \in Rows : times'[row] = IF WasRead(row)' THEN 1 ELSE 0
    BY <1>1, <1>10, <1>11, <2>1
  <2> QED
    BY <1>1, <1>2, <2>2 DEF IInv, Reading
<1>14. ChunkInPortion'
  BY <1>1, <1>2, <1>9 DEF ChunkInPortion
<1>15. (Scanning /\ SeeksScanned /\ SeeksKnown /\ AllRead /\ NotReadYet /\ MetadataAccepted)'
  BY <1>1, <1>2 DEF IInv, Scanning, SeeksScanned, SeeksKnown, AllRead, NotReadYet,
                    MetadataAccepted
<1> QED
  BY <1>12, <1>13, <1>14, <1>15 DEF IInv

(* Where the chunk begins, before the end of its portion.                  *)
LEMMA ChunkBegins ==
    ASSUME IInv, HasChunk
    PROVE  /\ First(portion) \in Nat /\ ChunkStep \in Nat \ {0} /\ Last(portion) \in Nat
           /\ index * ChunkStep \in Nat
           /\ First(portion) + index * ChunkStep < Last(portion)
<1>1. portion \in Nat \ {0} /\ portion <= PortionCount /\ count > 0 /\ index \in Nat
  BY DEF IInv, TypeOK, Reading, HasChunk
<1>2. /\ First(portion) \in Nat /\ ChunkStep \in Nat \ {0} /\ Last(portion) \in Nat
      /\ PointCount(portion) = Last(portion) - First(portion)
  BY <1>1, PortionFacts DEF IInv, ChunkStep
<1>3. index * ChunkStep \in Nat
  BY <1>1, <1>2
<1> QED
  BY <1>2, <1>3 DEF HasChunk

LEMMA ReadChunkIInv == IInv /\ ReadChunk => IInv'
<1> SUFFICES ASSUME IInv, ReadChunk PROVE IInv'
  OBVIOUS
<1> DEFINE begin == First(portion) + index * ChunkStep
           end == Smaller(begin + ChunkStep, Last(portion))
           classification == IF format = "ply" THEN Rows ELSE ChunkRows
<1>1. HasChunk /\ Yield(ChunkRows, classification)
  BY DEF ReadChunk
<1>2. begin \in Nat /\ ChunkStep \in Nat \ {0} /\ Last(portion) \in Nat /\ begin < Last(portion)
  BY <1>1, ChunkBegins
<1>3. end \in Int /\ begin < end /\ end <= Last(portion)
  BY <1>2 DEF Smaller
<1>4. ChunkRows = begin..(end - 1)
  BY <1>2 DEF ChunkRows, Smaller
<1>5. classification \in SUBSET Rows
  <2>1. Last(portion) <= count
    <3>1. portion \in Nat \ {0} /\ portion <= PortionCount /\ count > 0 /\ count \in Nat
      BY <1>1 DEF IInv, TypeOK, Reading, HasChunk
    <3>2. Last(portion) = Smaller(count, portion * Size) /\ portion * Size \in Nat
      BY <3>1, PortionFacts DEF IInv
    <3> QED
      BY <3>1, <3>2 DEF Smaller
  <2>2. count \in Nat
    BY DEF IInv, TypeOK
  <2>3. ChunkRows \subseteq Rows
    BY <1>2, <1>3, <1>4, <2>1, <2>2 DEF Rows
  <2> QED
    BY <2>3
<1> HIDE DEF end, classification
<1>6. end = Smaller(begin + ChunkStep, Last(portion))
  BY DEF end
<1> QED
  BY <1>1, <1>3, <1>4, <1>5, <1>6, YieldKeeps

(* xyz_reader reads whole steps until the file ends: they do not go beyond *)
(* the portion, since the steps of a whole portion end where it does.      *)
LEMMA ReadLinesIInv == IInv /\ ReadLines => IInv'
<1> SUFFICES ASSUME IInv, ReadLines PROVE IInv'
  OBVIOUS
<1> DEFINE begin == First(portion) + index * ChunkStep
           end == Smaller(count, begin + ChunkStep)
<1>1. /\ HasChunk /\ format = "xyz"
      /\ portion \in Nat \ {0} /\ portion <= PortionCount /\ count > 0
      /\ count \in Nat /\ index \in Nat
  BY DEF ReadLines, IInv, TypeOK, Reading, HasChunk
<1>2. /\ begin \in Nat /\ ChunkStep \in Nat \ {0} /\ Last(portion) \in Nat
      /\ First(portion) \in Nat /\ begin < Last(portion) /\ index * ChunkStep \in Nat
  BY <1>1, ChunkBegins
<1>3. /\ Last(portion) = Smaller(count, portion * Size) /\ portion * Size \in Nat
      /\ portion * Size < count => PointCount(portion) = PortionSize
      /\ PointCount(portion) = Last(portion) - First(portion)
  BY <1>1, PortionFacts DEF IInv
<1>4. portion * Size < count => begin + ChunkStep <= Last(portion)
  <2> HAVE portion * Size < count
  <2>1. PointCount(portion) = PortionSize /\ ChunkStep = Step(PortionSize)
    BY <1>3 DEF ChunkStep
  <2>2. PICK m \in Nat : PortionSize = m * ChunkStep
    BY <1>2, <2>1, ReaderAssumption, Divides
  <2>3. index * ChunkStep < m * ChunkStep
    BY <1>1, <2>1, <2>2 DEF HasChunk
  <2>4. (index + 1) * ChunkStep <= m * ChunkStep
    BY <1>1, <1>2, <2>3, MulGap
  <2>5. (index + 1) * ChunkStep = index * ChunkStep + ChunkStep
    BY <1>1, <1>2
  <2>6. index * ChunkStep + ChunkStep <= PointCount(portion)
    BY <2>1, <2>2, <2>4, <2>5
  <2> QED
    BY <1>2, <1>3, <2>6
<1>5. end \in Int /\ begin < end /\ end = Smaller(begin + ChunkStep, Last(portion))
  BY <1>1, <1>2, <1>3, <1>4 DEF Smaller
<1>6. seek_values[portion] = First(portion)
  BY <1>1 DEF IInv, SeeksKnown, HasChunk
<1>7. Yield(begin..(end - 1), begin..(end - 1))
  BY <1>6 DEF ReadLines
<1>8. begin..(end - 1) \subseteq Rows
  BY <1>1, <1>2 DEF Rows, Smaller
<1> HIDE DEF end
<1> QED
  BY <1>1, <1>5, <1>7, <1>8, YieldKeeps

LEMMA EndPortionIInv == IInv /\ EndPortion => IInv'
<1> SUFFICES ASSUME IInv, EndPortion PROVE IInv'
  OBVIOUS
<1>1. /\ stage = "read" /\ portion # 0 /\ ~ HasChunk /\ portion' = 0
      /\ portion \in Nat /\ index \in Nat /\ count \in Nat /\ left \in Nat
      /\ index' = index /\ chunk' = chunk /\ times' = times /\ left' = left
      /\ format' = format /\ count' = count /\ stage' = stage
      /\ seek_values' = seek_values /\ scanned' = scanned
  BY DEF IInv, TypeOK, EndPortion
<1>2. Size' = Size /\ PortionCount' = PortionCount /\ Rows' = Rows /\ (\A i : First(i)' = First(i))
  BY <1>1 DEF Size, PortionCount, First, Rows
<1>3. count > 0 /\ portion = left + 1 /\ portion <= PortionCount
  BY <1>1 DEF IInv, Reading
<1>4. /\ First(portion) \in Nat /\ portion * Size \in Nat
      /\ Last(portion) \in Nat /\ Last(portion) = Smaller(count, portion * Size)
      /\ PointCount(portion) = Last(portion) - First(portion)
      /\ ChunkStep \in Nat \ {0}
  BY <1>1, <1>3, PortionFacts DEF IInv, ChunkStep
<1>5. index * ChunkStep \in Nat /\ index * ChunkStep >= PointCount(portion)
  BY <1>1, <1>4 DEF HasChunk
<1>6. Upper' = First(portion) /\ Upper = portion * Size
  <2>1. Upper' = left * Size
    BY <1>1, <1>2 DEF Upper
  <2>2. First(portion) = left * Size
    BY <1>1, <1>3 DEF First
  <2> QED
    BY <1>1, <2>1, <2>2 DEF Upper
<1>7. \A row \in Rows : WasRead(row)' <=> WasRead(row)
  <2>1. \A row : WasRead(row)' <=> row >= First(portion)
    BY <1>1, <1>6 DEF WasRead
  <2>2. \A row : WasRead(row) <=> \/ row >= portion * Size
                                  \/ /\ First(portion) <= row
                                     /\ row < First(portion) + index * ChunkStep
    BY <1>1, <1>6 DEF WasRead
  <2>3. First(portion) < portion * Size
    BY <1>1, <1>3, PortionFacts DEF IInv, Smaller
  <2>4. \A row \in Rows : row \in Int /\ row < count
    BY <1>1 DEF Rows
  <2> QED
    BY <1>1, <1>4, <1>5, <2>1, <2>2, <2>3, <2>4 DEF Smaller
<1>8. TypeOK'
  BY <1>1, <1>2 DEF IInv, TypeOK
<1>9. Reading'
  <2>1. PortionCount \in Nat
    BY <1>3, SizeFacts DEF IInv
  <2>2. \A row \in Rows : times[row] = IF WasRead(row) THEN 1 ELSE 0
    BY <1>1 DEF IInv, Reading
  <2> QED
    BY <1>1, <1>2, <1>3, <1>7, <2>1, <2>2 DEF Reading
<1>10. (Scanning /\ SeeksScanned /\ SeeksKnown /\ AllRead /\ NotReadYet
        /\ ChunkInPortion /\ MetadataAccepted)'
  BY <1>1, <1>2 DEF IInv, Scanning, SeeksScanned, SeeksKnown, AllRead, NotReadYet,
                    ChunkInPortion, MetadataAccepted
<1> QED
  BY <1>8, <1>9, <1>10 DEF IInv

LEMMA EndFileIInv == IInv /\ EndFile => IInv'
<1> SUFFICES ASSUME IInv, EndFile PROVE IInv'
  OBVIOUS
<1>1. /\ stage = "read" /\ portion = 0 /\ left = 0 /\ stage' = "done"
      /\ index' = index /\ chunk' = chunk /\ times' = times /\ left' = left
      /\ format' = format /\ count' = count /\ portion' = portion
      /\ seek_values' = seek_values /\ scanned' = scanned
  BY DEF EndFile
<1>2. /\ Size' = Size /\ PortionCount' = PortionCount /\ Rows' = Rows
      /\ (\A i : First(i)' = First(i)) /\ (\A row : WasRead(row)' <=> WasRead(row))
  BY <1>1 DEF Size, PortionCount, First, Rows, WasRead, Upper
<1>3. TypeOK'
  BY <1>1, <1>2 DEF IInv, TypeOK
<1>4. (Reading /\ AllRead)'
  BY <1>1, <1>2 DEF IInv, Reading, AllRead
<1>5. (Scanning /\ SeeksScanned /\ SeeksKnown /\ NotReadYet /\ ChunkInPortion
       /\ MetadataAccepted)'
  BY <1>1, <1>2 DEF IInv, Scanning, SeeksScanned, SeeksKnown, NotReadYet,
                    ChunkInPortion, MetadataAccepted
<1> QED
  BY <1>3, <1>4, <1>5 DEF IInv

-----------------------------------------------------------------------------
LEMMA StepIInv == IInv /\ [Next]_vars => IInv'
<1> SUFFICES ASSUME IInv, [Next]_vars PROVE IInv'
  OBVIOUS
<1>1. CASE UNCHANGED vars
  BY <1>1 DEF vars, IInv, TypeOK, Scanning, SeeksScanned, Reading, SeeksKnown, AllRead,
              NotReadYet, ChunkInPortion, MetadataAccepted, Unread, Rows, WasRead, Upper,
              First, Last, Size, PortionCount, ChunkStep, PointCount
<1>2. CASE Next
  BY <1>2, GetMetadataIInv, ScanBatchIInv, EndScanIInv, NextPortionIInv, ReadChunkIInv,
     ReadLinesIInv, EndPortionIInv, EndFileIInv DEF Next
<1> QED
  BY <1>1, <1>2

THEOREM ReadersInvariant == Spec => []IInv
<1> QED
  BY InitIInv, StepIInv, PTL DEF Spec

(* The type of every variable, for files of any length.                    *)
THEOREM ReadersTypeCorrect == Spec => []TypeOK
<1>1. IInv => TypeOK
  BY DEF IInv
<1> QED
  BY <1>1, ReadersInvariant, PTL

(* Whatever the length of the file, its chunks are a partition of its rows:*)
(* get_metadata and run of the three readers agree.                        *)
THEOREM ReadersPartition == Spec => []EachRowOnce
<1>1. IInv => EachRowOnce
  <2> SUFFICES ASSUME IInv PROVE EachRowOnce
    OBVIOUS
  <2> USE DEF IInv
  <2>1. CASE stage \in {"scan", "raised"}
    BY <2>1 DEF EachRowOnce, Scanning, NotReadYet, Unread
  <2>2. CASE stage = "read"
    BY <2>2 DEF EachRowOnce, Reading
  <2>3. CASE stage = "done"
    <3>1. \A row \in Rows : times[row] = IF WasRead(row) THEN 1 ELSE 0
      BY <2>3 DEF Reading
    <3>2. Upper = 0
      <4>1. portion = 0 /\ left = 0 /\ Size \in Int
        BY <2>3, SizeFacts DEF AllRead, Reading
      <4> QED
        BY <4>1 DEF Upper
    <3>3. \A row \in Rows : WasRead(row)
      BY <3>2 DEF WasRead, Rows, TypeOK
    <3> QED
      BY <3>1, <3>3 DEF EachRowOnce
  <2> QED
    BY <2>1, <2>2, <2>3 DEF TypeOK
<1> QED
  BY <1>1, ReadersInvariant, PTL

(* Every chunk has points, all of the portion announced to the manager.    *)
THEOREM ReadersChunks == Spec => []ChunkInPortion
<1>1. IInv => ChunkInPortion
  BY DEF IInv
<1> QED
  BY <1>1, ReadersInvariant, PTL

(* No reader refuses a file that has points.                               *)
THEOREM ReadersAccept == Spec => []MetadataAccepted
<1>1. IInv => MetadataAccepted
  BY DEF IInv
<1> QED
  BY <1>1, ReadersInvariant, PTL
=============================================================================
