---------------------------- MODULE ExportProofs ----------------------------
(***************************************************************************)
(* Proofs about the export, for any geometries and sizes: every geometry   *)
(* that a square takes is in one file of the tile set, and the boxes of    *)
(* the tiles enclose what is below them.                                   *)
(*                                                                         *)
(* ExportInv is the inductive invariant.  Its part InOnePlace follows a    *)
(* geometry from the squares that wait to the node that keeps it; the      *)
(* lemmas before it are about the intervals that cut the squares.          *)
(*                                                                         *)
(* The last part is about TileLayout: whether what is written in a .pnts   *)
(* or .b3dm file is found where the reader looks for it.                   *)
(***************************************************************************)
EXTENDS Export, TileLayout, SequenceTheorems, FiniteSetTheorems, WellFoundedInduction, TLAPS

(* Finite sets of integers have a least and a greatest element.            *)
LEMMA SmallestNumber ==
    ASSUME NEW T \in SUBSET Nat, T # {}
    PROVE  \E i \in T : \A j \in T : i <= j
<1>1. PICK R : R = OpToRel(<, Nat)
  OBVIOUS
<1>2. IsWellFoundedOn(R, Nat)
  BY <1>1, NatLessThanWellFounded
<1>3. PICK i \in T : \A j \in T : ~ (<<j, i>> \in R)
  BY <1>2, WFMin
<1>4. ASSUME NEW j \in T PROVE i <= j
  <2>1. <<j, i>> \in Nat \X Nat /\ <<j, i>>[1] = j /\ <<j, i>>[2] = i
    OBVIOUS
  <2>2. j < i => <<j, i>> \in R
    BY <1>1, <2>1 DEF OpToRel
  <2>3. ~ (j < i)
    BY <1>3, <2>2
  <2> QED
    BY <2>3
<1> QED
  BY <1>4

LEMMA LeastInteger ==
    ASSUME NEW T \in SUBSET Int, IsFiniteSet(T), T # {}
    PROVE  \E i \in T : \A j \in T : i <= j
<1> DEFINE Less(i) == {j \in T : j < i}
           Ranks == {Cardinality(Less(i)) : i \in T}
<1>1. ASSUME NEW i \in T
      PROVE  Less(i) \in SUBSET T /\ IsFiniteSet(Less(i)) /\ Cardinality(Less(i)) \in Nat
  <2>1. Less(i) \in SUBSET T
    OBVIOUS
  <2> HIDE DEF Less
  <2>2. IsFiniteSet(Less(i))
    BY <2>1, FS_Subset
  <2> QED
    BY <2>1, <2>2, FS_CardinalityType
<1>2. PICK r \in Ranks : \A s \in Ranks : r <= s
  <2> HIDE DEF Less
  <2>1. Ranks \in SUBSET Nat /\ Ranks # {}
    BY <1>1
  <2> HIDE DEF Ranks
  <2> QED
    BY <2>1, SmallestNumber
<1>3. PICK i \in T : Cardinality(Less(i)) = r
  OBVIOUS
<1>4. ASSUME NEW j \in T, j < i PROVE FALSE
  <2>1. Less(j) \in SUBSET Less(i) /\ j \in Less(i) /\ j \notin Less(j)
    <3>1. i \in Int /\ j \in Int /\ j < i /\ \A k \in T : k \in Int
      BY <1>4
    <3>2. \A k \in T : k < j => k < i
      BY <3>1
    <3>3. j \in Less(i)
      BY <3>1
    <3>4. j \notin Less(j)
      BY <3>1
    <3> QED
      BY <3>2, <3>3, <3>4
  <2>2. Cardinality(Less(i)) <= Cardinality(Less(j))
    <3>1. Cardinality(Less(j)) \in Ranks
      OBVIOUS
    <3> HIDE DEF Ranks, Less
    <3> QED
      BY <1>2, <1>3, <3>1
  <2> HIDE DEF Less
  <2>3. Cardinality(Less(j)) <= Cardinality(Less(i)) /\ Cardinality(Less(i)) # Cardinality(Less(j))
    BY <1>1, <2>1, FS_Subset
  <2> QED
    BY <1>1, <2>2, <2>3
<1> QED
  BY <1>4

LEMMA MinMax ==
    ASSUME NEW T \in SUBSET Int, IsFiniteSet(T), T # {}
    PROVE  /\ Min(T) \in T /\ \A j \in T : Min(T) <= j
           /\ Max(T) \in T /\ \A j \in T : j <= Max(T)
<1>1. \E i \in T : \A j \in T : i <= j
  BY LeastInteger
<1> DEFINE f == [j \in T |-> - j]
           N == {- j : j \in T}
<1>2. \E i \in N : \A j \in N : i <= j
  <2>1. N \subseteq Int /\ N # {}
    <3>1. \A k \in T : k \in Int /\ - k \in Int
      OBVIOUS
    <3> QED
      BY <3>1
  <2>3. f \in Surjection(T, N)
    <3>1. f \in [T -> N] /\ \A k \in N : \E j \in T : f[j] = k
      OBVIOUS
    <3> QED
      BY <3>1 DEF Surjection
  <2>2. IsFiniteSet(N)
    BY <2>3, FS_Surjection
  <2> HIDE DEF N
  <2> QED
    BY <2>1, <2>2, LeastInteger
<1>3. PICK i \in T : \A j \in T : - i <= - j
  BY <1>2
<1>4. \E k \in T : \A j \in T : k >= j
  BY <1>3
<1>5. Min(T) \in T /\ \A j \in T : Min(T) <= j
  BY <1>1 DEF Min
<1>6. Max(T) \in T /\ \A j \in T : Max(T) >= j
  BY <1>4 DEF Max
<1> QED
  BY <1>5, <1>6

(* The first features of a list are at most as many as are asked for, and  *)
(* all of them when there are not more.                                    *)
LEMMA FirstFacts ==
    ASSUME NEW most \in Nat, NEW geoms \in SUBSET Nat, IsFiniteSet(geoms)
    PROVE  /\ First(most, geoms) \subseteq geoms
           /\ IsFiniteSet(First(most, geoms))
           /\ Cardinality(First(most, geoms)) <= most
           /\ Cardinality(geoms) <= most => First(most, geoms) = geoms
<1> DEFINE Less(i) == {j \in geoms : j < i}
           kept == First(most, geoms)
<1>1. \A i \in geoms : Less(i) \in SUBSET geoms /\ i \notin Less(i)
  OBVIOUS
<1>2. \A i \in geoms : i \in kept <=> Cardinality(Less(i)) < most
  BY DEF First
<1>3. \A i \in geoms : IsFiniteSet(Less(i)) /\ Cardinality(Less(i)) \in Nat
                       /\ Cardinality(Less(i)) < Cardinality(geoms)
  <2> HIDE DEF Less
  <2> SUFFICES ASSUME NEW i \in geoms
               PROVE  IsFiniteSet(Less(i)) /\ Cardinality(Less(i)) \in Nat
                       /\ Cardinality(Less(i)) < Cardinality(geoms)
    OBVIOUS
  <2>1. IsFiniteSet(Less(i)) /\ Cardinality(Less(i)) <= Cardinality(geoms)
        /\ Cardinality(Less(i)) # Cardinality(geoms)
    BY <1>1, FS_Subset
  <2>2. Cardinality(Less(i)) \in Nat /\ Cardinality(geoms) \in Nat
    BY <2>1, FS_CardinalityType
  <2> QED
    BY <2>1, <2>2
<1>4. kept \in SUBSET geoms
  BY DEF First
<1>5. IsFiniteSet(kept)
  <2> HIDE DEF kept
  <2> QED
    BY <1>4, FS_Subset
<1>6. Cardinality(kept) <= most
  <2>1. CASE kept = {}
    BY <2>1, FS_EmptySet
  <2>2. CASE kept # {}
    <3>1. PICK m \in kept : \A j \in kept : j <= m
      <4>1. kept \subseteq Int
        <5> HIDE DEF kept
        <5> QED
          BY <1>4
      <4> HIDE DEF kept
      <4> QED
        BY <1>5, <2>2, <4>1, MinMax
    <3>2. \A j \in kept : j \in Less(m) \cup {m}
      <4>1. \A j \in kept : j \in Nat /\ j \in geoms /\ j <= m /\ m \in Nat
        <5> HIDE DEF kept
        <5> QED
          BY <1>4, <3>1
      <4> HIDE DEF kept
      <4> QED
        BY <4>1
    <3>3. m \in geoms /\ Cardinality(Less(m)) < most
      BY <1>2, <1>4
    <3> HIDE DEF kept, Less
    <3>4. IsFiniteSet(Less(m) \cup {m}) /\ Cardinality(Less(m) \cup {m}) = Cardinality(Less(m)) + 1
      BY <1>1, <1>3, <3>3, FS_AddElement
    <3>5. Cardinality(kept) <= Cardinality(Less(m) \cup {m})
      BY <3>2, <3>4, FS_Subset
    <3>6. Cardinality(kept) \in Nat /\ Cardinality(Less(m)) \in Nat
      BY <1>3, <1>5, <3>3, FS_CardinalityType
    <3> QED
      BY <3>3, <3>4, <3>5, <3>6
  <2> QED
    BY <2>1, <2>2
<1>7. ASSUME Cardinality(geoms) <= most PROVE kept = geoms
  <2>1. Cardinality(geoms) \in Nat
    BY FS_CardinalityType
  <2>2. \A i \in geoms : i \in kept
    <3> HIDE DEF Less, kept
    <3> QED
      BY <1>2, <1>3, <1>7, <2>1
  <2> QED
    BY <1>4, <2>2
<1> QED
  BY <1>4, <1>5, <1>6, <1>7

-----------------------------------------------------------------------------
(* The boxes and the squares                                               *)

LEMMA Sizes ==
    ASSUME ExportAssumption
    PROVE  /\ FeaturesPerTile \in Nat /\ FeaturesPerTile > 0
           /\ MaxTileSize \in Nat /\ MaxTileSize > 0
           /\ Unit \in Nat /\ Unit > 0
BY DEF ExportAssumption

LEMMA BoxFacts ==
    ASSUME ExportAssumption, bboxes \in Geometries
    PROVE  /\ Number \subseteq Nat /\ IsFiniteSet(Number)
           /\ \A i \in Number : \A a \in 1..3 :
                 /\ BoxOf(i).min[a] \in Int /\ BoxOf(i).max[a] \in Int
                 /\ BoxOf(i).min[a] <= BoxOf(i).max[a]
<1>1. bboxes \in Seq(Box)
  BY DEF ExportAssumption
<1>2. Number = 1..Len(bboxes) /\ Len(bboxes) \in Nat
  BY <1>1, LenProperties DEF Number
<1>3. Number \subseteq Nat /\ IsFiniteSet(Number)
  <2>1. IsFiniteSet(1..Len(bboxes))
    BY <1>2, FS_Interval
  <2> QED
    BY <1>2, <2>1
<1>4. ASSUME NEW i \in Number, NEW a \in 1..3
      PROVE  /\ BoxOf(i).min[a] \in Int /\ BoxOf(i).max[a] \in Int
             /\ BoxOf(i).min[a] <= BoxOf(i).max[a]
  <2>1. bboxes[i] \in Box
    BY <1>1, <1>2, ElementOfSeq
  <2>2. PICK b : b = bboxes[i]
    OBVIOUS
  <2>3. /\ b.min \in [1..3 -> Int] /\ b.max \in [1..3 -> Int]
        /\ b.min[1] <= b.max[1] /\ b.min[2] <= b.max[2] /\ b.min[3] <= b.max[3]
    BY <2>1, <2>2 DEF Box, Corner
  <2>4. /\ b.min[1] \in Int /\ b.min[2] \in Int /\ b.min[3] \in Int
        /\ b.max[1] \in Int /\ b.max[2] \in Int /\ b.max[3] \in Int
    BY <2>3
  <2>5. /\ BoxOf(i).min[1] = b.min[1] /\ BoxOf(i).max[1] = b.max[1]
        /\ BoxOf(i).min[2] = - b.min[3] /\ BoxOf(i).max[2] = - b.min[3]
        /\ BoxOf(i).min[3] = b.min[2] /\ BoxOf(i).max[3] = b.max[2]
    BY <2>2 DEF BoxOf, ZUp
  <2>6. a = 1 \/ a = 2 \/ a = 3
    OBVIOUS
  <2>7. CASE a = 1
    BY <2>3, <2>4, <2>5, <2>7
  <2>8. CASE a = 2
    BY <2>3, <2>4, <2>5, <2>8
  <2>9. CASE a = 3
    BY <2>3, <2>4, <2>5, <2>9
  <2> QED
    BY <2>6, <2>7, <2>8, <2>9
<1> QED
  BY <1>3, <1>4

(* The centres are beyond the least corner of the extent.                  *)
LEMMA CornerSet ==
    ASSUME ExportAssumption, bboxes \in Geometries, Number # {}, NEW a \in {1, 2}
    PROVE  /\ {BoxOf(i).min[a] : i \in Number} \in SUBSET Int
           /\ IsFiniteSet({BoxOf(i).min[a] : i \in Number})
           /\ {BoxOf(i).min[a] : i \in Number} # {}
           /\ {BoxOf(i).max[a] : i \in Number} \in SUBSET Int
           /\ IsFiniteSet({BoxOf(i).max[a] : i \in Number})
           /\ {BoxOf(i).max[a] : i \in Number} # {}
<1> DEFINE L == {BoxOf(i).min[a] : i \in Number}
           U == {BoxOf(i).max[a] : i \in Number}
           l == [i \in Number |-> BoxOf(i).min[a]]
           u == [i \in Number |-> BoxOf(i).max[a]]
<1>1. a \in 1..3
  OBVIOUS
<1>2. \A i \in Number : BoxOf(i).min[a] \in Int /\ BoxOf(i).max[a] \in Int
  BY <1>1, BoxFacts
<1>3. l \in Surjection(Number, L) /\ u \in Surjection(Number, U)
  BY DEF Surjection
<1>4. IsFiniteSet(L) /\ IsFiniteSet(U)
  <2> HIDE DEF L, U, l, u
  <2> QED
    BY <1>3, BoxFacts, FS_Surjection
<1> QED
  BY <1>2, <1>4

LEMMA CentreFacts ==
    ASSUME ExportAssumption, bboxes \in Geometries, NEW i \in Number, NEW a \in {1, 2}
    PROVE  Centre2(i, a) \in Nat
<1>1. a \in 1..3 /\ Number # {}
  OBVIOUS
<1>2. ExtentMin(a) \in Int /\ ExtentMin(a) <= BoxOf(i).min[a]
  <2>1. /\ Min({BoxOf(k).min[a] : k \in Number}) \in {BoxOf(k).min[a] : k \in Number}
        /\ \A j \in {BoxOf(k).min[a] : k \in Number} : Min({BoxOf(k).min[a] : k \in Number}) <= j
    BY <1>1, CornerSet, MinMax
  <2>2. BoxOf(i).min[a] \in {BoxOf(k).min[a] : k \in Number}
    OBVIOUS
  <2>3. {BoxOf(k).min[a] : k \in Number} \subseteq Int
    BY <1>1, CornerSet
  <2> QED
    BY <2>1, <2>2, <2>3 DEF ExtentMin
<1>3. BoxOf(i).min[a] \in Int /\ BoxOf(i).max[a] \in Int /\ BoxOf(i).min[a] <= BoxOf(i).max[a]
  BY <1>1, BoxFacts
<1> QED
  BY <1>2, <1>3 DEF Centre2

LEMMA SquaresType ==
    ASSUME ExportAssumption, bboxes \in Geometries, NEW a \in {1, 2}
    PROVE  Squares(a) \in Nat
<1>1. Extent(a) \in Nat /\ Extent(a) > 0
  <2>1. CASE Number = {}
    BY <2>1, Sizes DEF Extent
  <2>2. CASE Number # {}
    <3>1. ExtentMin(a) \in Int /\ ExtentMax(a) \in Int
      <4>1. ExtentMin(a) \in {BoxOf(i).min[a] : i \in Number}
        BY <2>2, CornerSet, MinMax DEF ExtentMin
      <4>2. ExtentMax(a) \in {BoxOf(i).max[a] : i \in Number}
        BY <2>2, CornerSet, MinMax DEF ExtentMax
      <4> QED
        BY <2>2, <4>1, <4>2, CornerSet
    <3>2. PICK e \in Int : e = ExtentMax(a) - ExtentMin(a)
      BY <3>1
    <3>3. {Unit, e} \in SUBSET Int /\ IsFiniteSet({Unit, e}) /\ {Unit, e} # {}
      <4>1. IsFiniteSet({Unit} \cup {e}) /\ {Unit} \cup {e} = {Unit, e}
        BY FS_Singleton, FS_AddElement
      <4> QED
        BY <4>1, Sizes
    <3>4. Max({Unit, e}) \in {Unit, e} /\ Unit <= Max({Unit, e})
      BY <3>3, MinMax
    <3> QED
      BY <2>2, <3>2, <3>4, Sizes DEF Extent
  <2> QED
    BY <2>1, <2>2
<1>2. PICK n \in Nat : n = Extent(a) + MaxTileSize - 1
  BY <1>1, Sizes
<1>3. n \div MaxTileSize \in Nat
  BY Sizes
<1> QED
  BY <1>2, <1>3 DEF Squares

(* A centre is in one square at most along an axis, in one of the two      *)
(* halves of the square it is in, and in one of the first squares when it  *)
(* is before the end of the last.                                          *)
LEMMA Slots ==
    ASSUME NEW d \in Nat, d > 0, NEW v \in Nat, NEW k \in Nat, NEW l \in Nat,
           k * d <= v, v < (l + 1) * d
    PROVE  k <= l
<1>1. SUFFICES ASSUME k > l PROVE FALSE
  OBVIOUS
<1>2. PICK m \in Nat : k = (l + 1) + m
  <2>1. k - (l + 1) \in Nat /\ k = (l + 1) + (k - (l + 1))
    BY <1>1
  <2> QED
    BY <2>1
<1>3. ((l + 1) + m) * d = (l + 1) * d + m * d /\ m * d \in Nat /\ (l + 1) * d \in Nat
  OBVIOUS
<1> QED
  BY <1>2, <1>3

LEMMA OneSlot ==
    ASSUME ExportAssumption, bboxes \in Geometries, NEW i \in Number, NEW a \in {1, 2}, NEW parts \in Nat,
           NEW k \in Nat, NEW l \in Nat, Within(i, a, parts, k), Within(i, a, parts, l)
    PROVE  k = l
<1>1. PICK d \in Nat : d = 2 * MaxTileSize /\ d > 0
  BY Sizes
<1>2. PICK c \in Nat : c = Centre2(i, a)
  BY CentreFacts
<1>3. PICK v \in Nat : v = parts * c
  OBVIOUS
<1>4. k * d <= v /\ v < (k + 1) * d /\ l * d <= v /\ v < (l + 1) * d
  BY <1>1, <1>2, <1>3 DEF Within
<1>5. k <= l /\ l <= k
  BY <1>1, <1>4, Slots
<1> QED
  BY <1>5

LEMMA Halves ==
    ASSUME ExportAssumption, bboxes \in Geometries, NEW i \in Number, NEW a \in {1, 2}, NEW parts \in Nat,
           NEW k \in Nat
    PROVE  Within(i, a, parts, k) <=>
             Within(i, a, 2 * parts, 2 * k) \/ Within(i, a, 2 * parts, (2 * k) + 1)
<1>1. PICK d \in Nat : d = 2 * MaxTileSize /\ d > 0
  BY Sizes
<1>2. PICK c \in Nat : c = Centre2(i, a)
  BY CentreFacts
<1>3. PICK v \in Nat : v = parts * c
  OBVIOUS
<1>4. PICK s \in Nat : s = k * d
  OBVIOUS
<1>5. (k + 1) * d = s + d /\ (2 * k) * d = 2 * s /\ ((2 * k) + 1) * d = 2 * s + d
      /\ (((2 * k) + 1) + 1) * d = 2 * s + 2 * d /\ (2 * parts) * c = 2 * v
  BY <1>3, <1>4
<1>6. Within(i, a, parts, k) <=> s <= v /\ v < s + d
  BY <1>1, <1>2, <1>3, <1>4, <1>5 DEF Within
<1>7. Within(i, a, 2 * parts, 2 * k) <=> 2 * s <= 2 * v /\ 2 * v < 2 * s + d
  BY <1>1, <1>2, <1>3, <1>4, <1>5 DEF Within
<1>8. Within(i, a, 2 * parts, (2 * k) + 1) <=> 2 * s + d <= 2 * v /\ 2 * v < 2 * s + 2 * d
  BY <1>1, <1>2, <1>3, <1>4, <1>5 DEF Within
<1> QED
  BY <1>1, <1>6, <1>7, <1>8

LEMMA FirstSlots ==
    ASSUME ExportAssumption, bboxes \in Geometries, NEW i \in Number, NEW a \in {1, 2}
    PROVE  Centre2(i, a) < Squares(a) * (2 * MaxTileSize) <=>
             \E k \in 0..(Squares(a) - 1) : Within(i, a, 1, k)
<1>1. PICK d \in Nat : d = 2 * MaxTileSize /\ d > 0
  BY Sizes
<1>2. PICK c \in Nat : c = Centre2(i, a)
  BY CentreFacts
<1>3. PICK n \in Nat : n = Squares(a)
  BY SquaresType
<1>4. 1 * c = c
  OBVIOUS
<1>5. \A k : Within(i, a, 1, k) <=> k * d <= c /\ c < (k + 1) * d
  BY <1>1, <1>2, <1>4 DEF Within
<1>6. ASSUME c < n * d
      PROVE  \E k \in 0..(n - 1) : Within(i, a, 1, k)
  <2>1. PICK k \in Nat : k = c \div d
    BY <1>1
  <2>2. c = d * k + (c % d) /\ c % d \in Nat /\ c % d < d
    BY <1>1, <2>1
  <2>3. d * k = k * d /\ (k + 1) * d = k * d + d /\ k * d \in Nat
    OBVIOUS
  <2>4. k * d <= c /\ c < (k + 1) * d
    BY <2>2, <2>3
  <2>5. n >= 1
    <3>1. 0 * d = 0
      OBVIOUS
    <3>2. n # 0
      BY <1>6, <3>1
    <3> QED
      BY <3>2
  <2>6. k <= n - 1
    <3>1. n - 1 \in Nat /\ (n - 1) + 1 = n
      BY <2>5
    <3> QED
      BY <1>1, <1>6, <2>4, <3>1, Slots
  <2>7. k \in 0..(n - 1)
    BY <2>6
  <2>8. Within(i, a, 1, k)
    BY <1>5, <2>4
  <2> QED
    BY <2>7, <2>8
<1>7. ASSUME NEW k \in 0..(n - 1), Within(i, a, 1, k)
      PROVE  c < n * d
  <2>1. c < (k + 1) * d
    BY <1>5, <1>7
  <2>2. PICK m \in Nat : n = (k + 1) + m
    <3>1. n - (k + 1) \in Nat /\ n = (k + 1) + (n - (k + 1))
      OBVIOUS
    <3> QED
      BY <3>1
  <2>3. ((k + 1) + m) * d = (k + 1) * d + m * d /\ m * d \in Nat /\ (k + 1) * d \in Nat
    OBVIOUS
  <2> QED
    BY <2>1, <2>2, <2>3
<1> QED
  BY <1>1, <1>2, <1>3, <1>6, <1>7

(* AtTheEnd, of a geometry, is that no first square takes it.              *)
InFirstSquares(i) == \E x \in 0..(Squares(1) - 1), y \in 0..(Squares(2) - 1) :
                Within(i, 1, 1, x) /\ Within(i, 2, 1, y)
LEMMA EndFacts ==
    ASSUME ExportAssumption, bboxes \in Geometries, NEW i \in Number
    PROVE  AtTheEnd(i) <=> ~ InFirstSquares(i)
<1>1. \A a \in {1, 2} : (Centre2(i, a) >= Squares(a) * (2 * MaxTileSize)) <=>
         ~ \E k \in 0..(Squares(a) - 1) : Within(i, a, 1, k)
  <2> SUFFICES ASSUME NEW a \in {1, 2}
               PROVE  (Centre2(i, a) >= Squares(a) * (2 * MaxTileSize)) <=>
                        ~ \E k \in 0..(Squares(a) - 1) : Within(i, a, 1, k)
    OBVIOUS
  <2>1. Squares(a) * (2 * MaxTileSize) \in Nat /\ Centre2(i, a) \in Nat
    BY Sizes, SquaresType, CentreFacts
  <2>2. (Centre2(i, a) >= Squares(a) * (2 * MaxTileSize)) <=>
           ~ (Centre2(i, a) < Squares(a) * (2 * MaxTileSize))
    BY <2>1
  <2> QED
    BY <2>2, FirstSlots
<1>2. AtTheEnd(i) <=> \E a \in {1, 2} : ~ \E k \in 0..(Squares(a) - 1) : Within(i, a, 1, k)
  BY <1>1 DEF AtTheEnd
<1> QED
  BY <1>2 DEF InFirstSquares

-----------------------------------------------------------------------------
(* The squares to look at                                                  *)

Square == [parts : Nat, x : Nat, y : Nat]
Tasks == [square : Square, geoms : SUBSET Number, parent : Nat]

(* The geometry is among those a square has to look at, and in the square. *)
Pending(i, task) == i \in task.geoms /\ Inside(i, task.square)

LEMMA Columns ==
    ASSUME NEW n \in Nat, NEW m \in Nat, NEW j \in 0..(n * m - 1)
    PROVE  /\ m > 0 /\ j \div m \in 0..(n - 1) /\ j % m \in 0..(m - 1)
           /\ j = (j \div m) * m + (j % m)
<1>1. m > 0
  <2>1. n * 0 = 0 /\ 0 <= n * m - 1
    OBVIOUS
  <2>2. m # 0
    BY <2>1
  <2> QED
    BY <2>2
<1>2. PICK x \in Nat : x = j \div m
  BY <1>1
<1>3. j = m * x + (j % m) /\ j % m \in Nat /\ j % m < m
  BY <1>1, <1>2
<1>4. m * x = x * m /\ (x + 1) * m = x * m + m
  OBVIOUS
<1>5. x < n
  <2>1. SUFFICES ASSUME n <= x PROVE FALSE
    OBVIOUS
  <2>2. PICK e \in Nat : x = n + e
    <3>1. x - n \in Nat /\ x = n + (x - n)
      BY <2>1
    <3> QED
      BY <3>1
  <2>3. (n + e) * m = n * m + e * m /\ e * m \in Nat /\ n * m \in Nat
    OBVIOUS
  <2> QED
    BY <1>3, <1>4, <2>2, <2>3
<1> QED
  BY <1>1, <1>2, <1>3, <1>4, <1>5

LEMMA ColumnsBack ==
    ASSUME NEW n \in Nat, NEW m \in Nat, NEW x \in 0..(n - 1), NEW y \in 0..(m - 1)
    PROVE  /\ (x * m) + y \in 0..(n * m - 1)
           /\ ((x * m) + y) \div m = x /\ ((x * m) + y) % m = y
<1>1. PICK e \in Nat : n = (x + 1) + e
  <2>1. n - (x + 1) \in Nat /\ n = (x + 1) + (n - (x + 1))
    OBVIOUS
  <2> QED
    BY <2>1
<1>2. ((x + 1) + e) * m = x * m + m + e * m /\ e * m \in Nat /\ x * m \in Nat
  OBVIOUS
<1>3. (x * m) + y \in 0..(n * m - 1)
  BY <1>1, <1>2
<1>4. PICK j \in Nat : j = (x * m) + y
  BY <1>2
<1>5. j \in 0..(n * m - 1)
  BY <1>3, <1>4
<1>6. m > 0 /\ j \div m \in Nat /\ j % m \in 0..(m - 1) /\ j = (j \div m) * m + (j % m)
  BY <1>5, Columns
<1>7. PICK q \in Nat : q = j \div m
  BY <1>6
<1>8. (x + 1) * m = x * m + m /\ (q + 1) * m = q * m + m
  OBVIOUS
<1>9. x <= q
  BY <1>2, <1>4, <1>6, <1>7, <1>8, Slots
<1>10. q <= x
  BY <1>4, <1>6, <1>7, <1>8, Slots
<1> QED
  BY <1>4, <1>6, <1>7, <1>9, <1>10

FirstTasks(id) ==
    [k \in 1..(Squares(1) * Squares(2)) |->
        Task(1, (k - 1) \div Squares(2), (k - 1) % Squares(2), Number, id)]

LEMMA FirstTasksFacts ==
    ASSUME ExportAssumption, bboxes \in Geometries, NEW id \in Nat
    PROVE  /\ FirstTasks(id) \in Seq(Tasks)
           /\ \A k \in DOMAIN FirstTasks(id) : FirstTasks(id)[k].parent = id
           /\ \A i \in Number :
                 /\ AtTheEnd(i) <=> ~ \E k \in DOMAIN FirstTasks(id) : Pending(i, FirstTasks(id)[k])
                 /\ \A k, l \in DOMAIN FirstTasks(id) :
                       Pending(i, FirstTasks(id)[k]) /\ Pending(i, FirstTasks(id)[l]) => k = l
<1>1. PICK n \in Nat, m \in Nat : n = Squares(1) /\ m = Squares(2)
  BY SquaresType
<1>2. n * m \in Nat
  OBVIOUS
<1> DEFINE first == FirstTasks(id)
           x(k) == (k - 1) \div m
           y(k) == (k - 1) % m
<1>3. DOMAIN first = 1..(n * m)
      /\ \A k \in 1..(n * m) : first[k] = Task(1, x(k), y(k), Number, id)
  BY <1>1 DEF FirstTasks
<1>4. ASSUME NEW k \in 1..(n * m)
      PROVE  /\ x(k) \in 0..(n - 1) /\ y(k) \in 0..(m - 1)
             /\ k = (x(k) * m) + y(k) + 1
  <2>1. k - 1 \in 0..(n * m - 1)
    BY <1>2
  <2>2. PICK j \in 0..(n * m - 1) : j = k - 1
    BY <2>1
  <2>3. j \div m \in 0..(n - 1) /\ j % m \in 0..(m - 1) /\ j = ((j \div m) * m) + (j % m)
    BY Columns
  <2>4. PICK q \in Nat, r \in Nat : q = j \div m /\ r = j % m
    BY <2>3
  <2>5. k = (q * m) + r + 1
    BY <2>2, <2>3, <2>4
  <2> QED
    BY <2>2, <2>3, <2>4, <2>5
<1>5. ASSUME NEW k \in 1..(n * m)
      PROVE  /\ first[k] \in Tasks /\ first[k].parent = id
             /\ \A i \in Number : Pending(i, first[k]) <=>
                                      Within(i, 1, 1, x(k)) /\ Within(i, 2, 1, y(k))
  <2>1. PICK u \in 0..(n - 1), v \in 0..(m - 1) : u = x(k) /\ v = y(k)
    BY <1>4
  <2>2. first[k] = Task(1, u, v, Number, id)
    BY <1>3, <2>1
  <2> HIDE DEF first, x, y
  <2>3. first[k] \in Tasks /\ first[k].parent = id /\ first[k].geoms = Number
        /\ first[k].square.parts = 1 /\ first[k].square.x = u /\ first[k].square.y = v
    BY <2>2 DEF Task, Tasks, Square
  <2> QED
    BY <2>1, <2>3 DEF Pending, Inside
<1>6. first \in Seq(Tasks)
  <2>1. first = [k \in 1..(n * m) |-> first[k]]
    BY <1>1 DEF FirstTasks
  <2> HIDE DEF first
  <2>2. first \in [1..(n * m) -> Tasks]
    BY <1>5, <2>1
  <2> QED
    BY <1>2, <2>2, SeqDef
<1>7. ASSUME NEW i \in Number
      PROVE  InFirstSquares(i) <=> \E k \in 1..(n * m) : Pending(i, first[k])
  <2>1. ASSUME NEW k \in 1..(n * m), Pending(i, first[k]) PROVE InFirstSquares(i)
    <3>1. x(k) \in 0..(n - 1) /\ y(k) \in 0..(m - 1)
          /\ Within(i, 1, 1, x(k)) /\ Within(i, 2, 1, y(k))
      BY <1>4, <1>5, <2>1
    <3> HIDE DEF x, y
    <3> QED
      BY <1>1, <3>1 DEF InFirstSquares
  <2>2. ASSUME NEW u \in 0..(n - 1), NEW v \in 0..(m - 1),
               Within(i, 1, 1, u), Within(i, 2, 1, v)
        PROVE  \E k \in 1..(n * m) : Pending(i, first[k])
    <3>1. (u * m) + v \in 0..(n * m - 1) /\ ((u * m) + v) \div m = u /\ ((u * m) + v) % m = v
      BY ColumnsBack
    <3>2. PICK j \in 0..(n * m - 1) : j = (u * m) + v
      BY <3>1
    <3>3. j + 1 \in 1..(n * m) /\ (j + 1) - 1 = j
      BY <1>2
    <3>4. x(j + 1) = u /\ y(j + 1) = v
      BY <3>1, <3>2, <3>3
    <3>5. Pending(i, first[j + 1])
      <4> HIDE DEF first, x, y
      <4> QED
        BY <1>5, <2>2, <3>3, <3>4
    <3> QED
      BY <3>3, <3>5
  <2> HIDE DEF first, x, y
  <2> QED
    BY <1>1, <2>1, <2>2 DEF InFirstSquares
<1>8. ASSUME NEW i \in Number, NEW k \in 1..(n * m), NEW l \in 1..(n * m),
             Pending(i, first[k]), Pending(i, first[l])
      PROVE  k = l
  <2>1. /\ x(k) \in Nat /\ x(l) \in Nat /\ y(k) \in Nat /\ y(l) \in Nat
        /\ Within(i, 1, 1, x(k)) /\ Within(i, 1, 1, x(l))
        /\ Within(i, 2, 1, y(k)) /\ Within(i, 2, 1, y(l))
    BY <1>4, <1>5, <1>8
  <2>2. k = (x(k) * m) + y(k) + 1 /\ l = (x(l) * m) + y(l) + 1
    BY <1>4
  <2> HIDE DEF x, y
  <2>3. x(k) = x(l) /\ y(k) = y(l)
    BY <2>1, OneSlot
  <2> QED
    BY <2>2, <2>3
<1> HIDE DEF first, x, y
<1>9. \A i \in Number : AtTheEnd(i) <=> ~ \E k \in 1..(n * m) : Pending(i, first[k])
  BY <1>7, EndFacts
<1> QED
  BY <1>3, <1>5, <1>6, <1>8, <1>9 DEF first

(* A full square is divided so that each of the features it does not keep  *)
(* is in one of the quarters.                                              *)
LEMMA DivideFacts ==
    ASSUME ExportAssumption, bboxes \in Geometries, NEW square \in Square, NEW geoms \in SUBSET Number,
           \A i \in geoms : Inside(i, square), NEW node \in Nat
    PROVE  /\ Divide(square, geoms, node) \in Seq(Tasks)
           /\ \A k \in DOMAIN Divide(square, geoms, node) :
                 Divide(square, geoms, node)[k].parent = node
           /\ \A i : \A k \in DOMAIN Divide(square, geoms, node) :
                 Pending(i, Divide(square, geoms, node)[k]) => i \in Rest(geoms)
           /\ \A i \in Rest(geoms) : \E k \in DOMAIN Divide(square, geoms, node) :
                 Pending(i, Divide(square, geoms, node)[k])
           /\ \A i \in Number : \A k, l \in DOMAIN Divide(square, geoms, node) :
                 /\ Pending(i, Divide(square, geoms, node)[k])
                 /\ Pending(i, Divide(square, geoms, node)[l])
                 => k = l
<1> DEFINE D == Divide(square, geoms, node)
<1>1. Rest(geoms) \subseteq geoms
  BY DEF Rest
<1>2. CASE Cardinality(geoms) <= FeaturesPerTile
  <2>1. D = <<>> /\ D \in Seq(Tasks) /\ DOMAIN D = {}
    BY <1>2, EmptySeq DEF Divide
  <2>2. Rest(geoms) = {}
    <3>1. geoms \in SUBSET Nat /\ IsFiniteSet(geoms)
      BY BoxFacts, FS_Subset
    <3>2. First(FeaturesPerTile, geoms) = geoms
      BY <1>2, <3>1, Sizes, FirstFacts
    <3> QED
      BY <3>2 DEF Rest
  <2> HIDE DEF D
  <2>3. \A i : \A k \in DOMAIN D : FALSE
    BY <2>1
  <2>4. \A i \in Rest(geoms) : FALSE
    BY <2>2
  <2> QED
    BY <2>1, <2>3, <2>4 DEF D
<1>3. CASE ~ (Cardinality(geoms) <= FeaturesPerTile)
  <2>1. PICK p \in Nat, x \in Nat, y \in Nat :
          square.parts = p /\ square.x = x /\ square.y = y
    BY DEF Square
  <2> DEFINE X(q) == (2 * x) + ((q - 1) \div 2)
             Y(q) == (2 * y) + ((q - 1) % 2)
  <2>2. D = [q \in 1..4 |-> Task(2 * p, X(q), Y(q), Rest(geoms), node)]
    BY <1>3, <2>1 DEF Divide
  <2>3. /\ X(1) = 2 * x /\ X(2) = 2 * x /\ X(3) = (2 * x) + 1 /\ X(4) = (2 * x) + 1
        /\ Y(1) = 2 * y /\ Y(2) = (2 * y) + 1 /\ Y(3) = 2 * y /\ Y(4) = (2 * y) + 1
    OBVIOUS
  <2>4. DOMAIN D = 1..4 /\ \A q \in 1..4 : D[q] = Task(2 * p, X(q), Y(q), Rest(geoms), node)
    <3> HIDE DEF X, Y, D
    <3> QED
      BY <2>2
  <2>5. \A q \in 1..4 : X(q) \in Nat /\ Y(q) \in Nat
    <3>1. \A q \in 1..4 : q = 1 \/ q = 2 \/ q = 3 \/ q = 4
      OBVIOUS
    <3>2. 2 * x \in Nat /\ 2 * y \in Nat
      OBVIOUS
    <3> HIDE DEF X, Y
    <3> QED
      BY <2>3, <3>1, <3>2
  <2>6. 2 * p \in Nat
    OBVIOUS
  <2>7. ASSUME NEW q \in 1..4
        PROVE  /\ D[q] \in Tasks /\ D[q].parent = node
               /\ \A i : Pending(i, D[q]) <=>
                      i \in Rest(geoms) /\ Within(i, 1, 2 * p, X(q)) /\ Within(i, 2, 2 * p, Y(q))
    <3> HIDE DEF X, Y, D
    <3>1. D[q] \in Tasks
      <4>1. Rest(geoms) \in SUBSET Number
        BY <1>1
      <4> QED
        BY <2>4, <2>5, <2>6, <4>1 DEF Task, Tasks, Square
    <3>2. /\ D[q].parent = node /\ D[q].geoms = Rest(geoms)
          /\ D[q].square.parts = 2 * p /\ D[q].square.x = X(q) /\ D[q].square.y = Y(q)
      BY <2>4 DEF Task
    <3> QED
      BY <3>1, <3>2 DEF Pending, Inside
  <2>8. D \in Seq(Tasks)
    <3> HIDE DEF X, Y, D
    <3>1. D = [q \in 1..4 |-> D[q]]
      BY <2>2
    <3>2. D \in [1..4 -> Tasks] /\ 4 \in Nat
      BY <2>7, <3>1
    <3> QED
      BY <3>2, SeqDef
  <2>9. ASSUME NEW i \in Rest(geoms)
        PROVE  \E k \in 1..4 : Pending(i, D[k])
    <3>1. i \in Number /\ Within(i, 1, p, x) /\ Within(i, 2, p, y)
      BY <1>1, <2>1 DEF Inside
    <3>2. Within(i, 1, 2 * p, 2 * x) \/ Within(i, 1, 2 * p, (2 * x) + 1)
      BY <3>1, Halves
    <3>3. Within(i, 2, 2 * p, 2 * y) \/ Within(i, 2, 2 * p, (2 * y) + 1)
      BY <3>1, Halves
    <3> HIDE DEF X, Y, D
    <3>4. \E k \in 1..4 : Within(i, 1, 2 * p, X(k)) /\ Within(i, 2, 2 * p, Y(k))
      <4>1. CASE Within(i, 1, 2 * p, 2 * x) /\ Within(i, 2, 2 * p, 2 * y)
        <5>1. 1 \in 1..4
          OBVIOUS
        <5> QED
          BY <2>3, <4>1, <5>1
      <4>2. CASE Within(i, 1, 2 * p, 2 * x) /\ Within(i, 2, 2 * p, (2 * y) + 1)
        <5>1. 2 \in 1..4
          OBVIOUS
        <5> QED
          BY <2>3, <4>2, <5>1
      <4>3. CASE Within(i, 1, 2 * p, (2 * x) + 1) /\ Within(i, 2, 2 * p, 2 * y)
        <5>1. 3 \in 1..4
          OBVIOUS
        <5> QED
          BY <2>3, <4>3, <5>1
      <4>4. CASE Within(i, 1, 2 * p, (2 * x) + 1) /\ Within(i, 2, 2 * p, (2 * y) + 1)
        <5>1. 4 \in 1..4
          OBVIOUS
        <5> QED
          BY <2>3, <4>4, <5>1
      <4> QED
        BY <3>2, <3>3, <4>1, <4>2, <4>3, <4>4
    <3> QED
      BY <2>7, <3>4
  <2>10. ASSUME NEW i \in Number, NEW k \in 1..4, NEW l \in 1..4,
                Pending(i, D[k]), Pending(i, D[l])
         PROVE  k = l
    <3>1. X(k) = X(l) /\ Y(k) = Y(l)
      <4> HIDE DEF X, Y, D
      <4> QED
        BY <2>5, <2>6, <2>7, <2>10, OneSlot
    <3>2. k = 1 \/ k = 2 \/ k = 3 \/ k = 4
      OBVIOUS
    <3>3. l = 1 \/ l = 2 \/ l = 3 \/ l = 4
      OBVIOUS
    <3>4. 2 * x # (2 * x) + 1 /\ 2 * y # (2 * y) + 1
      OBVIOUS
    <3> HIDE DEF X, Y, D
    <3> QED
      BY <2>3, <3>1, <3>2, <3>3, <3>4
  <2> HIDE DEF X, Y, D
  <2> QED
    BY <2>4, <2>7, <2>8, <2>9, <2>10 DEF D
<1> QED
  BY <1>2, <1>3

-----------------------------------------------------------------------------
(* The inductive invariant                                                 *)

NodeType == [features : SUBSET Number, children : SUBSET Nat]
ExportTypeOK ==
    /\ ExportAssumption
    /\ bboxes \in Geometries /\ counter \in Nat
    /\ nodes \in [DOMAIN nodes -> NodeType] /\ DOMAIN nodes \subseteq 0..(counter - 1)
    /\ todo \in Seq(Tasks)
    /\ stage \in {"dividing", "writing", "done"}

(* The nodes are a tree: the ids grow from a node to its children, and     *)
(* each node but the first is the child of one.                            *)
NodesAreTree ==
    /\ Tree \in DOMAIN nodes
    /\ \A n \in DOMAIN nodes :
          /\ Tree <= n
          /\ n # Tree => \E m \in DOMAIN nodes : n \in nodes[m].children
          /\ \A c \in nodes[n].children : c \in DOMAIN nodes /\ n < c
          /\ Cardinality(nodes[n].features) <= FeaturesPerTile
    /\ \A k \in DOMAIN todo : todo[k].parent \in DOMAIN nodes

(* Each geometry but those at the end of the extent is in one node, or in  *)
(* one of the squares still to look at.                                    *)
Kept(i) == {n \in DOMAIN nodes : i \in nodes[n].features}
Waiting(i) == {k \in DOMAIN todo : Pending(i, todo[k])}
InOnePlace ==
    \A i \in Number :
        /\ AtTheEnd(i) <=> Kept(i) = {} /\ Waiting(i) = {}
        /\ Kept(i) = {} \/ Waiting(i) = {}
        /\ \A n, m \in Kept(i) : n = m
        /\ \A k, l \in Waiting(i) : k = l

(* The files and the tiles are those of the nodes.                         *)
TilesOfNodes ==
    [n \in DOMAIN nodes |->
        [content |-> HasContent(n), box |-> ComputeBbox[n], children |-> nodes[n].children]]
FilesOfNodes ==
    /\ stage = "dividing" => DOMAIN written = {}
    /\ stage # "dividing" =>
          /\ todo = <<>>
          /\ tileset = TilesOfNodes
    /\ DOMAIN written \subseteq {n \in DOMAIN nodes : HasContent(n)}
    /\ \A n \in DOMAIN written : written[n] = nodes[n].features
    /\ stage = "done" => ToWrite = {}

ExportInv == ExportTypeOK /\ NodesAreTree /\ InOnePlace /\ FilesOfNodes

LEMMA SameBoxes ==
    ASSUME bboxes' = bboxes
    PROVE  /\ Number' = Number /\ Tasks' = Tasks /\ NodeType' = NodeType
           /\ \A i : BoxOf(i)' = BoxOf(i)
           /\ \A i : AtTheEnd(i)' <=> AtTheEnd(i)
           /\ \A i, t : Pending(i, t)' <=> Pending(i, t)
<1>1. Number' = Number /\ Tasks' = Tasks /\ NodeType' = NodeType
  BY DEF Number, Tasks, NodeType
<1>2. \A i : BoxOf(i)' = BoxOf(i)
  BY DEF BoxOf
<1>3. \A a : ExtentMin(a)' = ExtentMin(a) /\ ExtentMax(a)' = ExtentMax(a)
  BY DEF ExtentMin, ExtentMax, Number, BoxOf
<1>4. \A i, a : Centre2(i, a)' = Centre2(i, a)
  BY <1>2, <1>3 DEF Centre2
<1>5. \A a : Squares(a)' = Squares(a)
  BY <1>1, <1>3 DEF Squares, Extent
<1>6. \A i : AtTheEnd(i)' <=> AtTheEnd(i)
  BY <1>4, <1>5 DEF AtTheEnd
<1>7. \A i, t : Pending(i, t)' <=> Pending(i, t)
  BY <1>4 DEF Pending, Inside, Within
<1> QED
  BY <1>1, <1>2, <1>6, <1>7

LEMMA ExportInitial ==
    ASSUME ExportAssumption, Init
    PROVE  ExportInv
<1>1. PICK id \in Counters : /\ counter = id + 1
                             /\ nodes = [n \in {id} |-> Node({})]
                             /\ todo = FirstTasks(id)
  BY DEF Init, FirstTasks
<1>2. id \in Nat /\ bboxes \in Geometries /\ stage = "dividing" /\ written = <<>>
  BY DEF ExportAssumption, Init
<1>3. DOMAIN nodes = {id} /\ nodes[id].features = {} /\ nodes[id].children = {}
      /\ nodes[id] \in NodeType
  BY <1>1 DEF Node, NodeType
<1>4. Tree = id
  <2>1. {id} \in SUBSET Int /\ IsFiniteSet({id}) /\ {id} # {}
    <3>1. IsFiniteSet({id})
      BY FS_Singleton
    <3>2. \A j \in {id} : j \in Int
      BY <1>2
    <3> QED
      BY <3>1, <3>2
  <2>2. Min({id}) \in {id}
    BY <2>1, MinMax
  <2> QED
    BY <1>3, <2>2 DEF Tree
<1>5. ExportTypeOK
  <2>1. nodes \in [DOMAIN nodes -> NodeType]
    BY <1>1, <1>3
  <2>2. DOMAIN nodes \subseteq 0..(counter - 1) /\ counter \in Nat
    BY <1>1, <1>2, <1>3
  <2> QED
    BY <1>1, <1>2, <2>1, <2>2, FirstTasksFacts DEF ExportTypeOK
<1>6. NodesAreTree
  <2>1. Cardinality(nodes[id].features) <= FeaturesPerTile
    BY <1>3, Sizes, FS_EmptySet
  <2>2. \A k \in DOMAIN todo : todo[k].parent \in DOMAIN nodes
    BY <1>1, <1>2, <1>3, FirstTasksFacts
  <2>3. Tree \in DOMAIN nodes /\ \A n \in DOMAIN nodes :
          n = Tree /\ Tree <= n /\ nodes[n].children = {} /\ nodes[n].features = {}
    BY <1>2, <1>3, <1>4
  <2> QED
    BY <1>3, <2>1, <2>2, <2>3 DEF NodesAreTree
<1>7. InOnePlace
  <2> SUFFICES ASSUME NEW i \in Number
               PROVE  /\ AtTheEnd(i) <=> Kept(i) = {} /\ Waiting(i) = {}
                      /\ Kept(i) = {} \/ Waiting(i) = {}
                      /\ \A n, m \in Kept(i) : n = m
                      /\ \A k, l \in Waiting(i) : k = l
    BY DEF InOnePlace
  <2>1. Kept(i) = {}
    BY <1>3 DEF Kept
  <2>2. AtTheEnd(i) <=> ~ \E k \in DOMAIN todo : Pending(i, todo[k])
    BY <1>1, <1>2, FirstTasksFacts
  <2>3. \A k, l \in DOMAIN todo : Pending(i, todo[k]) /\ Pending(i, todo[l]) => k = l
    BY <1>1, <1>2, FirstTasksFacts
  <2> QED
    BY <2>1, <2>2, <2>3 DEF Waiting
<1>8. FilesOfNodes
  BY <1>2 DEF FilesOfNodes
<1> QED
  BY <1>5, <1>6, <1>7, <1>8 DEF ExportInv

(* The list of squares after the first is replaced by others.              *)
LEMMA Replaced ==
    ASSUME NEW S, NEW s \in Seq(S), s # <<>>, NEW d \in Seq(S)
    PROVE  /\ d \o Tail(s) \in Seq(S) /\ 1 \in DOMAIN s /\ s[1] = Head(s)
           /\ Head(s) \in S
           /\ DOMAIN d \subseteq 1..Len(d) /\ Len(d) \in Nat
           /\ \A k \in DOMAIN (d \o Tail(s)) :
                 \/ k \in DOMAIN d /\ (d \o Tail(s))[k] = d[k]
                 \/ \E l \in DOMAIN s : /\ l > 1 /\ l \in Nat /\ k = Len(d) + l - 1
                                        /\ (d \o Tail(s))[k] = s[l]
           /\ \A k \in DOMAIN d : /\ k \in DOMAIN (d \o Tail(s))
                                  /\ (d \o Tail(s))[k] = d[k]
           /\ \A l \in DOMAIN s : l # 1 =>
                 /\ Len(d) + l - 1 \in DOMAIN (d \o Tail(s))
                 /\ (d \o Tail(s))[Len(d) + l - 1] = s[l]
<1> DEFINE u == d \o Tail(s)
<1>1. Tail(s) \in Seq(S) /\ Head(s) = s[1] /\ Head(s) \in S
      /\ Len(Tail(s)) = Len(s) - 1 /\ \A l \in 1..Len(Tail(s)) : Tail(s)[l] = s[l + 1]
  BY HeadTailProperties
<1>2. Len(s) \in Nat /\ Len(s) > 0 /\ DOMAIN s = 1..Len(s)
      /\ Len(d) \in Nat /\ DOMAIN d = 1..Len(d)
  BY LenProperties, EmptySeq
<1>3. u \in Seq(S) /\ Len(u) = Len(d) + (Len(s) - 1)
      /\ \A k \in 1..Len(u) : u[k] = IF k <= Len(d) THEN d[k] ELSE Tail(s)[k - Len(d)]
  BY <1>1, <1>2, ConcatProperties
<1>4. DOMAIN u = 1..Len(u)
  <2> HIDE DEF u
  <2> QED
    BY <1>3, LenProperties
<1> HIDE DEF u
<1>5. ASSUME NEW k \in DOMAIN u
      PROVE  \/ k \in DOMAIN d /\ u[k] = d[k]
             \/ \E l \in DOMAIN s : l > 1 /\ l \in Nat /\ k = Len(d) + l - 1 /\ u[k] = s[l]
  <2>1. CASE k <= Len(d)
    BY <1>2, <1>3, <1>4, <2>1
  <2>2. CASE ~ (k <= Len(d))
    <3>1. k - Len(d) \in 1..(Len(s) - 1)
      BY <1>2, <1>3, <1>4, <2>2
    <3>2. PICK j \in 1..(Len(s) - 1) : j = k - Len(d)
      BY <3>1
    <3>3. u[k] = s[j + 1] /\ j + 1 \in DOMAIN s /\ j + 1 > 1 /\ j + 1 \in Nat
          /\ k = Len(d) + (j + 1) - 1
      <4>1. u[k] = Tail(s)[k - Len(d)]
        BY <1>3, <1>4, <2>2
      <4>2. Tail(s)[j] = s[j + 1] /\ Len(Tail(s)) = Len(s) - 1
        BY <1>1, <3>2
      <4>3. u[k] = s[j + 1]
        BY <3>2, <4>1, <4>2
      <4>4. k \in Nat
        BY <1>2, <1>3, <1>4
      <4> QED
        BY <1>2, <3>2, <4>3, <4>4
    <3> QED
      BY <3>3
  <2> QED
    BY <2>1, <2>2
<1>6. ASSUME NEW k \in DOMAIN d
      PROVE  k \in DOMAIN u /\ u[k] = d[k]
  BY <1>2, <1>3, <1>4
<1>7. ASSUME NEW l \in DOMAIN s, l # 1
      PROVE  Len(d) + l - 1 \in DOMAIN u /\ u[Len(d) + l - 1] = s[l]
  <2>1. PICK j \in 1..(Len(s) - 1) : l = j + 1
    <3>1. l - 1 \in 1..(Len(s) - 1) /\ l = (l - 1) + 1
      BY <1>2, <1>7
    <3> QED
      BY <3>1
  <2>2. Len(d) + l - 1 = Len(d) + j /\ Len(d) + j \in 1..Len(u) /\ ~ (Len(d) + j <= Len(d))
        /\ (Len(d) + j) - Len(d) = j
    BY <1>2, <1>3, <2>1
  <2>3. u[Len(d) + j] = Tail(s)[j] /\ Tail(s)[j] = s[j + 1]
    BY <1>1, <1>3, <2>2
  <2> QED
    BY <1>4, <2>1, <2>2, <2>3
<1>8. 1 \in DOMAIN s
  BY <1>2
<1> QED
  BY <1>1, <1>2, <1>3, <1>5, <1>6, <1>7, <1>8 DEF u

LEMMA LookKeeps ==
    ASSUME ExportInv, LookAtSquare
    PROVE  ExportInv'
<1> DEFINE task == Head(todo)
           geoms == {i \in task.geoms : Inside(i, task.square)}
           d == IF geoms = {} THEN <<>> ELSE Divide(task.square, geoms, counter)
           rest == IF geoms = {} THEN {} ELSE Rest(geoms)
<1>1. /\ bboxes' = bboxes /\ stage' = stage /\ tileset' = tileset /\ written' = written
      /\ stage = "dividing" /\ todo # <<>>
  BY DEF LookAtSquare
<1>2. /\ ExportAssumption /\ bboxes \in Geometries /\ counter \in Nat
      /\ nodes \in [DOMAIN nodes -> NodeType] /\ DOMAIN nodes \subseteq 0..(counter - 1)
      /\ todo \in Seq(Tasks)
  BY DEF ExportInv, ExportTypeOK
<1>3. task \in Tasks /\ 1 \in DOMAIN todo /\ todo[1] = task
  BY <1>1, <1>2, Replaced, EmptySeq
<1>4. task.square \in Square /\ task.geoms \subseteq Number /\ task.parent \in DOMAIN nodes
  <2>1. todo[1].parent \in DOMAIN nodes
    BY <1>3 DEF ExportInv, NodesAreTree
  <2> HIDE DEF task
  <2> QED
    BY <1>3, <2>1 DEF Tasks
<1>5. geoms \in SUBSET Number /\ \A i : Pending(i, task) <=> i \in geoms
  <2> HIDE DEF task
  <2> QED
    BY <1>4 DEF Pending
<1>6. geoms \in SUBSET Nat /\ IsFiniteSet(geoms)
  <2> HIDE DEF geoms
  <2> QED
    BY <1>2, <1>5, BoxFacts, FS_Subset
<1>7. /\ d \in Seq(Tasks)
      /\ geoms # {} => \A k \in DOMAIN d : d[k].parent = counter
      /\ geoms = {} => DOMAIN d = {}
      /\ \A i : \A k \in DOMAIN d : Pending(i, d[k]) => i \in rest
      /\ \A i \in rest : \E k \in DOMAIN d : Pending(i, d[k])
      /\ \A i \in Number : \A k, l \in DOMAIN d : Pending(i, d[k]) /\ Pending(i, d[l]) => k = l
  <2>1. CASE geoms = {}
    <3>1. d = <<>> /\ rest = {}
      BY <2>1
    <3> HIDE DEF d, rest, geoms
    <3> QED
      BY <2>1, <3>1, EmptySeq
  <2>2. CASE geoms # {}
    <3>1. d = Divide(task.square, geoms, counter) /\ rest = Rest(geoms)
      BY <2>2
    <3>2. \A i \in geoms : Inside(i, task.square)
      OBVIOUS
    <3> HIDE DEF d, rest, geoms, task
    <3> QED
      BY <1>2, <1>4, <1>5, <2>2, <3>1, <3>2, DivideFacts
  <2> QED
    BY <2>1, <2>2
<1>8. todo' = d \o Tail(todo)
  <2>1. CASE geoms = {}
    <3>1. todo' = Tail(todo) /\ d = <<>>
      BY <2>1 DEF LookAtSquare
    <3>2. Tail(todo) \in Seq(Tasks)
      BY <1>1, <1>2, HeadTailProperties
    <3> QED
      BY <3>1, <3>2, ConcatEmptySeq
  <2>2. CASE geoms # {}
    BY <2>2 DEF LookAtSquare
  <2> QED
    BY <2>1, <2>2
<1>9. /\ geoms = {} => nodes' = nodes /\ counter' = counter
      /\ geoms # {} =>
            /\ counter' = counter + 1
            /\ nodes' = [n \in DOMAIN nodes \cup {counter} |->
                           IF n = counter THEN Node(First(FeaturesPerTile, geoms))
                           ELSE IF n = task.parent
                           THEN [nodes[n] EXCEPT !.children = @ \cup {counter}]
                           ELSE nodes[n]]
  BY DEF LookAtSquare
<1>10. /\ First(FeaturesPerTile, geoms) \subseteq geoms
       /\ Cardinality(First(FeaturesPerTile, geoms)) <= FeaturesPerTile
       /\ \A i \in geoms : i \in First(FeaturesPerTile, geoms) <=> i \notin rest
       /\ rest \subseteq geoms
  <2>1. /\ First(FeaturesPerTile, geoms) \subseteq geoms
        /\ Cardinality(First(FeaturesPerTile, geoms)) <= FeaturesPerTile
    <3> HIDE DEF geoms
    <3> QED
      BY <1>2, <1>6, Sizes, FirstFacts
  <2> HIDE DEF geoms
  <2> QED
    BY <2>1 DEF Rest
<1> HIDE DEF task, geoms, d, rest
<1>11. counter \notin DOMAIN nodes /\ \A n \in DOMAIN nodes : n \in Nat /\ n < counter
  BY <1>2
<1>12. ASSUME NEW n \in DOMAIN nodes
       PROVE  /\ n \in DOMAIN nodes' /\ nodes'[n].features = nodes[n].features
              /\ nodes'[n] \in NodeType
              /\ nodes[n].children \subseteq nodes'[n].children
              /\ \A c \in nodes'[n].children :
                    c \in nodes[n].children \/ (geoms # {} /\ c = counter)
              /\ geoms # {} /\ n = task.parent => counter \in nodes'[n].children
  <2>1. nodes[n] \in NodeType
    BY <1>2
  <2>2. CASE geoms = {}
    BY <1>9, <2>1, <2>2
  <2>3. CASE geoms # {}
    <3>1. n # counter /\ n \in DOMAIN nodes'
      BY <1>9, <1>11, <2>3
    <3>2. CASE n = task.parent
      <4>1. nodes'[n] = [nodes[n] EXCEPT !.children = nodes[n].children \cup {counter}]
        BY <1>9, <2>3, <3>1, <3>2
      <4>2. nodes[n].children \cup {counter} \in SUBSET Nat
        BY <1>2, <2>1 DEF NodeType
      <4>3. nodes'[n] \in NodeType /\ nodes'[n].features = nodes[n].features
            /\ nodes'[n].children = nodes[n].children \cup {counter}
        BY <2>1, <4>1, <4>2 DEF NodeType
      <4> QED
        BY <2>3, <3>1, <4>3
    <3>3. CASE n # task.parent
      <4>1. nodes'[n] = nodes[n]
        BY <1>9, <2>3, <3>1, <3>3
      <4> QED
        BY <2>1, <3>1, <3>3, <4>1
    <3> QED
      BY <3>2, <3>3
  <2> QED
    BY <2>2, <2>3
<1>13. ASSUME geoms # {}
       PROVE  /\ counter \in DOMAIN nodes' /\ nodes'[counter] \in NodeType
              /\ nodes'[counter].features = First(FeaturesPerTile, geoms)
              /\ nodes'[counter].children = {}
  <2>1. nodes'[counter] = Node(First(FeaturesPerTile, geoms)) /\ counter \in DOMAIN nodes'
    BY <1>9, <1>13
  <2>2. First(FeaturesPerTile, geoms) \in SUBSET Number
    BY <1>5, <1>10
  <2> QED
    BY <2>1, <2>2 DEF Node, NodeType
<1>14. /\ DOMAIN nodes' = DOMAIN nodes \cup (IF geoms = {} THEN {} ELSE {counter})
       /\ nodes' = [n \in DOMAIN nodes' |-> nodes'[n]]
       /\ counter' \in Nat /\ counter <= counter'
       /\ geoms # {} => counter < counter'
  <2>1. CASE geoms = {}
    BY <1>2, <1>9, <2>1
  <2>2. CASE geoms # {}
    <3>1. counter' = counter + 1
      BY <1>9, <2>2
    <3>2. DOMAIN nodes' = DOMAIN nodes \cup {counter} /\ nodes' = [n \in DOMAIN nodes' |-> nodes'[n]]
      BY <1>9, <2>2
    <3> QED
      BY <1>2, <2>2, <3>1, <3>2
  <2> QED
    BY <2>1, <2>2
<1>15. \A n \in DOMAIN nodes' : n \in DOMAIN nodes \/ (geoms # {} /\ n = counter)
  BY <1>14
<1>16. ExportTypeOK'
  <2>1. nodes' \in [DOMAIN nodes' -> NodeType']
    <3>1. \A n \in DOMAIN nodes' : nodes'[n] \in NodeType
      BY <1>12, <1>13, <1>15
    <3> QED
      BY <1>1, <1>14, <3>1, SameBoxes
  <2>2. DOMAIN nodes' \subseteq 0..(counter' - 1)
    <3>1. \A n \in DOMAIN nodes' : n \in Nat /\ n < counter'
      BY <1>2, <1>11, <1>14, <1>15
    <3> QED
      BY <1>14, <3>1
  <2>3. todo' \in Seq(Tasks')
    <3>1. todo' \in Seq(Tasks)
      BY <1>1, <1>2, <1>7, <1>8, Replaced
    <3> QED
      BY <1>1, <3>1, SameBoxes
  <2> QED
    BY <1>1, <1>2, <1>14, <2>1, <2>2, <2>3 DEF ExportTypeOK
<1>17. /\ \A k \in DOMAIN todo' :
             \/ k \in DOMAIN d /\ todo'[k] = d[k]
             \/ \E l \in DOMAIN todo : /\ l > 1 /\ l \in Nat /\ k = Len(d) + l - 1
                                       /\ todo'[k] = todo[l]
       /\ \A k \in DOMAIN d : k \in DOMAIN todo' /\ todo'[k] = d[k]
       /\ \A l \in DOMAIN todo : l # 1 =>
             Len(d) + l - 1 \in DOMAIN todo' /\ todo'[Len(d) + l - 1] = todo[l]
       /\ Len(d) \in Nat
  <2>1. todo \in Seq(Tasks) /\ todo # <<>> /\ d \in Seq(Tasks)
    BY <1>1, <1>2, <1>7
  <2>2. \A k \in DOMAIN (d \o Tail(todo)) :
          \/ k \in DOMAIN d /\ (d \o Tail(todo))[k] = d[k]
          \/ \E l \in DOMAIN todo : /\ l > 1 /\ l \in Nat /\ k = Len(d) + l - 1
                                    /\ (d \o Tail(todo))[k] = todo[l]
    BY <2>1, Replaced
  <2>3. /\ \A k \in DOMAIN d : k \in DOMAIN (d \o Tail(todo)) /\ (d \o Tail(todo))[k] = d[k]
        /\ Len(d) \in Nat
    BY <2>1, Replaced
  <2>4. \A l \in DOMAIN todo : l # 1 =>
          /\ Len(d) + l - 1 \in DOMAIN (d \o Tail(todo))
          /\ (d \o Tail(todo))[Len(d) + l - 1] = todo[l]
    BY <2>1, Replaced
  <2> QED
    BY <1>8, <2>2, <2>3, <2>4
<1>18. NodesAreTree'
  <2>1. Tree \in DOMAIN nodes
        /\ \A n \in DOMAIN nodes :
              /\ Tree <= n
              /\ n # Tree => \E m \in DOMAIN nodes : n \in nodes[m].children
              /\ \A c \in nodes[n].children : c \in DOMAIN nodes /\ n < c
              /\ Cardinality(nodes[n].features) <= FeaturesPerTile
        /\ \A k \in DOMAIN todo : todo[k].parent \in DOMAIN nodes
    BY DEF ExportInv, NodesAreTree
  <2>2. Tree' = Tree
    <3> DEFINE T == DOMAIN nodes'
    <3>1. T \in SUBSET Nat /\ Tree \in T /\ \A n \in T : Tree <= n
      BY <1>2, <1>11, <1>12, <1>15, <2>1
    <3>2. IsFiniteSet(T)
      <4>1. T \in SUBSET (0..(counter' - 1)) /\ counter' \in Nat
        BY <1>16 DEF ExportTypeOK
      <4>2. IsFiniteSet(0..(counter' - 1))
        BY <4>1, FS_Interval
      <4> HIDE DEF T
      <4> QED
        BY <4>1, <4>2, FS_Subset
    <3>3. Tree' = Min(T)
      BY DEF Tree
    <3> HIDE DEF T
    <3>4. T \in SUBSET Int /\ T # {}
      BY <3>1
    <3>5. Min(T) \in T /\ Min(T) <= Tree
      BY <3>1, <3>2, <3>4, MinMax
    <3>6. Min(T) \in Nat /\ Tree \in Nat /\ Tree <= Min(T)
      BY <3>1, <3>5
    <3> QED
      BY <3>3, <3>5, <3>6
  <2>3. ASSUME NEW n \in DOMAIN nodes'
        PROVE  /\ Tree <= n
               /\ n # Tree => \E m \in DOMAIN nodes' : n \in nodes'[m].children
               /\ \A c \in nodes'[n].children : c \in DOMAIN nodes' /\ n < c
               /\ Cardinality(nodes'[n].features) <= FeaturesPerTile
    <3>1. CASE n \in DOMAIN nodes
      <4>1. n # Tree => \E m \in DOMAIN nodes' : n \in nodes'[m].children
        BY <1>12, <2>1, <3>1
      <4>2. \A c \in nodes'[n].children : c \in DOMAIN nodes' /\ n < c
        <5> TAKE c \in nodes'[n].children
        <5>1. CASE c \in nodes[n].children
          BY <1>12, <2>1, <3>1, <5>1
        <5>2. CASE geoms # {} /\ c = counter
          BY <1>11, <1>13, <3>1, <5>2
        <5> QED
          BY <1>12, <3>1, <5>1, <5>2
      <4> QED
        BY <1>12, <2>1, <3>1, <4>1, <4>2
    <3>2. CASE geoms # {} /\ n = counter
      <4>1. task.parent \in DOMAIN nodes' /\ n \in nodes'[task.parent].children
        BY <1>4, <1>12, <3>2
      <4>2. Tree <= n
        BY <1>2, <1>11, <2>1, <3>2
      <4> QED
        BY <1>10, <1>13, <3>2, <4>1, <4>2
    <3> QED
      BY <1>15, <3>1, <3>2
  <2>4. ASSUME NEW k \in DOMAIN todo'
        PROVE  todo'[k].parent \in DOMAIN nodes'
    <3>1. CASE k \in DOMAIN d /\ todo'[k] = d[k]
      BY <1>7, <1>13, <3>1
    <3>2. CASE \E l \in DOMAIN todo : todo'[k] = todo[l]
      BY <1>12, <2>1, <3>2
    <3> QED
      BY <1>17, <3>1, <3>2
  <2> QED
    BY <1>12, <2>1, <2>2, <2>3, <2>4 DEF NodesAreTree
<1>19. InOnePlace'
  <2> SUFFICES ASSUME NEW i \in Number
               PROVE  /\ AtTheEnd(i) <=> Kept(i)' = {} /\ Waiting(i)' = {}
                      /\ Kept(i)' = {} \/ Waiting(i)' = {}
                      /\ \A n, m \in Kept(i)' : n = m
                      /\ \A k, l \in Waiting(i)' : k = l
    BY <1>1, SameBoxes DEF InOnePlace
  <2>1. /\ AtTheEnd(i) <=> Kept(i) = {} /\ Waiting(i) = {}
        /\ Kept(i) = {} \/ Waiting(i) = {}
        /\ \A n, m \in Kept(i) : n = m
        /\ \A k, l \in Waiting(i) : k = l
    BY DEF ExportInv, InOnePlace
  <2>2. \A k : k \in Waiting(i)' <=> k \in DOMAIN todo' /\ Pending(i, todo'[k])
    BY <1>1, SameBoxes DEF Waiting
  <2>3. \A n : n \in Kept(i)' <=> n \in DOMAIN nodes' /\ i \in nodes'[n].features
    BY DEF Kept
  <2>4. \A n : n \in Kept(i) <=> n \in DOMAIN nodes /\ i \in nodes[n].features
    BY DEF Kept
  <2>5. \A k : k \in Waiting(i) <=> k \in DOMAIN todo /\ Pending(i, todo[k])
    BY DEF Waiting
  <2>6. CASE i \notin geoms
    <3>1. Kept(i)' = Kept(i)
      <4>1. \A n : n \in Kept(i)' <=> n \in Kept(i)
        BY <1>10, <1>12, <1>13, <1>15, <2>3, <2>4, <2>6
      <4> QED
        BY <4>1
    <3>2. 1 \notin Waiting(i) /\ \A k \in DOMAIN d : ~ Pending(i, d[k])
      BY <1>3, <1>5, <1>7, <1>10, <2>5, <2>6
    <3>3. \A k \in Waiting(i)' : \E l \in Waiting(i) : l \in Nat /\ k = Len(d) + l - 1
      BY <1>17, <2>2, <2>5, <3>2
    <3>4. \A l \in Waiting(i) : Len(d) + l - 1 \in Waiting(i)'
      BY <1>17, <2>2, <2>5, <3>2
    <3>5. \A k, l \in Waiting(i)' : k = l
      BY <2>1, <3>3
    <3>6. Waiting(i)' = {} <=> Waiting(i) = {}
      BY <3>3, <3>4
    <3> QED
      BY <2>1, <3>1, <3>5, <3>6
  <2>7. CASE i \in geoms
    <3>1. 1 \in Waiting(i) /\ Kept(i) = {} /\ ~ AtTheEnd(i)
      BY <1>3, <1>5, <2>1, <2>5, <2>7
    <3>2. \A k \in Waiting(i)' : k \in DOMAIN d /\ Pending(i, d[k])
      <4> SUFFICES ASSUME NEW k \in Waiting(i)', k \notin DOMAIN d PROVE FALSE
        BY <1>17, <2>2
      <4>1. PICK l \in DOMAIN todo : l > 1 /\ l \in Nat /\ todo'[k] = todo[l]
        BY <1>17, <2>2
      <4>2. l \in Waiting(i)
        BY <2>2, <2>5, <4>1
      <4> QED
        BY <2>1, <3>1, <4>1, <4>2
    <3>3. \A k \in DOMAIN d : Pending(i, d[k]) => k \in Waiting(i)'
      BY <1>17, <2>2
    <3>4. \A k, l \in Waiting(i)' : k = l
      BY <1>7, <3>2
    <3>5. \A n \in Kept(i)' : n = counter
      BY <1>12, <1>15, <2>3, <2>4, <3>1
    <3>6. counter \in Kept(i)' <=> i \notin rest
      BY <1>10, <1>13, <2>3, <2>7
    <3>7. Waiting(i)' # {} <=> i \in rest
      BY <1>7, <3>2, <3>3
    <3> QED
      BY <3>1, <3>4, <3>5, <3>6, <3>7
  <2> QED
    BY <2>6, <2>7
<1>20. FilesOfNodes'
  <2>1. DOMAIN written' = {} /\ stage' = "dividing"
    BY <1>1 DEF ExportInv, FilesOfNodes
  <2> QED
    BY <2>1 DEF FilesOfNodes
<1> QED
  BY <1>16, <1>18, <1>19, <1>20 DEF ExportInv

LEMMA SameNodes ==
    ASSUME bboxes' = bboxes, nodes' = nodes
    PROVE  /\ TilesOfNodes' = TilesOfNodes /\ \A n : HasContent(n)' <=> HasContent(n)
           /\ \A i : Kept(i)' = Kept(i)
<1>1. ComputeBbox' = ComputeBbox
  BY DEF ComputeBbox, BoxOf
<1>2. \A n : HasContent(n)' <=> HasContent(n)
  BY DEF HasContent
<1>3. \A i : Kept(i)' = Kept(i)
  BY DEF Kept
<1>4. TilesOfNodes' = TilesOfNodes
  BY <1>1 DEF TilesOfNodes, HasContent
<1> QED
  BY <1>2, <1>3, <1>4

(* What does not touch the nodes nor the squares keeps where the           *)
(* geometries are.                                                         *)
LEMMA WritingKeeps ==
    ASSUME ExportInv, bboxes' = bboxes, nodes' = nodes, todo' = todo, counter' = counter,
           stage' \in {"dividing", "writing", "done"}
    PROVE  ExportTypeOK' /\ NodesAreTree' /\ InOnePlace'
<1>1. ExportTypeOK'
  BY SameBoxes DEF ExportInv, ExportTypeOK
<1>2. NodesAreTree'
  BY DEF ExportInv, NodesAreTree, Tree
<1>3. InOnePlace'
  <2>1. \A i : Kept(i)' = Kept(i)
    BY SameNodes
  <2>2. \A i : Waiting(i)' = Waiting(i)
    BY SameBoxes DEF Waiting
  <2> QED
    BY <2>1, <2>2, SameBoxes DEF ExportInv, InOnePlace
<1> QED
  BY <1>1, <1>2, <1>3

LEMMA ToWriteFacts ==
    ASSUME ExportInv, ToWrite # {}
    PROVE  Min(ToWrite) \in DOMAIN nodes /\ HasContent(Min(ToWrite))
<1>1. DOMAIN nodes \subseteq 0..(counter - 1) /\ counter \in Nat
  BY DEF ExportInv, ExportTypeOK
<1>2. ToWrite \subseteq DOMAIN nodes
  BY DEF ToWrite
<1>3. ToWrite \in SUBSET (0..(counter - 1)) /\ IsFiniteSet(0..(counter - 1))
  BY <1>1, <1>2, FS_Interval
<1>4. IsFiniteSet(ToWrite)
  BY <1>3, FS_Subset
<1>5. ToWrite \in SUBSET Int
  <2>1. \A n \in ToWrite : n \in Int
    BY <1>1, <1>3
  <2> QED
    BY <2>1
<1>6. Min(ToWrite) \in ToWrite
  BY <1>4, <1>5, MinMax
<1> QED
  BY <1>6 DEF ToWrite

LEMMA ExportStep == ExportInv /\ [Next]_vars => ExportInv'
<1> SUFFICES ASSUME ExportInv, [Next]_vars PROVE ExportInv'
  OBVIOUS
<1>1. CASE LookAtSquare
  BY <1>1, LookKeeps
<1>2. CASE WriteTileset
  <2>1. /\ bboxes' = bboxes /\ nodes' = nodes /\ todo' = todo /\ counter' = counter
        /\ stage' = "writing" /\ written' = written /\ stage = "dividing" /\ todo = <<>>
        /\ tileset' = TilesOfNodes
    BY <1>2 DEF WriteTileset, TilesOfNodes
  <2>2. DOMAIN written = {}
    BY <2>1 DEF ExportInv, FilesOfNodes
  <2>3. tileset' = TilesOfNodes'
    BY <2>1, SameNodes
  <2>4. FilesOfNodes'
    BY <2>1, <2>2, <2>3 DEF FilesOfNodes
  <2> QED
    BY <2>1, <2>4, WritingKeeps DEF ExportInv
<1>3. CASE WriteTile
  <2>1. /\ bboxes' = bboxes /\ nodes' = nodes /\ todo' = todo /\ counter' = counter
        /\ stage' = "writing" /\ stage = "writing" /\ tileset' = tileset /\ ToWrite # {}
        /\ written' = [n \in DOMAIN written \cup {Min(ToWrite)} |->
                          IF n \in DOMAIN written THEN written[n] ELSE nodes[n].features]
    BY <1>3 DEF WriteTile
  <2>2. /\ todo = <<>>
        /\ tileset = TilesOfNodes
        /\ DOMAIN written \subseteq {n \in DOMAIN nodes : HasContent(n)}
        /\ \A n \in DOMAIN written : written[n] = nodes[n].features
    BY <2>1 DEF ExportInv, FilesOfNodes
  <2>3. tileset' = TilesOfNodes'
    BY <2>1, <2>2, SameNodes
  <2>4. DOMAIN written' = DOMAIN written \cup {Min(ToWrite)}
        /\ \A n \in DOMAIN written' : written'[n] = nodes[n].features
    BY <2>1, <2>2
  <2>5. DOMAIN written' \subseteq {n \in DOMAIN nodes : HasContent(n)}
    BY <2>1, <2>2, <2>4, ToWriteFacts
  <2>6. DOMAIN written' \subseteq {n \in DOMAIN nodes' : HasContent(n)'}
    BY <2>1, <2>5, SameNodes
  <2>7. FilesOfNodes'
    BY <2>1, <2>2, <2>3, <2>4, <2>6 DEF FilesOfNodes
  <2> QED
    BY <2>1, <2>7, WritingKeeps DEF ExportInv
<1>4. CASE EndWriting
  <2>1. /\ bboxes' = bboxes /\ nodes' = nodes /\ todo' = todo /\ counter' = counter
        /\ stage' = "done" /\ stage = "writing" /\ tileset' = tileset /\ written' = written
        /\ ToWrite = {}
    BY <1>4 DEF EndWriting
  <2>2. /\ todo = <<>>
        /\ tileset = TilesOfNodes
        /\ DOMAIN written \subseteq {n \in DOMAIN nodes : HasContent(n)}
        /\ \A n \in DOMAIN written : written[n] = nodes[n].features
    BY <2>1 DEF ExportInv, FilesOfNodes
  <2>3. tileset' = TilesOfNodes'
    BY <2>1, <2>2, SameNodes
  <2>4. DOMAIN written' \subseteq {n \in DOMAIN nodes' : HasContent(n)'}
    BY <2>1, <2>2, SameNodes
  <2>5. ToWrite' = {}
    BY <2>1, SameNodes DEF ToWrite
  <2>6. FilesOfNodes'
    BY <2>1, <2>2, <2>3, <2>4, <2>5 DEF FilesOfNodes
  <2> QED
    BY <2>1, <2>6, WritingKeeps DEF ExportInv
<1>5. CASE UNCHANGED vars
  <2>1. /\ bboxes' = bboxes /\ nodes' = nodes /\ todo' = todo /\ counter' = counter
        /\ stage' = stage /\ tileset' = tileset /\ written' = written
    BY <1>5 DEF vars
  <2>2. stage' \in {"dividing", "writing", "done"}
    BY <2>1 DEF ExportInv, ExportTypeOK
  <2>3. FilesOfNodes'
    <3>1. FilesOfNodes
      BY DEF ExportInv
    <3>2. ToWrite' = ToWrite
      BY <2>1, SameNodes DEF ToWrite
    <3>3. {n \in DOMAIN nodes' : HasContent(n)'} = {n \in DOMAIN nodes : HasContent(n)}
      BY <2>1, SameNodes
    <3>4. TilesOfNodes' = TilesOfNodes
      BY <2>1, SameNodes
    <3> QED
      BY <2>1, <3>1, <3>2, <3>3, <3>4 DEF FilesOfNodes
  <2> QED
    BY <2>1, <2>2, <2>3, WritingKeeps DEF ExportInv
<1> QED
  BY <1>1, <1>2, <1>3, <1>4, <1>5 DEF Next

LEMMA ExportInvariant ==
    ASSUME ExportAssumption
    PROVE  Spec => []ExportInv
<1>1. Init => ExportInv
  BY ExportInitial
<1> QED
  BY <1>1, ExportStep, PTL DEF Spec

-----------------------------------------------------------------------------
(* The tiles below a tile                                                  *)

Closed(S) == \A k \in S : tileset[k].children \subseteq S
IsTree ==
    \A n \in DOMAIN tileset : \A c \in tileset[n].children : c \in DOMAIN tileset /\ n < c

LEMMA WrittenTree ==
    ASSUME ExportInv, stage # "dividing"
    PROVE  /\ IsTree /\ DOMAIN tileset = DOMAIN nodes
           /\ \A n \in DOMAIN nodes :
                 /\ n \in Nat /\ n < counter
                 /\ tileset[n].content <=> nodes[n].features # {}
                 /\ tileset[n].box = ComputeBbox[n]
                 /\ tileset[n].children = nodes[n].children
                 /\ nodes[n].features \subseteq Number
<1>1. tileset = TilesOfNodes
  BY DEF ExportInv, FilesOfNodes
<1>2. DOMAIN tileset = DOMAIN nodes
  BY <1>1 DEF TilesOfNodes
<1>3. ASSUME NEW n \in DOMAIN nodes
      PROVE  /\ tileset[n].content <=> nodes[n].features # {}
             /\ tileset[n].box = ComputeBbox[n]
             /\ tileset[n].children = nodes[n].children
  BY <1>1 DEF TilesOfNodes, HasContent
<1>4. ASSUME NEW n \in DOMAIN nodes
      PROVE  n \in Nat /\ n < counter /\ nodes[n].features \subseteq Number
  <2>1. nodes[n] \in NodeType /\ n \in 0..(counter - 1) /\ counter \in Nat
    BY DEF ExportInv, ExportTypeOK
  <2> QED
    BY <2>1 DEF NodeType
<1>5. IsTree
  BY <1>2, <1>3 DEF IsTree, ExportInv, NodesAreTree
<1> QED
  BY <1>2, <1>3, <1>4, <1>5

LEMMA BelowFacts ==
    ASSUME IsTree, NEW n \in DOMAIN tileset
    PROVE  /\ n \in TilesBelow(n) /\ TilesBelow(n) \subseteq DOMAIN tileset
           /\ Closed(TilesBelow(n))
           /\ \A S \in SUBSET DOMAIN tileset : n \in S /\ Closed(S) => TilesBelow(n) \subseteq S
<1>1. /\ n \in TilesBelow(n) /\ TilesBelow(n) \subseteq DOMAIN tileset
      /\ \A S \in SUBSET DOMAIN tileset : n \in S /\ Closed(S) => TilesBelow(n) \subseteq S
  BY DEF TilesBelow, Closed
<1>2. Closed(TilesBelow(n))
  <2> SUFFICES ASSUME NEW k \in TilesBelow(n), NEW c \in tileset[k].children
               PROVE  c \in TilesBelow(n)
    BY DEF Closed
  <2>1. c \in DOMAIN tileset
    BY <1>1 DEF IsTree
  <2>2. ASSUME NEW S \in SUBSET DOMAIN tileset, n \in S, Closed(S) PROVE c \in S
    <3>1. k \in S
      BY <1>1, <2>2
    <3> QED
      BY <2>2, <3>1 DEF Closed
  <2> QED
    BY <2>1, <2>2 DEF TilesBelow, Closed
<1> QED
  BY <1>1, <1>2

LEMMA BelowUnfolds ==
    ASSUME IsTree, NEW n \in DOMAIN tileset
    PROVE  \A m : m \in TilesBelow(n) <=>
                     m = n \/ \E c \in tileset[n].children : m \in TilesBelow(c)
<1>1. PICK S : S = {n} \cup UNION {TilesBelow(c) : c \in tileset[n].children}
  OBVIOUS
<1>2. \A c \in tileset[n].children : c \in DOMAIN tileset
  BY DEF IsTree
<1>3. S \in SUBSET DOMAIN tileset
  BY <1>1, <1>2, BelowFacts
<1>4. Closed(S)
  <2> SUFFICES ASSUME NEW k \in S PROVE tileset[k].children \subseteq S
    BY DEF Closed
  <2>1. CASE k = n
    BY <1>1, <1>2, <2>1, BelowFacts
  <2>2. CASE k # n
    <3>1. PICK c \in tileset[n].children : k \in TilesBelow(c)
      BY <1>1, <2>2
    <3>2. tileset[k].children \subseteq TilesBelow(c)
      BY <1>2, <3>1, BelowFacts DEF Closed
    <3> QED
      BY <1>1, <3>1, <3>2
  <2> QED
    BY <2>1, <2>2
<1>5. TilesBelow(n) \subseteq S
  BY <1>1, <1>3, <1>4, BelowFacts
<1>6. ASSUME NEW c \in tileset[n].children PROVE TilesBelow(c) \subseteq TilesBelow(n)
  <2>1. c \in TilesBelow(n) /\ TilesBelow(n) \in SUBSET DOMAIN tileset /\ Closed(TilesBelow(n))
    BY <1>6, BelowFacts DEF Closed
  <2> QED
    BY <1>2, <2>1, BelowFacts
<1> QED
  BY <1>1, <1>5, <1>6, BelowFacts

(* All the tiles are below the root, which has the lowest id.              *)
LEMMA AllBelow ==
    ASSUME ExportInv, stage # "dividing"
    PROVE  TilesBelow(Tree) = DOMAIN nodes
<1>1. /\ IsTree /\ DOMAIN tileset = DOMAIN nodes /\ Tree \in DOMAIN nodes
      /\ \A n \in DOMAIN nodes : n \in Nat /\ tileset[n].children = nodes[n].children
  BY WrittenTree DEF ExportInv, NodesAreTree
<1> DEFINE Missed == DOMAIN nodes \ TilesBelow(Tree)
<1>2. SUFFICES ASSUME Missed # {} PROVE FALSE
  BY <1>1, BelowFacts
<1>3. PICK n \in Missed : \A m \in Missed : n <= m
  <2>1. Missed \in SUBSET Nat
    BY <1>1
  <2> HIDE DEF Missed
  <2> QED
    BY <1>2, <2>1, SmallestNumber
<1>4. n # Tree /\ n \in DOMAIN nodes
  BY <1>1, BelowFacts
<1>5. PICK m \in DOMAIN nodes : n \in nodes[m].children
  BY <1>4 DEF ExportInv, NodesAreTree
<1>6. m < n /\ m \in Nat /\ n \in Nat
  BY <1>1, <1>4, <1>5 DEF ExportInv, NodesAreTree
<1>7. m \in TilesBelow(Tree)
  <2>1. m \notin Missed
    BY <1>3, <1>6
  <2> QED
    BY <2>1
<1>8. n \in TilesBelow(Tree)
  BY <1>1, <1>5, <1>7, BelowFacts DEF Closed
<1> QED
  BY <1>3, <1>8

(* Each geometry but those at the end of the extent is in one file, which  *)
(* one tile names, and no file has more features than it may.              *)
THEOREM ExportFeaturesLost ==
    ASSUME ExportAssumption
    PROVE  Spec => []FeaturesLost
<1>1. ExportInv => FeaturesLost
  <2> SUFFICES ASSUME ExportInv, stage = "done" PROVE FeaturesLost
    BY DEF FeaturesLost
  <2> DEFINE named == {n \in TilesBelow(Tree) : tileset[n].content}
  <2>1. \A n : n \in named <=> n \in DOMAIN nodes /\ nodes[n].features # {}
    BY AllBelow, WrittenTree
  <2>2. /\ todo = <<>> /\ ToWrite = {}
        /\ DOMAIN written \subseteq {n \in DOMAIN nodes : HasContent(n)}
        /\ \A n \in DOMAIN written : written[n] = nodes[n].features
    BY DEF ExportInv, FilesOfNodes
  <2>3. named = DOMAIN written
    <3>1. \A n : n \in DOMAIN written <=> n \in DOMAIN nodes /\ nodes[n].features # {}
      BY <2>2 DEF ToWrite, HasContent
    <3> HIDE DEF named
    <3> QED
      BY <2>1, <3>1
  <2> HIDE DEF named
  <2>4. ASSUME NEW i \in Number
        PROVE  Cardinality({n \in named : i \in written[n]}) = IF AtTheEnd(i) THEN 0 ELSE 1
    <3>1. {n \in named : i \in written[n]} = Kept(i)
      BY <2>1, <2>2, <2>3 DEF Kept
    <3>2. Waiting(i) = {}
      BY <2>2 DEF Waiting
    <3>3. (AtTheEnd(i) <=> Kept(i) = {}) /\ \A n, m \in Kept(i) : n = m
      BY <3>2 DEF ExportInv, InOnePlace
    <3>4. CASE AtTheEnd(i)
      BY <3>1, <3>3, <3>4, FS_EmptySet
    <3>5. CASE ~ AtTheEnd(i)
      <4>1. PICK n : Kept(i) = {n}
        BY <3>3, <3>5
      <4> QED
        BY <3>1, <3>5, <4>1, FS_Singleton
    <3> QED
      BY <3>4, <3>5
  <2>5. \A n \in named : Cardinality(written[n]) <= FeaturesPerTile
    BY <2>1, <2>2, <2>3 DEF ExportInv, NodesAreTree
  <2> QED
    BY <2>3, <2>4, <2>5 DEF FeaturesLost, named
<1> QED
  BY <1>1, ExportInvariant, PTL

-----------------------------------------------------------------------------
(* The boxes of the tiles.  compute_bbox goes down the tree; what it finds *)
(* is the box of all the features below the node.                          *)

LEMMA MinMaxIs ==
    ASSUME NEW T \in SUBSET Int, NEW m \in T
    PROVE  /\ (\A j \in T : m <= j) => Min(T) = m
           /\ (\A j \in T : j <= m) => Max(T) = m
<1>1. \A j \in T : j \in Int
  OBVIOUS
<1>2. ASSUME \A j \in T : m <= j PROVE Min(T) = m
  <2>1. Min(T) \in T /\ \A j \in T : Min(T) <= j
    BY <1>2 DEF Min
  <2>2. PICK x \in Int, y \in Int : x = Min(T) /\ y = m
    BY <1>1, <2>1
  <2>3. x <= y /\ y <= x
    BY <1>2, <2>1, <2>2
  <2> QED
    BY <2>2, <2>3
<1>3. ASSUME \A j \in T : j <= m PROVE Max(T) = m
  <2>1. Max(T) \in T /\ \A j \in T : Max(T) >= j
    <3>1. \E x \in T : \A j \in T : x >= j
      BY <1>1, <1>3
    <3> QED
      BY <3>1 DEF Max
  <2>2. PICK x \in Int, y \in Int : x = Max(T) /\ y = m
    BY <1>1, <2>1
  <2>3. x <= y /\ x >= y
    BY <1>3, <2>1, <2>2
  <2> QED
    BY <2>2, <2>3
<1> QED
  BY <1>2, <1>3

Lows(I, a) == {BoxOf(i).min[a] : i \in I}
Highs(I, a) == {BoxOf(i).max[a] : i \in I}
HullOfFeatures(I) == HullOf({BoxOf(i) : i \in I})

LEMMA FeatureBox ==
    ASSUME ExportAssumption, bboxes \in Geometries, NEW i \in Number
    PROVE  BoxOf(i) # Infinite
<1>1. DOMAIN BoxOf(i).min = 1..3 /\ DOMAIN Infinite.min = {} /\ 1 \in 1..3
  BY DEF BoxOf, ZUp, Infinite
<1> QED
  BY <1>1

LEMMA HullFacts ==
    ASSUME ExportAssumption, bboxes \in Geometries, NEW I \in SUBSET Number
    PROVE  /\ I = {} => HullOfFeatures(I) = Infinite
           /\ I # {} => HullOfFeatures(I) # Infinite
           /\ I # {} => HullOfFeatures(I) = [min |-> [a \in 1..3 |-> Min(Lows(I, a))],
                                            max |-> [a \in 1..3 |-> Max(Highs(I, a))]]
           /\ I # {} => \A a \in 1..3 :
                 /\ HullOfFeatures(I).min[a] \in Lows(I, a)
                 /\ HullOfFeatures(I).max[a] \in Highs(I, a)
                 /\ Lows(I, a) \subseteq Int /\ Highs(I, a) \subseteq Int
                 /\ \A i \in I : /\ HullOfFeatures(I).min[a] <= BoxOf(i).min[a]
                                 /\ BoxOf(i).max[a] <= HullOfFeatures(I).max[a]
<1> DEFINE boxes == {BoxOf(i) : i \in I}
<1>1. boxes \ {Infinite} = boxes
  BY FeatureBox
<1>2. I = {} => HullOfFeatures(I) = Infinite
  <2>1. I = {} => boxes = {}
    OBVIOUS
  <2> QED
    BY <1>1, <2>1 DEF HullOfFeatures, HullOf
<1>3. ASSUME I # {}
      PROVE  /\ HullOfFeatures(I) # Infinite
             /\ HullOfFeatures(I) = [min |-> [a \in 1..3 |-> Min(Lows(I, a))],
                                    max |-> [a \in 1..3 |-> Max(Highs(I, a))]]
             /\ \A a \in 1..3 :
                 /\ HullOfFeatures(I).min[a] \in Lows(I, a)
                 /\ HullOfFeatures(I).max[a] \in Highs(I, a)
                 /\ Lows(I, a) \subseteq Int /\ Highs(I, a) \subseteq Int
                 /\ \A i \in I : /\ HullOfFeatures(I).min[a] <= BoxOf(i).min[a]
                                 /\ BoxOf(i).max[a] <= HullOfFeatures(I).max[a]
  <2>1. boxes # {}
    BY <1>3
  <2>2. \A a : Lows(I, a) = {b.min[a] : b \in boxes} /\ Highs(I, a) = {b.max[a] : b \in boxes}
    BY DEF Lows, Highs
  <2>3. HullOfFeatures(I) = [min |-> [a \in 1..3 |-> Min(Lows(I, a))],
                             max |-> [a \in 1..3 |-> Max(Highs(I, a))]]
    <3>1. HullOfFeatures(I) = HullOf(boxes)
      BY DEF HullOfFeatures
    <3> HIDE DEF boxes
    <3>2. HullOf(boxes) = [min |-> [a \in 1..3 |-> Min({b.min[a] : b \in boxes})],
                           max |-> [a \in 1..3 |-> Max({b.max[a] : b \in boxes})]]
      BY <1>1, <2>1 DEF HullOf
    <3> QED
      BY <2>2, <3>1, <3>2
  <2>4. HullOfFeatures(I) # Infinite
    <3>1. DOMAIN HullOfFeatures(I).min = 1..3 /\ DOMAIN Infinite.min = {} /\ 1 \in 1..3
      BY <2>3 DEF Infinite
    <3> QED
      BY <3>1
  <2>5. ASSUME NEW a \in 1..3
        PROVE  /\ Lows(I, a) \in SUBSET Int /\ IsFiniteSet(Lows(I, a)) /\ Lows(I, a) # {}
               /\ Highs(I, a) \in SUBSET Int /\ IsFiniteSet(Highs(I, a)) /\ Highs(I, a) # {}
    <3> DEFINE l == [i \in I |-> BoxOf(i).min[a]]
               u == [i \in I |-> BoxOf(i).max[a]]
    <3>1. IsFiniteSet(I)
      BY BoxFacts, FS_Subset
    <3>2. l \in Surjection(I, Lows(I, a)) /\ u \in Surjection(I, Highs(I, a))
      BY DEF Surjection, Lows, Highs
    <3>3. IsFiniteSet(Lows(I, a)) /\ IsFiniteSet(Highs(I, a))
      <4> HIDE DEF l, u
      <4> QED
        BY <3>1, <3>2, FS_Surjection
    <3>4. \A i \in I : BoxOf(i).min[a] \in Int /\ BoxOf(i).max[a] \in Int
      BY BoxFacts
    <3> QED
      BY <1>3, <3>3, <3>4 DEF Lows, Highs
  <2>6. ASSUME NEW a \in 1..3
        PROVE  /\ HullOfFeatures(I).min[a] \in Lows(I, a)
               /\ HullOfFeatures(I).max[a] \in Highs(I, a)
               /\ \A i \in I : /\ HullOfFeatures(I).min[a] <= BoxOf(i).min[a]
                               /\ BoxOf(i).max[a] <= HullOfFeatures(I).max[a]
    <3>1. HullOfFeatures(I).min[a] = Min(Lows(I, a)) /\ HullOfFeatures(I).max[a] = Max(Highs(I, a))
      BY <2>3
    <3>2. /\ Min(Lows(I, a)) \in Lows(I, a) /\ \A j \in Lows(I, a) : Min(Lows(I, a)) <= j
          /\ Max(Highs(I, a)) \in Highs(I, a) /\ \A j \in Highs(I, a) : j <= Max(Highs(I, a))
      BY <2>5, MinMax
    <3>3. \A i \in I : BoxOf(i).min[a] \in Lows(I, a) /\ BoxOf(i).max[a] \in Highs(I, a)
      BY DEF Lows, Highs
    <3> QED
      BY <3>1, <3>2, <3>3
  <2> QED
    BY <2>3, <2>4, <2>5, <2>6
<1> QED
  BY <1>2, <1>3

(* The hull of hulls is the hull of all the features in them: J are the    *)
(* features of a node, I, and those below its children, F[c] for the child *)
(* c, and boxes are those compute_bbox adds up.                            *)
Gathers(K, F, I, J, boxes) ==
    /\ I \in SUBSET Number /\ J \in SUBSET Number
    /\ \A c \in K : F[c] \in SUBSET Number
    /\ \A i : i \in J <=> i \in I \/ \E c \in K : i \in F[c]
    /\ \A b : b \in boxes <=> \/ \E c \in K : b = HullOfFeatures(F[c])
                           \/ \E i \in I : b = BoxOf(i)

LEMMA HullOfHulls ==
    ASSUME ExportAssumption, bboxes \in Geometries, NEW K, NEW F, NEW I, NEW J, NEW all, Gathers(K, F, I, J, all)
    PROVE  HullOf(all) = HullOfFeatures(J)
<1>0. /\ I \in SUBSET Number /\ J \in SUBSET Number
      /\ \A c \in K : F[c] \in SUBSET Number
      /\ \A i : i \in J <=> i \in I \/ \E c \in K : i \in F[c]
      /\ \A b : b \in all <=> \/ \E c \in K : b = HullOfFeatures(F[c])
                           \/ \E i \in I : b = BoxOf(i)
  BY DEF Gathers
<1> DEFINE finite == all \ {Infinite}
<1>1. \A b : b \in finite <=>
           \/ \E c \in K : F[c] # {} /\ b = HullOfFeatures(F[c])
           \/ \E i \in I : b = BoxOf(i)
  BY <1>0, HullFacts, FeatureBox
<1>2. finite = {} <=> J = {}
  <2> HIDE DEF finite
  <2> QED
    BY <1>0, <1>1
<1>3. CASE J = {}
  <2>1. HullOf(all) = Infinite
    BY <1>2, <1>3 DEF HullOf
  <2> QED
    BY <1>0, <1>3, <2>1, HullFacts
<1>4. CASE J # {}
  <2>1. HullOf(all) = [min |-> [a \in 1..3 |-> Min({b.min[a] : b \in finite})],
                       max |-> [a \in 1..3 |-> Max({b.max[a] : b \in finite})]]
    BY <1>2, <1>4 DEF HullOf
  <2>2. ASSUME NEW a \in 1..3
        PROVE  /\ Min({b.min[a] : b \in finite}) = Min(Lows(J, a))
               /\ Max({b.max[a] : b \in finite}) = Max(Highs(J, a))
    <3> DEFINE L == {b.min[a] : b \in finite}
               U == {b.max[a] : b \in finite}
               low == HullOfFeatures(J).min[a]
               high == HullOfFeatures(J).max[a]
    <3>0. low = Min(Lows(J, a)) /\ high = Max(Highs(J, a))
      <4>1. HullOfFeatures(J) = [min |-> [x \in 1..3 |-> Min(Lows(J, x))],
                                 max |-> [x \in 1..3 |-> Max(Highs(J, x))]]
        BY <1>0, <1>4, HullFacts
      <4> QED
        BY <4>1
    <3>1. /\ low \in Lows(J, a) /\ high \in Highs(J, a)
          /\ Lows(J, a) \subseteq Int /\ Highs(J, a) \subseteq Int
          /\ \A i \in J : low <= BoxOf(i).min[a] /\ BoxOf(i).max[a] <= high
      BY <1>0, <1>4, HullFacts
    <3> HIDE DEF finite, low, high
    <3>2. \A i : i \in J => BoxOf(i).min[a] \in Lows(J, a) /\ BoxOf(i).max[a] \in Highs(J, a)
      BY DEF Lows, Highs
    <3>3. ASSUME NEW b \in finite
          PROVE  b.min[a] \in Lows(J, a) /\ b.max[a] \in Highs(J, a)
      <4>1. CASE \E i \in I : b = BoxOf(i)
        BY <1>0, <3>2, <4>1
      <4>2. ASSUME NEW c \in K, F[c] # {}, b = HullOfFeatures(F[c])
            PROVE  b.min[a] \in Lows(J, a) /\ b.max[a] \in Highs(J, a)
        <5>1. b.min[a] \in Lows(F[c], a) /\ b.max[a] \in Highs(F[c], a)
          BY <1>0, <4>2, HullFacts
        <5>2. \A i \in F[c] : i \in J
          BY <1>0, <4>2
        <5> QED
          BY <5>1, <5>2 DEF Lows, Highs
      <4> QED
        BY <1>1, <4>1, <4>2
    <3>4. \A x \in Lows(J, a) : low <= x
      BY <3>1 DEF Lows
    <3>5. \A x \in Highs(J, a) : x <= high
      BY <3>1 DEF Highs
    <3>6. \E b \in finite : b.min[a] <= low
      <4>1. PICK i \in J : low = BoxOf(i).min[a]
        BY <3>1 DEF Lows
      <4>2. low <= low
        BY <3>1
      <4>3. CASE i \in I
        BY <1>1, <4>1, <4>2, <4>3
      <4>4. ASSUME NEW c \in K, i \in F[c] PROVE \E b \in finite : b.min[a] <= low
        <5>1. HullOfFeatures(F[c]).min[a] <= low
          BY <1>0, <4>1, <4>4, HullFacts
        <5> QED
          BY <1>0, <1>1, <4>4, <5>1
      <4> QED
        BY <1>0, <4>3, <4>4
    <3>7. \E b \in finite : high <= b.max[a]
      <4>1. PICK i \in J : high = BoxOf(i).max[a]
        BY <3>1 DEF Highs
      <4>2. high <= high
        BY <3>1
      <4>3. CASE i \in I
        BY <1>1, <4>1, <4>2, <4>3
      <4>4. ASSUME NEW c \in K, i \in F[c] PROVE \E b \in finite : high <= b.max[a]
        <5>1. high <= HullOfFeatures(F[c]).max[a]
          BY <1>0, <4>1, <4>4, HullFacts
        <5> QED
          BY <1>0, <1>1, <4>4, <5>1
      <4> QED
        BY <1>0, <4>3, <4>4
    <3>8. L \subseteq Lows(J, a) /\ U \subseteq Highs(J, a)
      BY <3>3
    <3>9. low \in L
      <4>1. PICK b \in finite : b.min[a] <= low
        BY <3>6
      <4>2. b.min[a] \in Lows(J, a) /\ low <= b.min[a]
        BY <3>3, <3>4
      <4>3. b.min[a] = low
        BY <3>1, <4>1, <4>2
      <4> QED
        BY <4>3
    <3>10. high \in U
      <4>1. PICK b \in finite : high <= b.max[a]
        BY <3>7
      <4>2. b.max[a] \in Highs(J, a) /\ b.max[a] <= high
        BY <3>3, <3>5
      <4>3. b.max[a] = high
        BY <3>1, <4>1, <4>2
      <4> QED
        BY <4>3
    <3>11. L \in SUBSET Int /\ U \in SUBSET Int
           /\ (\A x \in L : low <= x) /\ (\A x \in U : x <= high)
      BY <3>1, <3>4, <3>5, <3>8
    <3> HIDE DEF L, U
    <3>12. Min(L) = low /\ Max(U) = high
      BY <3>9, <3>10, <3>11, MinMaxIs
    <3> QED
      BY <3>0, <3>12 DEF L, U
  <2>3. HullOfFeatures(J) = [min |-> [a \in 1..3 |-> Min(Lows(J, a))],
                             max |-> [a \in 1..3 |-> Max(Highs(J, a))]]
    BY <1>0, <1>4, HullFacts
  <2> HIDE DEF finite
  <2> QED
    BY <2>1, <2>2, <2>3
<1> QED
  BY <1>3, <1>4

(* What compute_bbox finds, without the recursion.                         *)
FeaturesBelow(n) == UNION {nodes[m].features : m \in TilesBelow(n)}
IsBoxes(b) ==
    b = [n \in DOMAIN nodes |->
            HullOf({b[c] : c \in nodes[n].children} \cup {BoxOf(i) : i \in nodes[n].features})]

LEMMA BelowHull ==
    ASSUME ExportInv, stage # "dividing", NEW n \in DOMAIN nodes
    PROVE  /\ FeaturesBelow(n) \in SUBSET Number
           /\ nodes[n].children \subseteq DOMAIN nodes
           /\ HullOf({HullOfFeatures(FeaturesBelow(c)) : c \in nodes[n].children}
                         \cup {BoxOf(i) : i \in nodes[n].features})
                  = HullOfFeatures(FeaturesBelow(n))
<1>1. /\ IsTree /\ DOMAIN tileset = DOMAIN nodes /\ ExportAssumption /\ bboxes \in Geometries
      /\ \A m \in DOMAIN nodes : /\ tileset[m].children = nodes[m].children
                                 /\ nodes[m].features \subseteq Number
  BY WrittenTree DEF ExportInv, ExportTypeOK
<1>2. nodes[n].children \subseteq DOMAIN nodes
  BY <1>1 DEF IsTree
<1>3. ASSUME NEW m \in DOMAIN nodes PROVE FeaturesBelow(m) \in SUBSET Number
  BY <1>1, BelowFacts DEF FeaturesBelow
<1>4. \A m : m \in TilesBelow(n) <=> m = n \/ \E c \in nodes[n].children : m \in TilesBelow(c)
  BY <1>1, BelowUnfolds
<1>5. \A i : i \in FeaturesBelow(n) <=>
             i \in nodes[n].features \/ \E c \in nodes[n].children : i \in FeaturesBelow(c)
  BY <1>4 DEF FeaturesBelow
<1>6. PICK F : \A c \in nodes[n].children : F[c] = FeaturesBelow(c)
  <2>1. \E F : F = [c \in nodes[n].children |-> FeaturesBelow(c)]
    OBVIOUS
  <2> QED
    BY <2>1
<1>7. /\ \A c \in nodes[n].children : F[c] \in SUBSET Number
      /\ nodes[n].features \in SUBSET Number /\ FeaturesBelow(n) \in SUBSET Number
      /\ \A i : i \in FeaturesBelow(n) <=>
                 i \in nodes[n].features \/ \E c \in nodes[n].children : i \in F[c]
  BY <1>1, <1>2, <1>3, <1>5, <1>6
<1>8. HullOf({HullOfFeatures(F[c]) : c \in nodes[n].children}
                  \cup {BoxOf(i) : i \in nodes[n].features}) = HullOfFeatures(FeaturesBelow(n))
  <2>1. PICK K, I, J : K = nodes[n].children /\ I = nodes[n].features /\ J = FeaturesBelow(n)
    OBVIOUS
  <2>2. /\ ExportAssumption /\ bboxes \in Geometries /\ I \in SUBSET Number /\ J \in SUBSET Number
        /\ \A c \in K : F[c] \in SUBSET Number
        /\ \A i : i \in J <=> i \in I \/ \E c \in K : i \in F[c]
    BY <1>1, <1>7, <2>1
  <2>3. PICK all : all = {HullOfFeatures(F[c]) : c \in K} \cup {BoxOf(i) : i \in I}
    OBVIOUS
  <2>4. \A b : b \in all <=> \/ \E c \in K : b = HullOfFeatures(F[c])
                             \/ \E i \in I : b = BoxOf(i)
    BY <2>3
  <2>5. Gathers(K, F, I, J, all)
    BY <2>2, <2>4 DEF Gathers
  <2>6. HullOf(all) = HullOfFeatures(J)
    BY <2>2, <2>5, HullOfHulls
  <2> QED
    BY <2>1, <2>3, <2>6
<1>9. {HullOfFeatures(F[c]) : c \in nodes[n].children}
         = {HullOfFeatures(FeaturesBelow(c)) : c \in nodes[n].children}
  BY <1>6
<1> QED
  BY <1>2, <1>7, <1>8, <1>9

LEMMA BoxesExist ==
    ASSUME ExportInv, stage # "dividing"
    PROVE  \E b : IsBoxes(b)
<1> DEFINE b == [n \in DOMAIN nodes |-> HullOfFeatures(FeaturesBelow(n))]
<1>1. ASSUME NEW n \in DOMAIN nodes
      PROVE  b[n] = HullOf({b[c] : c \in nodes[n].children}
                               \cup {BoxOf(i) : i \in nodes[n].features})
  <2>1. \A c \in nodes[n].children : b[c] = HullOfFeatures(FeaturesBelow(c))
    BY BelowHull
  <2>2. {b[c] : c \in nodes[n].children}
           = {HullOfFeatures(FeaturesBelow(c)) : c \in nodes[n].children}
    BY <2>1
  <2>3. b[n] = HullOfFeatures(FeaturesBelow(n))
    OBVIOUS
  <2> HIDE DEF b
  <2> QED
    BY <2>2, <2>3, BelowHull
<1>2. PICK q : q = b
  OBVIOUS
<1>3. q = [n \in DOMAIN nodes |-> q[n]]
      /\ \A n \in DOMAIN nodes :
            q[n] = HullOf({q[c] : c \in nodes[n].children}
                              \cup {BoxOf(i) : i \in nodes[n].features})
  BY <1>1, <1>2
<1> HIDE DEF b
<1>4. IsBoxes(q)
  BY <1>3 DEF IsBoxes
<1> QED
  BY <1>4

LEMMA BoxIsHull ==
    ASSUME ExportInv, stage # "dividing", NEW n \in DOMAIN nodes
    PROVE  ComputeBbox[n] = HullOfFeatures(FeaturesBelow(n))
<1>1. ComputeBbox = CHOOSE b : IsBoxes(b)
  BY DEF ComputeBbox, IsBoxes
<1>2. IsBoxes(ComputeBbox)
  BY <1>1, BoxesExist
<1> DEFINE Wrong == {m \in DOMAIN nodes : ComputeBbox[m] # HullOfFeatures(FeaturesBelow(m))}
<1>3. SUFFICES ASSUME Wrong # {} PROVE FALSE
  OBVIOUS
<1>4. PICK m \in Wrong : \A k \in Wrong : k <= m
  <2>1. counter \in Nat /\ DOMAIN nodes \subseteq 0..(counter - 1)
    BY DEF ExportInv, ExportTypeOK
  <2>2. Wrong \in SUBSET DOMAIN nodes
    OBVIOUS
  <2> HIDE DEF Wrong
  <2>3. Wrong \in SUBSET Int
    BY <2>1, <2>2
  <2>4. IsFiniteSet(0..(counter - 1))
    BY <2>1, FS_Interval
  <2>5. IsFiniteSet(Wrong)
    BY <2>1, <2>2, <2>4, FS_Subset
  <2> QED
    BY <1>3, <2>3, <2>5, MinMax
<1>5. m \in DOMAIN nodes
  OBVIOUS
<1>6. \A c \in nodes[m].children : c \in DOMAIN nodes /\ m < c /\ c \in Nat /\ m \in Nat
  BY <1>5, WrittenTree DEF IsTree
<1>7. \A c \in nodes[m].children : c \notin Wrong
  <2> HIDE DEF Wrong
  <2> QED
    BY <1>4, <1>6
<1>8. {ComputeBbox[c] : c \in nodes[m].children}
        = {HullOfFeatures(FeaturesBelow(c)) : c \in nodes[m].children}
  BY <1>6, <1>7
<1>9. ComputeBbox[m] = HullOf({ComputeBbox[c] : c \in nodes[m].children}
                                  \cup {BoxOf(i) : i \in nodes[m].features})
  <2>1. PICK b : b = ComputeBbox
    OBVIOUS
  <2>2. IsBoxes(b)
    BY <1>2, <2>1
  <2>3. b[m] = HullOf({b[c] : c \in nodes[m].children} \cup {BoxOf(i) : i \in nodes[m].features})
    BY <1>5, <2>2 DEF IsBoxes
  <2> QED
    BY <2>1, <2>3
<1>10. ComputeBbox[m] = HullOfFeatures(FeaturesBelow(m))
  BY <1>5, <1>8, <1>9, BelowHull
<1> QED
  BY <1>4, <1>10

(* The box of a tile encloses the geometries of the files below it, in x   *)
(* and in z, and in y the side of their lowest z.                          *)
THEOREM ExportBoxesCover ==
    ASSUME ExportAssumption
    PROVE  Spec => []BoxesCover
<1>1. ExportInv => BoxesCover
  <2> SUFFICES ASSUME ExportInv, stage = "done",
                      NEW n \in DOMAIN tileset, NEW m \in TilesBelow(n) \cap DOMAIN written,
                      NEW i \in written[m]
               PROVE  LET box == tileset[n].box
                      IN  /\ box.min[1] <= bboxes[i].min[1] /\ bboxes[i].max[1] <= box.max[1]
                          /\ box.min[3] <= bboxes[i].min[2] /\ bboxes[i].max[2] <= box.max[3]
                          /\ box.min[2] <= - bboxes[i].min[3] /\ - bboxes[i].min[3] <= box.max[2]
    BY DEF BoxesCover
  <2>1. n \in DOMAIN nodes /\ tileset[n].box = ComputeBbox[n]
    BY WrittenTree
  <2>2. written[m] = nodes[m].features
    BY DEF ExportInv, FilesOfNodes
  <2>3. i \in FeaturesBelow(n)
    BY <2>2 DEF FeaturesBelow
  <2>4. FeaturesBelow(n) \in SUBSET Number /\ bboxes \in Geometries
    BY <2>1, BelowHull DEF ExportInv, ExportTypeOK
  <2>5. PICK h : h = HullOfFeatures(FeaturesBelow(n))
    OBVIOUS
  <2>6. \A a \in 1..3 : h.min[a] <= BoxOf(i).min[a] /\ BoxOf(i).max[a] <= h.max[a]
    BY <2>3, <2>4, <2>5, HullFacts
  <2>7. 1 \in 1..3 /\ 2 \in 1..3 /\ 3 \in 1..3
    OBVIOUS
  <2>8. /\ BoxOf(i).min[1] = bboxes[i].min[1] /\ BoxOf(i).max[1] = bboxes[i].max[1]
        /\ BoxOf(i).min[2] = - bboxes[i].min[3] /\ BoxOf(i).max[2] = - bboxes[i].min[3]
        /\ BoxOf(i).min[3] = bboxes[i].min[2] /\ BoxOf(i).max[3] = bboxes[i].max[2]
    BY DEF BoxOf, ZUp
  <2>9. tileset[n].box = h
    BY <2>1, <2>5, BoxIsHull
  <2> QED
    BY <2>6, <2>7, <2>8, <2>9
<1> QED
  BY <1>1, ExportInvariant, PTL

-----------------------------------------------------------------------------
(* Layouts                                                                 *)

BatchTables == [properties : Seq([offset : Nat, item : Nat]), data : Seq(Nat), nbytes : Nat]
PntsTiles == [features : Features, ft_json : Nat, bt_json : Nat, batch_table : BatchTables]
B3dmTiles == [ft_json : Nat, ft_bin : Nat, bt_json : Nat, bt_bin : Nat, gltf : Nat]

-----------------------------------------------------------------------------
(* Padding and slices                                                      *)

LEMMA PaddedType ==
    ASSUME NEW n \in Nat
    PROVE  /\ Padded(n) \in Nat
           /\ n <= Padded(n) /\ Padded(n) < n + 8
           /\ Padded(n) % 8 = 0
BY DEF Padded

LEMMA PaddedOfPadded ==
    ASSUME NEW n \in Nat, n % 8 = 0
    PROVE  Padded(n) = n
BY DEF Padded

LEMMA SumOfPadded ==
    ASSUME NEW a \in Nat, NEW b \in Nat, a % 8 = 0, b % 8 = 0
    PROVE  (a + b) % 8 = 0
OBVIOUS

(* A slice that stays inside its array is taken whole.                     *)
LEMMA SliceInside ==
    ASSUME NEW at \in Nat, NEW size \in Nat, NEW from \in Nat, NEW to \in Nat,
           from <= to, to <= size
    PROVE  Slice(Array(at, size), from, to) = Array(at + from, to - from)
BY DEF Slice, Array, AtMost

LEMMA ItemSizeType ==
    ASSUME NEW f \in Features
    PROVE  /\ ItemSize(f.position) \in Nat
           /\ ItemSize(f.color) \in Nat
           /\ ItemSize(f.normal) \in Nat
<1>1. f.position \in Positions /\ f.color \in Colors /\ f.normal \in Normals
  BY DEF Features
<1>2. ItemSize(f.position) \in Nat
  BY <1>1 DEF Positions, ItemSize
<1>3. ItemSize(f.color) \in Nat
  BY <1>1 DEF Colors, ItemSize
<1>4. ItemSize(f.normal) \in Nat
  BY <1>1 DEF Normals, ItemSize
<1> QED
  BY <1>2, <1>3, <1>4

LEMMA MulType == \A a, b \in Nat : a * b \in Nat
OBVIOUS

LEMMA SizeType ==
    ASSUME NEW f \in Features
    PROVE  /\ f.points \in Nat
           /\ SizeOf(f.position, f.points) \in Nat
           /\ SizeOf(f.color, f.points) \in Nat
           /\ SizeOf(f.normal, f.points) \in Nat
           /\ FeatureBodySize(f) \in Nat
           /\ FeatureBodySize(f) = SizeOf(f.position, f.points) + SizeOf(f.color, f.points)
                                       + SizeOf(f.normal, f.points)
<1>1. f.points \in Nat
  BY DEF Features
<1>2. /\ SizeOf(f.position, f.points) \in Nat
      /\ SizeOf(f.color, f.points) \in Nat
      /\ SizeOf(f.normal, f.points) \in Nat
  BY <1>1, ItemSizeType, MulType DEF SizeOf
<1> QED
  BY <1>1, <1>2 DEF FeatureBodySize

-----------------------------------------------------------------------------
(* The four sections of a .pnts                                            *)

LEMMA LengthType ==
    ASSUME NEW t \in PntsTiles
    PROVE  /\ FtJsonLength(t) \in Nat /\ (HeaderLength + FtJsonLength(t)) % 8 = 0
           /\ FtBinLength(t) \in Nat /\ FtBinLength(t) % 8 = 0
           /\ BtJsonLength(t) \in Nat /\ BtJsonLength(t) % 8 = 0
           /\ BtBinLength(t) \in Nat /\ BtBinLength(t) % 8 = 0
<1>1. /\ t.features \in Features /\ t.ft_json \in Nat /\ t.bt_json \in Nat
      /\ t.batch_table \in BatchTables /\ t.batch_table.nbytes \in Nat
  BY DEF PntsTiles, BatchTables
<1>2. FtJsonLength(t) \in Nat /\ (HeaderLength + FtJsonLength(t)) % 8 = 0
  <2>1. t.ft_json + 28 \in Nat
    BY <1>1
  <2>2. /\ Padded(t.ft_json + 28) \in Nat /\ t.ft_json + 28 <= Padded(t.ft_json + 28)
        /\ Padded(t.ft_json + 28) % 8 = 0
    BY <2>1, PaddedType
  <2> QED
    BY <1>1, <2>2 DEF FtJsonLength, HeaderLength
<1>3. FtBinLength(t) \in Nat /\ FtBinLength(t) % 8 = 0
  BY <1>1, SizeType, PaddedType DEF FtBinLength
<1>4. BtJsonLength(t) \in Nat /\ BtJsonLength(t) % 8 = 0
  BY <1>1, PaddedType DEF BtJsonLength
<1>5. BtBinLength(t) \in Nat /\ BtBinLength(t) % 8 = 0
  <2>1. CASE t.batch_table.nbytes % 8 = 0
    BY <1>1, <2>1 DEF BtBinLength, ToArray
  <2>2. CASE t.batch_table.nbytes % 8 # 0
    <3>1. ToArray(t.batch_table).nbytes = Padded(t.batch_table.nbytes)
      BY <1>1, <2>2 DEF ToArray, BatchTables
    <3> QED
      BY <1>1, <3>1, PaddedType DEF BtBinLength
  <2> QED
    BY <2>1, <2>2
<1> QED
  BY <1>2, <1>3, <1>4, <1>5

(* Every section of a .pnts starts at a multiple of 8 bytes, as 3D Tiles   *)
(* asks, though only the text of the feature table is padded for its place *)
(* and the others for their length (the to_array of the four tables).      *)
THEOREM PntsAligned ==
    ASSUME NEW t \in PntsTiles
    PROVE  /\ FtBody(t).at % 8 = 0 /\ BtJson(t).at % 8 = 0 /\ BtBody(t).at % 8 = 0
           /\ TileByteLength(t) % 8 = 0
<1> DEFINE a == HeaderLength + FtJsonLength(t)
           b == a + FtBinLength(t)
           c == b + BtJsonLength(t)
<1>1. FtBody(t).at = a /\ BtJson(t).at = b /\ BtBody(t).at = c
  BY DEF FtBody, BtJson, BtBody, FtJson, After, Array
<1>2. a \in Nat /\ a % 8 = 0
  BY LengthType DEF HeaderLength
<1>3. b \in Nat /\ b % 8 = 0
  BY <1>2, LengthType, SumOfPadded
<1>4. c \in Nat /\ c % 8 = 0
  BY <1>3, LengthType, SumOfPadded
<1>5. (c + BtBinLength(t)) % 8 = 0
  BY <1>4, LengthType, SumOfPadded
<1>6. TileByteLength(t) = c + BtBinLength(t)
  BY DEF TileByteLength
<1> QED
  BY <1>1, <1>2, <1>3, <1>4, <1>5, <1>6

(* Pnts.from_array finds each of the four sections where Pnts.to_array has *)
(* written it, from the lengths of the header alone.                       *)
THEOREM PntsReadBack ==
    ASSUME NEW t \in PntsTiles
    PROVE  /\ ReadFtJson(t) = FtJson(t) /\ ReadFtBody(t) = FtBody(t)
           /\ ReadBtJson(t) = BtJson(t) /\ ReadBtBody(t) = BtBody(t)
<1> DEFINE fj == FtJsonLength(t)
           fb == FtBinLength(t)
           bj == BtJsonLength(t)
           bb == BtBinLength(t)
<1>1. fj \in Nat /\ fb \in Nat /\ bj \in Nat /\ bb \in Nat
  BY LengthType
<1> HIDE DEF fj, fb, bj, bb
<1>2. BodyArray(t) = Array(28, fj + fb + bj + bb)
  <2>1. TileByteLength(t) = 28 + fj + fb + bj + bb
    BY DEF TileByteLength, HeaderLength, fj, fb, bj, bb
  <2>2. BodyArray(t) = Slice(Array(0, 28 + fj + fb + bj + bb), 28, 28 + (fj + fb + bj + bb))
    BY <2>1 DEF BodyArray, HeaderLength, fj, fb, bj, bb
  <2> QED
    BY <1>1, <2>2, SliceInside
<1>3. FeatureTableArray(t) = Array(28, fj + fb)
  <2>1. FeatureTableArray(t) = Slice(Array(28, fj + fb + bj + bb), 0, fj + fb)
    BY <1>2 DEF FeatureTableArray, fj, fb
  <2> QED
    BY <1>1, <2>1, SliceInside
<1>4. BatchTableArray(t) = Array(28 + fj + fb, bj + bb)
  <2>1. BatchTableArray(t) = Slice(Array(28, fj + fb + bj + bb), fj + fb, fj + fb + (bj + bb))
    BY <1>2 DEF BatchTableArray, fj, fb, bj, bb
  <2> QED
    BY <1>1, <2>1, SliceInside
<1>5. FtJson(t) = Array(28, fj) /\ FtBody(t) = Array(28 + fj, fb)
  BY DEF FtJson, FtBody, After, Array, HeaderLength, fj, fb
<1>6. BtJson(t) = Array(28 + fj + fb, bj) /\ BtBody(t) = Array(28 + fj + fb + bj, bb)
  BY <1>5 DEF BtJson, BtBody, After, Array, bj, bb
<1>7. ReadFtJson(t) = FtJson(t)
  BY <1>1, <1>3, <1>5, SliceInside DEF ReadFtJson, fj
<1>8. ReadFtBody(t) = FtBody(t)
  BY <1>1, <1>3, <1>5, SliceInside DEF ReadFtBody, fj, fb
<1>9. ReadBtJson(t) = BtJson(t)
  BY <1>1, <1>4, <1>6, SliceInside DEF ReadBtJson, bj
<1>10. ReadBtBody(t) = BtBody(t)
  <2>1. BatchTableArray(t).size = bj + bb
    BY <1>4 DEF Array
  <2>2. ReadBtBody(t) = Slice(Array(28 + fj + fb, bj + bb), bj, bj + bb)
    BY <1>4, <2>1 DEF ReadBtBody, bj
  <2>3. Slice(Array(28 + fj + fb, bj + bb), bj, bj + bb) = Array(28 + fj + fb + bj, bj + bb - bj)
    BY <1>1 DEF Slice, Array, AtMost
  <2> QED
    BY <1>1, <1>6, <2>2, <2>3
<1> QED
  BY <1>7, <1>8, <1>9, <1>10

-----------------------------------------------------------------------------
(* The arrays of a feature table                                           *)

(* A header that from_features accepts is read as it was written, and the  *)
(* positions and the colors are fetched where they were written            *)
(* (from_semantic, from_features, to_json, to_array and from_array).       *)
THEOREM FeaturesReadBack ==
    ASSUME NEW f \in Features, AcceptsFeatures(FromSemantic(f)), NEW at \in Nat,
           NEW size \in Nat, size >= FeatureBodySize(f)
    PROVE  LET h == HeaderFromArray(ToJson(FromSemantic(f)))
               body == Array(at, size)
           IN  /\ h = FromSemantic(f)
               /\ FetchedPositions(body, h) = WrittenPositions(body, f)
               /\ f.color # "NONE" => FetchedColors(body, h) = WrittenColors(body, f)
<1> DEFINE p == SizeOf(f.position, f.points)
           c == SizeOf(f.color, f.points)
           h == FromSemantic(f)
           body == Array(at, size)
<1>1. p \in Nat /\ c \in Nat /\ size >= p + c
  BY SizeType DEF p, c
<1>2. f.normal = "NONE"
  BY DEF AcceptsFeatures, FromSemantic
<1>3. /\ h.features = f /\ h.positions_offset = 0 /\ h.normal_offset = 0
      /\ h.colors_offset = IF f.color # "NONE" THEN p ELSE 0
  BY <1>2 DEF FromSemantic
<1>4. HeaderFromArray(ToJson(h)) = h
  <2>1. f = [f EXCEPT !.normal = "NONE"]
    BY <1>2 DEF Features
  <2>2. ToJson(h) = h
    <3>1. PICK k : k = IF f.color # "NONE" THEN p ELSE 0
      OBVIOUS
    <3>2. h = [features |-> f, positions_offset |-> 0, colors_offset |-> k, normal_offset |-> 0]
      BY <1>2, <3>1 DEF FromSemantic
    <3>3. h.features.normal = "NONE" /\ [h.features EXCEPT !.normal = "NONE"] = h.features
      BY <1>2, <1>3, <2>1
    <3> HIDE DEF h
    <3>4. ToJson(h) = [h EXCEPT !.features = [h.features EXCEPT !.normal = "NONE"],
                                !.normal_offset = 0]
      BY DEF ToJson
    <3> QED
      BY <3>2, <3>3, <3>4
  <2>3. h = [h EXCEPT !.colors_offset = IF f.color = "NONE" THEN 0 ELSE @]
    BY <1>2 DEF FromSemantic
  <2> QED
    BY <1>3, <2>2, <2>3 DEF HeaderFromArray
<1>5. WrittenPositions(body, f) = Array(at, p)
  BY DEF WrittenPositions, Array
<1>6. WrittenColors(body, f) = Array(at + p, c)
  BY <1>5 DEF WrittenColors, After, Array
<1> HIDE DEF p, c, h
<1>7. FetchedPositions(body, h) = Array(at, p)
  <2>1. FetchedPositions(body, h) = Slice(body, 0, 0 + p)
    BY <1>3 DEF FetchedPositions, FetchSemantic, p
  <2>2. Slice(Array(at, size), 0, 0 + p) = Array(at + 0, 0 + p - 0)
    BY <1>1, SliceInside
  <2> QED
    BY <1>1, <2>1, <2>2
<1>8. ASSUME f.color # "NONE" PROVE FetchedColors(body, h) = Array(at + p, c)
  <2>1. FetchedColors(body, h) = Slice(body, p, p + c)
    BY <1>3, <1>8 DEF FetchedColors, FetchSemantic, c
  <2>2. Slice(Array(at, size), p, p + c) = Array(at + p, p + c - p)
    BY <1>1, SliceInside
  <2> QED
    BY <1>1, <2>1, <2>2
<1> QED
  BY <1>4, <1>5, <1>6, <1>7, <1>8 DEF h

(* The normals of a file that another tool has written, after its colors,  *)
(* are fetched at the place of the colors (pnts_feature_table.py:340),     *)
(* whatever the offset its header gives them, and so are never those of    *)
(* the file.  Positions and colors are right.                              *)
THEOREM NormalsReadAtColors ==
    ASSUME NEW f \in Features, f.points # 0, f.color # "NONE", f.normal # "NONE",
           NEW at \in Nat, NEW size \in Nat, size >= FeatureBodySize(f)
    PROVE  LET json == [features |-> f, positions_offset |-> 0,
                        colors_offset |-> SizeOf(f.position, f.points),
                        normal_offset |-> SizeOf(f.position, f.points)
                                              + SizeOf(f.color, f.points)]
               h == HeaderFromArray(json)
               body == Array(at, size)
           IN  /\ FetchedPositions(body, h) = WrittenPositions(body, f)
               /\ FetchedColors(body, h) = WrittenColors(body, f)
               /\ FetchedNormals(body, h).at = WrittenColors(body, f).at
               /\ FetchedNormals(body, h) # WrittenNormals(body, f)
<1> DEFINE p == SizeOf(f.position, f.points)
           c == SizeOf(f.color, f.points)
           n == SizeOf(f.normal, f.points)
           json == [features |-> f, positions_offset |-> 0, colors_offset |-> p,
                    normal_offset |-> p + c]
           h == HeaderFromArray(json)
           body == Array(at, size)
<1>1. p \in Nat /\ c \in Nat /\ n \in Nat /\ size >= p + c + n
  BY SizeType DEF p, c, n
<1>2. c # 0
  <2>1. f.points \in Nat /\ f.color \in Colors
    BY DEF Features
  <2>2. ItemSize(f.color) \in {2, 3, 4}
    BY <2>1 DEF ItemSize, Colors
  <2> QED
    BY <2>1, <2>2 DEF SizeOf, c
<1>3. h.features = f /\ h.positions_offset = 0 /\ h.colors_offset = p
  BY DEF HeaderFromArray
<1>4. WrittenPositions(body, f) = Array(at, p)
  BY DEF WrittenPositions, Array
<1>5. WrittenColors(body, f) = Array(at + p, c)
  BY <1>4 DEF WrittenColors, After, Array
<1>6. WrittenNormals(body, f).at = at + p + c
  BY <1>5 DEF WrittenNormals, After, Array
<1>7. /\ FetchedPositions(body, h) = Slice(body, 0, 0 + p)
      /\ FetchedColors(body, h) = Slice(body, p, p + c)
      /\ FetchedNormals(body, h) = Slice(body, p, p + n)
  BY <1>3 DEF FetchedPositions, FetchedColors, FetchedNormals, FetchSemantic, p, c, n
<1> HIDE DEF p, c, n, h
<1>8. /\ Slice(body, 0, 0 + p) = Array(at, p)
      /\ Slice(body, p, p + c) = Array(at + p, c)
  BY <1>1 DEF Slice, Array, AtMost
<1>9. Slice(body, p, p + n).at = at + p
  BY <1>1 DEF Slice, Array, AtMost
<1>10. FetchedNormals(body, h).at = at + p /\ WrittenColors(body, f).at = at + p
  BY <1>5, <1>7, <1>9 DEF Array
<1>11. FetchedNormals(body, h) # WrittenNormals(body, f)
  BY <1>1, <1>2, <1>6, <1>10
<1> QED
  BY <1>4, <1>5, <1>7, <1>8, <1>10, <1>11 DEF h, p, c

(* The array of Pnts.from_points is cut in the positions, the colors, the  *)
(* classifications and the intensities, one after the other to its end:    *)
(* each byte is taken once.                                                *)
THEOREM PointsAreCut ==
    ASSUME NEW count \in Nat, NEW rgb \in BOOLEAN, NEW classification \in BOOLEAN,
           NEW intensity \in BOOLEAN, NEW at \in Nat
    PROVE  LET points == Array(at, count * PointSize(rgb, classification, intensity))
               positions == FetchedPositions(points, FromSemantic(PointsFeatures(count, rgb)))
               colors == PointsColors(points, count, rgb)
               classes == PointsClassification(points, count, rgb)
               intensities == PointsIntensity(points, count, rgb, classification)
           IN  /\ positions = Array(at, 12 * count)
               /\ rgb => colors = After(positions, 3 * count)
               /\ classification =>
                     classes = After(IF rgb THEN colors ELSE positions, count)
               /\ intensity =>
                     intensities = After(IF classification THEN classes
                                         ELSE IF rgb THEN colors ELSE positions, count)
               /\ points.at + points.size =
                     positions.at + positions.size + (IF rgb THEN colors.size ELSE 0)
                         + (IF classification THEN classes.size ELSE 0)
                         + (IF intensity THEN intensities.size ELSE 0)
<1> DEFINE size == count * PointSize(rgb, classification, intensity)
           points == Array(at, size)
           f == PointsFeatures(count, rgb)
           h == FromSemantic(f)
           colored == count * (12 + IF rgb THEN 3 ELSE 0)
           classed == count * (12 + (IF rgb THEN 3 ELSE 0) + (IF classification THEN 1 ELSE 0))
<1>1. /\ colored = 12 * count + (IF rgb THEN 3 * count ELSE 0)
      /\ classed = colored + (IF classification THEN count ELSE 0)
      /\ size = classed + (IF intensity THEN count ELSE 0)
      /\ colored \in Nat /\ classed \in Nat /\ size \in Nat
  BY DEF PointSize
<1>2. /\ SizeOf(f.position, f.points) = 12 * count
      /\ rgb => SizeOf(f.color, f.points) = 3 * count
      /\ h.features = f /\ h.positions_offset = 0
      /\ rgb => h.colors_offset = 12 * count
  BY DEF PointsFeatures, SizeOf, FromSemantic, ItemSize
<1> HIDE DEF size, colored, classed, h
<1>3. FetchedPositions(points, h) = Array(at, 12 * count)
  <2>1. FetchedPositions(points, h) = Slice(points, 0, 0 + 12 * count)
    BY <1>2 DEF FetchedPositions, FetchSemantic
  <2>2. Slice(Array(at, size), 0, 0 + 12 * count) = Array(at, 12 * count)
    BY <1>1 DEF Slice, Array, AtMost
  <2> QED
    BY <2>1, <2>2
<1>4. ASSUME rgb PROVE PointsColors(points, count, rgb) = Array(at + 12 * count, 3 * count)
  <2>1. PointsColors(points, count, rgb) = Slice(points, 12 * count, 12 * count + 3 * count)
    BY <1>2, <1>4 DEF PointsColors, FetchedColors, FetchSemantic, h
  <2>2. Slice(Array(at, size), 12 * count, 12 * count + 3 * count)
            = Array(at + 12 * count, 3 * count)
    BY <1>1, <1>4 DEF Slice, Array, AtMost
  <2> QED
    BY <2>1, <2>2
<1>5. ASSUME classification
      PROVE  PointsClassification(points, count, rgb) = Array(at + colored, count)
  <2>1. PointsClassification(points, count, rgb) = Slice(points, colored, colored + count)
    BY DEF PointsClassification, colored
  <2>2. Slice(Array(at, size), colored, colored + count) = Array(at + colored, count)
    BY <1>1, <1>5 DEF Slice, Array, AtMost
  <2> QED
    BY <1>1, <2>1, <2>2
<1>6. ASSUME intensity
      PROVE  PointsIntensity(points, count, rgb, classification) = Array(at + classed, count)
  <2>1. PointsIntensity(points, count, rgb, classification) = Slice(points, classed, classed + count)
    BY DEF PointsIntensity, classed
  <2>2. Slice(Array(at, size), classed, classed + count) = Array(at + classed, count)
    BY <1>1, <1>6 DEF Slice, Array, AtMost
  <2> QED
    BY <1>1, <2>1, <2>2
<1>7. points.at = at /\ points.size = size
  BY DEF Array
<1> QED
  BY <1>1, <1>3, <1>4, <1>5, <1>6, <1>7 DEF After, Array, size, h

-----------------------------------------------------------------------------
(* The binary properties of a batch table                                  *)

(* A batch table whose properties have count items each, and whose body    *)
(* has nothing but their arrays, one after the other.                      *)
Contiguous(bt, count) ==
    /\ bt \in BatchTables
    /\ Len(bt.data) = Len(bt.properties)
    /\ Accepted(bt, count)
    /\ bt.nbytes = IF bt.properties = <<>> THEN 0
                   ELSE PropertyEnd(bt, Len(bt.properties), count)
    /\ \A k \in 1..Len(bt.properties) :
          /\ bt.data[k] = bt.properties[k].item * count
          /\ PropertyEnd(bt, k, count) <= bt.nbytes

LEMMA EntryType ==
    ASSUME NEW count \in Nat, NEW bt \in BatchTables, NEW k \in 1..Len(bt.properties)
    PROVE  /\ bt.properties[k].offset \in Nat
           /\ bt.properties[k].item * count \in Nat
           /\ PropertyEnd(bt, k, count) \in Nat
<1>1. bt.properties \in Seq([offset : Nat, item : Nat])
  BY DEF BatchTables
<1>2. bt.properties[k] \in [offset : Nat, item : Nat]
  BY <1>1, ElementOfSeq
<1>3. bt.properties[k].offset \in Nat /\ bt.properties[k].item \in Nat
  BY <1>2
<1>4. bt.properties[k].item * count \in Nat
  BY <1>3, MulType
<1> QED
  BY <1>3, <1>4 DEF PropertyEnd

LEMMA EmptyContiguous ==
    ASSUME NEW count \in Nat
    PROVE  Contiguous(EmptyBatchTable, count)
<1>1. EmptyBatchTable \in BatchTables
  BY DEF EmptyBatchTable, BatchTables
<1> QED
  BY <1>1 DEF EmptyBatchTable, Contiguous, Accepted

LEMMA AddContiguous ==
    ASSUME NEW count \in Nat, NEW bt, Contiguous(bt, count), NEW item \in Nat
    PROVE  Contiguous(AddPropertyAsBinary(bt, item, count), count)
<1> DEFINE new == AddPropertyAsBinary(bt, item, count)
           p == [offset |-> bt.nbytes, item |-> item]
           n == Len(bt.properties)
           size == item * count
<1>1. /\ bt \in BatchTables
      /\ bt.properties \in Seq([offset : Nat, item : Nat]) /\ bt.data \in Seq(Nat)
      /\ bt.nbytes \in Nat /\ n \in Nat /\ Len(bt.data) = n /\ size \in Nat
  BY MulType DEF Contiguous, BatchTables
<1>2. /\ new.properties = Append(bt.properties, p) /\ new.data = Append(bt.data, size)
      /\ new.nbytes = bt.nbytes + size
  BY DEF AddPropertyAsBinary
<1>3. p \in [offset : Nat, item : Nat] /\ p.offset = bt.nbytes /\ p.item * count = size
  BY <1>1
<1>4. new \in BatchTables
  <2>1. Append(bt.properties, p) \in Seq([offset : Nat, item : Nat])
    BY <1>1, <1>3, AppendProperties
  <2>2. bt.data \in Seq(Nat) /\ size \in Nat /\ bt.nbytes \in Nat
    BY <1>1
  <2> HIDE DEF size
  <2>3. Append(bt.data, size) \in Seq(Nat)
    BY <2>2, AppendProperties
  <2>4. bt.nbytes + size \in Nat
    BY <2>2
  <2> QED
    BY <2>1, <2>3, <2>4 DEF AddPropertyAsBinary, BatchTables, size
<1> HIDE DEF new, p, n, size
<1>5. /\ Len(new.properties) = n + 1 /\ Len(new.data) = n + 1
      /\ new.properties[n + 1] = p /\ new.data[n + 1] = size
  BY <1>1, <1>2, <1>3 DEF n
<1>6. ASSUME NEW k \in 1..n
      PROVE  new.properties[k] = bt.properties[k] /\ new.data[k] = bt.data[k]
  BY <1>1, <1>2, <1>3 DEF n
<1>7. ASSUME NEW k \in 1..n PROVE PropertyEnd(new, k, count) = PropertyEnd(bt, k, count)
  BY <1>6 DEF PropertyEnd
<1>8. PropertyEnd(new, n + 1, count) = bt.nbytes + size
  BY <1>3, <1>5 DEF PropertyEnd
<1>9. ASSUME NEW k \in 1..(n + 1)
      PROVE  new.properties[k].offset = IF k = 1 THEN 0 ELSE PropertyEnd(new, k - 1, count)
  <2>1. CASE k \in 1..n
    <3>1. new.properties[k].offset = IF k = 1 THEN 0 ELSE PropertyEnd(bt, k - 1, count)
      BY <1>6, <2>1 DEF Contiguous, Accepted, n
    <3>2. k # 1 => k - 1 \in 1..n
      BY <1>1, <2>1
    <3> QED
      BY <1>7, <3>1, <3>2
  <2>2. CASE k = n + 1
    <3>1. new.properties[k].offset = bt.nbytes
      BY <1>3, <1>5, <2>2
    <3>2. CASE n = 0
      <4>1. bt.properties = <<>>
        BY <1>1, <3>2 DEF n
      <4>2. bt.nbytes = 0
        BY <4>1 DEF Contiguous
      <4> QED
        BY <2>2, <3>1, <3>2, <4>2
    <3>3. CASE n # 0
      <4>1. n \in 1..n /\ k - 1 = n /\ k # 1
        BY <1>1, <2>2, <3>3
      <4>2. bt.properties # <<>>
        BY <3>3 DEF n
      <4>3. bt.nbytes = PropertyEnd(bt, n, count)
        BY <4>2 DEF Contiguous, n
      <4>4. PropertyEnd(new, n, count) = PropertyEnd(bt, n, count)
        BY <1>7, <4>1
      <4> QED
        BY <3>1, <4>1, <4>3, <4>4
    <3> QED
      BY <3>2, <3>3
  <2> QED
    BY <1>1, <2>1, <2>2
<1>10. ASSUME NEW k \in 1..(n + 1)
       PROVE  /\ new.data[k] = new.properties[k].item * count
              /\ PropertyEnd(new, k, count) <= new.nbytes
  <2>1. CASE k \in 1..n
    <3>1. /\ bt.data[k] = bt.properties[k].item * count
          /\ PropertyEnd(bt, k, count) <= bt.nbytes
      BY <2>1 DEF Contiguous, n
    <3>2. PropertyEnd(bt, k, count) \in Nat
      BY <1>1, <2>1, EntryType DEF n
    <3>3. new.data[k] = new.properties[k].item * count
      BY <1>6, <2>1, <3>1
    <3>4. PropertyEnd(new, k, count) = PropertyEnd(bt, k, count)
      BY <1>7, <2>1
    <3>5. bt.nbytes <= new.nbytes
      BY <1>1, <1>2
    <3> QED
      BY <1>1, <1>2, <3>1, <3>2, <3>3, <3>4, <3>5
  <2>2. CASE k = n + 1
    <3>1. new.data[k] = new.properties[k].item * count
      BY <1>3, <1>5, <2>2
    <3>2. PropertyEnd(new, k, count) = new.nbytes
      BY <1>2, <1>8, <2>2
    <3> QED
      BY <1>1, <1>2, <3>1, <3>2
  <2> QED
    BY <1>1, <2>1, <2>2
<1>11. new.nbytes = PropertyEnd(new, n + 1, count)
  BY <1>2, <1>8
<1>12. new.properties # <<>>
  BY <1>1, <1>5
<1> QED
  <2>1. Accepted(new, count)
    BY <1>5, <1>9 DEF Accepted
  <2>2. Contiguous(new, count)
    BY <1>4, <1>5, <1>10, <1>11, <1>12, <2>1 DEF Contiguous
  <2> QED
    BY <2>2 DEF new

(* The properties added before the table is written are read back: the     *)
(* check of the offsets accepts them, each is where its array was written, *)
(* and the padding belongs to none (BatchTable.from_array).                *)
THEOREM BatchTableReadBack ==
    ASSUME NEW count \in Nat, NEW bt, Contiguous(bt, count), NEW at \in Nat
    PROVE  /\ Accepted(ToArray(bt), count)
           /\ \A k \in 1..Len(bt.properties) :
                 FetchedProperty(Array(at, ToArray(bt).nbytes), ToArray(bt), k, count)
                     = Array(at + bt.properties[k].offset, GetBinaryProperty(bt, k))
<1>1. bt \in BatchTables /\ bt.nbytes \in Nat
  BY DEF Contiguous, BatchTables
<1>2. ToArray(bt).properties = bt.properties /\ ToArray(bt).nbytes \in Nat
      /\ bt.nbytes <= ToArray(bt).nbytes
  <2>1. CASE bt.nbytes % 8 = 0
    BY <1>1, <2>1 DEF ToArray
  <2>2. CASE bt.nbytes % 8 # 0
    BY <1>1, <2>2, PaddedType DEF ToArray, BatchTables
  <2> QED
    BY <2>1, <2>2
<1>3. Accepted(ToArray(bt), count)
  BY <1>2 DEF Contiguous, Accepted, PropertyEnd
<1>4. ASSUME NEW k \in 1..Len(bt.properties)
      PROVE  FetchedProperty(Array(at, ToArray(bt).nbytes), ToArray(bt), k, count)
                 = Array(at + bt.properties[k].offset, GetBinaryProperty(bt, k))
  <2> DEFINE offset == bt.properties[k].offset
             size == bt.properties[k].item * count
             total == ToArray(bt).nbytes
  <2>1. offset \in Nat /\ size \in Nat /\ total \in Nat
    BY <1>1, <1>2, EntryType
  <2>2. bt.data[k] = size /\ offset + size <= bt.nbytes
    BY DEF Contiguous, PropertyEnd
  <2>3. FetchedProperty(Array(at, total), ToArray(bt), k, count)
            = Slice(Array(at, total), offset, offset + size)
    BY <1>2 DEF FetchedProperty, PropertyEnd
  <2> HIDE DEF offset, size, total
  <2>4. offset + size <= total
    BY <1>1, <1>2, <2>1, <2>2 DEF total
  <2>5. Slice(Array(at, total), offset, offset + size) = Array(at + offset, size)
    BY <2>1, <2>4 DEF Slice, Array, AtMost
  <2> QED
    BY <2>2, <2>3, <2>5 DEF GetBinaryProperty, offset, total
<1> QED
  BY <1>3, <1>4

(* One added after the table was written is not, when the writing has      *)
(* padded the body: to_array leaves the padding among the arrays           *)
(* (batch_table.py:83), the offset comes after it, from_array refuses the  *)
(* file, and get_binary_property answers the padding.  Making a Pnts of    *)
(* the table is writing it in this sense: sync calls to_array.             *)
THEOREM LatePropertyRefused ==
    ASSUME NEW count \in Nat, NEW bt, Contiguous(bt, count), bt.nbytes % 8 # 0,
           NEW item \in Nat
    PROVE  LET late == AddPropertyAsBinary(ToArray(bt), item, count)
           IN  /\ ~ Accepted(late, count)
               /\ GetBinaryProperty(late, Len(late.properties)) = Padded(bt.nbytes) - bt.nbytes
<1> DEFINE late == AddPropertyAsBinary(ToArray(bt), item, count)
           n == Len(bt.properties)
           padding == Padded(bt.nbytes) - bt.nbytes
<1>1. /\ bt \in BatchTables /\ bt.nbytes \in Nat /\ n \in Nat /\ Len(bt.data) = n
      /\ bt.properties \in Seq([offset : Nat, item : Nat]) /\ bt.data \in Seq(Nat)
  BY DEF Contiguous, BatchTables
<1>2. Padded(bt.nbytes) \in Nat /\ Padded(bt.nbytes) # bt.nbytes
  BY <1>1, PaddedType
<1>3. /\ ToArray(bt).properties = bt.properties /\ ToArray(bt).data = Append(bt.data, padding)
      /\ ToArray(bt).nbytes = Padded(bt.nbytes)
  BY <1>1 DEF ToArray, BatchTables
<1>4. /\ late.properties = Append(bt.properties, [offset |-> Padded(bt.nbytes), item |-> item])
      /\ late.data = Append(Append(bt.data, padding), item * count)
  BY <1>3 DEF AddPropertyAsBinary
<1>5. /\ Len(late.properties) = n + 1
      /\ late.properties[n + 1].offset = Padded(bt.nbytes)
      /\ \A k \in 1..n : late.properties[k] = bt.properties[k]
  BY <1>1, <1>4
<1>6. late.data[n + 1] = padding
  <2>1. padding \in Int /\ item * count \in Nat
    BY <1>1, <1>2, MulType
  <2>2. PICK d, q, r : d = bt.data /\ q = padding /\ r = item * count
    OBVIOUS
  <2>3. d \in Seq(Int) /\ Len(d) = n /\ q \in Int /\ r \in Int
    BY <1>1, <2>1, <2>2
  <2>4. Append(Append(d, q), r)[n + 1] = q
    BY <1>1, <2>3
  <2> QED
    BY <1>4, <2>2, <2>4
<1>7. n # 0
  BY <1>1 DEF Contiguous
<1>8. PropertyEnd(late, n, count) = bt.nbytes
  <2>1. bt.properties # <<>> /\ n \in 1..n
    BY <1>1, <1>7
  <2> QED
    BY <1>5, <2>1 DEF Contiguous, PropertyEnd
<1>9. ~ Accepted(late, count)
  <2>1. n + 1 \in 1..Len(late.properties) /\ n + 1 # 1 /\ n + 1 - 1 = n
    BY <1>1, <1>5, <1>7
  <2> QED
    BY <1>2, <1>5, <1>8, <2>1 DEF Accepted
<1> QED
  BY <1>5, <1>6, <1>9 DEF GetBinaryProperty

-----------------------------------------------------------------------------
(* The sections of a .b3dm                                                 *)

LEMMA B3dmPlaces ==
    ASSUME NEW t \in B3dmTiles
    PROVE  /\ B3dmFtJsonByteLength(t) \in Nat /\ B3dmBtJsonByteLength(t) \in Nat /\ t.gltf \in Nat
           /\ B3dmBtJsonByteLength(t) = Padded(t.bt_json) + Padded(t.bt_bin)
           /\ B3dmBatchTable(t).at = 28 + B3dmFtJsonByteLength(t)
           /\ B3dmGltf(t) = Array(28 + B3dmFtJsonByteLength(t) + B3dmBtJsonByteLength(t), t.gltf)
           /\ B3dmBodyArray(t)
                 = Array(28, B3dmFtJsonByteLength(t) + B3dmBtJsonByteLength(t) + t.gltf)
<1>1. /\ t.ft_json \in Nat /\ t.ft_bin \in Nat /\ t.bt_json \in Nat /\ t.bt_bin \in Nat
      /\ t.gltf \in Nat
  BY DEF B3dmTiles
<1>2. FtJsonLength(t) \in Nat
  <2>1. t.ft_json + 28 \in Nat
    BY <1>1
  <2>2. Padded(t.ft_json + 28) \in Nat /\ t.ft_json + 28 <= Padded(t.ft_json + 28)
    BY <2>1, PaddedType
  <2> QED
    BY <1>1, <2>2 DEF FtJsonLength, HeaderLength
<1>3. B3dmFtJsonByteLength(t) \in Nat
  BY <1>1, <1>2, PaddedType DEF B3dmFtJsonByteLength, B3dmFeatureTable, Array
<1>4. /\ B3dmBtJsonByteLength(t) = Padded(t.bt_json) + Padded(t.bt_bin)
      /\ B3dmBtJsonByteLength(t) \in Nat
  BY <1>1, PaddedType DEF B3dmBtJsonByteLength, B3dmBatchTable, After, Array
<1>5. B3dmBatchTable(t).at = 28 + B3dmFtJsonByteLength(t)
  BY DEF B3dmBatchTable, B3dmFtJsonByteLength, B3dmFeatureTable, After, Array, HeaderLength
<1>6. B3dmGltf(t) = Array(28 + B3dmFtJsonByteLength(t) + B3dmBtJsonByteLength(t), t.gltf)
  BY <1>5 DEF B3dmGltf, B3dmBtJsonByteLength, After
<1>7. B3dmTileByteLength(t) = t.gltf + 28 + B3dmFtJsonByteLength(t) + B3dmBtJsonByteLength(t)
  BY DEF B3dmTileByteLength, HeaderLength
<1> DEFINE ft == B3dmFtJsonByteLength(t)
           bt == B3dmBtJsonByteLength(t)
<1>8. B3dmBodyArray(t) = Slice(Array(0, t.gltf + 28 + ft + bt), 28, t.gltf + 28 + ft + bt)
  BY <1>7 DEF B3dmBodyArray, HeaderLength
<1> HIDE DEF ft, bt
<1>9. Slice(Array(0, t.gltf + 28 + ft + bt), 28, t.gltf + 28 + ft + bt)
          = Array(28, ft + bt + t.gltf)
  BY <1>1, <1>3, <1>4 DEF Slice, Array, AtMost, ft, bt
<1> QED
  BY <1>1, <1>3, <1>4, <1>5, <1>6, <1>8, <1>9 DEF ft, bt

(* The glTF of a .b3dm is read back whole, whatever tables it has: the     *)
(* header counts a table as its text alone, and the reader finds the glTF  *)
(* from the sum (B3dmHeader.from_array and B3dm.from_array).               *)
THEOREM B3dmGltfReadBack ==
    ASSUME NEW t \in B3dmTiles
    PROVE  ReadB3dmGltf(t) = B3dmGltf(t)
<1> DEFINE ft == B3dmFtJsonByteLength(t)
           bt == B3dmBtJsonByteLength(t)
           len == B3dmTileByteLength(t) - (ft + bt) - 28
<1>1. ft \in Nat /\ bt \in Nat /\ t.gltf \in Nat
  BY B3dmPlaces
<1>2. ReadB3dmGltf(t) = Slice(B3dmBodyArray(t), ft + bt, ft + bt + len)
  BY DEF ReadB3dmGltf, HeaderLength
<1>3. len = t.gltf
  BY <1>1 DEF B3dmTileByteLength, HeaderLength
<1>4. B3dmBodyArray(t) = Array(28, ft + bt + t.gltf)
  BY B3dmPlaces
<1>5. B3dmGltf(t) = Array(28 + ft + bt, t.gltf)
  BY B3dmPlaces
<1> HIDE DEF ft, bt, len
<1>6. Slice(Array(28, ft + bt + t.gltf), ft + bt, ft + bt + t.gltf)
          = Array(28 + ft + bt, t.gltf)
  BY <1>1 DEF Slice, Array, AtMost
<1> QED
  BY <1>2, <1>3, <1>4, <1>5, <1>6

(* "The glTF part must start and end on an 8-byte boundary" (b3dm.py:229): *)
(* it starts on one exactly when the feature table has a text.  Only that  *)
(* text makes up for the 28 bytes of the header, and the tiles the program *)
(* exports have none.                                                      *)
THEOREM B3dmGltfAligned ==
    ASSUME NEW t \in B3dmTiles
    PROVE  B3dmGltf(t).at % 8 = 0 <=> t.ft_json # 0
<1>1. /\ t.ft_json \in Nat /\ t.ft_bin \in Nat /\ t.bt_json \in Nat /\ t.bt_bin \in Nat
  BY DEF B3dmTiles
<1> DEFINE a == Padded(t.ft_bin)
           b == Padded(t.bt_json)
           c == Padded(t.bt_bin)
           d == Padded(t.ft_json + 28)
           ft == B3dmFtJsonByteLength(t)
<1>2. /\ a \in Nat /\ a % 8 = 0 /\ b \in Nat /\ b % 8 = 0 /\ c \in Nat /\ c % 8 = 0
  BY <1>1, PaddedType
<1>3. t.ft_json + 28 \in Nat
  BY <1>1
<1>4. d \in Nat /\ d % 8 = 0 /\ t.ft_json + 28 <= d
  BY <1>3, PaddedType
<1>5. ft = (IF t.ft_json = 0 THEN 0 ELSE d - 28) + a
  BY DEF B3dmFtJsonByteLength, B3dmFeatureTable, Array, FtJsonLength, HeaderLength
<1>6. B3dmGltf(t).at = 28 + ft + (b + c)
  <2>1. B3dmGltf(t) = Array(28 + ft + B3dmBtJsonByteLength(t), t.gltf)
    BY B3dmPlaces
  <2>2. B3dmBtJsonByteLength(t) = b + c
    BY B3dmPlaces
  <2> QED
    BY <2>1, <2>2 DEF Array
<1> HIDE DEF a, b, c, d, ft
<1>7. CASE t.ft_json = 0
  <2>1. B3dmGltf(t).at = 28 + (a + (b + c))
    BY <1>2, <1>5, <1>6, <1>7
  <2>2. (28 + (a + (b + c))) % 8 = 4
    BY <1>2
  <2> QED
    BY <1>7, <2>1, <2>2
<1>8. CASE t.ft_json # 0
  <2>1. B3dmGltf(t).at = d + (a + (b + c))
    BY <1>2, <1>4, <1>5, <1>6, <1>8
  <2>2. (d + (a + (b + c))) % 8 = 0
    BY <1>2, <1>4
  <2> QED
    BY <1>8, <2>1, <2>2
<1> QED
  BY <1>7, <1>8

(* What is read as the text of the batch table is that text exactly when   *)
(* the table has no binary property: the header has one length for both    *)
(* (b3dm.py:53), and the reader takes it for that of the text.             *)
THEOREM B3dmBatchTableText ==
    ASSUME NEW t \in B3dmTiles
    PROVE  ReadB3dmBtJson(t) = B3dmBtText(t) <=> t.bt_bin = 0
<1> DEFINE ft == B3dmFtJsonByteLength(t)
           bt == B3dmBtJsonByteLength(t)
           text == Padded(t.bt_json)
           bin == Padded(t.bt_bin)
<1>1. ft \in Nat /\ bt \in Nat /\ t.gltf \in Nat /\ bt = text + bin
  BY B3dmPlaces
<1>2. t.bt_json \in Nat /\ t.bt_bin \in Nat
  BY DEF B3dmTiles
<1>3. /\ text \in Nat /\ bin \in Nat /\ (bin = 0 <=> t.bt_bin = 0)
  BY <1>2, PaddedType DEF Padded
<1>4. B3dmBodyArray(t) = Array(28, ft + bt + t.gltf)
  BY B3dmPlaces
<1>5. B3dmBtText(t) = Array(28 + ft, text)
  BY B3dmPlaces DEF B3dmBtText
<1>6. ReadB3dmBtJson(t) = Slice(Slice(B3dmBodyArray(t), ft, ft + bt), 0, bt)
  BY DEF ReadB3dmBtJson
<1> HIDE DEF ft, bt, text, bin
<1>7. Slice(Slice(Array(28, ft + bt + t.gltf), ft, ft + bt), 0, bt) = Array(28 + ft, bt)
  BY <1>1 DEF Slice, Array, AtMost
<1>8. Array(28 + ft, bt) = Array(28 + ft, text) <=> bin = 0
  BY <1>1, <1>3 DEF Array
<1> QED
  BY <1>3, <1>4, <1>5, <1>6, <1>7, <1>8
=============================================================================
