---------------------------- MODULE MergerProofs ----------------------------
(***************************************************************************)
(* Proofs about the merger, for any number of tile sets wherever they are: *)
(* which of them the merged tile set shows, and that it shows them in      *)
(* place.                                                                  *)
(*                                                                         *)
(* MergerInv is the inductive invariant.  Its part TilesAreTree says that  *)
(* the calls and the tiles are a tree, InOnePlace that an input off the    *)
(* upper borders is a candidate of one call or an input of one leaf,       *)
(* InputsOffBorders that no tile takes one on a border, and                *)
(* TogetherInPlace that the inputs of a leaf are those with which its      *)
(* first one goes down to the smallest cells.  The lemmas before it are    *)
(* about the quarters of a cell, which share what is inside it among them, *)
(* and about the functions defined by recursion: that they exist, and what *)
(* they are.                                                               *)
(***************************************************************************)
EXTENDS Merger, SequenceTheorems, FiniteSetTheorems, WellFoundedInduction, TLAPS

(* An input whose centre is on an upper border of the box of all of them:  *)
(* its own box is flat there.                                              *)
OnUpperBorder(i) == \E a \in Axis : Centre2(i, a) = 2 * Size(a)

(* Two inputs whose centres are in one cell of each grid down to the first *)
(* whose cells are small.                                                  *)
InOneCell(i, j, parts) ==
    \E x, y \in 0..(parts - 1) : \A k \in {i, j} : IsPointInside(k, Cell(parts, x, y))
Together(i, j) ==
    LET together[parts \in Nat \ {0}] ==
            InOneCell(i, j, parts) /\ (IsSmall(parts) \/ together[2 * parts])
    IN  together[1]

(* Which inputs the merge shows and which it loses: an input is lost when  *)
(* it is on an upper border, which no quarter takes, or shares the         *)
(* smallest cell with an earlier one; each of the others is the content of *)
(* exactly one tile.  The merge raises when all are on a border.           *)
InputsLost ==
    /\ stage \in {"writing", "done"} =>
          \A i \in Number :
              Cardinality({n \in Leaves : Content(n) = i}) =
                  IF OnUpperBorder(i) \/ \E j \in 1..(i - 1) : Together(i, j) THEN 0 ELSE 1
    /\ stage = "raised" => \A i \in Number : OnUpperBorder(i)

(* Finite sets of integers have a least and a greatest element.            *)
LEMMA SmallestNumber ==
    ASSUME NEW T \in SUBSET Nat, T # {}
    PROVE  \E i \in T : \A j \in T : i <= j
<1>1. PICK R : R = OpToRel(<, Nat)
  OBVIOUS
<1>2. IsWellFoundedOn(R, Nat)
  BY <1>1, NatLessThanWellFounded
<1>3. PICK i \in T : \A j \in T : ~ (<<j, i>> \in R)
  BY <1>2, WFMin
<1>4. ASSUME NEW j \in T PROVE i <= j
  <2>1. <<j, i>> \in Nat \X Nat /\ <<j, i>>[1] = j /\ <<j, i>>[2] = i
    OBVIOUS
  <2>2. j < i => <<j, i>> \in R
    BY <1>1, <2>1 DEF OpToRel
  <2>3. ~ (j < i)
    BY <1>3, <2>2
  <2> QED
    BY <2>3
<1> QED
  BY <1>4

LEMMA LeastInteger ==
    ASSUME NEW T \in SUBSET Int, IsFiniteSet(T), T # {}
    PROVE  \E i \in T : \A j \in T : i <= j
<1> DEFINE Less(i) == {j \in T : j < i}
           Ranks == {Cardinality(Less(i)) : i \in T}
<1>1. ASSUME NEW i \in T
      PROVE  Less(i) \in SUBSET T /\ IsFiniteSet(Less(i)) /\ Cardinality(Less(i)) \in Nat
  <2>1. Less(i) \in SUBSET T
    OBVIOUS
  <2> HIDE DEF Less
  <2>2. IsFiniteSet(Less(i))
    BY <2>1, FS_Subset
  <2> QED
    BY <2>1, <2>2, FS_CardinalityType
<1>2. PICK r \in Ranks : \A s \in Ranks : r <= s
  <2> HIDE DEF Less
  <2>1. Ranks \in SUBSET Nat /\ Ranks # {}
    BY <1>1
  <2> HIDE DEF Ranks
  <2> QED
    BY <2>1, SmallestNumber
<1>3. PICK i \in T : Cardinality(Less(i)) = r
  OBVIOUS
<1>4. ASSUME NEW j \in T, j < i PROVE FALSE
  <2>1. Less(j) \in SUBSET Less(i) /\ j \in Less(i) /\ j \notin Less(j)
    <3>1. i \in Int /\ j \in Int /\ j < i /\ \A k \in T : k \in Int
      BY <1>4
    <3>2. \A k \in T : k < j => k < i
      BY <3>1
    <3>3. j \in Less(i)
      BY <3>1
    <3>4. j \notin Less(j)
      BY <3>1
    <3> QED
      BY <3>2, <3>3, <3>4
  <2>2. Cardinality(Less(i)) <= Cardinality(Less(j))
    <3>1. Cardinality(Less(j)) \in Ranks
      OBVIOUS
    <3> HIDE DEF Ranks, Less
    <3> QED
      BY <1>2, <1>3, <3>1
  <2> HIDE DEF Less
  <2>3. Cardinality(Less(j)) <= Cardinality(Less(i)) /\ Cardinality(Less(i)) # Cardinality(Less(j))
    BY <1>1, <2>1, FS_Subset
  <2> QED
    BY <1>1, <2>2, <2>3
<1> QED
  BY <1>4

LEMMA MinMax ==
    ASSUME NEW T \in SUBSET Int, IsFiniteSet(T), T # {}
    PROVE  /\ Min(T) \in T /\ \A j \in T : Min(T) <= j
           /\ Max(T) \in T /\ \A j \in T : j <= Max(T)
<1>1. \E i \in T : \A j \in T : i <= j
  BY LeastInteger
<1> DEFINE f == [j \in T |-> - j]
           N == {- j : j \in T}
<1>2. \E i \in N : \A j \in N : i <= j
  <2>1. N \subseteq Int /\ N # {}
    <3>1. \A k \in T : k \in Int /\ - k \in Int
      OBVIOUS
    <3> QED
      BY <3>1
  <2>3. f \in Surjection(T, N)
    <3>1. f \in [T -> N] /\ \A k \in N : \E j \in T : f[j] = k
      OBVIOUS
    <3> QED
      BY <3>1 DEF Surjection
  <2>2. IsFiniteSet(N)
    BY <2>3, FS_Surjection
  <2> HIDE DEF N
  <2> QED
    BY <2>1, <2>2, LeastInteger
<1>3. PICK i \in T : \A j \in T : - i <= - j
  BY <1>2
<1>4. \E k \in T : \A j \in T : k >= j
  BY <1>3
<1>5. Min(T) \in T /\ \A j \in T : Min(T) <= j
  BY <1>1 DEF Min
<1>6. Max(T) \in T /\ \A j \in T : Max(T) >= j
  BY <1>4 DEF Max
<1> QED
  BY <1>5, <1>6

-----------------------------------------------------------------------------
(* The boxes and the cells                                                 *)

LEMMA InputFacts ==
    ASSUME tilesets \in Inputs
    PROVE  /\ Number = 1..Len(tilesets) /\ Len(tilesets) \in Nat /\ 1 \in Number
           /\ Number \subseteq Nat /\ IsFiniteSet(Number)
           /\ BaseTransform \in Corner
           /\ \A i \in Number :
                 /\ WorldBox(i).min \in Corner /\ WorldBox(i).max \in Corner
                 /\ \A a \in Axis : /\ WorldBox(i).min[a] \in Int
                                    /\ WorldBox(i).max[a] \in Int
                                    /\ WorldBox(i).min[a] <= WorldBox(i).max[a]
<1> DEFINE T == [box : Box, transform : Corner]
<1>1. tilesets \in Seq(T) /\ tilesets # <<>>
  BY MergerAssumption
<1>2. Number = 1..Len(tilesets) /\ Len(tilesets) \in Nat /\ Len(tilesets) > 0
  BY <1>1, LenProperties, EmptySeq DEF Number
<1>3. 1 \in Number /\ Number \subseteq Nat /\ IsFiniteSet(Number)
  <2>1. IsFiniteSet(1..Len(tilesets))
    BY <1>2, FS_Interval
  <2> QED
    BY <1>2, <2>1
<1>4. \A i \in Number : tilesets[i] \in T
  <2> HIDE DEF T
  <2> QED
    BY <1>1, <1>2, ElementOfSeq
<1>5. BaseTransform \in Corner
  BY <1>3, <1>4 DEF BaseTransform
<1>6. ASSUME NEW i \in Number
      PROVE  /\ WorldBox(i).min \in Corner /\ WorldBox(i).max \in Corner
             /\ \A a \in Axis : /\ WorldBox(i).min[a] \in Int
                                /\ WorldBox(i).max[a] \in Int
                                /\ WorldBox(i).min[a] <= WorldBox(i).max[a]
  <2>1. tilesets[i].box \in Box /\ tilesets[i].transform \in Corner
    BY <1>4
  <2>2. PICK b, t : b = tilesets[i].box /\ t = tilesets[i].transform
    OBVIOUS
  <2>3. \A a \in Axis : b.min[a] \in Int /\ b.max[a] \in Int /\ b.min[a] <= b.max[a] /\ t[a] \in Int
    BY <2>1, <2>2 DEF Box, Corner
  <2>4. WorldBox(i) = [min |-> [a \in Axis |-> b.min[a] + t[a]],
                       max |-> [a \in Axis |-> b.max[a] + t[a]]]
    BY <2>2 DEF WorldBox, Moved
  <2>5. \A a \in Axis : /\ WorldBox(i).min[a] = b.min[a] + t[a]
                        /\ WorldBox(i).max[a] = b.max[a] + t[a]
    BY <2>4
  <2>6. \A a \in Axis : b.min[a] + t[a] \in Int /\ b.max[a] + t[a] \in Int
                        /\ b.min[a] + t[a] <= b.max[a] + t[a]
    BY <2>3
  <2>7. WorldBox(i).min \in Corner /\ WorldBox(i).max \in Corner
    BY <2>4, <2>6 DEF Corner
  <2> QED
    BY <2>5, <2>6, <2>7
<1> QED
  BY <1>2, <1>3, <1>5, <1>6

(* The hull of some boxes encloses each of them.                           *)
LEMMA HullFacts ==
    ASSUME NEW several, IsFiniteSet(several), several # {},
           \A b \in several : \A a \in Axis : b.min[a] \in Int /\ b.max[a] \in Int
    PROVE  /\ HullOf(several).min \in Corner /\ HullOf(several).max \in Corner
           /\ \A a \in Axis : /\ HullOf(several).min[a] \in Int
                              /\ HullOf(several).max[a] \in Int
                              /\ \A b \in several : /\ HullOf(several).min[a] <= b.min[a]
                                                    /\ b.max[a] <= HullOf(several).max[a]
<1>1. ASSUME NEW a \in Axis
      PROVE  /\ Min({b.min[a] : b \in several}) \in Int
             /\ Max({b.max[a] : b \in several}) \in Int
             /\ \A b \in several : /\ Min({c.min[a] : c \in several}) <= b.min[a]
                                   /\ b.max[a] <= Max({c.max[a] : c \in several})
  <2> DEFINE L == {b.min[a] : b \in several}
             U == {b.max[a] : b \in several}
             l == [b \in several |-> b.min[a]]
             u == [b \in several |-> b.max[a]]
  <2>1. l \in Surjection(several, L) /\ u \in Surjection(several, U)
    BY DEF Surjection
  <2>2. L \in SUBSET Int /\ U \in SUBSET Int /\ L # {} /\ U # {}
    OBVIOUS
  <2>3. \A b \in several : b.min[a] \in L /\ b.max[a] \in U
    OBVIOUS
  <2> HIDE DEF L, U, l, u
  <2>4. IsFiniteSet(L) /\ IsFiniteSet(U)
    BY <2>1, FS_Surjection
  <2>5. Min(L) \in L /\ (\A j \in L : Min(L) <= j) /\ Max(U) \in U /\ (\A j \in U : j <= Max(U))
    BY <2>2, <2>4, MinMax
  <2>6. Min(L) \in Int /\ Max(U) \in Int
        /\ \A b \in several : Min(L) <= b.min[a] /\ b.max[a] <= Max(U)
    BY <2>2, <2>3, <2>5
  <2> QED
    BY <2>6 DEF L, U
<1>2. PICK h : h = HullOf(several)
  OBVIOUS
<1>3. h = [min |-> [a \in Axis |-> Min({b.min[a] : b \in several})],
           max |-> [a \in Axis |-> Max({b.max[a] : b \in several})]]
  BY <1>2 DEF HullOf
<1>4. \A a \in Axis : /\ h.min[a] = Min({b.min[a] : b \in several})
                      /\ h.max[a] = Max({b.max[a] : b \in several})
  BY <1>3
<1>5. h.min \in Corner /\ h.max \in Corner
  BY <1>1, <1>3 DEF Corner
<1> QED
  BY <1>1, <1>2, <1>4, <1>5

LEMMA CentreFacts ==
    ASSUME tilesets \in Inputs, NEW i \in Number, NEW a \in Axis
    PROVE  Centre2(i, a) \in Nat /\ Size(a) \in Nat /\ Centre2(i, a) <= 2 * Size(a)
<1> DEFINE all == {WorldBox(j) : j \in Number}
           w == [j \in Number |-> WorldBox(j)]
<1>1. w \in Surjection(Number, all)
  BY DEF Surjection
<1>2. all # {} /\ WorldBox(i) \in all
      /\ \A b \in all : \A c \in Axis : b.min[c] \in Int /\ b.max[c] \in Int
  BY InputFacts
<1>3. Global = HullOf(all)
  BY DEF Global
<1> HIDE DEF all, w
<1>4. IsFiniteSet(all)
  BY <1>1, InputFacts, FS_Surjection
<1>5. /\ Global.min[a] \in Int /\ Global.max[a] \in Int
      /\ Global.min[a] <= WorldBox(i).min[a] /\ WorldBox(i).max[a] <= Global.max[a]
  BY <1>2, <1>3, <1>4, HullFacts
<1>6. /\ WorldBox(i).min[a] \in Int /\ WorldBox(i).max[a] \in Int
      /\ WorldBox(i).min[a] <= WorldBox(i).max[a]
  BY InputFacts
<1> QED
  BY <1>5, <1>6 DEF Centre2, Size

(* Along an axis a centre is in one cell at most, in one of the halves of  *)
(* the cell it is in, and in the whole box when it is not at its end.      *)
LEMMA Slots ==
    ASSUME NEW d \in Nat, NEW v \in Nat, NEW k \in Nat, NEW l \in Nat,
           k * d <= v, v < (l + 1) * d
    PROVE  k <= l
<1>1. SUFFICES ASSUME k > l PROVE FALSE
  OBVIOUS
<1>2. PICK m \in Nat : k = (l + 1) + m
  <2>1. k - (l + 1) \in Nat /\ k = (l + 1) + (k - (l + 1))
    BY <1>1
  <2> QED
    BY <2>1
<1>3. ((l + 1) + m) * d = (l + 1) * d + m * d /\ m * d \in Nat /\ (l + 1) * d \in Nat
  OBVIOUS
<1> QED
  BY <1>2, <1>3

LEMMA OneSlot ==
    ASSUME tilesets \in Inputs, NEW i \in Number, NEW a \in Axis, NEW parts \in Nat,
           NEW k \in Nat, NEW l \in Nat, Within(i, a, parts, k), Within(i, a, parts, l)
    PROVE  k = l
<1>1. PICK d \in Nat : d = 2 * Size(a)
  BY CentreFacts
<1>2. PICK c \in Nat : c = Centre2(i, a)
  BY CentreFacts
<1>3. PICK v \in Nat : v = parts * c
  OBVIOUS
<1>4. k * d <= v /\ v < (k + 1) * d /\ l * d <= v /\ v < (l + 1) * d
  BY <1>1, <1>2, <1>3 DEF Within
<1>5. k <= l /\ l <= k
  BY <1>4, Slots
<1> QED
  BY <1>5

LEMMA Halves ==
    ASSUME tilesets \in Inputs, NEW i \in Number, NEW a \in Axis, NEW parts \in Nat,
           NEW k \in Nat
    PROVE  Within(i, a, parts, k) <=>
             Within(i, a, 2 * parts, 2 * k) \/ Within(i, a, 2 * parts, (2 * k) + 1)
<1>1. PICK d \in Nat : d = 2 * Size(a)
  BY CentreFacts
<1>2. PICK c \in Nat : c = Centre2(i, a)
  BY CentreFacts
<1>3. PICK v \in Nat : v = parts * c
  OBVIOUS
<1>4. PICK s \in Nat : s = k * d
  OBVIOUS
<1>5. (k + 1) * d = s + d /\ (2 * k) * d = 2 * s /\ ((2 * k) + 1) * d = 2 * s + d
      /\ (((2 * k) + 1) + 1) * d = 2 * s + 2 * d /\ (2 * parts) * c = 2 * v
  BY <1>3, <1>4
<1>6. Within(i, a, parts, k) <=> s <= v /\ v < s + d
  BY <1>1, <1>2, <1>3, <1>4, <1>5 DEF Within
<1>7. Within(i, a, 2 * parts, 2 * k) <=> 2 * s <= 2 * v /\ 2 * v < 2 * s + d
  BY <1>1, <1>2, <1>3, <1>4, <1>5 DEF Within
<1>8. Within(i, a, 2 * parts, (2 * k) + 1) <=> 2 * s + d <= 2 * v /\ 2 * v < 2 * s + 2 * d
  BY <1>1, <1>2, <1>3, <1>4, <1>5 DEF Within
<1> QED
  BY <1>6, <1>7, <1>8

LEMMA WholeFacts ==
    ASSUME tilesets \in Inputs, NEW i \in Number
    PROVE  OnUpperBorder(i) <=> ~ IsPointInside(i, Cell(1, 0, 0))
<1>1. ASSUME NEW a \in Axis
      PROVE  Within(i, a, 1, 0) <=> Centre2(i, a) # 2 * Size(a)
  <2>1. PICK c \in Nat, d \in Nat : c = Centre2(i, a) /\ d = 2 * Size(a) /\ c <= d
    BY CentreFacts
  <2>2. 0 * d = 0 /\ 1 * c = c /\ (0 + 1) * d = d
    OBVIOUS
  <2>3. Within(i, a, 1, 0) <=> 0 <= c /\ c < d
    BY <2>1, <2>2 DEF Within
  <2> QED
    BY <2>1, <2>3
<1>2. /\ Cell(1, 0, 0).parts = 1 /\ Cell(1, 0, 0).x = 0 /\ Cell(1, 0, 0).y = 0
  BY DEF Cell
<1>3. IsPointInside(i, Cell(1, 0, 0)) <=> \A a \in Axis : Within(i, a, 1, 0)
  <2>1. \A a \in Axis : a = 1 \/ a = 2 \/ a = 3
    BY DEF Axis
  <2>2. 1 \in Axis /\ 2 \in Axis /\ 3 \in Axis
    BY DEF Axis
  <2> QED
    BY <1>2, <2>1, <2>2 DEF IsPointInside
<1> QED
  BY <1>1, <1>3 DEF OnUpperBorder

CellType == {c \in [parts : Nat, x : Nat, y : Nat] : c.x < c.parts /\ c.y < c.parts}

LEMMA OneCell ==
    ASSUME tilesets \in Inputs, NEW i \in Number, NEW c \in CellType, NEW d \in CellType,
           c.parts = d.parts, IsPointInside(i, c), IsPointInside(i, d)
    PROVE  c = d
<1>1. c.parts \in Nat /\ c.x \in Nat /\ c.y \in Nat /\ d.x \in Nat /\ d.y \in Nat
  BY DEF CellType
<1>2. Within(i, 1, c.parts, c.x) /\ Within(i, 1, c.parts, d.x)
      /\ Within(i, 2, c.parts, c.y) /\ Within(i, 2, c.parts, d.y)
  BY DEF IsPointInside
<1>3. 1 \in Axis /\ 2 \in Axis
  BY DEF Axis
<1>4. c.x = d.x /\ c.y = d.y
  BY <1>1, <1>2, <1>3, OneSlot
<1> QED
  BY <1>4 DEF CellType

(* What is in a cell is in one of its quarters.                            *)
LEMMA QuartersFacts ==
    ASSUME tilesets \in Inputs, NEW c \in CellType
    PROVE  /\ DOMAIN Quarters(c) = 1..4
           /\ \A q \in 1..4 : Quarters(c)[q] \in CellType /\ Quarters(c)[q].parts = 2 * c.parts
           /\ \A q, r \in 1..4 : Quarters(c)[q] = Quarters(c)[r] => q = r
           /\ \A i \in Number : IsPointInside(i, c) =>
                 \E q \in 1..4 : IsPointInside(i, Quarters(c)[q])
<1>1. PICK p \in Nat, x \in Nat, y \in Nat : /\ c.parts = p /\ c.x = x /\ c.y = y
                                             /\ x < p /\ y < p
  BY DEF CellType
<1> DEFINE X(q) == (2 * x) + ((q - 1) \div 2)
           Y(q) == (2 * y) + ((q - 1) % 2)
           D == Quarters(c)
<1>2. D = [q \in 1..4 |-> Cell(2 * p, X(q), Y(q))]
  BY <1>1 DEF Quarters
<1>3. /\ X(1) = 2 * x /\ X(2) = 2 * x /\ X(3) = (2 * x) + 1 /\ X(4) = (2 * x) + 1
      /\ Y(1) = 2 * y /\ Y(2) = (2 * y) + 1 /\ Y(3) = 2 * y /\ Y(4) = (2 * y) + 1
  OBVIOUS
<1>4. \A q \in 1..4 : q = 1 \/ q = 2 \/ q = 3 \/ q = 4
  OBVIOUS
<1>5. /\ 2 * p \in Nat /\ 2 * x \in Nat /\ 2 * y \in Nat
      /\ (2 * x) + 1 < 2 * p /\ (2 * y) + 1 < 2 * p
      /\ 1 \in 1..4 /\ 2 \in 1..4 /\ 3 \in 1..4 /\ 4 \in 1..4
  BY <1>1
<1> HIDE DEF X, Y, D
<1>6. \A q \in 1..4 : X(q) \in Nat /\ Y(q) \in Nat /\ X(q) < 2 * p /\ Y(q) < 2 * p
  BY <1>3, <1>4, <1>5
<1>7. DOMAIN D = 1..4
      /\ \A q \in 1..4 : D[q].parts = 2 * p /\ D[q].x = X(q) /\ D[q].y = Y(q) /\ D[q] \in CellType
  BY <1>2, <1>5, <1>6 DEF Cell, CellType
<1>8. ASSUME NEW q \in 1..4, NEW r \in 1..4, D[q] = D[r]
      PROVE  q = r
  <2>1. X(q) = X(r) /\ Y(q) = Y(r)
    BY <1>7, <1>8
  <2> QED
    BY <1>3, <1>4, <1>5, <2>1
<1>9. ASSUME NEW i \in Number, IsPointInside(i, c)
      PROVE  \E q \in 1..4 : IsPointInside(i, D[q])
  <2>1. Within(i, 1, p, x) /\ Within(i, 2, p, y) /\ Within(i, 3, 1, 0)
    BY <1>1, <1>9 DEF IsPointInside
  <2>2. 1 \in Axis /\ 2 \in Axis
    BY DEF Axis
  <2>3. Within(i, 1, 2 * p, 2 * x) \/ Within(i, 1, 2 * p, (2 * x) + 1)
    BY <2>1, <2>2, Halves
  <2>4. Within(i, 2, 2 * p, 2 * y) \/ Within(i, 2, 2 * p, (2 * y) + 1)
    BY <2>1, <2>2, Halves
  <2>5. \E q \in 1..4 : Within(i, 1, 2 * p, X(q)) /\ Within(i, 2, 2 * p, Y(q))
    <3>1. CASE Within(i, 1, 2 * p, 2 * x) /\ Within(i, 2, 2 * p, 2 * y)
      BY <1>3, <1>5, <3>1
    <3>2. CASE Within(i, 1, 2 * p, 2 * x) /\ Within(i, 2, 2 * p, (2 * y) + 1)
      BY <1>3, <1>5, <3>2
    <3>3. CASE Within(i, 1, 2 * p, (2 * x) + 1) /\ Within(i, 2, 2 * p, 2 * y)
      BY <1>3, <1>5, <3>3
    <3>4. CASE Within(i, 1, 2 * p, (2 * x) + 1) /\ Within(i, 2, 2 * p, (2 * y) + 1)
      BY <1>3, <1>5, <3>4
    <3> QED
      BY <2>3, <2>4, <3>1, <3>2, <3>3, <3>4
  <2> QED
    BY <1>7, <2>1, <2>5 DEF IsPointInside
<1> QED
  BY <1>1, <1>7, <1>8, <1>9 DEF D

(* Together goes down the sides of the grids.  The recursion has a         *)
(* solution, without a need that the cells ever become small: the sides    *)
(* from which a set of sides goes on down to a small one, or for ever.     *)
IsTogether(i, j, f) ==
    f = [parts \in Nat \ {0} |-> InOneCell(i, j, parts) /\ (IsSmall(parts) \/ f[2 * parts])]
TogetherFrom(i, j) == CHOOSE f : IsTogether(i, j, f)

GoesOn(i, j, S) == \A p \in S : InOneCell(i, j, p) /\ (IsSmall(p) \/ 2 * p \in S)

LEMMA TogetherExists ==
    ASSUME NEW i, NEW j
    PROVE  \E f : IsTogether(i, j, f)
<1> DEFINE Sides == Nat \ {0}
           All == {p \in Sides : \E S \in SUBSET Sides : p \in S /\ GoesOn(i, j, S)}
           f == [p \in Sides |-> p \in All]
<1>1. \A p \in Sides : 2 * p \in Sides
  OBVIOUS
<1>2. ASSUME NEW p \in Sides
      PROVE  p \in All <=> InOneCell(i, j, p) /\ (IsSmall(p) \/ 2 * p \in All)
  <2>1. ASSUME p \in All PROVE InOneCell(i, j, p) /\ (IsSmall(p) \/ 2 * p \in All)
    <3>1. PICK S \in SUBSET Sides : p \in S /\ GoesOn(i, j, S)
      BY <2>1
    <3> QED
      BY <1>1, <3>1 DEF GoesOn
  <2>2. ASSUME InOneCell(i, j, p), IsSmall(p) PROVE p \in All
    <3>1. {p} \in SUBSET Sides /\ GoesOn(i, j, {p})
      BY <2>2 DEF GoesOn
    <3> QED
      BY <3>1
  <2>3. ASSUME InOneCell(i, j, p), 2 * p \in All PROVE p \in All
    <3>1. PICK S \in SUBSET Sides : 2 * p \in S /\ GoesOn(i, j, S)
      BY <2>3
    <3>2. S \cup {p} \in SUBSET Sides /\ GoesOn(i, j, S \cup {p})
      BY <2>3, <3>1 DEF GoesOn
    <3> QED
      BY <3>2
  <2> QED
    BY <2>1, <2>2, <2>3
<1> HIDE DEF All
<1>3. \A p \in Sides : f[2 * p] = (2 * p \in All)
  BY <1>1
<1>4. f = [p \in Sides |-> InOneCell(i, j, p) /\ (IsSmall(p) \/ f[2 * p])]
  <2>1. ASSUME NEW p \in Sides
        PROVE  (p \in All) = (InOneCell(i, j, p) /\ (IsSmall(p) \/ f[2 * p]))
    <3> HIDE DEF f, Sides
    <3>1. (p \in All) <=> InOneCell(i, j, p) /\ (IsSmall(p) \/ f[2 * p])
      BY <1>2, <1>3
    <3>2. (InOneCell(i, j, p) /\ (IsSmall(p) \/ f[2 * p])) \in BOOLEAN
      OBVIOUS
    <3>3. (p \in All) \in BOOLEAN
      OBVIOUS
    <3> QED
      BY <3>1, <3>2, <3>3
  <2> HIDE DEF Sides
  <2> QED
    BY <2>1, Zenon
<1>5. IsTogether(i, j, f)
  BY <1>4 DEF IsTogether
<1> QED
  BY <1>5

LEMMA TogetherFacts ==
    ASSUME NEW i, NEW j
    PROVE  /\ Together(i, j) <=> TogetherFrom(i, j)[1]
           /\ \A p \in Nat \ {0} : TogetherFrom(i, j)[p] <=>
                 InOneCell(i, j, p) /\ (IsSmall(p) \/ TogetherFrom(i, j)[2 * p])
<1>1. Together(i, j) = TogetherFrom(i, j)[1]
  BY DEF Together, TogetherFrom, IsTogether
<1>2. PICK f : f = TogetherFrom(i, j)
  OBVIOUS
<1>3. IsTogether(i, j, f)
  BY <1>2, TogetherExists DEF TogetherFrom
<1>4. \A p \in Nat \ {0} : f[p] = (InOneCell(i, j, p) /\ (IsSmall(p) \/ f[2 * p]))
  BY <1>3 DEF IsTogether
<1> QED
  BY <1>1, <1>2, <1>4

LEMMA InOneCellFacts ==
    ASSUME tilesets \in Inputs, NEW i \in Number, NEW j \in Number,
           NEW c \in CellType, IsPointInside(i, c)
    PROVE  InOneCell(i, j, c.parts) <=> IsPointInside(j, c)
<1>1. /\ c.parts \in Nat /\ c.x \in 0..(c.parts - 1) /\ c.y \in 0..(c.parts - 1)
      /\ c = Cell(c.parts, c.x, c.y)
  BY DEF CellType, Cell
<1>2. IsPointInside(j, c) => InOneCell(i, j, c.parts)
  BY <1>1 DEF InOneCell
<1>3. ASSUME NEW x \in 0..(c.parts - 1), NEW y \in 0..(c.parts - 1),
             IsPointInside(i, Cell(c.parts, x, y)), IsPointInside(j, Cell(c.parts, x, y))
      PROVE  IsPointInside(j, c)
  <2>1. Cell(c.parts, x, y) \in CellType /\ Cell(c.parts, x, y).parts = c.parts
    BY <1>1 DEF Cell, CellType
  <2>2. Cell(c.parts, x, y) = c
    BY <1>3, <2>1, OneCell
  <2> QED
    BY <1>3, <2>2
<1> QED
  BY <1>2, <1>3 DEF InOneCell

(* The list of calls after the first is replaced by others.               *)
LEMMA Replaced ==
    ASSUME NEW S, NEW s \in Seq(S), s # <<>>, NEW d \in Seq(S)
    PROVE  /\ d \o Tail(s) \in Seq(S) /\ 1 \in DOMAIN s /\ s[1] = Head(s)
           /\ Head(s) \in S
           /\ DOMAIN d \subseteq 1..Len(d) /\ Len(d) \in Nat
           /\ \A k \in DOMAIN (d \o Tail(s)) :
                 \/ k \in DOMAIN d /\ (d \o Tail(s))[k] = d[k]
                 \/ \E l \in DOMAIN s : /\ l > 1 /\ l \in Nat /\ k = Len(d) + l - 1
                                        /\ (d \o Tail(s))[k] = s[l]
           /\ \A k \in DOMAIN d : /\ k \in DOMAIN (d \o Tail(s))
                                  /\ (d \o Tail(s))[k] = d[k]
           /\ \A l \in DOMAIN s : l # 1 =>
                 /\ Len(d) + l - 1 \in DOMAIN (d \o Tail(s))
                 /\ (d \o Tail(s))[Len(d) + l - 1] = s[l]
<1> DEFINE u == d \o Tail(s)
<1>1. Tail(s) \in Seq(S) /\ Head(s) = s[1] /\ Head(s) \in S
      /\ Len(Tail(s)) = Len(s) - 1 /\ \A l \in 1..Len(Tail(s)) : Tail(s)[l] = s[l + 1]
  BY HeadTailProperties
<1>2. Len(s) \in Nat /\ Len(s) > 0 /\ DOMAIN s = 1..Len(s)
      /\ Len(d) \in Nat /\ DOMAIN d = 1..Len(d)
  BY LenProperties, EmptySeq
<1>3. u \in Seq(S) /\ Len(u) = Len(d) + (Len(s) - 1)
      /\ \A k \in 1..Len(u) : u[k] = IF k <= Len(d) THEN d[k] ELSE Tail(s)[k - Len(d)]
  BY <1>1, <1>2, ConcatProperties
<1>4. DOMAIN u = 1..Len(u)
  <2> HIDE DEF u
  <2> QED
    BY <1>3, LenProperties
<1> HIDE DEF u
<1>5. ASSUME NEW k \in DOMAIN u
      PROVE  \/ k \in DOMAIN d /\ u[k] = d[k]
             \/ \E l \in DOMAIN s : l > 1 /\ l \in Nat /\ k = Len(d) + l - 1 /\ u[k] = s[l]
  <2>1. CASE k <= Len(d)
    BY <1>2, <1>3, <1>4, <2>1
  <2>2. CASE ~ (k <= Len(d))
    <3>1. k - Len(d) \in 1..(Len(s) - 1)
      BY <1>2, <1>3, <1>4, <2>2
    <3>2. PICK j \in 1..(Len(s) - 1) : j = k - Len(d)
      BY <3>1
    <3>3. u[k] = s[j + 1] /\ j + 1 \in DOMAIN s /\ j + 1 > 1 /\ j + 1 \in Nat
          /\ k = Len(d) + (j + 1) - 1
      <4>1. u[k] = Tail(s)[k - Len(d)]
        BY <1>3, <1>4, <2>2
      <4>2. Tail(s)[j] = s[j + 1] /\ Len(Tail(s)) = Len(s) - 1
        BY <1>1, <3>2
      <4>3. u[k] = s[j + 1]
        BY <3>2, <4>1, <4>2
      <4>4. k \in Nat
        BY <1>2, <1>3, <1>4
      <4> QED
        BY <1>2, <3>2, <4>3, <4>4
    <3> QED
      BY <3>3
  <2> QED
    BY <2>1, <2>2
<1>6. ASSUME NEW k \in DOMAIN d
      PROVE  k \in DOMAIN u /\ u[k] = d[k]
  BY <1>2, <1>3, <1>4
<1>7. ASSUME NEW l \in DOMAIN s, l # 1
      PROVE  Len(d) + l - 1 \in DOMAIN u /\ u[Len(d) + l - 1] = s[l]
  <2>1. PICK j \in 1..(Len(s) - 1) : l = j + 1
    <3>1. l - 1 \in 1..(Len(s) - 1) /\ l = (l - 1) + 1
      BY <1>2, <1>7
    <3> QED
      BY <3>1
  <2>2. Len(d) + l - 1 = Len(d) + j /\ Len(d) + j \in 1..Len(u) /\ ~ (Len(d) + j <= Len(d))
        /\ (Len(d) + j) - Len(d) = j
    BY <1>2, <1>3, <2>1
  <2>3. u[Len(d) + j] = Tail(s)[j] /\ Tail(s)[j] = s[j + 1]
    BY <1>1, <1>3, <2>2
  <2> QED
    BY <1>4, <2>1, <2>2, <2>3
<1>8. 1 \in DOMAIN s
  BY <1>2
<1> QED
  BY <1>1, <1>2, <1>3, <1>5, <1>6, <1>7, <1>8 DEF u

-----------------------------------------------------------------------------
(* The invariant                                                           *)

(* An input a call is to place.                                            *)
Pending(i, call) == i \in call.candidates /\ IsPointInside(i, call.cell)

Calls == [cell : CellType, candidates : SUBSET Number, parent : Nat]
TileType == [kind : {"leaf", "inner"}, inputs : SUBSET Number,
             transform : Corner, children : SUBSET Nat]
MergerTypeOK ==
    /\ tilesets \in Inputs
    /\ stage \in {"merging", "writing", "done", "raised"}
    /\ todo \in Seq(Calls)
    /\ tiles \in Seq(TileType)

(* The tiles are a tree whose root is the first of them; an inner tile has *)
(* a child, or will have.                                                  *)
TilesAreTree ==
    /\ \A n \in DOMAIN tiles :
          /\ n # 1 => \E m \in DOMAIN tiles : n \in tiles[m].children
          /\ \A c \in tiles[n].children : c \in DOMAIN tiles /\ n < c
          /\ tiles[n].inputs # {} /\ tiles[n].inputs \subseteq tiles[1].inputs
          /\ tiles[n].kind = "leaf" => tiles[n].children = {}
          /\ tiles[n].kind = "inner" =>
                \/ tiles[n].children # {}
                \/ \E k \in DOMAIN todo :
                      todo[k].parent = n /\ \E i \in Number : Pending(i, todo[k])
    /\ \A k \in DOMAIN todo :
          IF tiles = <<>> THEN k = 1
          ELSE /\ todo[k].parent \in DOMAIN tiles
               /\ tiles[todo[k].parent].kind = "inner"
               /\ todo[k].candidates \subseteq tiles[1].inputs

(* Only the root, once the merge is over, has another transform than the   *)
(* one it was created with.                                                *)
TransformsOfKinds ==
    \A n \in DOMAIN tiles :
        tiles[n].transform = IF n = 1 /\ stage # "merging" THEN BaseTransform
                             ELSE IF tiles[n].kind = "leaf" THEN Minus(BaseTransform)
                             ELSE Zero

(* An input is in one leaf, or waits in one call, but those on an upper    *)
(* border; two are in one leaf when they are together down to it.          *)
Kept(i) == {n \in Leaves : i \in tiles[n].inputs}
Waiting(i) == {k \in DOMAIN todo : Pending(i, todo[k])}
InOnePlace ==
    \A i \in Number :
        /\ OnUpperBorder(i) <=> Kept(i) = {} /\ Waiting(i) = {}
        /\ Kept(i) = {} \/ Waiting(i) = {}
        /\ \A n, m \in Kept(i) : n = m
        /\ \A k, l \in Waiting(i) : k = l
InputsOffBorders ==
    \A n \in DOMAIN tiles : \A i \in tiles[n].inputs : ~ OnUpperBorder(i)
TogetherInPlace ==
    \A i, j \in Number : i # j =>
        /\ \A k \in Waiting(i) \cap Waiting(j) :
              Together(i, j) <=> TogetherFrom(i, j)[todo[k].cell.parts]
        /\ Kept(i) \cap Kept(j) # {} => Together(i, j)
        /\ Waiting(i) \cap Waiting(j) = {} /\ Kept(i) \cap Kept(j) = {} => ~ Together(i, j)

(* The boxes, and the file that the inner tiles share.                     *)
BoxesOfTiles ==
    /\ \A n \in DOMAIN tiles : boxes[n].min \in Corner /\ boxes[n].max \in Corner
    /\ \A n \in Leaves : boxes[n] = WorldBox(Content(n))
    /\ \A n \in DOMAIN tiles \ Leaves : \A c \in tiles[n].children :
          Encloses(boxes[n], Moved(boxes[c], tiles[c].transform))
FilesOfTiles ==
    /\ stage # "merging" => todo = <<>>
    /\ stage = "raised" => tiles = <<>>
    /\ stage \in {"writing", "done"} =>
          /\ tiles # <<>> /\ BoxesOfTiles
          /\ unwritten \subseteq DOMAIN tiles \ Leaves
          /\ unwritten # {} => 1 \in unwritten
          /\ unwritten = {} /\ 1 \notin Leaves => sample = tiles[1].inputs
    /\ stage = "done" => unwritten = {}

MergerInv == /\ MergerTypeOK /\ TilesAreTree /\ TransformsOfKinds
             /\ InOnePlace /\ InputsOffBorders /\ TogetherInPlace /\ FilesOfTiles

LEMMA SameInputs ==
    ASSUME tilesets' = tilesets
    PROVE  /\ Number' = Number /\ BaseTransform' = BaseTransform
           /\ Calls' = Calls /\ TileType' = TileType
           /\ \A i : WorldBox(i)' = WorldBox(i)
           /\ \A i : OnUpperBorder(i)' <=> OnUpperBorder(i)
           /\ \A i, c : IsPointInside(i, c)' <=> IsPointInside(i, c)
           /\ \A i, c : Pending(i, c)' <=> Pending(i, c)
           /\ \A i, j : TogetherFrom(i, j)' = TogetherFrom(i, j)
           /\ \A i, j : Together(i, j)' <=> Together(i, j)
<1>1. Number' = Number /\ BaseTransform' = BaseTransform
  BY DEF Number, BaseTransform
<1>2. \A i : WorldBox(i)' = WorldBox(i)
  BY DEF WorldBox
<1>3. Global' = Global
  BY DEF Global, Number, WorldBox
<1>4. \A i, a : Centre2(i, a)' = Centre2(i, a) /\ Size(a)' = Size(a)
  BY <1>2, <1>3 DEF Centre2, Size
<1>5. \A i : OnUpperBorder(i)' <=> OnUpperBorder(i)
  BY <1>4 DEF OnUpperBorder
<1>6. \A i, a, p, k : Within(i, a, p, k)' <=> Within(i, a, p, k)
  BY <1>4 DEF Within
<1>7. \A i, c : IsPointInside(i, c)' <=> IsPointInside(i, c)
  BY <1>6 DEF IsPointInside
<1>8. \A i, c : Pending(i, c)' <=> Pending(i, c)
  BY <1>7 DEF Pending
<1>9. \A i, j : TogetherFrom(i, j)' = TogetherFrom(i, j)
  BY DEF TogetherFrom, IsTogether, InOneCell, IsPointInside, Within, IsSmall, Centre2, Size,
         Global, Number, WorldBox
<1>10. \A i, j : Together(i, j)' <=> Together(i, j)
  BY DEF Together, InOneCell, IsPointInside, Within, IsSmall, Centre2, Size,
         Global, Number, WorldBox
<1>11. Calls' = Calls /\ TileType' = TileType
  BY <1>1 DEF Calls, TileType
<1> QED
  BY <1>1, <1>2, <1>5, <1>7, <1>8, <1>9, <1>10, <1>11

LEMMA MergerInitial == Init => MergerInv
<1> SUFFICES ASSUME Init PROVE MergerInv
  OBVIOUS
<1> DEFINE call == Call(Cell(1, 0, 0), Number, 0)
<1>1. /\ tilesets \in Inputs /\ stage = "merging" /\ todo = <<call>> /\ tiles = <<>>
  BY DEF Init
<1>2. call.cell = Cell(1, 0, 0) /\ call.candidates = Number /\ call.parent = 0
      /\ call \in Calls /\ call.cell.parts = 1
  BY DEF Call, Calls, Cell, CellType
<1> HIDE DEF call
<1>3. DOMAIN todo = {1} /\ todo[1] = call /\ DOMAIN tiles = {} /\ Leaves = {}
      /\ \A i : Kept(i) = {}
  BY <1>1 DEF Leaves, Kept
<1>4. MergerTypeOK
  BY <1>1, <1>2 DEF MergerTypeOK
<1>5. TilesAreTree
  BY <1>1, <1>3 DEF TilesAreTree
<1>6. TransformsOfKinds
  BY <1>3 DEF TransformsOfKinds
<1>7. \A i \in Number : Waiting(i) = IF OnUpperBorder(i) THEN {} ELSE {1}
  BY <1>1, <1>2, <1>3, WholeFacts DEF Waiting, Pending
<1>8. InOnePlace
  BY <1>3, <1>7 DEF InOnePlace
<1>9. TogetherInPlace
  <2> SUFFICES ASSUME NEW i \in Number, NEW j \in Number, i # j
               PROVE  /\ \A k \in Waiting(i) \cap Waiting(j) :
                            Together(i, j) <=> TogetherFrom(i, j)[todo[k].cell.parts]
                      /\ Kept(i) \cap Kept(j) # {} => Together(i, j)
                      /\ Waiting(i) \cap Waiting(j) = {} /\ Kept(i) \cap Kept(j) = {} =>
                            ~ Together(i, j)
    BY DEF TogetherInPlace
  <2>1. \A k \in Waiting(i) : k = 1
    BY <1>7
  <2>2. Together(i, j) <=> TogetherFrom(i, j)[1]
    BY TogetherFacts
  <2>3. ASSUME OnUpperBorder(i) \/ OnUpperBorder(j) PROVE ~ Together(i, j)
    <3>1. ASSUME InOneCell(i, j, 1)
          PROVE  IsPointInside(i, Cell(1, 0, 0)) /\ IsPointInside(j, Cell(1, 0, 0))
      BY <3>1 DEF InOneCell
    <3>2. 1 \in Nat \ {0}
      OBVIOUS
    <3> QED
      BY <1>1, <2>2, <2>3, <3>1, <3>2, WholeFacts, TogetherFacts
  <2> QED
    BY <1>2, <1>3, <1>7, <2>1, <2>2, <2>3
<1>10. FilesOfTiles
  BY <1>1 DEF FilesOfTiles
<1>11. InputsOffBorders
  BY <1>3 DEF InputsOffBorders
<1> QED
  BY <1>4, <1>5, <1>6, <1>8, <1>9, <1>10, <1>11 DEF MergerInv

(* The calls an inner tile makes for its inputs, one for each quarter.     *)
CallsOf(cell, insides, tile) ==
    [q \in DOMAIN Quarters(cell) |-> Call(Quarters(cell)[q], insides, tile)]

PlacesEach(d, cell, insides, tile) ==
    /\ d \in Seq(Calls)
    /\ \A k \in DOMAIN d : /\ d[k].parent = tile /\ d[k].candidates = insides
                           /\ d[k].cell.parts = 2 * cell.parts
    /\ \A i : \A k \in DOMAIN d : Pending(i, d[k]) => i \in insides
    /\ \A i \in insides : \E k \in DOMAIN d : Pending(i, d[k])
    /\ \A i \in Number : \A k, l \in DOMAIN d : Pending(i, d[k]) /\ Pending(i, d[l]) => k = l

LEMMA QuarterCalls ==
    ASSUME tilesets \in Inputs, NEW cell \in CellType, NEW insides \in SUBSET Number,
           \A i \in insides : IsPointInside(i, cell), NEW tile \in Nat
    PROVE  PlacesEach(CallsOf(cell, insides, tile), cell, insides, tile)
<1> DEFINE d == CallsOf(cell, insides, tile)
<1>1. DOMAIN d = 1..4
  BY QuartersFacts DEF CallsOf
<1>2. ASSUME NEW k \in 1..4
      PROVE  /\ d[k] \in Calls /\ d[k].parent = tile /\ d[k].candidates = insides
             /\ d[k].cell = Quarters(cell)[k] /\ d[k].cell \in CellType
             /\ d[k].cell.parts = 2 * cell.parts
  <2>1. d[k] = Call(Quarters(cell)[k], insides, tile)
    BY <1>1, QuartersFacts DEF CallsOf
  <2>2. Quarters(cell)[k] \in CellType /\ Quarters(cell)[k].parts = 2 * cell.parts
    BY QuartersFacts
  <2> QED
    BY <2>1, <2>2 DEF Call, Calls
<1> HIDE DEF d
<1>3. d \in Seq(Calls)
  <2>1. d = [k \in 1..4 |-> d[k]]
    BY <1>1 DEF d, CallsOf
  <2>2. d \in [1..4 -> Calls]
    BY <1>2, <2>1
  <2> QED
    BY <2>2, SeqDef
<1>4. \A i : \A k \in DOMAIN d :
         Pending(i, d[k]) <=> i \in insides /\ IsPointInside(i, Quarters(cell)[k])
  BY <1>1, <1>2 DEF Pending
<1>5. ASSUME NEW i \in insides
      PROVE  \E k \in DOMAIN d : Pending(i, d[k])
  <2>1. \E q \in 1..4 : IsPointInside(i, Quarters(cell)[q])
    BY QuartersFacts
  <2> QED
    BY <1>1, <1>4, <2>1
<1>6. ASSUME NEW i \in Number, NEW k \in DOMAIN d, NEW l \in DOMAIN d,
             Pending(i, d[k]), Pending(i, d[l])
      PROVE  k = l
  <2>1. IsPointInside(i, Quarters(cell)[k]) /\ IsPointInside(i, Quarters(cell)[l])
    BY <1>4, <1>6
  <2>2. Quarters(cell)[k] = Quarters(cell)[l]
    BY <1>1, <1>2, <1>6, <2>1, OneCell
  <2> QED
    BY <1>1, <1>6, <2>2, QuartersFacts
<1>7. PlacesEach(d, cell, insides, tile)
  BY <1>1, <1>2, <1>3, <1>4, <1>5, <1>6 DEF PlacesEach
<1> QED
  BY <1>7 DEF d

(* Two inputs of a cell are together from it when it is small or they are  *)
(* together from one of its quarters.                                      *)
LEMMA TogetherInQuarters ==
    ASSUME tilesets \in Inputs, NEW i \in Number, NEW j \in Number, NEW c \in CellType,
           IsPointInside(i, c), IsPointInside(j, c)
    PROVE  /\ TogetherFrom(i, j)[c.parts] <=>
                 IsSmall(c.parts) \/ TogetherFrom(i, j)[2 * c.parts]
           /\ \A q \in 1..4 :
                 IsPointInside(i, Quarters(c)[q]) /\ TogetherFrom(i, j)[2 * c.parts]
                     => IsPointInside(j, Quarters(c)[q])
<1>1. c.parts \in Nat \ {0} /\ 2 * c.parts \in Nat \ {0}
  BY DEF CellType
<1>2. InOneCell(i, j, c.parts)
  BY InOneCellFacts
<1>3. TogetherFrom(i, j)[c.parts] <=> IsSmall(c.parts) \/ TogetherFrom(i, j)[2 * c.parts]
  BY <1>1, <1>2, TogetherFacts
<1>4. ASSUME NEW q \in 1..4, IsPointInside(i, Quarters(c)[q]), TogetherFrom(i, j)[2 * c.parts]
      PROVE  IsPointInside(j, Quarters(c)[q])
  <2>1. InOneCell(i, j, 2 * c.parts)
    BY <1>1, <1>4, TogetherFacts
  <2>2. Quarters(c)[q] \in CellType /\ Quarters(c)[q].parts = 2 * c.parts
    BY QuartersFacts
  <2> QED
    BY <1>4, <2>1, <2>2, InOneCellFacts
<1> QED
  BY <1>3, <1>4

(* One call of build_tileset_quadtree: d are the calls it makes, and       *)
(* insides the inputs of the tile it gives.                                *)
LEMMA BuildKeeps ==
    ASSUME MergerInv, BuildTilesetQuadtree
    PROVE  MergerInv'
<1> DEFINE call == Head(todo)
           insides == {i \in call.candidates : IsPointInside(i, call.cell)}
           isLeaf == Cardinality(insides) = 1 \/ IsSmall(call.cell.parts)
           tile == Len(tiles) + 1
           quarters == Quarters(call.cell)
           new == IF isLeaf THEN Leaf(insides) ELSE Inner(insides)
           d == IF insides = {} \/ isLeaf THEN <<>>
                ELSE [q \in DOMAIN quarters |-> Call(quarters[q], insides, tile)]
<1>1. /\ tilesets' = tilesets /\ stage' = stage /\ boxes' = boxes /\ unwritten' = unwritten
      /\ sample' = sample /\ stage = "merging" /\ todo # <<>>
  BY DEF BuildTilesetQuadtree
<1>2. /\ tilesets \in Inputs /\ todo \in Seq(Calls) /\ tiles \in Seq(TileType)
      /\ Len(tiles) \in Nat /\ DOMAIN tiles = 1..Len(tiles)
  <2>1. tilesets \in Inputs /\ todo \in Seq(Calls) /\ tiles \in Seq(TileType)
    BY DEF MergerInv, MergerTypeOK
  <2> QED
    BY <2>1, LenProperties
<1>3. /\ call \in Calls /\ 1 \in DOMAIN todo /\ todo[1] = call
      /\ call.cell \in CellType /\ call.candidates \in SUBSET Number
      /\ insides \in SUBSET Number /\ \A i \in insides : IsPointInside(i, call.cell)
      /\ \A i : Pending(i, call) <=> i \in insides
  <2>1. call \in Calls /\ 1 \in DOMAIN todo /\ todo[1] = call
    BY <1>1, <1>2, Replaced, EmptySeq
  <2> HIDE DEF call
  <2>2. call.cell \in CellType /\ call.candidates \in SUBSET Number
    BY <2>1 DEF Calls
  <2> QED
    BY <2>1, <2>2 DEF Pending
<1>4. IsFiniteSet(insides) /\ tile \in Nat
      /\ \A i, j \in insides : i # j => Cardinality(insides) # 1
  <2>1. insides \in SUBSET Number
    BY <1>3
  <2> HIDE DEF insides
  <2>2. IsFiniteSet(insides)
    BY <1>2, <2>1, InputFacts, FS_Subset
  <2>3. ASSUME NEW i \in insides, NEW j \in insides, i # j, Cardinality(insides) = 1
        PROVE  FALSE
    <3>1. \E x : insides = {x}
      BY <2>2, <2>3, FS_Singleton
    <3> QED
      BY <2>3, <3>1
  <2> QED
    BY <1>2, <2>2, <2>3
<1>5. /\ d \in Seq(Calls)
      /\ insides = {} \/ isLeaf => DOMAIN d = {}
      /\ \A k \in DOMAIN d : /\ d[k].parent = tile /\ d[k].candidates = insides
                             /\ d[k].cell.parts = 2 * call.cell.parts
      /\ \A i : \A k \in DOMAIN d : Pending(i, d[k]) => i \in insides
      /\ ~ isLeaf => \A i \in insides : \E k \in DOMAIN d : Pending(i, d[k])
      /\ \A i \in Number : \A k, l \in DOMAIN d :
            Pending(i, d[k]) /\ Pending(i, d[l]) => k = l
      /\ ~ isLeaf => \A i, j \in insides : TogetherFrom(i, j)[2 * call.cell.parts] =>
            \A k \in DOMAIN d : Pending(i, d[k]) => Pending(j, d[k])
  <2>1. CASE insides = {} \/ isLeaf
    <3>1. d = <<>>
      BY <2>1
    <3> HIDE DEF d, isLeaf, insides
    <3> QED
      BY <2>1, <3>1, EmptySeq
  <2>2. CASE ~ (insides = {} \/ isLeaf)
    <3>1. d = CallsOf(call.cell, insides, tile)
      BY <2>2 DEF CallsOf
    <3>2. insides \in SUBSET Number /\ \A i \in insides : IsPointInside(i, call.cell)
      BY <1>3
    <3>3. tile \in Nat /\ call.cell \in CellType
      BY <1>3, <1>4
    <3>0. tilesets \in Inputs
      BY <1>2
    <3> HIDE DEF d, isLeaf, insides, call, tile, quarters, new
    <3>4. /\ d \in Seq(Calls)
          /\ \A k \in DOMAIN d : /\ d[k].parent = tile /\ d[k].candidates = insides
                                 /\ d[k].cell.parts = 2 * call.cell.parts
          /\ \A i : \A k \in DOMAIN d : Pending(i, d[k]) => i \in insides
          /\ \A i \in insides : \E k \in DOMAIN d : Pending(i, d[k])
          /\ \A i \in Number : \A k, l \in DOMAIN d :
                Pending(i, d[k]) /\ Pending(i, d[l]) => k = l
      <4>1. PlacesEach(d, call.cell, insides, tile)
        BY <3>0, <3>1, <3>2, <3>3, QuarterCalls
      <4> QED
        BY <4>1 DEF PlacesEach
    <3>5. ASSUME NEW i \in insides, NEW j \in insides,
                 TogetherFrom(i, j)[2 * call.cell.parts], NEW k \in DOMAIN d, Pending(i, d[k])
          PROVE  Pending(j, d[k])
      <4>1. k \in 1..4 /\ d[k].cell = Quarters(call.cell)[k] /\ d[k].candidates = insides
        BY <1>2, <3>1, <3>3, QuartersFacts DEF Call, CallsOf
      <4>2. IsPointInside(i, Quarters(call.cell)[k])
        BY <3>5, <4>1 DEF Pending
      <4>3. IsPointInside(j, Quarters(call.cell)[k])
        BY <1>2, <3>2, <3>3, <3>5, <4>1, <4>2, TogetherInQuarters
      <4> QED
        BY <4>1, <4>3 DEF Pending
    <3> QED
      BY <2>2, <3>4, <3>5
  <2> QED
    BY <2>1, <2>2
<1>6. todo' = d \o Tail(todo)
  <2>0. Tail(todo) \in Seq(Calls)
    BY <1>1, <1>2, HeadTailProperties
  <2>1. CASE insides = {}
    <3>1. todo' = Tail(todo) /\ d = <<>>
      BY <2>1 DEF BuildTilesetQuadtree
    <3> QED
      BY <2>0, <3>1, ConcatEmptySeq
  <2>2. CASE insides # {}
    <3>1. todo' = (IF isLeaf THEN <<>>
                   ELSE [q \in DOMAIN quarters |-> Call(quarters[q], insides, tile)])
                     \o Tail(todo)
      BY <2>2 DEF BuildTilesetQuadtree
    <3>2. d = IF isLeaf THEN <<>>
              ELSE [q \in DOMAIN quarters |-> Call(quarters[q], insides, tile)]
      BY <2>2
    <3> HIDE DEF d, isLeaf, insides, quarters
    <3> QED
      BY <3>1, <3>2
  <2> QED
    BY <2>1, <2>2
<1>7. /\ insides = {} => tiles' = tiles
      /\ insides # {} =>
            tiles' = [n \in 1..tile |->
                         IF n = tile THEN new
                         ELSE IF n = call.parent
                         THEN [tiles[n] EXCEPT !.children = @ \cup {tile}]
                         ELSE tiles[n]]
  BY DEF BuildTilesetQuadtree
<1>8. insides # {} =>
        /\ new \in TileType /\ new.inputs = insides /\ new.children = {}
        /\ new.kind = IF isLeaf THEN "leaf" ELSE "inner"
        /\ new.transform = IF isLeaf THEN Minus(BaseTransform) ELSE Zero
  <2>1. insides \in SUBSET Number
    BY <1>3
  <2>2. Minus(BaseTransform) \in Corner /\ Zero \in Corner
    <3>1. BaseTransform \in Corner
      BY <1>2, InputFacts
    <3> QED
      BY <3>1 DEF Minus, Zero, Corner
  <2>3. new = IF isLeaf THEN Leaf(insides) ELSE Inner(insides)
    OBVIOUS
  <2> HIDE DEF insides, isLeaf, new
  <2> QED
    BY <2>1, <2>2, <2>3 DEF Leaf, Inner, TileType
<1> HIDE DEF call, insides, isLeaf, quarters, new, d
<1>9. ASSUME NEW n \in DOMAIN tiles
      PROVE  /\ n \in DOMAIN tiles' /\ n \in Nat /\ n < tile
             /\ tiles'[n] \in TileType
             /\ tiles'[n].kind = tiles[n].kind /\ tiles'[n].inputs = tiles[n].inputs
             /\ tiles'[n].transform = tiles[n].transform
             /\ tiles[n].children \subseteq tiles'[n].children
             /\ \A c \in tiles'[n].children :
                   c \in tiles[n].children \/ (insides # {} /\ c = tile /\ n = call.parent)
             /\ insides # {} /\ n = call.parent => tile \in tiles'[n].children
  <2>1. tiles[n] \in TileType /\ n \in 1..Len(tiles) /\ n \in Nat /\ n < tile
    BY <1>2, ElementOfSeq
  <2>2. CASE insides = {}
    BY <1>7, <2>1, <2>2
  <2>3. CASE insides # {}
    <3>1. n # tile /\ n \in 1..tile /\ n \in DOMAIN tiles'
      BY <1>2, <1>7, <2>1, <2>3
    <3>2. CASE n = call.parent
      <4>1. tiles'[n] = [tiles[n] EXCEPT !.children = tiles[n].children \cup {tile}]
        BY <1>7, <2>3, <3>1, <3>2
      <4>2. tiles[n].children \cup {tile} \in SUBSET Nat
        BY <1>4, <2>1 DEF TileType
      <4> HIDE DEF tile
      <4>3. /\ tiles'[n] \in TileType
            /\ tiles'[n].kind = tiles[n].kind /\ tiles'[n].inputs = tiles[n].inputs
            /\ tiles'[n].transform = tiles[n].transform
            /\ tiles'[n].children = tiles[n].children \cup {tile}
        BY <2>1, <4>1, <4>2 DEF TileType
      <4> QED
        BY <2>1, <2>3, <3>1, <3>2, <4>3
    <3>3. CASE n # call.parent
      <4>1. tiles'[n] = tiles[n]
        BY <1>7, <2>3, <3>1, <3>3
      <4> QED
        BY <2>1, <3>1, <3>3, <4>1
    <3> QED
      BY <3>2, <3>3
  <2> QED
    BY <2>2, <2>3
<1>10. ASSUME insides # {}
       PROVE  tile \in DOMAIN tiles' /\ tiles'[tile] = new
  <2>1. tile \in 1..tile
    BY <1>2
  <2> QED
    BY <1>7, <1>10, <2>1
<1>11. \A n \in DOMAIN tiles' : n \in DOMAIN tiles \/ (insides # {} /\ n = tile)
  <2>1. CASE insides = {}
    BY <1>7, <2>1
  <2>2. CASE insides # {}
    <3>1. DOMAIN tiles' = 1..tile
      BY <1>7, <2>2
    <3> QED
      BY <1>2, <2>2, <3>1
  <2> QED
    BY <2>1, <2>2
<1>12. MergerTypeOK'
  <2>1. todo' \in Seq(Calls)
    BY <1>1, <1>2, <1>5, <1>6, Replaced
  <2>2. tiles' \in Seq(TileType)
    <3>1. CASE insides = {}
      BY <1>2, <1>7, <3>1
    <3>2. CASE insides # {}
      <4>1. \A n \in DOMAIN tiles' : tiles'[n] \in TileType
        BY <1>8, <1>9, <1>10, <1>11, <3>2
      <4>2. DOMAIN tiles' = 1..tile /\ tiles' = [n \in 1..tile |-> tiles'[n]]
        BY <1>7, <3>2
      <4>3. tiles' \in [1..tile -> TileType]
        BY <4>1, <4>2
      <4> QED
        BY <1>4, <4>3, SeqDef
    <3> QED
      BY <3>1, <3>2
  <2> QED
    BY <1>1, <1>2, <2>1, <2>2, SameInputs DEF MergerTypeOK
<1>13. /\ \A k \in DOMAIN todo' :
             \/ k \in DOMAIN d /\ todo'[k] = d[k]
             \/ \E l \in DOMAIN todo : /\ l > 1 /\ l \in Nat /\ k = Len(d) + l - 1
                                       /\ todo'[k] = todo[l]
       /\ \A k \in DOMAIN d : k \in DOMAIN todo' /\ todo'[k] = d[k]
       /\ \A l \in DOMAIN todo : l # 1 =>
             Len(d) + l - 1 \in DOMAIN todo' /\ todo'[Len(d) + l - 1] = todo[l]
       /\ Len(d) \in Nat
  <2>1. todo \in Seq(Calls) /\ todo # <<>> /\ d \in Seq(Calls)
    BY <1>1, <1>2, <1>5
  <2>2. \A k \in DOMAIN (d \o Tail(todo)) :
          \/ k \in DOMAIN d /\ (d \o Tail(todo))[k] = d[k]
          \/ \E l \in DOMAIN todo : /\ l > 1 /\ l \in Nat /\ k = Len(d) + l - 1
                                    /\ (d \o Tail(todo))[k] = todo[l]
    BY <2>1, Replaced
  <2>3. /\ \A k \in DOMAIN d : k \in DOMAIN (d \o Tail(todo)) /\ (d \o Tail(todo))[k] = d[k]
        /\ Len(d) \in Nat
    BY <2>1, Replaced
  <2>4. \A l \in DOMAIN todo : l # 1 =>
          /\ Len(d) + l - 1 \in DOMAIN (d \o Tail(todo))
          /\ (d \o Tail(todo))[Len(d) + l - 1] = todo[l]
    BY <2>1, Replaced
  <2> QED
    BY <1>6, <2>2, <2>3, <2>4
<1>14. /\ \A i, c : Pending(i, c)' <=> Pending(i, c)
       /\ Number' = Number /\ BaseTransform' = BaseTransform
  BY <1>1, SameInputs
<1>15. TilesAreTree'
  <2>1. /\ \A n \in DOMAIN tiles :
              /\ n # 1 => \E m \in DOMAIN tiles : n \in tiles[m].children
              /\ \A c \in tiles[n].children : c \in DOMAIN tiles /\ n < c
              /\ tiles[n].inputs # {} /\ tiles[n].inputs \subseteq tiles[1].inputs
              /\ tiles[n].kind = "leaf" => tiles[n].children = {}
              /\ tiles[n].kind = "inner" =>
                    \/ tiles[n].children # {}
                    \/ \E k \in DOMAIN todo :
                          todo[k].parent = n /\ \E i \in Number : Pending(i, todo[k])
        /\ \A k \in DOMAIN todo :
              IF tiles = <<>> THEN k = 1
              ELSE /\ todo[k].parent \in DOMAIN tiles
                   /\ tiles[todo[k].parent].kind = "inner"
                   /\ todo[k].candidates \subseteq tiles[1].inputs
    BY DEF MergerInv, TilesAreTree
  <2>2. \A n \in DOMAIN tiles : tiles # <<>> /\ 1 \in DOMAIN tiles
    BY <1>2
  <2>3. \A n \in DOMAIN tiles : tiles'[1].inputs = tiles[1].inputs
    BY <1>9, <2>2
  <2>4. tiles = <<>> => tile = 1 /\ \A n : n \notin DOMAIN tiles
    BY <1>2, EmptySeq
  <2>5. tiles # <<>> => 1 \in DOMAIN tiles
    BY <1>2, EmptySeq
  <2>6. tiles # <<>> => /\ call.parent \in DOMAIN tiles /\ tiles[call.parent].kind = "inner"
                        /\ insides \subseteq tiles[1].inputs
    <3>1. tiles # <<>> => /\ call.parent \in DOMAIN tiles /\ tiles[call.parent].kind = "inner"
                          /\ call.candidates \subseteq tiles[1].inputs
      BY <1>3, <2>1
    <3>2. insides \subseteq call.candidates
      BY DEF insides
    <3> QED
      BY <3>1, <3>2
  <2>7. insides # {} => insides \subseteq tiles'[1].inputs
    <3>1. CASE tiles = <<>>
      BY <1>8, <1>10, <2>4, <3>1
    <3>2. CASE tiles # <<>>
      BY <2>3, <2>5, <2>6, <3>2
    <3> QED
      BY <3>1, <3>2
  <2>8. ASSUME NEW n \in DOMAIN tiles'
        PROVE  /\ n # 1 => \E m \in DOMAIN tiles' : n \in tiles'[m].children
               /\ \A c \in tiles'[n].children : c \in DOMAIN tiles' /\ n < c
               /\ tiles'[n].inputs # {} /\ tiles'[n].inputs \subseteq tiles'[1].inputs
               /\ tiles'[n].kind = "leaf" => tiles'[n].children = {}
    <3>1. CASE n \in DOMAIN tiles
      <4>1. n # 1 => \E m \in DOMAIN tiles' : n \in tiles'[m].children
        BY <1>9, <2>1, <3>1
      <4>2. \A c \in tiles'[n].children : c \in DOMAIN tiles' /\ n < c
        BY <1>9, <1>10, <2>1, <3>1
      <4>3. tiles'[n].inputs # {} /\ tiles'[n].inputs \subseteq tiles'[1].inputs
        BY <1>9, <2>1, <2>3, <3>1
      <4>4. tiles'[n].kind = "leaf" => tiles'[n].children = {}
        <5> SUFFICES ASSUME tiles'[n].kind = "leaf", NEW c \in tiles'[n].children PROVE FALSE
          OBVIOUS
        <5>1. tiles[n].children = {}
          BY <1>9, <2>1, <3>1
        <5>2. n = call.parent
          BY <1>9, <3>1, <5>1
        <5>3. tiles[n].kind = "inner"
          BY <2>2, <2>6, <3>1, <5>2
        <5> QED
          BY <1>9, <3>1, <5>3
      <4> QED
        BY <4>1, <4>2, <4>3, <4>4
    <3>2. CASE insides # {} /\ n = tile
      <4>1. n # 1 => \E m \in DOMAIN tiles' : n \in tiles'[m].children
        <5>1. ASSUME n # 1 PROVE call.parent \in DOMAIN tiles' /\ n \in tiles'[call.parent].children
          BY <1>9, <2>4, <2>6, <3>2, <5>1
        <5> QED
          BY <5>1
      <4> QED
        BY <1>8, <1>10, <2>7, <3>2, <4>1
    <3> QED
      BY <1>11, <3>1, <3>2
  <2>9. ASSUME NEW n \in DOMAIN tiles', tiles'[n].kind = "inner", tiles'[n].children = {}
        PROVE  \E k \in DOMAIN todo' :
                  todo'[k].parent = n /\ \E i \in Number : Pending(i, todo'[k])
    <3>1. CASE n \in DOMAIN tiles
      <4>1. tiles[n].kind = "inner" /\ tiles[n].children = {}
            /\ ~ (insides # {} /\ n = call.parent)
        BY <1>9, <2>9, <3>1
      <4>2. PICK k \in DOMAIN todo :
              todo[k].parent = n /\ \E i \in Number : Pending(i, todo[k])
        BY <2>1, <3>1, <4>1
      <4>3. k # 1
        BY <1>3, <4>1, <4>2
      <4> QED
        BY <1>13, <4>2, <4>3
    <3>2. CASE insides # {} /\ n = tile
      <4>1. ~ isLeaf
        BY <1>8, <1>10, <2>9, <3>2
      <4>2. PICK i \in insides, k \in DOMAIN d : Pending(i, d[k])
        BY <1>5, <3>2, <4>1
      <4> QED
        BY <1>3, <1>5, <1>13, <3>2, <4>2
    <3> QED
      BY <1>11, <3>1, <3>2
  <2>10. ASSUME NEW k \in DOMAIN todo'
         PROVE  IF tiles' = <<>> THEN k = 1
                ELSE /\ todo'[k].parent \in DOMAIN tiles'
                     /\ tiles'[todo'[k].parent].kind = "inner"
                     /\ todo'[k].candidates \subseteq tiles'[1].inputs
    <3>1. CASE k \in DOMAIN d /\ todo'[k] = d[k]
      <4>1. insides # {} /\ ~ isLeaf
        BY <1>5, <3>1
      <4>2. todo'[k].parent = tile /\ todo'[k].candidates = insides
        BY <1>5, <3>1
      <4>3. tile \in DOMAIN tiles' /\ tiles'[tile].kind = "inner"
        BY <1>8, <1>10, <4>1
      <4>4. tiles' # <<>>
        BY <4>3
      <4> QED
        BY <2>7, <4>1, <4>2, <4>3, <4>4
    <3>2. CASE \E l \in DOMAIN todo : l > 1 /\ todo'[k] = todo[l]
      <4>1. PICK l \in DOMAIN todo : l > 1 /\ todo'[k] = todo[l]
        BY <3>2
      <4>2. tiles # <<>>
        BY <2>1, <4>1
      <4>3. /\ todo[l].parent \in DOMAIN tiles /\ tiles[todo[l].parent].kind = "inner"
            /\ todo[l].candidates \subseteq tiles[1].inputs
        BY <2>1, <4>2
      <4>4. todo[l].parent \in DOMAIN tiles'
        BY <1>9, <4>3
      <4>5. tiles' # <<>>
        BY <4>4
      <4> QED
        BY <1>9, <2>3, <4>1, <4>3, <4>4, <4>5
    <3> QED
      BY <1>13, <3>1, <3>2
  <2> QED
    BY <1>14, <2>8, <2>9, <2>10 DEF TilesAreTree
<1>16. TransformsOfKinds'
  <2>1. \A n \in DOMAIN tiles :
          tiles[n].transform = IF tiles[n].kind = "leaf" THEN Minus(BaseTransform) ELSE Zero
    BY <1>1 DEF MergerInv, TransformsOfKinds
  <2>2. ASSUME NEW n \in DOMAIN tiles'
        PROVE  tiles'[n].transform =
                  IF tiles'[n].kind = "leaf" THEN Minus(BaseTransform) ELSE Zero
    BY <1>8, <1>9, <1>10, <1>11, <2>1
  <2>3. \A o : Minus(o)' = Minus(o')
    BY DEF Minus
  <2>4. Minus(BaseTransform)' = Minus(BaseTransform) /\ Zero' = Zero
    BY <1>14 DEF Minus, Zero
  <2> QED
    BY <1>1, <1>14, <2>2, <2>4 DEF TransformsOfKinds
<1>17. /\ \A i, k : k \in Waiting(i)' <=> k \in DOMAIN todo' /\ Pending(i, todo'[k])
       /\ \A i, k : k \in Waiting(i) <=> k \in DOMAIN todo /\ Pending(i, todo[k])
       /\ \A i, n : n \in Kept(i)' <=> n \in DOMAIN tiles' /\ tiles'[n].kind = "leaf"
                                       /\ i \in tiles'[n].inputs
       /\ \A i, n : n \in Kept(i) <=> n \in DOMAIN tiles /\ tiles[n].kind = "leaf"
                                      /\ i \in tiles[n].inputs
  BY <1>14 DEF Waiting, Kept, Leaves
<1>18. /\ \A i : \A n \in DOMAIN tiles : n \in Kept(i)' <=> n \in Kept(i)
       /\ \A i : \A n \in Kept(i)' : n \in DOMAIN tiles \/ n = tile
       /\ \A i : tile \in Kept(i)' <=> i \in insides /\ isLeaf
       /\ \A i : tile \notin Kept(i)
       /\ \A i : \A n \in Kept(i) : n \in DOMAIN tiles
  <2>1. tile \notin DOMAIN tiles
    BY <1>2
  <2>2. \A i : tile \in Kept(i)' <=> i \in insides /\ isLeaf
    <3>1. insides = {} => tile \notin DOMAIN tiles'
      BY <1>7, <2>1
    <3>2. insides # {} => /\ tile \in DOMAIN tiles' /\ tiles'[tile].inputs = insides
                          /\ tiles'[tile].kind = IF isLeaf THEN "leaf" ELSE "inner"
      BY <1>8, <1>10
    <3> QED
      BY <1>17, <3>1, <3>2
  <2> QED
    BY <1>9, <1>11, <1>17, <2>1, <2>2
<1>19. ASSUME NEW i \in Number
       PROVE  /\ i \notin insides =>
                   /\ 1 \notin Waiting(i)
                   /\ Kept(i)' = Kept(i)
                   /\ \A k \in Waiting(i)' :
                         \E l \in Waiting(i) : /\ l \in Nat /\ l > 1 /\ k = Len(d) + l - 1
                                               /\ todo'[k] = todo[l]
                   /\ \A l \in Waiting(i) : /\ Len(d) + l - 1 \in Waiting(i)'
                                            /\ todo'[Len(d) + l - 1] = todo[l]
              /\ i \in insides =>
                   /\ \A k \in Waiting(i) : k = 1
                   /\ 1 \in Waiting(i) /\ Kept(i) = {} /\ ~ OnUpperBorder(i)
                   /\ \A k : k \in Waiting(i)' <=> k \in DOMAIN d /\ Pending(i, d[k])
                   /\ \A k \in Waiting(i)' : todo'[k] = d[k]
                   /\ Waiting(i)' # {} <=> ~ isLeaf
                   /\ \A n : n \in Kept(i)' <=> n = tile /\ isLeaf
  <2>1. /\ OnUpperBorder(i) <=> Kept(i) = {} /\ Waiting(i) = {}
        /\ Kept(i) = {} \/ Waiting(i) = {}
        /\ \A k, l \in Waiting(i) : k = l
    BY DEF MergerInv, InOnePlace
  <2>2. ASSUME i \notin insides
        PROVE  /\ 1 \notin Waiting(i)
               /\ Kept(i)' = Kept(i)
               /\ \A k \in Waiting(i)' :
                     \E l \in Waiting(i) : /\ l \in Nat /\ l > 1 /\ k = Len(d) + l - 1
                                           /\ todo'[k] = todo[l]
               /\ \A l \in Waiting(i) : /\ Len(d) + l - 1 \in Waiting(i)'
                                        /\ todo'[Len(d) + l - 1] = todo[l]
    <3>1. Kept(i)' = Kept(i)
      <4>1. \A n : n \in Kept(i)' <=> n \in Kept(i)
        BY <1>18, <2>2
      <4> QED
        BY <4>1
    <3>2. 1 \notin Waiting(i) /\ \A k \in DOMAIN d : ~ Pending(i, d[k])
      BY <1>3, <1>5, <1>17, <2>2
    <3>3. \A k \in Waiting(i)' :
            \E l \in Waiting(i) : /\ l \in Nat /\ l > 1 /\ k = Len(d) + l - 1
                                  /\ todo'[k] = todo[l]
      BY <1>13, <1>17, <3>2
    <3>4. \A l \in Waiting(i) : /\ Len(d) + l - 1 \in Waiting(i)'
                                /\ todo'[Len(d) + l - 1] = todo[l]
      BY <1>13, <1>17, <3>2
    <3> QED
      BY <3>1, <3>2, <3>3, <3>4
  <2>3. ASSUME i \in insides
        PROVE  /\ \A k \in Waiting(i) : k = 1
               /\ 1 \in Waiting(i) /\ Kept(i) = {} /\ ~ OnUpperBorder(i)
               /\ \A k : k \in Waiting(i)' <=> k \in DOMAIN d /\ Pending(i, d[k])
               /\ \A k \in Waiting(i)' : todo'[k] = d[k]
               /\ Waiting(i)' # {} <=> ~ isLeaf
               /\ \A n : n \in Kept(i)' <=> n = tile /\ isLeaf
    <3>1. 1 \in Waiting(i)
      BY <1>3, <1>17, <2>3
    <3>2. Kept(i) = {} /\ ~ OnUpperBorder(i) /\ \A k \in Waiting(i) : k = 1
      BY <2>1, <3>1
    <3>3. \A k \in Waiting(i)' : k \in DOMAIN d /\ todo'[k] = d[k] /\ Pending(i, d[k])
      <4> SUFFICES ASSUME NEW k \in Waiting(i)', ~ (k \in DOMAIN d /\ todo'[k] = d[k])
                   PROVE FALSE
        BY <1>17
      <4>1. PICK l \in DOMAIN todo : l > 1 /\ l \in Nat /\ todo'[k] = todo[l]
        BY <1>13, <1>17
      <4>2. l \in Waiting(i)
        BY <1>17, <4>1
      <4> QED
        BY <3>2, <4>1, <4>2
    <3>4. \A k \in DOMAIN d : Pending(i, d[k]) => k \in Waiting(i)'
      BY <1>13, <1>17
    <3>5. Waiting(i)' # {} <=> ~ isLeaf
      BY <1>5, <2>3, <3>3, <3>4
    <3>6. \A n : n \in Kept(i)' <=> n = tile /\ isLeaf
      BY <1>18, <2>3, <3>2
    <3> QED
      BY <3>1, <3>2, <3>3, <3>4, <3>5, <3>6
  <2> QED
    BY <2>2, <2>3
<1>20. InOnePlace'
  <2> SUFFICES ASSUME NEW i \in Number
               PROVE  /\ OnUpperBorder(i) <=> Kept(i)' = {} /\ Waiting(i)' = {}
                      /\ Kept(i)' = {} \/ Waiting(i)' = {}
                      /\ \A n, m \in Kept(i)' : n = m
                      /\ \A k, l \in Waiting(i)' : k = l
    BY <1>1, SameInputs DEF InOnePlace
  <2>1. /\ OnUpperBorder(i) <=> Kept(i) = {} /\ Waiting(i) = {}
        /\ Kept(i) = {} \/ Waiting(i) = {}
        /\ \A n, m \in Kept(i) : n = m
        /\ \A k, l \in Waiting(i) : k = l
    BY DEF MergerInv, InOnePlace
  <2>2. CASE i \notin insides
    <3>1. \A k, l \in Waiting(i)' : k = l
      BY <1>19, <2>1, <2>2
    <3>2. Waiting(i)' = {} <=> Waiting(i) = {}
      BY <1>19, <2>2
    <3> QED
      BY <1>19, <2>1, <2>2, <3>1, <3>2
  <2>3. CASE i \in insides
    <3>1. \A k, l \in Waiting(i)' : k = l
      BY <1>5, <1>19, <2>3
    <3>2. Kept(i)' = {} <=> ~ isLeaf
      BY <1>19, <2>3
    <3>3. \A n, m \in Kept(i)' : n = m
      BY <1>19, <2>3
    <3> QED
      BY <1>19, <2>3, <3>1, <3>2, <3>3
  <2> QED
    BY <2>2, <2>3
<1>21. TogetherInPlace'
  <2> SUFFICES ASSUME NEW i \in Number, NEW j \in Number, i # j
               PROVE  /\ \A k \in Waiting(i)' \cap Waiting(j)' :
                            Together(i, j) <=> TogetherFrom(i, j)[todo'[k].cell.parts]
                      /\ Kept(i)' \cap Kept(j)' # {} => Together(i, j)
                      /\ Waiting(i)' \cap Waiting(j)' = {} /\ Kept(i)' \cap Kept(j)' = {}
                            => ~ Together(i, j)
    BY <1>1, SameInputs DEF TogetherInPlace
  <2>1. /\ \A k \in Waiting(i) \cap Waiting(j) :
              Together(i, j) <=> TogetherFrom(i, j)[todo[k].cell.parts]
        /\ Kept(i) \cap Kept(j) # {} => Together(i, j)
        /\ Waiting(i) \cap Waiting(j) = {} /\ Kept(i) \cap Kept(j) = {} => ~ Together(i, j)
    BY DEF MergerInv, TogetherInPlace
  <2>2. CASE i \notin insides /\ j \notin insides
    <3>1. Kept(i)' = Kept(i) /\ Kept(j)' = Kept(j)
      BY <1>19, <2>2
    <3>2. ASSUME NEW k \in Waiting(i)' \cap Waiting(j)'
          PROVE  \E l \in Waiting(i) \cap Waiting(j) : todo'[k] = todo[l]
      <4>1. PICK l \in Waiting(i) : l \in Nat /\ k = Len(d) + l - 1 /\ todo'[k] = todo[l]
        BY <1>19, <2>2
      <4>2. PICK m \in Waiting(j) : m \in Nat /\ k = Len(d) + m - 1
        BY <1>19, <2>2
      <4>3. l = m
        BY <1>13, <4>1, <4>2
      <4> QED
        BY <4>1, <4>2, <4>3
    <3>3. Waiting(i) \cap Waiting(j) # {} => Waiting(i)' \cap Waiting(j)' # {}
      BY <1>19, <2>2
    <3> QED
      BY <2>1, <3>1, <3>2, <3>3
  <2>3. CASE i \in insides /\ j \in insides
    <3>1. IsPointInside(i, call.cell) /\ IsPointInside(j, call.cell) /\ call.cell \in CellType
      BY <1>3, <2>3
    <3>2. Together(i, j) <=> TogetherFrom(i, j)[call.cell.parts]
      BY <1>3, <1>19, <2>1, <2>3
    <3>3. TogetherFrom(i, j)[call.cell.parts] <=>
             IsSmall(call.cell.parts) \/ TogetherFrom(i, j)[2 * call.cell.parts]
      BY <1>2, <3>1, TogetherInQuarters
    <3>4. isLeaf <=> IsSmall(call.cell.parts)
      <4>1. Cardinality(insides) # 1
        BY <1>4, <2>3
      <4> QED
        BY <4>1 DEF isLeaf
    <3>5. CASE isLeaf
      <4>1. Waiting(i)' = {} /\ Together(i, j)
        BY <1>19, <2>3, <3>2, <3>3, <3>4, <3>5
      <4>2. tile \in Kept(i)' \cap Kept(j)'
        BY <1>19, <2>3, <3>5
      <4> QED
        BY <4>1, <4>2
    <3>6. CASE ~ isLeaf
      <4>1. Kept(i)' = {} /\ (Together(i, j) <=> TogetherFrom(i, j)[2 * call.cell.parts])
        BY <1>19, <2>3, <3>2, <3>3, <3>4, <3>6
      <4>2. \A k \in Waiting(i)' \cap Waiting(j)' : todo'[k].cell.parts = 2 * call.cell.parts
        BY <1>5, <1>19, <2>3
      <4>3. Together(i, j) => Waiting(i)' \cap Waiting(j)' # {}
        <5>1. PICK k \in DOMAIN d : Pending(i, d[k])
          BY <1>5, <2>3, <3>6
        <5>2. Together(i, j) => Pending(j, d[k])
          BY <1>5, <2>3, <3>6, <4>1, <5>1
        <5> QED
          BY <1>19, <2>3, <5>1, <5>2
      <4> QED
        BY <4>1, <4>2, <4>3
    <3> QED
      BY <3>5, <3>6
  <2>4. CASE i \in insides /\ j \notin insides
    <3>1. Waiting(i) \cap Waiting(j) = {} /\ Kept(i) = {}
      BY <1>19, <2>4
    <3>2. Waiting(i)' \cap Waiting(j)' = {}
      <4> SUFFICES ASSUME NEW k \in Waiting(i)', k \in Waiting(j)' PROVE FALSE
        OBVIOUS
      <4>1. k \in DOMAIN d /\ todo'[k] = d[k]
        BY <1>19, <2>4
      <4>2. Pending(j, d[k])
        BY <1>17, <4>1
      <4> QED
        BY <1>5, <2>4, <4>1, <4>2
    <3>3. Kept(i)' \cap Kept(j)' = {}
      BY <1>18, <1>19, <2>4
    <3> QED
      BY <2>1, <3>1, <3>2, <3>3
  <2>5. CASE i \notin insides /\ j \in insides
    <3>1. Waiting(i) \cap Waiting(j) = {} /\ Kept(j) = {}
      BY <1>19, <2>5
    <3>2. Waiting(i)' \cap Waiting(j)' = {}
      <4> SUFFICES ASSUME NEW k \in Waiting(j)', k \in Waiting(i)' PROVE FALSE
        OBVIOUS
      <4>1. k \in DOMAIN d /\ todo'[k] = d[k]
        BY <1>19, <2>5
      <4>2. Pending(i, d[k])
        BY <1>17, <4>1
      <4> QED
        BY <1>5, <2>5, <4>1, <4>2
    <3>3. Kept(i)' \cap Kept(j)' = {}
      BY <1>18, <1>19, <2>5
    <3> QED
      BY <2>1, <3>1, <3>2, <3>3
  <2> QED
    BY <2>2, <2>3, <2>4, <2>5
<1>22. FilesOfTiles'
  BY <1>1 DEF FilesOfTiles
<1>23. InputsOffBorders'
  <2> SUFFICES ASSUME NEW n \in DOMAIN tiles', NEW i \in tiles'[n].inputs
               PROVE  ~ OnUpperBorder(i)
    BY <1>1, SameInputs DEF InputsOffBorders
  <2>1. CASE n \in DOMAIN tiles
    BY <1>9, <2>1 DEF MergerInv, InputsOffBorders
  <2>2. CASE n \notin DOMAIN tiles
    <3>1. i \in insides
      BY <1>8, <1>10, <1>11, <2>2
    <3> QED
      BY <1>3, <1>19, <3>1
  <2> QED
    BY <2>1, <2>2
<1> QED
  BY <1>12, <1>15, <1>16, <1>20, <1>21, <1>22, <1>23 DEF MergerInv

-----------------------------------------------------------------------------
(* The boxes of the tiles.  add_child goes down the tree, whose children   *)
(* come after their parents: the recursion has a solution.                 *)

TilesFacts == /\ DOMAIN tiles = 1..Len(tiles) /\ Len(tiles) \in Nat
              /\ \A n \in DOMAIN tiles : n \in Nat /\ tiles[n] \in TileType

LEMMA TilesType == MergerTypeOK => TilesFacts
<1> SUFFICES ASSUME MergerTypeOK PROVE TilesFacts
  OBVIOUS
<1>1. tiles \in Seq(TileType)
  BY DEF MergerTypeOK
<1>2. DOMAIN tiles = 1..Len(tiles) /\ Len(tiles) \in Nat
  BY <1>1, LenProperties
<1>3. \A n \in DOMAIN tiles : n \in Nat /\ tiles[n] \in TileType
  BY <1>1, <1>2, ElementOfSeq
<1> QED
  BY <1>2, <1>3 DEF TilesFacts

BoxBy(b, n) == IF tiles[n].kind = "leaf" THEN WorldBox(Content(n))
               ELSE HullOf({Moved(b[c], tiles[c].transform) : c \in tiles[n].children})
IsTileBoxes(b) == b = [n \in DOMAIN tiles |-> BoxBy(b, n)]

(* A function with the boxes of the tiles from a number on.                *)
BoxesFrom(b, n) ==
    /\ b = [m \in DOMAIN tiles |-> b[m]]
    /\ \A m \in DOMAIN tiles : n <= m => b[m] = BoxBy(b, m)

LEMMA TileBoxesExist ==
    ASSUME MergerInv
    PROVE  \E b : IsTileBoxes(b)
<1>1. /\ TilesFacts
      /\ \A n \in DOMAIN tiles : \A c \in tiles[n].children : c \in DOMAIN tiles /\ n < c
  BY TilesType DEF MergerInv, TilesAreTree
<1> DEFINE Starts == {n \in Nat : \E b : BoxesFrom(b, n)}
<1>2. Len(tiles) + 1 \in Starts
  <2>1. PICK b : b = [m \in DOMAIN tiles |-> 0]
    OBVIOUS
  <2>2. b = [m \in DOMAIN tiles |-> b[m]]
    BY <2>1
  <2>3. \A m \in DOMAIN tiles : ~ (Len(tiles) + 1 <= m)
    BY <1>1 DEF TilesFacts
  <2>4. BoxesFrom(b, Len(tiles) + 1)
    BY <2>2, <2>3 DEF BoxesFrom
  <2> QED
    BY <1>1, <2>4 DEF TilesFacts
<1>3. PICK n \in Starts : \A m \in Starts : n <= m
  <2>1. Starts \in SUBSET Nat /\ Starts # {}
    BY <1>2
  <2> HIDE DEF Starts
  <2> QED
    BY <2>1, SmallestNumber
<1>4. PICK b : BoxesFrom(b, n)
  OBVIOUS
<1>5. n \in Nat /\ n <= Len(tiles) + 1
  BY <1>2, <1>3
<1>6. CASE n <= 1
  <2>1. \A m \in DOMAIN tiles : b[m] = BoxBy(b, m)
    <3>1. \A m \in DOMAIN tiles : n <= m
      BY <1>1, <1>5, <1>6 DEF TilesFacts
    <3> QED
      BY <1>4, <3>1 DEF BoxesFrom
  <2>2. b = [m \in DOMAIN tiles |-> b[m]]
    BY <1>4 DEF BoxesFrom
  <2>3. b = [m \in DOMAIN tiles |-> BoxBy(b, m)]
    BY <2>1, <2>2, Zenon
  <2> QED
    BY <2>3 DEF IsTileBoxes
<1>7. CASE n > 1
  <2>1. PICK k \in Nat : n = k + 1 /\ k \in DOMAIN tiles
    <3>1. n - 1 \in Nat /\ n = (n - 1) + 1 /\ n - 1 \in 1..Len(tiles)
      BY <1>1, <1>5, <1>7 DEF TilesFacts
    <3> QED
      BY <1>1, <3>1 DEF TilesFacts
  <2>2. PICK g : g = [m \in DOMAIN tiles |-> IF m = k THEN BoxBy(b, k) ELSE b[m]]
    OBVIOUS
  <2>3. g = [m \in DOMAIN tiles |-> g[m]] /\ \A m \in DOMAIN tiles : m # k => g[m] = b[m]
    BY <2>2
  <2>4. ASSUME NEW m \in DOMAIN tiles, k <= m PROVE BoxBy(g, m) = BoxBy(b, m)
    <3>1. \A c \in tiles[m].children : g[c] = b[c]
      <4>1. \A c \in tiles[m].children : c \in DOMAIN tiles /\ m < c /\ c \in Nat /\ m \in Nat
        BY <1>1 DEF TilesFacts
      <4> QED
        BY <2>1, <2>3, <2>4, <4>1
    <3>2. {Moved(g[c], tiles[c].transform) : c \in tiles[m].children}
            = {Moved(b[c], tiles[c].transform) : c \in tiles[m].children}
      BY <3>1
    <3> QED
      BY <3>2 DEF BoxBy
  <2>5. ASSUME NEW m \in DOMAIN tiles, k <= m PROVE g[m] = BoxBy(g, m)
    <3>1. CASE m = k
      BY <2>1, <2>2, <2>4, <2>5, <3>1
    <3>2. CASE m # k
      <4>1. n <= m
        BY <1>1, <2>1, <2>5, <3>2 DEF TilesFacts
      <4> QED
        BY <1>4, <2>3, <2>4, <2>5, <3>2, <4>1 DEF BoxesFrom
    <3> QED
      BY <3>1, <3>2
  <2>6. BoxesFrom(g, k)
    BY <2>3, <2>5 DEF BoxesFrom
  <2>7. n <= k
    BY <1>3, <2>6
  <2> QED
    BY <2>1, <2>7
<1> QED
  BY <1>5, <1>6, <1>7

Typed(b) == /\ b.min \in Corner /\ b.max \in Corner

LEMMA MovedFacts ==
    ASSUME NEW b, Typed(b), NEW o \in Corner
    PROVE  /\ Typed(Moved(b, o))
           /\ \A a \in Axis : /\ b.min[a] \in Int /\ b.max[a] \in Int /\ o[a] \in Int
                              /\ Moved(b, o).min[a] = b.min[a] + o[a]
                              /\ Moved(b, o).max[a] = b.max[a] + o[a]
<1>1. \A a \in Axis : b.min[a] \in Int /\ b.max[a] \in Int /\ o[a] \in Int
  BY DEF Typed, Corner
<1>2. PICK v : v = Moved(b, o)
  OBVIOUS
<1>3. v.min = [a \in Axis |-> b.min[a] + o[a]] /\ v.max = [a \in Axis |-> b.max[a] + o[a]]
  BY <1>2 DEF Moved
<1>4. \A a \in Axis : b.min[a] + o[a] \in Int /\ b.max[a] + o[a] \in Int
  BY <1>1
<1>5. v.min \in Corner /\ v.max \in Corner
  BY <1>3, <1>4 DEF Corner
<1> QED
  BY <1>1, <1>2, <1>3, <1>5 DEF Typed

LEMMA ContentFacts ==
    ASSUME MergerInv, NEW n \in DOMAIN tiles
    PROVE  /\ Content(n) \in tiles[n].inputs /\ Content(n) \in Number
           /\ \A i \in tiles[n].inputs : Content(n) <= i
           /\ tiles[n].inputs \subseteq Number
<1>1. tiles[n].inputs \in SUBSET Number /\ tiles[n].inputs # {}
  <2>1. tiles[n] \in TileType
    BY TilesType DEF MergerInv, TilesFacts
  <2> QED
    BY <2>1 DEF TileType, MergerInv, TilesAreTree
<1>2. Number \subseteq Nat /\ IsFiniteSet(Number)
  BY InputFacts DEF MergerInv, MergerTypeOK
<1>3. IsFiniteSet(tiles[n].inputs) /\ tiles[n].inputs \in SUBSET Int
  <2>1. \A i \in tiles[n].inputs : i \in Int
    BY <1>1, <1>2
  <2> QED
    BY <1>1, <1>2, <2>1, FS_Subset
<1>4. Min(tiles[n].inputs) \in tiles[n].inputs
      /\ \A i \in tiles[n].inputs : Min(tiles[n].inputs) <= i
  BY <1>1, <1>3, MinMax
<1> QED
  BY <1>1, <1>4 DEF Content

LEMMA TileBoxesFacts ==
    ASSUME MergerInv, stage = "merging", todo = <<>>
    PROVE  /\ \A n \in DOMAIN tiles : Typed(TileBoxes[n])
           /\ \A n \in Leaves : TileBoxes[n] = WorldBox(Content(n))
           /\ \A n \in DOMAIN tiles \ Leaves : \A c \in tiles[n].children :
                 Encloses(TileBoxes[n], Moved(TileBoxes[c], tiles[c].transform))
<1>1. PICK b : b = TileBoxes
  OBVIOUS
<1>2. b = CHOOSE f : IsTileBoxes(f)
  BY <1>1 DEF TileBoxes, IsTileBoxes, BoxBy
<1>3. IsTileBoxes(b)
  BY <1>2, TileBoxesExist
<1>4. \A n \in DOMAIN tiles : b[n] = BoxBy(b, n)
  BY <1>3 DEF IsTileBoxes
<1>5. /\ TilesFacts /\ DOMAIN todo = {} /\ tilesets \in Inputs
      /\ \A n \in DOMAIN tiles :
            /\ \A c \in tiles[n].children : c \in DOMAIN tiles /\ n < c
            /\ n \notin Leaves => tiles[n].children # {}
  <2>1. TilesFacts /\ DOMAIN todo = {} /\ tilesets \in Inputs
    BY TilesType DEF MergerInv, MergerTypeOK
  <2>2. \A n \in DOMAIN tiles : n \notin Leaves => tiles[n].kind = "inner"
    BY <2>1 DEF TilesFacts, TileType, Leaves
  <2> QED
    BY <2>1, <2>2 DEF MergerInv, TilesAreTree
<1>6. \A n \in Leaves : b[n] = WorldBox(Content(n)) /\ Typed(b[n])
  <2> SUFFICES ASSUME NEW n \in Leaves PROVE b[n] = WorldBox(Content(n)) /\ Typed(b[n])
    OBVIOUS
  <2>1. n \in DOMAIN tiles /\ tiles[n].kind = "leaf"
    BY DEF Leaves
  <2>2. b[n] = WorldBox(Content(n))
    BY <1>4, <2>1 DEF BoxBy
  <2> QED
    BY <1>5, <2>1, <2>2, ContentFacts, InputFacts DEF Typed
<1>7. ASSUME NEW n \in DOMAIN tiles \ Leaves, \A c \in tiles[n].children : Typed(b[c])
      PROVE  /\ Typed(b[n])
             /\ \A c \in tiles[n].children : Encloses(b[n], Moved(b[c], tiles[c].transform))
  <2> DEFINE K == tiles[n].children
             f == [c \in K |-> Moved(b[c], tiles[c].transform)]
             all == {Moved(b[c], tiles[c].transform) : c \in K}
  <2>1. K # {} /\ K \subseteq DOMAIN tiles /\ tiles[n].kind # "leaf"
    BY <1>5 DEF Leaves
  <2>2. IsFiniteSet(K)
    <3> HIDE DEF K
    <3>1. DOMAIN tiles = 1..Len(tiles) /\ 1 \in Int /\ Len(tiles) \in Int
      BY <1>5 DEF TilesFacts
    <3>2. IsFiniteSet(DOMAIN tiles)
      BY <3>1, FS_Interval
    <3> QED
      BY <2>1, <3>2, FS_Subset
  <2>3. b[n] = HullOf(all)
    BY <1>4, <2>1 DEF BoxBy
  <2>4. f \in Surjection(K, all)
    BY DEF Surjection
  <2>5. all # {}
    BY <2>1
  <2>6. \A c \in K : Typed(Moved(b[c], tiles[c].transform))
    <3> TAKE c \in K
    <3>1. tiles[c].transform \in Corner
      BY <1>5, <2>1 DEF TilesFacts, TileType
    <3> QED
      BY <1>7, <3>1, MovedFacts
  <2>7. \A v \in all : \A a \in Axis : v.min[a] \in Int /\ v.max[a] \in Int
    BY <2>6 DEF Typed, Corner
  <2>8. \A c \in K : Moved(b[c], tiles[c].transform) \in all
    OBVIOUS
  <2> HIDE DEF f, all
  <2>9. IsFiniteSet(all)
    BY <2>2, <2>4, FS_Surjection
  <2>10. /\ HullOf(all).min \in Corner /\ HullOf(all).max \in Corner
         /\ \A a \in Axis : \A v \in all : HullOf(all).min[a] <= v.min[a]
                                          /\ v.max[a] <= HullOf(all).max[a]
    BY <2>5, <2>7, <2>9, HullFacts
  <2> QED
    BY <2>3, <2>8, <2>10 DEF Typed, Encloses
<1>8. \A n \in DOMAIN tiles : Typed(b[n])
  <2> DEFINE Wrong == {n \in DOMAIN tiles : ~ Typed(b[n])}
  <2>1. SUFFICES ASSUME Wrong # {} PROVE FALSE
    OBVIOUS
  <2>2. PICK n \in Wrong : \A m \in Wrong : m <= n
    <3>1. Wrong \in SUBSET (1..Len(tiles)) /\ IsFiniteSet(1..Len(tiles))
          /\ \A m \in Wrong : m \in Int
      BY <1>5, FS_Interval DEF TilesFacts
    <3> HIDE DEF Wrong
    <3>2. IsFiniteSet(Wrong) /\ Wrong \in SUBSET Int
      BY <3>1, FS_Subset
    <3> QED
      BY <2>1, <3>2, MinMax
  <2>3. n \in DOMAIN tiles \ Leaves
    BY <1>6
  <2>4. \A c \in tiles[n].children : c \in DOMAIN tiles /\ ~ (c <= n)
    <3>1. \A c \in tiles[n].children : c \in DOMAIN tiles /\ n < c /\ n \in Nat /\ c \in Nat
      BY <1>5, <2>3 DEF TilesFacts
    <3> QED
      BY <3>1
  <2>5. \A c \in tiles[n].children : Typed(b[c])
    BY <2>2, <2>4
  <2> QED
    BY <1>7, <2>3, <2>5
<1>9. \A n \in DOMAIN tiles \ Leaves : \A c \in tiles[n].children :
         Encloses(b[n], Moved(b[c], tiles[c].transform))
  BY <1>5, <1>7, <1>8
<1> QED
  BY <1>1, <1>6, <1>8, <1>9

-----------------------------------------------------------------------------
(* The other steps                                                         *)

(* A tree whose root is a leaf is this leaf.                               *)
LEMMA RootLeaf ==
    ASSUME MergerInv, 1 \in Leaves, NEW n \in DOMAIN tiles
    PROVE  n = 1
<1>1. /\ TilesFacts /\ tiles[1].children = {}
      /\ \A m \in DOMAIN tiles : /\ m # 1 => \E k \in DOMAIN tiles : m \in tiles[k].children
                                 /\ \A c \in tiles[m].children : m < c
  BY TilesType DEF MergerInv, TilesAreTree, Leaves
<1> DEFINE Others == DOMAIN tiles \ {1}
<1>2. SUFFICES ASSUME Others # {} PROVE FALSE
  OBVIOUS
<1>3. PICK m \in Others : \A k \in Others : m <= k
  <2>1. Others \in SUBSET Nat
    BY <1>1 DEF TilesFacts
  <2> HIDE DEF Others
  <2> QED
    BY <1>2, <2>1, SmallestNumber
<1>4. PICK k \in DOMAIN tiles : m \in tiles[k].children
  BY <1>1
<1>5. k < m /\ k \in Nat /\ m \in Nat
  BY <1>1, <1>4 DEF TilesFacts
<1>6. k = 1
  BY <1>3, <1>5
<1> QED
  BY <1>1, <1>4, <1>6

(* What changes the transforms alone keeps the tree and where the inputs   *)
(* are.                                                                    *)
SameTree ==
    /\ tilesets' = tilesets /\ todo' = todo /\ DOMAIN tiles' = DOMAIN tiles
    /\ tiles' = <<>> <=> tiles = <<>>
    /\ \A n \in DOMAIN tiles :
          /\ tiles'[n].kind = tiles[n].kind /\ tiles'[n].inputs = tiles[n].inputs
          /\ tiles'[n].children = tiles[n].children

LEMMA TreeKept ==
    ASSUME MergerInv, SameTree
    PROVE  /\ TilesAreTree' /\ InOnePlace' /\ InputsOffBorders' /\ TogetherInPlace'
           /\ Leaves' = Leaves
           /\ \A n \in DOMAIN tiles : Content(n)' = Content(n)
<1>1. /\ tilesets' = tilesets /\ todo' = todo /\ DOMAIN tiles' = DOMAIN tiles
      /\ tiles' = <<>> <=> tiles = <<>>
      /\ \A n \in DOMAIN tiles :
            /\ tiles'[n].kind = tiles[n].kind /\ tiles'[n].inputs = tiles[n].inputs
            /\ tiles'[n].children = tiles[n].children
  BY DEF SameTree
<1>2. Number' = Number /\ \A i, c : Pending(i, c)' <=> Pending(i, c)
  BY <1>1, SameInputs
<1>3. Leaves' = Leaves
  BY <1>1 DEF Leaves
<1>4. \A n \in DOMAIN tiles : Content(n)' = Content(n)
  BY <1>1 DEF Content
<1>5. TilesAreTree'
  <2>1. \A n \in DOMAIN tiles : 1 \in DOMAIN tiles
    <3>1. DOMAIN tiles = 1..Len(tiles) /\ Len(tiles) \in Nat
      BY TilesType DEF MergerInv, TilesFacts
    <3> QED
      BY <3>1
  <2>2. tiles # <<>> => 1 \in DOMAIN tiles
    <3>1. tiles \in Seq(TileType) /\ DOMAIN tiles = 1..Len(tiles) /\ Len(tiles) \in Nat
      BY TilesType DEF MergerInv, MergerTypeOK, TilesFacts
    <3> QED
      BY <3>1, EmptySeq
  <2>3. ASSUME NEW n \in DOMAIN tiles
        PROVE  /\ n # 1 => \E m \in DOMAIN tiles : n \in tiles'[m].children
               /\ \A c \in tiles'[n].children : c \in DOMAIN tiles /\ n < c
               /\ tiles'[n].inputs # {} /\ tiles'[n].inputs \subseteq tiles'[1].inputs
               /\ tiles'[n].kind = "leaf" => tiles'[n].children = {}
               /\ tiles'[n].kind = "inner" =>
                     \/ tiles'[n].children # {}
                     \/ \E k \in DOMAIN todo :
                           todo[k].parent = n /\ \E i \in Number : Pending(i, todo[k])
    BY <1>1, <2>1 DEF MergerInv, TilesAreTree
  <2>4. ASSUME NEW k \in DOMAIN todo
        PROVE  IF tiles' = <<>> THEN k = 1
               ELSE /\ todo[k].parent \in DOMAIN tiles
                    /\ tiles'[todo[k].parent].kind = "inner"
                    /\ todo[k].candidates \subseteq tiles'[1].inputs
    BY <1>1, <2>2 DEF MergerInv, TilesAreTree
  <2> QED
    BY <1>1, <1>2, <2>3, <2>4 DEF TilesAreTree
<1>6. \A i : Kept(i)' = Kept(i)
  <2> TAKE i
  <2>1. \A n : n \in Kept(i)' <=> n \in Kept(i)
    BY <1>1, <1>3 DEF Kept, Leaves
  <2> QED
    BY <2>1
<1>7. \A i : Waiting(i)' = Waiting(i)
  BY <1>1, <1>2 DEF Waiting
<1>8. InOnePlace'
  BY <1>1, <1>6, <1>7, SameInputs DEF MergerInv, InOnePlace
<1>9. TogetherInPlace'
  BY <1>1, <1>6, <1>7, SameInputs DEF MergerInv, TogetherInPlace
<1>10. InputsOffBorders'
  BY <1>1, SameInputs DEF MergerInv, InputsOffBorders
<1> QED
  BY <1>3, <1>4, <1>5, <1>8, <1>9, <1>10

LEMMA MergeKeeps ==
    ASSUME MergerInv, MergeWithPntsContent
    PROVE  MergerInv'
<1>1. /\ tilesets' = tilesets /\ todo' = todo /\ sample' = sample
      /\ stage = "merging" /\ todo = <<>>
      /\ IF tiles = <<>>
         THEN stage' = "raised" /\ tiles' = tiles
         ELSE /\ stage' = "writing" /\ boxes' = TileBoxes
              /\ tiles' = [tiles EXCEPT ![1].transform = BaseTransform]
              /\ unwritten' = {n \in DOMAIN tiles : tiles[n].kind = "inner"}
  BY DEF MergeWithPntsContent
<1>2. /\ tilesets \in Inputs /\ todo \in Seq(Calls) /\ tiles \in Seq(TileType)
      /\ TilesFacts
  BY TilesType DEF MergerInv, MergerTypeOK
<1>3. tiles # <<>> => 1 \in DOMAIN tiles
  BY <1>2, EmptySeq DEF TilesFacts
<1>4. \A n \in DOMAIN tiles :
         tiles[n].transform = IF tiles[n].kind = "leaf" THEN Minus(BaseTransform) ELSE Zero
  BY <1>1 DEF MergerInv, TransformsOfKinds
<1>5. BaseTransform \in Corner
  BY <1>2, InputFacts
<1>6. /\ Number' = Number /\ BaseTransform' = BaseTransform /\ Calls' = Calls
      /\ TileType' = TileType /\ \A i : WorldBox(i)' = WorldBox(i)
  BY <1>1, SameInputs
<1>7. CASE tiles = <<>>
  <2>1. SameTree
    BY <1>1, <1>7 DEF SameTree
  <2>2. MergerTypeOK'
    BY <1>1, <1>2, <1>6, <1>7 DEF MergerTypeOK
  <2>3. TransformsOfKinds'
    <3>1. DOMAIN tiles' = {}
      BY <1>1, <1>7
    <3> QED
      BY <3>1 DEF TransformsOfKinds
  <2>4. FilesOfTiles'
    BY <1>1, <1>7 DEF FilesOfTiles
  <2> QED
    BY <2>1, <2>2, <2>3, <2>4, TreeKept DEF MergerInv
<1>8. CASE tiles # <<>>
  <2>1. ASSUME NEW n \in DOMAIN tiles
        PROVE  /\ tiles'[n] \in TileType
               /\ tiles'[n].kind = tiles[n].kind /\ tiles'[n].inputs = tiles[n].inputs
               /\ tiles'[n].children = tiles[n].children
               /\ tiles'[n].transform = IF n = 1 THEN BaseTransform ELSE tiles[n].transform
    <3>0. tiles[n] \in TileType
      BY <1>2 DEF TilesFacts
    <3>1. CASE n = 1
      <4>1. tiles'[n] = [tiles[n] EXCEPT !.transform = BaseTransform]
        BY <1>1, <1>8, <3>1
      <4> QED
        BY <1>5, <3>0, <3>1, <4>1 DEF TileType
    <3>2. CASE n # 1
      <4>1. tiles'[n] = tiles[n]
        BY <1>1, <1>8, <3>2
      <4> QED
        BY <3>0, <3>2, <4>1
    <3> QED
      BY <3>1, <3>2
  <2>2. DOMAIN tiles' = DOMAIN tiles /\ tiles' = [n \in DOMAIN tiles |-> tiles'[n]]
    BY <1>1, <1>8
  <2>3. tiles' # <<>>
    BY <1>3, <1>8, <2>2
  <2>4. SameTree
    BY <1>1, <1>8, <2>1, <2>2, <2>3 DEF SameTree
  <2>5. MergerTypeOK'
    <3>1. tiles' \in [DOMAIN tiles -> TileType]
      BY <2>1, <2>2
    <3>2. tiles' \in Seq(TileType)
      BY <1>2, <3>1, SeqDef DEF TilesFacts
    <3> QED
      BY <1>1, <1>2, <1>6, <1>8, <3>2 DEF MergerTypeOK
  <2>6. TransformsOfKinds'
    <3>1. Minus(BaseTransform)' = Minus(BaseTransform) /\ Zero' = Zero
      BY <1>6 DEF Minus, Zero
    <3>2. stage' # "merging"
      BY <1>1, <1>8
    <3>3. \A n \in DOMAIN tiles' :
            tiles'[n].transform = IF n = 1 THEN BaseTransform
                                  ELSE IF tiles'[n].kind = "leaf" THEN Minus(BaseTransform)
                                  ELSE Zero
      BY <1>4, <2>1, <2>2
    <3> QED
      BY <1>6, <3>1, <3>2, <3>3 DEF TransformsOfKinds
  <2>7. BoxesOfTiles'
    <3>1. PICK b : b = TileBoxes
      OBVIOUS
    <3>2. boxes' = b
      BY <1>1, <1>8, <3>1
    <3>3. /\ \A n \in DOMAIN tiles : b[n].min \in Corner /\ b[n].max \in Corner
          /\ \A n \in Leaves : b[n] = WorldBox(Content(n))
          /\ \A n \in DOMAIN tiles \ Leaves : \A c \in tiles[n].children :
                Encloses(b[n], Moved(b[c], tiles[c].transform))
      BY <1>1, <3>1, TileBoxesFacts DEF Typed
    <3>4. Leaves' = Leaves /\ (\A n \in Leaves : n \in DOMAIN tiles)
          /\ \A n \in DOMAIN tiles : Content(n)' = Content(n)
      BY <2>4, TreeKept DEF Leaves
    <3>5. \A n \in Leaves : boxes'[n] = WorldBox(Content(n))'
      <4> TAKE n \in Leaves
      <4>1. WorldBox(Content(n))' = WorldBox(Content(n))
        BY <1>1, <3>4 DEF WorldBox
      <4> QED
        BY <3>2, <3>3, <4>1
    <3>6. ASSUME NEW n \in DOMAIN tiles \ Leaves, NEW c \in tiles'[n].children
          PROVE  Encloses(boxes'[n], Moved(boxes'[c], tiles'[c].transform))
      <4>1. c \in tiles[n].children /\ c \in DOMAIN tiles /\ n < c /\ n >= 1 /\ n \in Nat /\ c \in Nat
        BY <1>2, <2>1, <3>6 DEF MergerInv, TilesAreTree, TilesFacts
      <4>2. c # 1
        BY <4>1
      <4>3. tiles'[c].transform = tiles[c].transform
        BY <2>1, <4>1, <4>2
      <4> QED
        BY <3>2, <3>3, <4>1, <4>3
    <3> QED
      BY <2>2, <3>2, <3>3, <3>4, <3>5, <3>6 DEF BoxesOfTiles
  <2>8. FilesOfTiles'
    <3>1. \A n : n \in unwritten' <=> n \in DOMAIN tiles \ Leaves
      BY <1>1, <1>2, <1>8 DEF Leaves, TilesFacts, TileType
    <3>2. unwritten' # {} => 1 \in unwritten'
      <4> SUFFICES ASSUME NEW n \in unwritten', 1 \notin unwritten' PROVE FALSE
        OBVIOUS
      <4>1. 1 \in Leaves
        BY <1>3, <1>8, <3>1
      <4> QED
        BY <3>1, <4>1, RootLeaf
    <3>3. unwritten' = {} => 1 \in Leaves
      BY <1>3, <1>8, <3>1
    <3>4. Leaves' = Leaves
      BY <2>4, TreeKept
    <3> QED
      BY <1>1, <1>8, <2>2, <2>3, <2>7, <3>1, <3>2, <3>3, <3>4 DEF FilesOfTiles
  <2> QED
    BY <2>4, <2>5, <2>6, <2>8, TreeKept DEF MergerInv
<1> QED
  BY <1>7, <1>8

LEMMA SameBoxes ==
    ASSUME tilesets' = tilesets, tiles' = tiles, boxes' = boxes, BoxesOfTiles
    PROVE  BoxesOfTiles'
BY DEF BoxesOfTiles, WorldBox, Content, Leaves, Encloses, Moved, Corner, Axis

LEMMA NextToWriteFacts ==
    ASSUME MergerInv, stage = "writing", unwritten # {}
    PROVE  /\ NextToWrite \in unwritten
           /\ NextToWrite = 1 => unwritten \ {NextToWrite} = {}
           /\ unwritten \ {NextToWrite} # {} => 1 \in unwritten \ {NextToWrite}
<1>1. 1 \in unwritten /\ unwritten \subseteq DOMAIN tiles /\ TilesFacts
  BY TilesType DEF MergerInv, FilesOfTiles
<1>2. CASE unwritten = {1}
  BY <1>2 DEF NextToWrite
<1>3. CASE unwritten # {1}
  <2> DEFINE others == unwritten \ {1}
  <2>1. others # {} /\ \A n \in others : n \in Int
    BY <1>1, <1>3 DEF TilesFacts
  <2>2. IsFiniteSet(others)
    <3>1. DOMAIN tiles = 1..Len(tiles) /\ 1 \in Int /\ Len(tiles) \in Int
      BY <1>1 DEF TilesFacts
    <3>2. IsFiniteSet(DOMAIN tiles) /\ others \in SUBSET DOMAIN tiles
      BY <1>1, <3>1, FS_Interval
    <3> HIDE DEF others
    <3> QED
      BY <3>2, FS_Subset
  <2>3. NextToWrite = Min(others)
    BY <1>3 DEF NextToWrite
  <2> HIDE DEF others
  <2>4. Min(others) \in others
    <3>1. others \in SUBSET Int
      BY <2>1
    <3> QED
      BY <2>1, <2>2, <3>1, MinMax
  <2> QED
    BY <1>1, <2>3, <2>4 DEF others
<1> QED
  BY <1>2, <1>3

LEMMA MergerStep == MergerInv /\ [Next]_vars => MergerInv'
<1> SUFFICES ASSUME MergerInv, [Next]_vars PROVE MergerInv'
  OBVIOUS
<1>1. CASE BuildTilesetQuadtree
  BY <1>1, BuildKeeps
<1>2. CASE MergeWithPntsContent
  BY <1>2, MergeKeeps
<1>3. ASSUME tilesets' = tilesets, todo' = todo, tiles' = tiles,
             stage' \in {"merging", "writing", "done", "raised"},
             stage' = "merging" <=> stage = "merging"
      PROVE  /\ MergerTypeOK' /\ TilesAreTree' /\ TransformsOfKinds' /\ InOnePlace'
             /\ InputsOffBorders' /\ TogetherInPlace'
  <2>1. SameTree
    BY <1>3 DEF SameTree
  <2>2. MergerTypeOK'
    BY <1>3, SameInputs DEF MergerInv, MergerTypeOK
  <2>3. TransformsOfKinds'
    BY <1>3 DEF MergerInv, TransformsOfKinds, BaseTransform, Minus, Zero
  <2> QED
    BY <2>1, <2>2, <2>3, TreeKept
<1>4. CASE WriteContent
  <2>1. /\ tilesets' = tilesets /\ todo' = todo /\ tiles' = tiles /\ boxes' = boxes
        /\ stage = "writing" /\ stage' = "writing" /\ unwritten # {}
        /\ sample' = tiles[NextToWrite].inputs
        /\ unwritten' = unwritten \ {NextToWrite}
    BY <1>4 DEF WriteContent
  <2>2. /\ todo = <<>> /\ tiles # <<>> /\ BoxesOfTiles
        /\ unwritten \subseteq DOMAIN tiles \ Leaves /\ 1 \in unwritten
    BY <2>1 DEF MergerInv, FilesOfTiles
  <2>3. BoxesOfTiles' /\ Leaves' = Leaves
    BY <2>1, <2>2, SameBoxes DEF Leaves
  <2>4. unwritten' = {} => sample' = tiles[1].inputs
    BY <2>1, <2>2, NextToWriteFacts
  <2>5. unwritten' # {} => 1 \in unwritten'
    BY <2>1, NextToWriteFacts
  <2>6. FilesOfTiles'
    BY <2>1, <2>2, <2>3, <2>4, <2>5 DEF FilesOfTiles
  <2> QED
    BY <1>3, <2>1, <2>6 DEF MergerInv
<1>5. CASE EndWriting
  <2>1. /\ tilesets' = tilesets /\ todo' = todo /\ tiles' = tiles /\ boxes' = boxes
        /\ stage = "writing" /\ stage' = "done" /\ unwritten = {}
        /\ sample' = sample /\ unwritten' = unwritten
    BY <1>5 DEF EndWriting
  <2>2. /\ todo = <<>> /\ tiles # <<>> /\ BoxesOfTiles
        /\ 1 \notin Leaves => sample = tiles[1].inputs
    BY <2>1 DEF MergerInv, FilesOfTiles
  <2>3. BoxesOfTiles' /\ Leaves' = Leaves
    BY <2>1, <2>2, SameBoxes DEF Leaves
  <2>4. FilesOfTiles'
    BY <2>1, <2>2, <2>3 DEF FilesOfTiles
  <2> QED
    BY <1>3, <2>1, <2>4 DEF MergerInv
<1>6. CASE UNCHANGED vars
  <2>1. /\ tilesets' = tilesets /\ todo' = todo /\ tiles' = tiles /\ boxes' = boxes
        /\ stage' = stage /\ sample' = sample /\ unwritten' = unwritten
    BY <1>6 DEF vars
  <2>2. stage' \in {"merging", "writing", "done", "raised"}
    BY <2>1 DEF MergerInv, MergerTypeOK
  <2>3. BoxesOfTiles => BoxesOfTiles'
    BY <2>1, SameBoxes
  <2>4. Leaves' = Leaves
    BY <2>1 DEF Leaves
  <2>5. FilesOfTiles'
    BY <2>1, <2>3, <2>4 DEF MergerInv, FilesOfTiles
  <2> QED
    BY <1>3, <2>1, <2>2, <2>5 DEF MergerInv
<1> QED
  BY <1>1, <1>2, <1>4, <1>5, <1>6 DEF Next

LEMMA MergerInvariant == Spec => []MergerInv
BY MergerInitial, MergerStep, PTL DEF Spec

(* However many tile sets are merged and wherever they are, every input    *)
(* that the root tile takes is an input of exactly one leaf.               *)
THEOREM MergerOneLeafEach == Spec => []OneLeafEach
<1>1. MergerInv => OneLeafEach
  <2> SUFFICES ASSUME MergerInv, stage \in {"writing", "done"}, NEW i \in tiles[1].inputs
               PROVE  Cardinality({n \in Leaves : i \in tiles[n].inputs}) = 1
    BY DEF OneLeafEach
  <2>1. todo = <<>> /\ tiles # <<>> /\ TilesFacts
    BY TilesType DEF MergerInv, FilesOfTiles
  <2>2. 1 \in DOMAIN tiles
    <3>1. tiles \in Seq(TileType) /\ DOMAIN tiles = 1..Len(tiles) /\ Len(tiles) \in Nat
      BY <2>1 DEF MergerInv, MergerTypeOK, TilesFacts
    <3> QED
      BY <2>1, <3>1, EmptySeq
  <2>3. i \in Number /\ ~ OnUpperBorder(i)
    BY <2>1, <2>2 DEF TilesFacts, TileType, MergerInv, InputsOffBorders
  <2>4. Waiting(i) = {}
    BY <2>1 DEF Waiting
  <2>5. Kept(i) # {} /\ \A n, m \in Kept(i) : n = m
    BY <2>3, <2>4 DEF MergerInv, InOnePlace
  <2>6. PICK n : Kept(i) = {n}
    BY <2>5
  <2> QED
    BY <2>6, FS_Singleton DEF Kept
<1> QED
  BY <1>1, MergerInvariant, PTL

(* Every input is the content of one tile of the result, but those on an   *)
(* upper border of the whole box and those that are together with an       *)
(* earlier one, which are in none; the merge raises only when all are on a *)
(* border.                                                                 *)
THEOREM MergerInputsLost == Spec => []InputsLost
<1>1. MergerInv => InputsLost
  <2> SUFFICES ASSUME MergerInv PROVE InputsLost
    OBVIOUS
  <2>1. ASSUME stage \in {"writing", "done"}, NEW i \in Number
        PROVE  Cardinality({n \in Leaves : Content(n) = i}) =
                  IF OnUpperBorder(i) \/ \E j \in 1..(i - 1) : Together(i, j) THEN 0 ELSE 1
    <3> DEFINE Of == {n \in Leaves : Content(n) = i}
    <3>1. todo = <<>> /\ \A j : Waiting(j) = {}
      <4>1. todo = <<>>
        BY <2>1 DEF MergerInv, FilesOfTiles
      <4> QED
        BY <4>1 DEF Waiting
    <3>2. Number = 1..Len(tilesets) /\ Len(tilesets) \in Nat
      BY InputFacts DEF MergerInv, MergerTypeOK
    <3>3. /\ OnUpperBorder(i) <=> Kept(i) = {}
          /\ \A n, m \in Kept(i) : n = m
      BY <3>1 DEF MergerInv, InOnePlace
    <3>4. \A j \in Number : j # i => (Together(i, j) <=> Kept(i) \cap Kept(j) # {})
      BY <3>1 DEF MergerInv, TogetherInPlace
    <3>5. \A n \in Leaves : /\ n \in DOMAIN tiles /\ Content(n) \in tiles[n].inputs
                            /\ Content(n) \in Number /\ n \in Kept(Content(n))
                            /\ \A j \in tiles[n].inputs : Content(n) <= j /\ j \in Number
      BY ContentFacts DEF Leaves, Kept
    <3>6. Of \subseteq Kept(i)
      BY <3>5
    <3>7. CASE OnUpperBorder(i)
      <4>1. Of = {}
        BY <3>3, <3>6, <3>7
      <4> QED
        BY <3>7, <4>1, FS_EmptySet
    <3>8. ASSUME NEW j \in 1..(i - 1), Together(i, j) PROVE Of = {}
      <4>1. j \in Number /\ j # i /\ j < i /\ i \in Nat /\ j \in Nat
        BY <3>2, <3>8
      <4>2. PICK n : n \in Kept(i) /\ n \in Kept(j)
        BY <3>4, <3>8, <4>1
      <4>3. Of \subseteq {n}
        BY <3>3, <3>6, <4>2
      <4>4. n \in Leaves /\ j \in tiles[n].inputs
        BY <4>2 DEF Kept
      <4>5. Content(n) # i
        BY <3>2, <3>5, <4>1, <4>4
      <4> QED
        BY <4>3, <4>5
    <3>9. CASE \E j \in 1..(i - 1) : Together(i, j)
      <4>1. Of = {}
        BY <3>8, <3>9
      <4> QED
        BY <3>9, <4>1, FS_EmptySet
    <3>10. CASE ~ OnUpperBorder(i) /\ ~ \E j \in 1..(i - 1) : Together(i, j)
      <4>1. PICK n : n \in Kept(i)
        BY <3>3, <3>10
      <4>2. n \in Leaves /\ i \in tiles[n].inputs
        BY <4>1 DEF Kept
      <4>3. Content(n) = i
        <5>1. PICK j : j = Content(n)
          OBVIOUS
        <5>2. j \in Number /\ n \in Kept(j) /\ j <= i
          BY <3>5, <4>2, <5>1
        <5>3. CASE j = i
          BY <5>1, <5>3
        <5>4. CASE j # i
          <6>1. Together(i, j)
            BY <3>4, <4>1, <5>2, <5>4
          <6>2. j \in 1..(i - 1)
            BY <3>2, <5>2, <5>4
          <6> QED
            BY <3>10, <6>1, <6>2
        <5> QED
          BY <5>3, <5>4
      <4>4. Of = {n}
        BY <3>3, <3>6, <4>1, <4>2, <4>3
      <4> QED
        BY <3>10, <4>4, FS_Singleton
    <3> QED
      BY <3>7, <3>9, <3>10
  <2>2. ASSUME stage = "raised", NEW i \in Number
        PROVE  OnUpperBorder(i)
    <3>1. todo = <<>> /\ tiles = <<>>
      BY <2>2 DEF MergerInv, FilesOfTiles
    <3>2. Kept(i) = {} /\ Waiting(i) = {}
      BY <3>1 DEF Kept, Waiting, Leaves
    <3> QED
      BY <3>2 DEF MergerInv, InOnePlace
  <2> QED
    BY <2>1, <2>2 DEF InputsLost
<1> QED
  BY <1>1, MergerInvariant, PTL

-----------------------------------------------------------------------------
(* Where the tiles are                                                     *)

IsOffset(f) ==
    f = [n \in DOMAIN tiles |->
            IF n = 1 THEN tiles[n].transform
            ELSE [a \in Axis |-> f[Parent(n)][a] + tiles[n].transform[a]]]

(* What the sums of the transforms come to.                                *)
Place(n) == IF n \in Leaves /\ n # 1 THEN Zero ELSE BaseTransform

LEMMA ParentFacts ==
    ASSUME MergerInv, NEW n \in DOMAIN tiles, n # 1
    PROVE  Parent(n) \in DOMAIN tiles \ Leaves /\ Parent(n) < n /\ Parent(n) \in Nat /\ n \in Nat
<1>1. /\ TilesFacts /\ \E m \in DOMAIN tiles : n \in tiles[m].children
      /\ \A m \in DOMAIN tiles : /\ \A c \in tiles[m].children : m < c
                                 /\ tiles[m].kind = "leaf" => tiles[m].children = {}
  BY TilesType DEF MergerInv, TilesAreTree
<1>2. Parent(n) \in DOMAIN tiles /\ n \in tiles[Parent(n)].children
  BY <1>1 DEF Parent
<1>3. PICK p \in DOMAIN tiles : p = Parent(n) /\ n \in tiles[p].children
  BY <1>2
<1>4. p < n /\ (tiles[p].kind = "leaf" => tiles[p].children = {})
  BY <1>1, <1>3
<1>5. p \in Nat /\ n \in Nat
  BY <1>1 DEF TilesFacts
<1>6. p \in DOMAIN tiles \ Leaves
  BY <1>3, <1>4 DEF Leaves
<1> QED
  BY <1>3, <1>4, <1>5, <1>6

LEMMA PlaceFacts ==
    ASSUME MergerInv, stage # "merging", NEW n \in DOMAIN tiles
    PROVE  /\ BaseTransform \in Corner
           /\ n = 1 => tiles[n].transform = Place(n)
           /\ n # 1 => [a \in Axis |-> BaseTransform[a] + tiles[n].transform[a]] = Place(n)
           /\ n # 1 => tiles[n].transform =
                          IF n \in Leaves THEN Minus(BaseTransform) ELSE Zero
<1>1. BaseTransform \in Corner
  BY InputFacts DEF MergerInv, MergerTypeOK
<1>2. tiles[n].transform = IF n = 1 THEN BaseTransform
                           ELSE IF n \in Leaves THEN Minus(BaseTransform) ELSE Zero
  BY DEF MergerInv, TransformsOfKinds, Leaves
<1>3. PICK base : base = BaseTransform
  OBVIOUS
<1>4. base = [a \in Axis |-> base[a]] /\ \A a \in Axis : base[a] \in Int
  BY <1>1, <1>3 DEF Corner
<1>5. \A a \in Axis : base[a] + (- base[a]) = 0 /\ base[a] + 0 = base[a]
  BY <1>4
<1>6. \A a \in Axis : Minus(base)[a] = - base[a] /\ Zero[a] = 0
  BY DEF Minus, Zero
<1>7. [a \in Axis |-> base[a] + Minus(base)[a]] = Zero
  BY <1>5, <1>6 DEF Zero
<1>8. [a \in Axis |-> base[a] + Zero[a]] = base
  BY <1>4, <1>5, <1>6
<1> QED
  BY <1>1, <1>2, <1>3, <1>7, <1>8 DEF Place

LEMMA OffsetIs ==
    ASSUME MergerInv, stage # "merging", NEW n \in DOMAIN tiles
    PROVE  Offset[n] = Place(n)
<1>1. \E f : IsOffset(f)
  <2>1. PICK f : f = [m \in DOMAIN tiles |-> Place(m)]
    OBVIOUS
  <2>2. f = [m \in DOMAIN tiles |-> f[m]] /\ \A m \in DOMAIN tiles : f[m] = Place(m)
    BY <2>1
  <2>3. ASSUME NEW m \in DOMAIN tiles
        PROVE  f[m] = IF m = 1 THEN tiles[m].transform
                      ELSE [a \in Axis |-> f[Parent(m)][a] + tiles[m].transform[a]]
    <3>1. m # 1 => f[Parent(m)] = BaseTransform
      BY <2>2, ParentFacts DEF Place
    <3> QED
      BY <2>2, <3>1, PlaceFacts
  <2>4. IsOffset(f)
    BY <2>2, <2>3 DEF IsOffset
  <2> QED
    BY <2>4
<1>2. PICK f : f = Offset
  OBVIOUS
<1>3. f = CHOOSE g : IsOffset(g)
  BY <1>2 DEF Offset, IsOffset
<1>4. IsOffset(f)
  BY <1>1, <1>3
<1>5. \A m \in DOMAIN tiles :
        f[m] = IF m = 1 THEN tiles[m].transform
               ELSE [a \in Axis |-> f[Parent(m)][a] + tiles[m].transform[a]]
  BY <1>4 DEF IsOffset
<1> DEFINE Wrong == {m \in DOMAIN tiles : f[m] # Place(m)}
<1>6. SUFFICES ASSUME Wrong # {} PROVE FALSE
  BY <1>2
<1>7. PICK m \in Wrong : \A k \in Wrong : m <= k
  <2>1. Wrong \in SUBSET Nat
    BY TilesType DEF MergerInv, TilesFacts
  <2> HIDE DEF Wrong
  <2> QED
    BY <1>6, <2>1, SmallestNumber
<1>8. m # 1
  BY <1>5, PlaceFacts
<1>9. f[Parent(m)] = BaseTransform
  <2>1. Parent(m) \in DOMAIN tiles \ Leaves /\ Parent(m) < m /\ Parent(m) \in Nat /\ m \in Nat
    BY <1>8, ParentFacts
  <2>2. Parent(m) \notin Wrong
    BY <1>7, <2>1
  <2> QED
    BY <2>1, <2>2 DEF Place
<1>10. f[m] = Place(m)
  BY <1>5, <1>8, <1>9, PlaceFacts
<1> QED
  BY <1>7, <1>10

Closed(S) == \A k \in S : tiles[k].children \subseteq S
IsTree == \A n \in DOMAIN tiles : \A c \in tiles[n].children : c \in DOMAIN tiles /\ n < c

LEMMA BelowFacts ==
    ASSUME IsTree, NEW n \in DOMAIN tiles
    PROVE  /\ n \in TilesBelow(n) /\ TilesBelow(n) \subseteq DOMAIN tiles
           /\ \A S \in SUBSET DOMAIN tiles : n \in S /\ Closed(S) => TilesBelow(n) \subseteq S
           /\ Closed(TilesBelow(n))
<1>1. /\ n \in TilesBelow(n) /\ TilesBelow(n) \subseteq DOMAIN tiles
      /\ \A S \in SUBSET DOMAIN tiles : n \in S /\ Closed(S) => TilesBelow(n) \subseteq S
  BY DEF TilesBelow, Closed
<1>2. Closed(TilesBelow(n))
  <2> SUFFICES ASSUME NEW k \in TilesBelow(n), NEW c \in tiles[k].children
               PROVE  c \in TilesBelow(n)
    BY DEF Closed
  <2>1. c \in DOMAIN tiles
    BY <1>1 DEF IsTree
  <2>2. ASSUME NEW S \in SUBSET DOMAIN tiles, n \in S, Closed(S) PROVE c \in S
    <3>1. k \in S
      BY <1>1, <2>2
    <3> QED
      BY <2>2, <3>1 DEF Closed
  <2> QED
    BY <2>1, <2>2 DEF TilesBelow, Closed
<1> QED
  BY <1>1, <1>2

(* A tile below another is this one or below one of its children.          *)
LEMMA BelowUnfolds ==
    ASSUME IsTree, NEW n \in DOMAIN tiles, NEW m \in TilesBelow(n), m # n
    PROVE  \E c \in tiles[n].children : m \in TilesBelow(c)
<1>1. PICK S : S = {n} \cup UNION {TilesBelow(c) : c \in tiles[n].children}
  OBVIOUS
<1>2. \A c \in tiles[n].children : c \in DOMAIN tiles
  BY DEF IsTree
<1>3. S \in SUBSET DOMAIN tiles
  BY <1>1, <1>2, BelowFacts
<1>4. Closed(S)
  <2> SUFFICES ASSUME NEW k \in S PROVE tiles[k].children \subseteq S
    BY DEF Closed
  <2>1. CASE k = n
    BY <1>1, <1>2, <2>1, BelowFacts
  <2>2. CASE k # n
    <3>1. PICK c \in tiles[n].children : k \in TilesBelow(c)
      BY <1>1, <2>2
    <3>2. tiles[k].children \subseteq TilesBelow(c)
      BY <1>2, <3>1, BelowFacts DEF Closed
    <3> QED
      BY <1>1, <3>1, <3>2
  <2> QED
    BY <2>1, <2>2
<1>5. m \in S
  BY <1>1, <1>3, <1>4, BelowFacts
<1> QED
  BY <1>1, <1>5

(* At its place the box of an inner tile encloses the inputs of the leaves *)
(* below it.                                                               *)
Holds(n, i) ==
    \A a \in Axis : /\ boxes[n].min[a] + BaseTransform[a] <= WorldBox(i).min[a]
                    /\ WorldBox(i).max[a] <= boxes[n].max[a] + BaseTransform[a]

LEMMA HoldsInputsBelow ==
    ASSUME MergerInv, stage = "done", NEW n \in DOMAIN tiles \ Leaves,
           NEW m \in TilesBelow(n) \cap Leaves
    PROVE  Holds(n, Content(m))
<1>1. /\ TilesFacts /\ IsTree /\ tilesets \in Inputs /\ BoxesOfTiles
  BY TilesType DEF MergerInv, TilesAreTree, IsTree, MergerTypeOK, FilesOfTiles
<1>2. m \in DOMAIN tiles /\ boxes[m] = WorldBox(Content(m)) /\ Content(m) \in Number
      /\ \A k \in DOMAIN tiles : Typed(boxes[k])
  BY <1>1, ContentFacts DEF Leaves, BoxesOfTiles, Typed
<1> DEFINE Wrong == {k \in DOMAIN tiles \ Leaves : m \in TilesBelow(k) /\ ~ Holds(k, Content(m))}
<1>3. SUFFICES ASSUME Wrong # {} PROVE FALSE
  OBVIOUS
<1>4. PICK k \in Wrong : \A l \in Wrong : l <= k
  <2>1. DOMAIN tiles = 1..Len(tiles) /\ 1 \in Int /\ Len(tiles) \in Int
        /\ \A l \in DOMAIN tiles : l \in Int
    BY <1>1 DEF TilesFacts
  <2>2. IsFiniteSet(DOMAIN tiles) /\ Wrong \in SUBSET DOMAIN tiles
    BY <2>1, FS_Interval
  <2> HIDE DEF Wrong
  <2>3. IsFiniteSet(Wrong) /\ Wrong \in SUBSET Int
    BY <2>1, <2>2, FS_Subset
  <2> QED
    BY <1>3, <2>3, MinMax
<1>5. k \in DOMAIN tiles \ Leaves /\ m \in TilesBelow(k) /\ m # k
  OBVIOUS
<1>6. PICK c \in tiles[k].children : m \in TilesBelow(c)
  BY <1>1, <1>5, BelowUnfolds
<1>7. c \in DOMAIN tiles /\ k < c /\ k \in Nat /\ c \in Nat /\ c # 1
  <2>1. c \in DOMAIN tiles /\ k < c /\ k \in 1..Len(tiles) /\ k \in Nat /\ c \in Nat
    BY <1>1, <1>5 DEF IsTree, TilesFacts
  <2> QED
    BY <2>1
<1>8. Encloses(boxes[k], Moved(boxes[c], tiles[c].transform))
  BY <1>1, <1>5 DEF BoxesOfTiles
<1>9. PICK base : base = BaseTransform /\ base \in Corner
  BY PlaceFacts, <1>7
<1>10. tiles[c].transform = IF c \in Leaves THEN Minus(base) ELSE Zero
  BY <1>7, <1>9, PlaceFacts
<1>11. tiles[c].transform \in Corner /\ Minus(base) \in Corner /\ Zero \in Corner
  BY <1>9, <1>10 DEF Minus, Zero, Corner
<1>12. ASSUME NEW a \in Axis
       PROVE  /\ base[a] \in Int /\ boxes[k].min[a] \in Int /\ boxes[k].max[a] \in Int
              /\ boxes[c].min[a] \in Int /\ boxes[c].max[a] \in Int
              /\ tiles[c].transform[a] \in Int
              /\ WorldBox(Content(m)).min[a] \in Int /\ WorldBox(Content(m)).max[a] \in Int
              /\ boxes[k].min[a] <= boxes[c].min[a] + tiles[c].transform[a]
              /\ boxes[c].max[a] + tiles[c].transform[a] <= boxes[k].max[a]
  <2>1. boxes[k].min[a] \in Int /\ boxes[k].max[a] \in Int /\ base[a] \in Int
    BY <1>2, <1>5, <1>9 DEF Typed, Corner
  <2>2. /\ boxes[c].min[a] \in Int /\ boxes[c].max[a] \in Int /\ tiles[c].transform[a] \in Int
        /\ Moved(boxes[c], tiles[c].transform).min[a] = boxes[c].min[a] + tiles[c].transform[a]
        /\ Moved(boxes[c], tiles[c].transform).max[a] = boxes[c].max[a] + tiles[c].transform[a]
    BY <1>2, <1>7, <1>11, MovedFacts
  <2>3. WorldBox(Content(m)).min[a] \in Int /\ WorldBox(Content(m)).max[a] \in Int
    BY <1>1, <1>2, InputFacts
  <2> QED
    BY <1>8, <2>1, <2>2, <2>3 DEF Encloses
<1>13. CASE c \in Leaves
  <2>1. m = c
    <3>1. tiles[c].children = {}
      BY <1>13 DEF MergerInv, TilesAreTree, Leaves
    <3> QED
      BY <1>1, <1>6, <1>7, <3>1, BelowUnfolds
  <2>2. \A a \in Axis : tiles[c].transform[a] = - base[a]
    BY <1>10, <1>13 DEF Minus
  <2>3. Holds(k, Content(m))
    <3> SUFFICES ASSUME NEW a \in Axis
                 PROVE  /\ boxes[k].min[a] + base[a] <= WorldBox(Content(m)).min[a]
                        /\ WorldBox(Content(m)).max[a] <= boxes[k].max[a] + base[a]
      BY <1>9 DEF Holds
    <3>1. boxes[c] = WorldBox(Content(m))
      BY <1>2, <2>1
    <3> QED
      BY <1>12, <2>2, <3>1
  <2> QED
    BY <1>4, <2>3
<1>14. CASE c \notin Leaves
  <2>1. Holds(c, Content(m))
    BY <1>4, <1>6, <1>7, <1>14
  <2>2. \A a \in Axis : tiles[c].transform[a] = 0
    BY <1>10, <1>14 DEF Zero
  <2>3. Holds(k, Content(m))
    <3> SUFFICES ASSUME NEW a \in Axis
                 PROVE  /\ boxes[k].min[a] + base[a] <= WorldBox(Content(m)).min[a]
                        /\ WorldBox(Content(m)).max[a] <= boxes[k].max[a] + base[a]
      BY <1>9 DEF Holds
    <3>1. /\ boxes[c].min[a] + base[a] <= WorldBox(Content(m)).min[a]
          /\ WorldBox(Content(m)).max[a] <= boxes[c].max[a] + base[a]
      BY <1>9, <2>1 DEF Holds
    <3> QED
      BY <1>12, <2>2, <3>1
  <2> QED
    BY <1>4, <2>3
<1> QED
  BY <1>13, <1>14

(* In the result every input is where its own transform puts it, unless it *)
(* is the only one left; the boxes of the tiles enclose the inputs below   *)
(* them, and the file of the inner tiles has a sample of all their inputs. *)
THEOREM MergerShownInPlace == Spec => []ShownInPlace
<1>1. MergerInv => ShownInPlace
  <2> SUFFICES ASSUME MergerInv, stage = "done"
               PROVE  /\ \A n \in Leaves : Offset[n] = IF 1 \in Leaves THEN BaseTransform ELSE Zero
                      /\ 1 \notin Leaves =>
                            \A n \in DOMAIN tiles : \A m \in TilesBelow(n) \cap Leaves :
                                Encloses(Moved(boxes[n], Offset[n]), WorldBox(Content(m)))
                      /\ \A n \in DOMAIN tiles \ Leaves : tiles[n].inputs \subseteq sample
    BY DEF ShownInPlace
  <2>1. \A n \in Leaves : n \in DOMAIN tiles
    BY DEF Leaves
  <2>2. ASSUME NEW n \in Leaves PROVE Offset[n] = IF 1 \in Leaves THEN BaseTransform ELSE Zero
    <3>1. Offset[n] = Place(n)
      BY <2>1, OffsetIs
    <3>2. 1 \in Leaves => n = 1
      BY <2>1, RootLeaf
    <3> QED
      BY <3>1, <3>2 DEF Place
  <2>3. ASSUME 1 \notin Leaves, NEW n \in DOMAIN tiles, NEW m \in TilesBelow(n) \cap Leaves
        PROVE  Encloses(Moved(boxes[n], Offset[n]), WorldBox(Content(m)))
    <3>1. /\ IsTree /\ tilesets \in Inputs /\ BoxesOfTiles /\ m \in DOMAIN tiles
          /\ Typed(boxes[n]) /\ Content(m) \in Number
      BY <2>1, ContentFacts DEF MergerInv, TilesAreTree, IsTree, MergerTypeOK, FilesOfTiles,
                                BoxesOfTiles, Typed
    <3>2. Offset[n] = IF n \in Leaves THEN Zero ELSE BaseTransform
      BY <2>3, OffsetIs DEF Place
    <3>3. Zero \in Corner /\ BaseTransform \in Corner
      BY PlaceFacts DEF Zero, Corner
    <3>4. PICK o \in Corner : o = Offset[n]
      BY <3>2, <3>3
    <3> SUFFICES ASSUME NEW a \in Axis
                 PROVE  /\ Moved(boxes[n], o).min[a] <= WorldBox(Content(m)).min[a]
                        /\ WorldBox(Content(m)).max[a] <= Moved(boxes[n], o).max[a]
      BY <3>4 DEF Encloses
    <3>5. /\ boxes[n].min[a] \in Int /\ boxes[n].max[a] \in Int
          /\ Moved(boxes[n], o).min[a] = boxes[n].min[a] + o[a]
          /\ Moved(boxes[n], o).max[a] = boxes[n].max[a] + o[a]
      BY <3>1, MovedFacts
    <3>6. CASE n \in Leaves
      <4>1. tiles[n].children = {}
        BY <3>6 DEF MergerInv, TilesAreTree, Leaves
      <4>2. m = n
        BY <3>1, <4>1, BelowUnfolds
      <4>3. boxes[n] = WorldBox(Content(m)) /\ o[a] = 0
        BY <3>1, <3>2, <3>4, <3>6, <4>2 DEF BoxesOfTiles, Zero
      <4> QED
        BY <3>5, <4>3
    <3>7. CASE n \notin Leaves
      <4>1. Holds(n, Content(m)) /\ o = BaseTransform
        BY <3>2, <3>4, <3>7, HoldsInputsBelow
      <4> QED
        BY <3>5, <4>1 DEF Holds
    <3> QED
      BY <3>6, <3>7
  <2>4. ASSUME NEW n \in DOMAIN tiles \ Leaves PROVE tiles[n].inputs \subseteq sample
    <3>1. 1 \notin Leaves
      BY RootLeaf
    <3>2. sample = tiles[1].inputs
      BY <3>1 DEF MergerInv, FilesOfTiles
    <3> QED
      BY <3>2 DEF MergerInv, TilesAreTree
  <2> QED
    BY <2>2, <2>3, <2>4
<1> QED
  BY <1>1, MergerInvariant, PTL
=============================================================================
