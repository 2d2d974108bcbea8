--------------------------- MODULE TileTreeProofs ---------------------------
(***************************************************************************)
(* Proofs about TileTree, for any tree of nodes, any points and any bound  *)
(* on the small tiles: where the calls stand, that merging loses no point, *)
(* and that the tile set files written at the end show each point once in  *)
(* boxes that enclose it, in whatever order the processes of the pool run  *)
(* and wherever split_tileset splits.                                      *)
(***************************************************************************)
EXTENDS TileTree, SequenceTheorems, FiniteSetTheorems, WellFoundedInduction, TLAPS

-----------------------------------------------------------------------------
(* Names                                                                   *)

LEMMA ParentType ==
    ASSUME NEW n \in Names, n # Root
    PROVE  /\ Parent(n) \in Names /\ Parent(n) # n
           /\ Len(n) \in Nat /\ Len(n) # 0 /\ Len(Parent(n)) = Len(n) - 1
           /\ Len(n) > 1 => Parent(n) # Root
<1>1. n \in Seq(Digit) /\ Parent(n) \in Names
  BY TreeAssumption DEF NodeName
<1>2. Len(n) \in Nat /\ Len(n) # 0
  BY <1>1, EmptySeq DEF Root
<1>3. Len(Parent(n)) = Len(n) - 1
  <2>1. Len(n) - 1 \in Int /\ \A i \in 1..(Len(n) - 1) : n[i] \in Digit
    BY <1>1, <1>2, ElementOfSeq
  <2>2. Len(SubSeq(n, 1, Len(n) - 1)) = IF 1 <= Len(n) - 1 THEN (Len(n) - 1) - 1 + 1 ELSE 0
    BY <2>1, SubSeqProperties
  <2>3. Len(Parent(n)) = IF 1 <= Len(n) - 1 THEN (Len(n) - 1) - 1 + 1 ELSE 0
    BY <2>2 DEF Parent
  <2>4. \A l \in Nat : l # 0 => (IF 1 <= l - 1 THEN (l - 1) - 1 + 1 ELSE 0) = l - 1
    OBVIOUS
  <2> QED
    BY <1>2, <2>3, <2>4
<1> QED
  BY <1>1, <1>2, <1>3 DEF Root

LEMMA ChildIsBelow ==
    ASSUME NEW n \in Names, NEW c \in Names
    PROVE  c \in Children(n) <=> c # Root /\ Parent(c) = n
<1>1. n \in Seq(Digit) /\ c \in Seq(Digit) /\ Len(n) \in Nat /\ Len(c) \in Nat
  BY TreeAssumption DEF NodeName
<1>2. ASSUME c \in Children(n) PROVE c # Root /\ Parent(c) = n
  BY <1>1, <1>2 DEF Children, IsAncestor, Parent, Root
<1>3. ASSUME c # Root, Parent(c) = n PROVE c \in Children(n)
  BY <1>1, <1>3, ParentType DEF Children, IsAncestor, Parent
<1> QED
  BY <1>2, <1>3

(* The loop of to_tileset has a next child as long as it has one.          *)
LEMMA FirstOfType ==
    ASSUME NEW n \in Names, ToCall(n) # {}
    PROVE  FirstOf(ToCall(n)) \in ToCall(n)
<1> DEFINE S == ToCall(n)
           digit(c) == c[Len(c)]
           has(i) == \E c \in S : digit(c) = i
<1>1. \A c \in S : digit(c) \in 0..7
  <2> TAKE c \in S
  <2>1. c \in Seq(Digit) /\ Len(c) \in Nat /\ Len(c) = Len(n) + 1 /\ Len(n) \in Nat
    BY TreeAssumption DEF ToCall, Children, NodeName
  <2> QED
    BY <2>1 DEF Digit
<1>2. S # {}
  OBVIOUS
<1> HIDE DEF S, digit
<1>3. \E i \in 0..7 : has(i) /\ \A j \in 0..7 : has(j) => i <= j
  <2>1. has(0) \/ has(1) \/ has(2) \/ has(3) \/ has(4) \/ has(5) \/ has(6) \/ has(7)
    BY <1>1, <1>2
  <2> HIDE DEF has
  <2> QED
    BY <2>1
<1>4. \E c \in S : \A d \in S : digit(c) <= digit(d)
  BY <1>1, <1>3
<1> QED
  BY <1>4 DEF S, digit, FirstOf

-----------------------------------------------------------------------------
(* The inductive invariant: a merge is of a node below the root's children,*)
(* and while it holds points the file of the parent is empty, the child's  *)
(* file is held and no other file or call has a held point; once it has    *)
(* written, the parent's file has the points of the child.                 *)
Merging(n) == phase[n] \in {"unlinked", "rewritten"}
MergesApart ==
    /\ \A n \in Names : Merging(n) => Len(n) > 1
    /\ \A n \in Names : phase[n] = "unlinked" =>
          files[Parent(n)] = {} /\ files[n] \subseteq held[n]
    /\ \A n \in Names : phase[n] = "rewritten" => files[n] \subseteq files[Parent(n)]
    /\ \A n, m \in Names : \A p \in held[n] : p \in files[m] => m = n \/ m = Root
    /\ \A n, m \in Names : \A p \in held[n] : p \in held[m] => m = n

IInv == TypeOK /\ PointsInOneFile /\ MergesApart

(* PointsInOneFile without its sets.                                       *)
Somewhere(p) ==
    \/ \E n \in Names : n # Root /\ p \in files[n]
    \/ \E n \in Names : p \in held[n]
Twice(n, m) ==
    \/ n = m
    \/ n = Parent(m) /\ phase[m] = "rewritten"
    \/ m = Parent(n) /\ phase[n] = "rewritten"
NeverApart ==
    \A n, m \in Names \ {Root} : \A p \in Point :
        p \in files[n] /\ p \in files[m] => Twice(n, m)

LEMMA PointsFacts == PointsInOneFile <=> (\A p \in Point : Somewhere(p)) /\ NeverApart
BY DEF PointsInOneFile, Somewhere, NeverApart, Twice

LEMMA PointsFactsNext ==
    PointsInOneFile' <=> (\A p \in Point : Somewhere(p)') /\ NeverApart'
BY DEF PointsInOneFile, Somewhere, NeverApart, Twice

(* Two calls that merge have different parents, and neither is the other's.*)
LEMMA Apart ==
    ASSUME IInv, NEW n \in Names, NEW m \in Names, n # m,
           InCall(n), Len(n) > 1, Merging(m)
    PROVE  /\ Parent(m) # Parent(n) /\ Parent(n) # m /\ Parent(m) \in Names
           /\ m # Root /\ n # Root
<1>1. n # Root /\ m # Root /\ Parent(n) # Root /\ Parent(m) # Root
  BY ParentType DEF IInv, MergesApart, Root
<1>2. Parent(n) \in Names /\ Parent(m) \in Names
  BY <1>1, ParentType
<1>3. phase[Parent(n)] = "children" /\ InCall(m)
  BY <1>1 DEF IInv, TypeOK, Merging, InCall
<1>4. Parent(m) # Parent(n)
  <2>1. SUFFICES ASSUME Parent(m) = Parent(n) PROVE FALSE
    OBVIOUS
  <2>2. n \in Children(Parent(n)) /\ m \in Children(Parent(n))
    BY <1>1, <1>2, <2>1, ChildIsBelow
  <2> QED
    BY <1>1, <1>2, <1>3, <2>2 DEF IInv, TypeOK
<1> QED
  BY <1>1, <1>2, <1>3, <1>4 DEF Merging

-----------------------------------------------------------------------------
(* Types and the places of the calls                                       *)

TileType ==
    [content : {"none", "pnts", "json"}, children : SUBSET Names,
     box : SUBSET Point, refine : {"ADD", "REPLACE"}]

LEMMA NoTileType == NoTile \in TileType
BY DEF NoTile, TileType

LEMMA InitTypeOK == Init => TypeOK
<1> SUFFICES ASSUME Init PROVE TypeOK
  OBVIOUS
<1>1. files \in [Names -> SUBSET Point]
  BY TreeAssumption DEF Init
<1>2. \A n \in Names : ~ InCall(n)
  BY DEF Init, InCall
<1>3. /\ phase \in [Names -> {"waiting", "children", "unlinked", "rewritten",
                            "returned", "written"}]
      /\ held \in [Names -> SUBSET Point]
      /\ \A n \in Names : held[n] = {}
  BY DEF Init
<1>4. tiles \in [Names -> TileType]
  BY NoTileType DEF Init
<1> QED
  BY <1>1, <1>2, <1>3, <1>4 DEF TypeOK, TileType, Children

LEMMA TilesType ==
    ASSUME TypeOK, NEW n \in Names
    PROVE  OwnTile(n) \in TileType /\ MergedTile(n) \in TileType
<1>1. Kept(n) \in SUBSET Names
  BY DEF Kept, Children
<1>2. files[n] \in SUBSET Point
  BY DEF TypeOK
<1>3. UNION {tiles[c].box : c \in Kept(n)} \in SUBSET Point
  BY <1>1 DEF TypeOK
<1>4. OwnTile(n) \in TileType
  BY <1>1, <1>2 DEF OwnTile, TileType
<1>5. MergedTile(n) \in TileType
  BY <1>1, <1>3 DEF MergedTile, TileType
<1> QED
  BY <1>4, <1>5

LEMMA ReturnType ==
    ASSUME TypeOK, NEW n \in Names, NEW t \in TileType, Return(n, t)
    PROVE  /\ tiles' \in [Names -> TileType]
           /\ phase' = [phase EXCEPT ![n] = "returned"]
<1>1. [t EXCEPT !.content = "json", !.children = {}] \in TileType
  BY DEF TileType
<1>2. tiles \in [Names -> TileType]
  BY DEF TypeOK, TileType
<1>3. phase' = [phase EXCEPT ![n] = "returned"]
  BY DEF Return
<1>4. CASE tiles' = [tiles EXCEPT ![n] = t]
  BY <1>2, <1>3, <1>4
<1>5. CASE SplitTileset(n, t)
  <2>1. tiles' = [tiles EXCEPT ![n] = [t EXCEPT !.content = "json", !.children = {}]]
    BY <1>5 DEF SplitTileset
  <2> QED
    BY <1>1, <1>2, <1>3, <2>1
<1> QED
  BY <1>4, <1>5 DEF Return

(* An action that changes no file and no merge.                            *)
LEMMA SameFiles ==
    ASSUME IInv, TypeOK', UNCHANGED <<files, held>>,
           \A n \in Names : Merging(n)' <=> Merging(n),
           \A n \in Names : Merging(n) => phase'[n] = phase[n]
    PROVE  IInv'
<1>1. \A n \in Names : phase'[n] = "unlinked" <=> phase[n] = "unlinked"
  BY DEF Merging
<1>2. \A n \in Names : phase'[n] = "rewritten" <=> phase[n] = "rewritten"
  BY DEF Merging
<1>3. MergesApart'
  BY <1>1, <1>2 DEF IInv, MergesApart, Merging
<1>4. NeverApart'
  BY <1>2, PointsFacts DEF IInv, NeverApart, Twice
<1>5. \A p \in Point : Somewhere(p)'
  BY PointsFacts DEF IInv, Somewhere
<1> QED
  BY <1>3, <1>4, <1>5, PointsFactsNext DEF IInv

LEMMA SubmitIInv ==
    ASSUME IInv, Submit
    PROVE  IInv'
<1>1. \A n \in Names : phase'[n] = IF n \in ToCall(Root) THEN "children" ELSE phase[n]
  BY DEF Submit
<1>2. \A n \in ToCall(Root) : n \in Names /\ n # Root /\ Parent(n) = Root /\ phase[n] = "waiting"
  BY TreeAssumption, ChildIsBelow DEF ToCall, Children
<1>3. \A n \in Names \ {Root} : InCall(n)' => phase'[Parent(n)] = "children"
  <2> TAKE n \in Names \ {Root}
  <2> HAVE InCall(n)'
  <2>1. CASE n \in ToCall(Root)
    BY <1>1, <1>2, <2>1, TreeAssumption DEF Submit
  <2>2. CASE n \notin ToCall(Root)
    <3>1. phase[Parent(n)] = "children"
      BY <1>1, <2>2 DEF IInv, TypeOK, InCall
    <3> QED
      BY <1>1, <3>1, ParentType
  <2> QED
    BY <2>1, <2>2
<1>4. \A n \in Names : \A c, d \in Children(n) :
         n # Root /\ InCall(c)' /\ InCall(d)' => c = d
  <2> SUFFICES ASSUME NEW n \in Names, NEW c \in Children(n), NEW d \in Children(n),
                      n # Root, InCall(c)', InCall(d)'
               PROVE  c = d
    OBVIOUS
  <2>1. c \in Names /\ d \in Names /\ Parent(c) = n /\ Parent(d) = n
    BY ChildIsBelow DEF Children
  <2>2. InCall(c) /\ InCall(d)
    BY <1>1, <1>2, <2>1 DEF InCall
  <2> QED
    BY <2>2 DEF IInv, TypeOK
<1>5. TypeOK'
  BY <1>1, <1>2, <1>3, <1>4 DEF Submit, IInv, TypeOK, Children
<1>6. /\ \A n \in Names : Merging(n)' <=> Merging(n)
      /\ \A n \in Names : Merging(n) => phase'[n] = phase[n]
  BY <1>1, <1>2 DEF Merging
<1> QED
  BY <1>5, <1>6, SameFiles DEF Submit

LEMMA CallChildIInv ==
    ASSUME IInv, NEW n \in Names, CallChild(n)
    PROVE  IInv'
<1> DEFINE called == FirstOf(ToCall(n))
<1>1. /\ called \in Names /\ called # Root /\ Parent(called) = n /\ phase[called] = "waiting"
      /\ called \in Children(n)
  BY FirstOfType, ChildIsBelow DEF CallChild, ToCall, Children
<1>2. phase' = [phase EXCEPT ![called] = "children"] /\ UNCHANGED <<files, held, tiles, docs>>
  BY DEF CallChild
<1> HIDE DEF called
<1>3. \A m \in Names : phase'[m] = IF m = called THEN "children" ELSE phase[m]
  BY <1>1, <1>2 DEF IInv, TypeOK
<1>4. \A m \in Names \ {Root} : InCall(m)' => phase'[Parent(m)] = "children"
  <2> TAKE m \in Names \ {Root}
  <2> HAVE InCall(m)'
  <2>1. CASE m = called
    BY <1>1, <1>3, <2>1 DEF CallChild
  <2>2. CASE m # called
    <3>1. phase[Parent(m)] = "children"
      BY <1>3, <2>2 DEF IInv, TypeOK, InCall
    <3> QED
      BY <1>3, <3>1, ParentType
  <2> QED
    BY <2>1, <2>2
<1>5. \A m \in Names : \A c, d \in Children(m) :
         m # Root /\ InCall(c)' /\ InCall(d)' => c = d
  <2> SUFFICES ASSUME NEW m \in Names, NEW c \in Children(m), NEW d \in Children(m),
                      m # Root, InCall(c)', InCall(d)', c # d
               PROVE  FALSE
    OBVIOUS
  <2>1. c \in Names /\ d \in Names /\ Parent(c) = m /\ Parent(d) = m
    BY ChildIsBelow DEF Children
  <2>2. CASE c # called /\ d # called
    BY <1>3, <2>1, <2>2 DEF IInv, TypeOK, InCall
  <2>3. CASE c = called
    <3>1. m = n /\ InCall(d)
      BY <1>1, <1>3, <2>1, <2>3 DEF InCall
    <3> QED
      BY <3>1 DEF CallChild
  <2>4. CASE d = called
    <3>1. m = n /\ InCall(c)
      BY <1>1, <1>3, <2>1, <2>4 DEF InCall
    <3> QED
      BY <3>1 DEF CallChild
  <2> QED
    BY <2>2, <2>3, <2>4
<1>6. TypeOK'
  BY <1>1, <1>2, <1>3, <1>4, <1>5 DEF IInv, TypeOK, Children
<1>7. /\ \A m \in Names : Merging(m)' <=> Merging(m)
      /\ \A m \in Names : Merging(m) => phase'[m] = phase[m]
  BY <1>1, <1>3 DEF Merging
<1> QED
  BY <1>2, <1>6, <1>7, SameFiles

(* A call that ends leaves the loop of its parent, and the parents it has  *)
(* are those of no call.                                                   *)
LEMMA EndOfCall ==
    ASSUME TypeOK, NEW n \in Names, InCall(n), NEW p,
           p \in {"unlinked", "rewritten", "returned"},
           phase[n] # "children" \/ LoopDone(n),
           phase' = [phase EXCEPT ![n] = p]
    PROVE  /\ phase' \in [Names -> {"waiting", "children", "unlinked", "rewritten",
                                    "returned", "written"}]
           /\ \A m \in Names \ {Root} : InCall(m)' => phase'[Parent(m)] = "children"
           /\ \A m \in Names : \A c, d \in Children(m) :
                 m # Root /\ InCall(c)' /\ InCall(d)' => c = d
<1>1. \A m \in Names : phase'[m] = IF m = n THEN p ELSE phase[m]
  BY DEF TypeOK
<1>2. \A m \in Names : InCall(m)' => InCall(m)
  BY <1>1 DEF InCall
<1>3. \A m \in Names \ {Root} : InCall(m) => Parent(m) # n
  <2> TAKE m \in Names \ {Root}
  <2> HAVE InCall(m)
  <2>1. SUFFICES ASSUME Parent(m) = n PROVE FALSE
    OBVIOUS
  <2>2. phase[n] = "children"
    BY <2>1 DEF TypeOK
  <2>3. m \in Children(n)
    BY <2>1, ChildIsBelow
  <2> QED
    BY <2>2, <2>3 DEF LoopDone
<1>4. \A m \in Names \ {Root} : InCall(m)' => phase'[Parent(m)] = "children"
  BY <1>1, <1>2, <1>3, ParentType DEF TypeOK
<1>5. \A m \in Names : \A c, d \in Children(m) :
         m # Root /\ InCall(c)' /\ InCall(d)' => c = d
  BY <1>2 DEF TypeOK, Children
<1> QED
  BY <1>4, <1>5 DEF TypeOK

-----------------------------------------------------------------------------
(* The steps on the folder                                                 *)

LEMMA WriteRootTileIInv ==
    ASSUME IInv, WriteRootTile
    PROVE  IInv'
<1>1. /\ files' \in [Names -> SUBSET Point]
      /\ \A n \in Names \ {Root} : files'[n] = files[n]
  BY TreeAssumption DEF WriteRootTile, IInv, TypeOK, Children
<1>2. /\ phase[Root] = "waiting" /\ phase' = [phase EXCEPT ![Root] = "children"]
      /\ UNCHANGED <<held, tiles, docs>>
  BY DEF WriteRootTile
<1>3. \A n \in Names : phase'[n] = IF n = Root THEN "children" ELSE phase[n]
  BY <1>2 DEF IInv, TypeOK
<1>4. \A n \in Names : (phase[n] # "unlinked" /\ phase[n] # "rewritten") \/ n # Root
  BY <1>2
<1>5. TypeOK'
  <2>1. \A n \in Names \ {Root} : InCall(n)' => phase'[Parent(n)] = "children"
    BY <1>2, <1>3, ParentType DEF IInv, TypeOK, InCall
  <2>2. \A n \in Names : \A c, d \in Children(n) :
           n # Root /\ InCall(c)' /\ InCall(d)' => c = d
    BY <1>3, ChildIsBelow DEF IInv, TypeOK, InCall, Children
  <2> QED
    BY <1>1, <1>2, <1>3, <2>1, <2>2 DEF IInv, TypeOK, Children
<1>6. \A n \in Names : Merging(n)' <=> Merging(n)
  BY <1>2, <1>3 DEF Merging
<1>7. \A n \in Names : Merging(n) => n # Root /\ Parent(n) \in Names \ {Root}
  BY ParentType DEF IInv, MergesApart, Root
<1>8. \A n \in Names : (phase'[n] = "unlinked" <=> phase[n] = "unlinked")
                    /\ (phase'[n] = "rewritten" <=> phase[n] = "rewritten")
  BY <1>2, <1>3
<1>9. MergesApart'
  <2>1. \A n \in Names : Merging(n)' => Len(n) > 1
    BY <1>6 DEF IInv, MergesApart
  <2>2. \A n \in Names : phase'[n] = "unlinked" =>
           files'[Parent(n)] = {} /\ files'[n] \subseteq held'[n]
    BY <1>1, <1>2, <1>7, <1>8 DEF IInv, MergesApart, Merging
  <2>3. \A n \in Names : phase'[n] = "rewritten" => files'[n] \subseteq files'[Parent(n)]
    BY <1>1, <1>7, <1>8 DEF IInv, MergesApart, Merging
  <2>4. \A n, m \in Names : \A p \in held'[n] : p \in files'[m] => m = n \/ m = Root
    BY <1>1, <1>2 DEF IInv, MergesApart
  <2>5. \A n, m \in Names : \A p \in held'[n] : p \in held'[m] => m = n
    BY <1>2 DEF IInv, MergesApart
  <2> QED
    BY <2>1, <2>2, <2>3, <2>4, <2>5 DEF MergesApart
<1>10. \A p \in Point : Somewhere(p)'
  BY <1>1, <1>2, PointsFacts DEF IInv, Somewhere
<1>11. NeverApart'
  BY <1>1, <1>8, PointsFacts DEF IInv, NeverApart, Twice
<1> QED
  BY <1>5, <1>9, <1>10, <1>11, PointsFactsNext DEF IInv

(* What is known of a node that is about to be merged.                     *)
LEMMA SmallNode ==
    ASSUME IInv, NEW n \in Names, InCall(n), Len(n) > 1
    PROVE  /\ n # Root /\ Parent(n) \in Names /\ Parent(n) # Root /\ Parent(n) # n
           /\ phase[Parent(n)] = "children"
BY ParentType DEF IInv, TypeOK, Root

(* Before its merge a node and its parent share their points with no file. *)
LEMMA AloneBefore ==
    ASSUME IInv, NEW n \in Names, phase[n] = "children", LoopDone(n), Len(n) > 1,
           NEW m \in Names, m # Root, NEW p,
           p \in files[n] \cup files[Parent(n)], p \in files[m]
    PROVE  m = n \/ m = Parent(n)
<1>1. InCall(n)
  BY DEF InCall
<1>2. /\ n # Root /\ Parent(n) \in Names /\ Parent(n) # Root
      /\ phase[Parent(n)] = "children"
  BY <1>1, SmallNode
<1>3. p \in Point
  BY DEF IInv, TypeOK
<1> SUFFICES ASSUME m # n, m # Parent(n) PROVE FALSE
  OBVIOUS
<1>4. CASE p \in files[n]
  <2>1. Twice(n, m)
    BY <1>2, <1>3, <1>4, PointsFacts DEF IInv, NeverApart
  <2>2. n = Parent(m) /\ phase[m] = "rewritten"
    BY <2>1 DEF Twice
  <2>3. m \in Children(n) /\ InCall(m)
    BY <2>2, ChildIsBelow DEF InCall
  <2> QED
    BY <2>3 DEF LoopDone
<1>5. CASE p \in files[Parent(n)]
  <2>1. Twice(Parent(n), m)
    BY <1>2, <1>3, <1>5, PointsFacts DEF IInv, NeverApart
  <2>2. Parent(n) = Parent(m) /\ Merging(m)
    BY <1>2, <2>1 DEF Twice, Merging
  <2> QED
    BY <1>1, <2>2, Apart
<1> QED
  BY <1>4, <1>5

LEMMA UnlinkParentIInv ==
    ASSUME IInv, NEW n \in Names, UnlinkParent(n)
    PROVE  IInv'
<1>1. /\ phase[n] = "children" /\ LoopDone(n) /\ Len(n) > 1 /\ InCall(n)
      /\ held' = [held EXCEPT ![n] = files[Parent(n)] \cup files[n]]
      /\ files' = [files EXCEPT ![Parent(n)] = {}]
      /\ phase' = [phase EXCEPT ![n] = "unlinked"]
      /\ UNCHANGED <<tiles, docs>>
  BY DEF UnlinkParent, IsSmall, InCall
<1>2. /\ n # Root /\ Parent(n) \in Names /\ Parent(n) # Root /\ Parent(n) # n
      /\ phase[Parent(n)] = "children"
  BY <1>1, SmallNode
<1>3. /\ \A m \in Names : held'[m] = IF m = n THEN files[Parent(n)] \cup files[n] ELSE held[m]
      /\ \A m \in Names : files'[m] = IF m = Parent(n) THEN {} ELSE files[m]
      /\ \A m \in Names : phase'[m] = IF m = n THEN "unlinked" ELSE phase[m]
  BY <1>1, <1>2 DEF IInv, TypeOK
<1>4. TypeOK'
  <2>1. /\ files' \in [Names -> SUBSET Point] /\ held' \in [Names -> SUBSET Point]
        /\ \A m \in Names : held'[m] # {} => phase'[m] = "unlinked"
    BY <1>1, <1>2, <1>3 DEF IInv, TypeOK
  <2> QED
    BY <1>1, <2>1, EndOfCall DEF IInv, TypeOK, Children
<1>5. ASSUME NEW m \in Names, m # n, Merging(m)
      PROVE  Parent(m) \in Names /\ Parent(m) # Parent(n) /\ m # Parent(n)
  BY <1>1, <1>5, Apart
<1>6. held[n] = {}
  BY <1>1 DEF IInv, TypeOK
<1>7. MergesApart'
  <2>1. \A m \in Names : Merging(m)' => Len(m) > 1
    BY <1>1, <1>3 DEF IInv, MergesApart, Merging
  <2>2. \A m \in Names : phase'[m] = "unlinked" =>
           files'[Parent(m)] = {} /\ files'[m] \subseteq held'[m]
    <3> TAKE m \in Names
    <3> HAVE phase'[m] = "unlinked"
    <3>1. CASE m = n
      BY <1>2, <1>3, <3>1
    <3>2. CASE m # n
      <4>1. phase[m] = "unlinked"
        BY <1>3, <3>2
      <4> QED
        BY <1>3, <1>5, <3>2, <4>1 DEF IInv, MergesApart, Merging
    <3> QED
      BY <3>1, <3>2
  <2>3. \A m \in Names : phase'[m] = "rewritten" => files'[m] \subseteq files'[Parent(m)]
    <3> TAKE m \in Names
    <3> HAVE phase'[m] = "rewritten"
    <3>1. m # n /\ phase[m] = "rewritten"
      BY <1>3
    <3> QED
      BY <1>3, <1>5, <3>1 DEF IInv, MergesApart, Merging
  <2>4. \A k, m \in Names : \A p \in held'[k] : p \in files'[m] => m = k \/ m = Root
    <3> SUFFICES ASSUME NEW k \in Names, NEW m \in Names, NEW p \in held'[k],
                        p \in files'[m], m # Root
                 PROVE  m = k
      OBVIOUS
    <3>1. m # Parent(n) /\ p \in files[m]
      BY <1>3
    <3>2. CASE k = n
      BY <1>1, <1>3, <3>1, <3>2, AloneBefore
    <3>3. CASE k # n
      BY <1>3, <3>1, <3>3 DEF IInv, MergesApart
    <3> QED
      BY <3>2, <3>3
  <2>5. \A k, m \in Names : \A p \in held'[k] : p \in held'[m] => m = k
    <3>1. ASSUME NEW m \in Names, m # n, NEW p \in held[m], p \in files[Parent(n)] \cup files[n]
          PROVE  FALSE
      <4>1. phase[m] = "unlinked"
        BY <3>1 DEF IInv, TypeOK
      <4>2. m = n \/ m = Parent(n)
        BY <1>2, <3>1 DEF IInv, MergesApart
      <4> QED
        BY <1>2, <3>1, <4>1, <4>2
    <3>2. \A k, m \in Names : k # n /\ m # n => \A p \in held[k] : p \in held[m] => m = k
      BY DEF IInv, MergesApart
    <3> QED
      BY <1>3, <3>1, <3>2
  <2> QED
    BY <2>1, <2>2, <2>3, <2>4, <2>5 DEF MergesApart
<1>8. ASSUME NEW p \in Point PROVE Somewhere(p)'
  <2>1. CASE \E m \in Names : m # Root /\ p \in files[m]
    BY <1>2, <1>3, <2>1 DEF Somewhere
  <2>2. CASE \E m \in Names : p \in held[m]
    BY <1>3, <1>6, <2>2 DEF Somewhere
  <2> QED
    BY <2>1, <2>2, PointsFacts DEF IInv, Somewhere
<1>9. NeverApart'
  <2> SUFFICES ASSUME NEW k \in Names \ {Root}, NEW m \in Names \ {Root}, NEW p \in Point,
                      p \in files'[k], p \in files'[m]
               PROVE  Twice(k, m)'
    BY DEF NeverApart
  <2>1. p \in files[k] /\ p \in files[m]
    BY <1>3
  <2>2. Twice(k, m)
    BY <2>1, PointsFacts DEF IInv, NeverApart
  <2> QED
    BY <1>1, <1>3, <2>2 DEF Twice
<1> QED
  BY <1>4, <1>7, <1>8, <1>9, PointsFactsNext DEF IInv

LEMMA WriteMergedIInv ==
    ASSUME IInv, NEW n \in Names, WriteMerged(n)
    PROVE  IInv'
<1>1. /\ phase[n] = "unlinked" /\ InCall(n) /\ Merging(n) /\ Len(n) > 1
      /\ files' = [files EXCEPT ![Parent(n)] = held[n]]
      /\ held' = [held EXCEPT ![n] = {}]
      /\ phase' = [phase EXCEPT ![n] = "rewritten"]
      /\ UNCHANGED <<tiles, docs>>
  BY DEF WriteMerged, InCall, Merging, IInv, MergesApart
<1>2. /\ n # Root /\ Parent(n) \in Names /\ Parent(n) # Root /\ Parent(n) # n
      /\ phase[Parent(n)] = "children"
  BY <1>1, SmallNode
<1>3. /\ \A m \in Names : held'[m] = IF m = n THEN {} ELSE held[m]
      /\ \A m \in Names : files'[m] = IF m = Parent(n) THEN held[n] ELSE files[m]
      /\ \A m \in Names : phase'[m] = IF m = n THEN "rewritten" ELSE phase[m]
  BY <1>1, <1>2 DEF IInv, TypeOK
<1>4. TypeOK'
  <2>1. /\ files' \in [Names -> SUBSET Point] /\ held' \in [Names -> SUBSET Point]
        /\ \A m \in Names : held'[m] # {} => phase'[m] = "unlinked"
    BY <1>1, <1>2, <1>3 DEF IInv, TypeOK
  <2> QED
    BY <1>1, <2>1, EndOfCall DEF IInv, TypeOK, Children
<1>5. ASSUME NEW m \in Names, m # n, Merging(m)
      PROVE  Parent(m) \in Names /\ Parent(m) # Parent(n) /\ m # Parent(n)
  BY <1>1, <1>5, Apart
<1>6. files[Parent(n)] = {} /\ files[n] \subseteq held[n]
  BY <1>1 DEF IInv, MergesApart
<1>7. MergesApart'
  <2>1. \A m \in Names : Merging(m)' => Len(m) > 1
    BY <1>1, <1>3 DEF IInv, MergesApart, Merging
  <2>2. \A m \in Names : phase'[m] = "unlinked" =>
           files'[Parent(m)] = {} /\ files'[m] \subseteq held'[m]
    <3> TAKE m \in Names
    <3> HAVE phase'[m] = "unlinked"
    <3>1. m # n /\ phase[m] = "unlinked"
      BY <1>3
    <3> QED
      BY <1>3, <1>5, <3>1 DEF IInv, MergesApart, Merging
  <2>3. \A m \in Names : phase'[m] = "rewritten" => files'[m] \subseteq files'[Parent(m)]
    <3> TAKE m \in Names
    <3> HAVE phase'[m] = "rewritten"
    <3>1. CASE m = n
      BY <1>2, <1>3, <1>6, <3>1
    <3>2. CASE m # n
      <4>1. phase[m] = "rewritten"
        BY <1>3, <3>2
      <4> QED
        BY <1>3, <1>5, <3>2, <4>1 DEF IInv, MergesApart, Merging
    <3> QED
      BY <3>1, <3>2
  <2>4. \A k, m \in Names : \A p \in held'[k] : p \in files'[m] => m = k \/ m = Root
    <3> SUFFICES ASSUME NEW k \in Names, NEW m \in Names, NEW p \in held'[k],
                        p \in files'[m], m # Root
                 PROVE  m = k
      OBVIOUS
    <3>1. k # n /\ p \in held[k]
      BY <1>3
    <3>2. p \notin held[n]
      BY <3>1 DEF IInv, MergesApart
    <3> QED
      BY <1>3, <3>1, <3>2 DEF IInv, MergesApart
  <2>5. \A k, m \in Names : \A p \in held'[k] : p \in held'[m] => m = k
    BY <1>3 DEF IInv, MergesApart
  <2> QED
    BY <2>1, <2>2, <2>3, <2>4, <2>5 DEF MergesApart
<1>8. ASSUME NEW p \in Point PROVE Somewhere(p)'
  <2>1. CASE \E m \in Names : m # Root /\ p \in files[m]
    BY <1>3, <1>6, <2>1 DEF Somewhere
  <2>2. CASE \E m \in Names : p \in held[m]
    BY <1>2, <1>3, <2>2 DEF Somewhere
  <2> QED
    BY <2>1, <2>2, PointsFacts DEF IInv, Somewhere
<1>9. NeverApart'
  <2> SUFFICES ASSUME NEW k \in Names \ {Root}, NEW m \in Names \ {Root}, NEW p \in Point,
                      p \in files'[k], p \in files'[m]
               PROVE  Twice(k, m)'
    BY DEF NeverApart
  <2>1. CASE k # Parent(n) /\ m # Parent(n)
    <3>1. Twice(k, m)
      BY <1>3, <2>1, PointsFacts DEF IInv, NeverApart
    <3> QED
      BY <1>3, <3>1 DEF Twice
  <2>2. CASE k = Parent(n)
    BY <1>2, <1>3, <2>2 DEF Twice, IInv, MergesApart
  <2>3. CASE m = Parent(n)
    BY <1>2, <1>3, <2>3 DEF Twice, IInv, MergesApart
  <2> QED
    BY <2>1, <2>2, <2>3
<1> QED
  BY <1>4, <1>7, <1>8, <1>9, PointsFactsNext DEF IInv

LEMMA UnlinkChildIInv ==
    ASSUME IInv, NEW n \in Names, UnlinkChild(n)
    PROVE  IInv'
<1>1. /\ phase[n] = "rewritten" /\ InCall(n) /\ Len(n) > 1
      /\ files' = [files EXCEPT ![n] = {}] /\ held' = held
      /\ Return(n, MergedTile(n))
  BY DEF UnlinkChild, InCall, Merging, IInv, MergesApart
<1>2. /\ n # Root /\ Parent(n) \in Names /\ Parent(n) # Root /\ Parent(n) # n
      /\ phase[Parent(n)] = "children"
  BY <1>1, SmallNode
<1>3. tiles' \in [Names -> TileType] /\ phase' = [phase EXCEPT ![n] = "returned"]
  BY <1>1, TilesType, ReturnType DEF IInv
<1>4. /\ \A m \in Names : files'[m] = IF m = n THEN {} ELSE files[m]
      /\ \A m \in Names : phase'[m] = IF m = n THEN "returned" ELSE phase[m]
  BY <1>1, <1>3 DEF IInv, TypeOK
<1>5. TypeOK'
  <2>1. /\ files' \in [Names -> SUBSET Point] /\ held' \in [Names -> SUBSET Point]
        /\ \A m \in Names : held'[m] # {} => phase'[m] = "unlinked"
    BY <1>1, <1>4 DEF IInv, TypeOK
  <2> QED
    BY <1>1, <1>3, <2>1, EndOfCall DEF IInv, TypeOK, TileType, Children
<1>6. ASSUME NEW m \in Names, Merging(m) PROVE Parent(m) \in Names /\ Parent(m) # n
  <2>1. m # Root /\ InCall(m)
    BY <1>6, ParentType DEF IInv, MergesApart, Merging, InCall, Root
  <2>2. phase[Parent(m)] = "children"
    BY <2>1 DEF IInv, TypeOK
  <2> QED
    BY <1>1, <2>1, <2>2, ParentType
<1>7. MergesApart'
  <2>1. \A m \in Names : Merging(m)' => Merging(m) /\ m # n
    BY <1>4 DEF Merging
  <2>2. \A m \in Names : phase'[m] = "unlinked" =>
           files'[Parent(m)] = {} /\ files'[m] \subseteq held'[m]
    BY <1>1, <1>4, <1>6 DEF IInv, MergesApart, Merging
  <2>3. \A m \in Names : phase'[m] = "rewritten" => files'[m] \subseteq files'[Parent(m)]
    BY <1>4, <1>6 DEF IInv, MergesApart, Merging
  <2>4. \A k, m \in Names : \A p \in held'[k] : p \in files'[m] => m = k \/ m = Root
    BY <1>1, <1>4 DEF IInv, MergesApart
  <2> QED
    BY <1>1, <2>1, <2>2, <2>3, <2>4 DEF IInv, MergesApart
<1>8. ASSUME NEW p \in Point PROVE Somewhere(p)'
  <2>1. ASSUME NEW m \in Names, m # Root, p \in files[m]
        PROVE  \E k \in Names : k # Root /\ p \in files'[k]
    BY <1>1, <1>2, <1>4, <2>1 DEF IInv, MergesApart
  <2>2. CASE \E m \in Names : p \in held[m]
    BY <1>1, <2>2 DEF Somewhere
  <2> QED
    BY <2>1, <2>2, PointsFacts DEF IInv, Somewhere
<1>9. NeverApart'
  <2> SUFFICES ASSUME NEW k \in Names \ {Root}, NEW m \in Names \ {Root}, NEW p \in Point,
                      p \in files'[k], p \in files'[m]
               PROVE  Twice(k, m)'
    BY DEF NeverApart
  <2>1. k # n /\ m # n /\ p \in files[k] /\ p \in files[m]
    BY <1>4
  <2>2. Twice(k, m)
    BY <2>1, PointsFacts DEF IInv, NeverApart
  <2> QED
    BY <1>4, <2>1, <2>2 DEF Twice
<1> QED
  BY <1>5, <1>7, <1>8, <1>9, PointsFactsNext DEF IInv

LEMMA KeepTileIInv ==
    ASSUME IInv, NEW n \in Names, KeepTile(n)
    PROVE  IInv'
<1>1. /\ phase[n] = "children" /\ LoopDone(n) /\ InCall(n)
      /\ UNCHANGED <<files, held>> /\ Return(n, OwnTile(n))
  BY DEF KeepTile, InCall
<1>2. tiles' \in [Names -> TileType] /\ phase' = [phase EXCEPT ![n] = "returned"]
  BY <1>1, TilesType, ReturnType DEF IInv
<1>3. \A m \in Names : phase'[m] = IF m = n THEN "returned" ELSE phase[m]
  BY <1>2 DEF IInv, TypeOK
<1>4. TypeOK'
  <2>1. \A m \in Names : held'[m] # {} => phase'[m] = "unlinked"
    BY <1>1, <1>3 DEF IInv, TypeOK
  <2> QED
    BY <1>1, <1>2, <2>1, EndOfCall DEF IInv, TypeOK, TileType, Children
<1>5. /\ \A m \in Names : Merging(m)' <=> Merging(m)
      /\ \A m \in Names : Merging(m) => phase'[m] = phase[m]
  BY <1>1, <1>3 DEF Merging
<1> QED
  BY <1>1, <1>4, <1>5, SameFiles

LEMMA WriteTilesetIInv ==
    ASSUME IInv, WriteTileset
    PROVE  IInv'
<1>1. /\ phase[Root] = "returned" /\ phase' = [phase EXCEPT ![Root] = "written"]
      /\ UNCHANGED <<files, held, tiles>>
  BY DEF WriteTileset
<1>2. \A m \in Names : phase'[m] = IF m = Root THEN "written" ELSE phase[m]
  BY <1>1 DEF IInv, TypeOK
<1>3. \A m \in Names : InCall(m)' <=> InCall(m)
  BY <1>1, <1>2 DEF InCall
<1>4. TypeOK'
  <2>1. \A m \in Names \ {Root} : InCall(m)' => phase'[Parent(m)] = "children"
    BY <1>1, <1>2, <1>3, ParentType DEF IInv, TypeOK
  <2>2. \A m \in Names : held'[m] # {} => phase'[m] = "unlinked"
    BY <1>1, <1>2 DEF IInv, TypeOK
  <2> QED
    BY <1>1, <1>3, <2>1, <2>2 DEF IInv, TypeOK, Children
<1>5. /\ \A m \in Names : Merging(m)' <=> Merging(m)
      /\ \A m \in Names : Merging(m) => phase'[m] = phase[m]
  BY <1>1, <1>2 DEF Merging
<1> QED
  BY <1>1, <1>4, <1>5, SameFiles

LEMMA InitIInv == Init => IInv
<1> SUFFICES ASSUME Init PROVE IInv
  OBVIOUS
<1>1. /\ files \in [Names -> SUBSET Point]
      /\ \A n, m \in Names : n # m => files[n] \cap files[m] = {}
      /\ UNION {files[n] : n \in Names} = Point /\ files[Root] = {}
  BY TreeAssumption DEF Init
<1>2. \A n \in Names : phase[n] = "waiting" /\ held[n] = {}
  BY DEF Init
<1>3. MergesApart
  BY <1>2 DEF MergesApart, Merging
<1>4. (\A p \in Point : Somewhere(p)) /\ NeverApart
  BY <1>1 DEF Somewhere, NeverApart, Twice
<1> QED
  BY <1>3, <1>4, InitTypeOK, PointsFacts DEF IInv

LEMMA StepIInv == IInv /\ [Next]_vars => IInv'
<1> SUFFICES ASSUME IInv, [Next]_vars PROVE IInv'
  OBVIOUS
<1>1. CASE WriteRootTile
  BY <1>1, WriteRootTileIInv
<1>2. CASE Submit
  BY <1>2, SubmitIInv
<1>3. ASSUME NEW n \in Names, ToTileset(n) PROVE IInv'
  BY <1>3, CallChildIInv, UnlinkParentIInv, WriteMergedIInv, UnlinkChildIInv, KeepTileIInv
     DEF ToTileset
<1>4. CASE WriteTileset
  BY <1>4, WriteTilesetIInv
<1>5. CASE UNCHANGED vars
  <2>1. TypeOK'
    BY <1>5 DEF vars, IInv, TypeOK, Children, InCall
  <2> QED
    BY <1>5, <2>1, SameFiles DEF vars, Merging
<1> QED
  BY <1>1, <1>2, <1>3, <1>4, <1>5 DEF Next, Finished

LEMMA TileTreeInvariant == Spec => []IInv
BY InitIInv, StepIInv, PTL DEF Spec

(* A call of to_tileset runs while the call on its parent is in its loop,  *)
(* one child at a time below the root, and only a merge between its first  *)
(* two steps holds points, for every tree and every content of the folder. *)
THEOREM TileTreeTypeCorrect == Spec => []TypeOK
BY TileTreeInvariant, PTL DEF IInv

(* Merging small tiles loses no point, whatever the tree, however small    *)
(* the tiles and in whatever order the processes of the pool run; a point  *)
(* is in two files only while a merge is about to delete the second.       *)
THEOREM MergesLoseNothing == Spec => []PointsInOneFile
BY TileTreeInvariant, PTL DEF IInv

-----------------------------------------------------------------------------
(* The tree of the names                                                   *)

LEMMA BelowFacts ==
    ASSUME NEW n \in Names, NEW m \in Names
    PROVE  m \in Below(n) <=> /\ Len(n) <= Len(m)
                              /\ \A i \in 1..Len(n) : m[i] = n[i]
<1>1. n \in Seq(Digit) /\ m \in Seq(Digit) /\ Len(n) \in Nat /\ Len(m) \in Nat
  BY TreeAssumption DEF NodeName
<1>2. ASSUME Len(n) <= Len(m)
      PROVE  SubSeq(m, 1, Len(n)) = n <=> \A i \in 1..Len(n) : m[i] = n[i]
  <2>1. \A i \in 1..Len(n) : m[i] \in Digit
    BY <1>1, <1>2, ElementOfSeq
  <2>2. PICK s : s = SubSeq(m, 1, Len(n))
    OBVIOUS
  <2>3. s \in Seq(Digit) /\ Len(s) = Len(n) /\ \A i \in 1..Len(n) : s[i] = m[i]
    BY <1>1, <1>2, <2>1, <2>2
  <2>4. s = n <=> \A i \in 1..Len(n) : s[i] = n[i]
    BY <1>1, <2>3, SeqEqual
  <2> QED
    BY <2>2, <2>3, <2>4
<1> QED
  BY <1>2 DEF Below, IsAncestor

LEMMA NameEqual ==
    ASSUME NEW n \in Names, NEW m \in Names, Len(n) = Len(m),
           \A i \in 1..Len(n) : m[i] = n[i]
    PROVE  m = n
<1>1. n \in Seq(Digit) /\ m \in Seq(Digit)
  BY TreeAssumption DEF NodeName
<1> QED
  BY <1>1, SeqEqual

LEMMA LenType == \A n \in Names : Len(n) \in Nat
BY TreeAssumption DEF NodeName

(* Below is a partial order that goes from a node to its parent.           *)
LEMMA BelowOrder ==
    ASSUME NEW n \in Names, NEW m \in Below(n)
    PROVE  /\ m \in Names /\ n \in Below(n)
           /\ n \in Below(m) => m = n
           /\ Below(m) \subseteq Below(n)
           /\ m # n => m # Root /\ Parent(m) \in Below(n)
           /\ \A c \in Children(m) : c \in Below(n) /\ c # n
<1>1. m \in Names
  BY DEF Below
<1>2. Len(n) \in Nat /\ Len(m) \in Nat /\ Len(n) <= Len(m) /\ \A i \in 1..Len(n) : m[i] = n[i]
  BY <1>1, BelowFacts, LenType
<1>3. n \in Below(n)
  BY <1>2, BelowFacts
<1>4. n \in Below(m) => m = n
  <2> SUFFICES ASSUME n \in Below(m) PROVE m = n
    OBVIOUS
  <2>1. Len(n) = Len(m)
    BY <1>1, <1>2, BelowFacts
  <2> QED
    BY <1>1, <1>2, <2>1, NameEqual
<1>5. Below(m) \subseteq Below(n)
  <2> SUFFICES ASSUME NEW k \in Below(m) PROVE k \in Below(n)
    OBVIOUS
  <2>1. k \in Names
    BY DEF Below
  <2>2. Len(k) \in Nat /\ Len(m) <= Len(k) /\ \A i \in 1..Len(m) : k[i] = m[i]
    BY <1>1, <2>1, BelowFacts, LenType
  <2>3. Len(n) <= Len(k) /\ \A i \in 1..Len(n) : k[i] = n[i]
    BY <1>2, <2>2
  <2> QED
    BY <2>1, <2>3, BelowFacts
<1>6. ASSUME m # n PROVE m # Root /\ Parent(m) \in Below(n)
  <2>1. Len(m) # Len(n)
    BY <1>1, <1>2, <1>6, NameEqual
  <2>2. m # Root
    BY <1>2, <2>1 DEF Root
  <2>3. Parent(m) \in Names /\ Len(Parent(m)) = Len(m) - 1
    BY <1>1, <2>2, ParentType
  <2>4. m \in Seq(Digit)
    BY <1>1, TreeAssumption DEF NodeName
  <2>5. \A i \in 1..(Len(m) - 1) : Parent(m)[i] = m[i]
    BY <1>2, <2>4 DEF Parent
  <2>6. Len(n) <= Len(Parent(m)) /\ \A i \in 1..Len(n) : Parent(m)[i] = n[i]
    BY <1>2, <2>1, <2>3, <2>5
  <2> QED
    BY <2>2, <2>3, <2>6, BelowFacts
<1>7. ASSUME NEW c \in Children(m) PROVE c \in Below(n) /\ c # n
  <2>1. c \in Below(m) /\ c \in Names /\ Len(c) = Len(m) + 1
    BY <1>7 DEF Children, Below
  <2> QED
    BY <1>2, <1>5, <2>1
<1> QED
  BY <1>1, <1>3, <1>4, <1>5, <1>6, <1>7

LEMMA SmallestNumber ==
    ASSUME NEW T \in SUBSET Nat, T # {}
    PROVE  \E i \in T : \A j \in T : i <= j
<1>1. PICK R : R = OpToRel(<, Nat)
  OBVIOUS
<1>2. IsWellFoundedOn(R, Nat)
  BY <1>1, NatLessThanWellFounded
<1>3. PICK i \in T : \A j \in T : ~ (<<j, i>> \in R)
  BY <1>2, WFMin
<1>4. ASSUME NEW j \in T PROVE i <= j
  <2>1. <<j, i>> \in Nat \X Nat /\ <<j, i>>[1] = j /\ <<j, i>>[2] = i
    OBVIOUS
  <2>2. j < i => <<j, i>> \in R
    BY <1>1, <2>1 DEF OpToRel
  <2>3. ~ (j < i)
    BY <1>3, <2>2
  <2> QED
    BY <2>3
<1> QED
  BY <1>4

(* Of any names there is one with none of the others below it, and one     *)
(* whose parent is not among them.                                         *)
LEMMA DeepestName ==
    ASSUME NEW T \in SUBSET Names, T # {}
    PROVE  \E n \in T : \A m \in Below(n) : m \in T => m = n
<1> DEFINE Sizes == {Cardinality(Below(n)) : n \in T}
<1>1. \A n \in Names : IsFiniteSet(Below(n)) /\ Cardinality(Below(n)) \in Nat
  BY TreeAssumption, FS_Subset, FS_CardinalityType DEF Below
<1>2. PICK i \in Sizes : \A j \in Sizes : i <= j
  <2>1. Sizes \in SUBSET Nat /\ Sizes # {}
    BY <1>1
  <2> HIDE DEF Sizes
  <2> QED
    BY <2>1, SmallestNumber
<1>3. PICK n \in T : Cardinality(Below(n)) = i
  BY <1>2
<1>4. ASSUME NEW m \in Below(n), m \in T, m # n PROVE FALSE
  <2>1. Below(m) \subseteq Below(n) /\ n \in Below(n) /\ n \notin Below(m)
    BY <1>4, BelowOrder
  <2>2. Cardinality(Below(m)) <= Cardinality(Below(n)) /\ Cardinality(Below(m)) # Cardinality(Below(n))
    BY <1>1, <2>1, FS_Subset
  <2>3. Cardinality(Below(n)) <= Cardinality(Below(m))
    BY <1>2, <1>3, <1>4
  <2> QED
    BY <1>1, <1>4, <2>2, <2>3
<1> QED
  BY <1>4

LEMMA HighestName ==
    ASSUME NEW T \in SUBSET Names, T # {}
    PROVE  \E n \in T : n = Root \/ Parent(n) \notin T
<1> DEFINE Sizes == {Len(n) : n \in T}
<1>1. PICK i \in Sizes : \A j \in Sizes : i <= j
  <2>1. Sizes \in SUBSET Nat /\ Sizes # {}
    BY LenType
  <2> HIDE DEF Sizes
  <2> QED
    BY <2>1, SmallestNumber
<1>2. PICK n \in T : Len(n) = i
  BY <1>1
<1>3. ASSUME n # Root, Parent(n) \in T PROVE FALSE
  <2>1. Len(Parent(n)) = Len(n) - 1 /\ Len(n) \in Nat
    BY <1>3, ParentType
  <2>2. Len(n) <= Len(Parent(n))
    BY <1>1, <1>2, <1>3
  <2> QED
    BY <2>1, <2>2
<1> QED
  BY <1>3

-----------------------------------------------------------------------------
(* Recursion over the tree.  The three recursive functions of the model,   *)
(* the tiles below a tile, the boxes of a file and the files reached,      *)
(* collect B over what K reaches: K goes down the tree, so they exist and  *)
(* are what Reach defines without recursion.                               *)
Closed(S, K) == \A y \in S : K[y] \subseteq S
Reach(m, K, D) == {x \in D : \A S \in SUBSET D : m \in S /\ Closed(S, K) => x \in S}
Down(S, K) == \A y \in S : \A c \in K[y] : c \in Below(y) /\ c # y
Collects(r, B, K, D) == r = [m \in D |-> B[m] \cup UNION {r[c] : c \in K[m]}]

Gathers(r, B, n, K, D) == \A p : p \in r[n] <=> \E x \in Reach(n, K, D) : p \in B[x]

LEMMA ReachFacts ==
    ASSUME NEW D, NEW K, Closed(D, K), NEW m \in D
    PROVE  /\ m \in Reach(m, K, D) /\ Reach(m, K, D) \subseteq D
           /\ Closed(Reach(m, K, D), K)
           /\ \A x \in Reach(m, K, D) : x # m => \E y \in Reach(m, K, D) : x \in K[y]
           /\ \A S \in SUBSET D : m \in S /\ Closed(S, K) => Reach(m, K, D) \subseteq S
<1>1. /\ m \in Reach(m, K, D) /\ Reach(m, K, D) \subseteq D
      /\ \A S \in SUBSET D : m \in S /\ Closed(S, K) => Reach(m, K, D) \subseteq S
  BY DEF Reach
<1>2. Closed(Reach(m, K, D), K)
  <2> SUFFICES ASSUME NEW y \in Reach(m, K, D), NEW x \in K[y]
               PROVE  x \in Reach(m, K, D)
    BY DEF Closed
  <2>1. x \in D
    BY <1>1 DEF Closed
  <2>2. ASSUME NEW S \in SUBSET D, m \in S, Closed(S, K) PROVE x \in S
    <3>1. y \in S
      BY <1>1, <2>2
    <3> QED
      BY <2>2, <3>1 DEF Closed
  <2> QED
    BY <2>1, <2>2 DEF Reach
<1>3. ASSUME NEW x \in Reach(m, K, D), x # m, \A y \in Reach(m, K, D) : x \notin K[y]
      PROVE  FALSE
  <2> DEFINE S == Reach(m, K, D) \ {x}
  <2>1. S \in SUBSET D /\ m \in S /\ Closed(S, K)
    BY <1>1, <1>2, <1>3 DEF Closed
  <2> HIDE DEF S
  <2>2. x \in S
    BY <1>1, <2>1
  <2> QED
    BY <2>2 DEF S
<1> QED
  BY <1>1, <1>2, <1>3

LEMMA ReachUnfolds ==
    ASSUME NEW D, NEW K, Closed(D, K), NEW m \in D
    PROVE  Reach(m, K, D) = {m} \cup UNION {Reach(c, K, D) : c \in K[m]}
<1>1. K[m] \subseteq D
  BY DEF Closed
<1>2. PICK S : S = {m} \cup UNION {Reach(c, K, D) : c \in K[m]}
  OBVIOUS
<1>3. S \in SUBSET D
  BY <1>1, <1>2, ReachFacts
<1>4. Closed(S, K)
  <2> SUFFICES ASSUME NEW y \in S PROVE K[y] \subseteq S
    BY DEF Closed
  <2>1. CASE y = m
    BY <1>1, <1>2, <2>1, ReachFacts
  <2>2. CASE y # m
    <3>1. PICK c \in K[m] : y \in Reach(c, K, D)
      BY <1>2, <2>2
    <3>2. K[y] \subseteq Reach(c, K, D)
      BY <1>1, <3>1, ReachFacts DEF Closed
    <3> QED
      BY <1>2, <3>1, <3>2
  <2> QED
    BY <2>1, <2>2
<1>5. Reach(m, K, D) \subseteq S
  BY <1>2, <1>3, <1>4, ReachFacts
<1>6. m \in Reach(m, K, D)
  BY ReachFacts
<1>7. ASSUME NEW c \in K[m] PROVE Reach(c, K, D) \subseteq Reach(m, K, D)
  <2>1. c \in Reach(m, K, D) /\ Reach(m, K, D) \in SUBSET D /\ Closed(Reach(m, K, D), K)
    BY <1>6, <1>7, ReachFacts DEF Closed
  <2> QED
    BY <1>1, <2>1, ReachFacts
<1> QED
  BY <1>2, <1>5, <1>6, <1>7

LEMMA CollectExists ==
    ASSUME NEW D, NEW K, Closed(D, K), NEW B
    PROVE  \E r : Collects(r, B, K, D)
<1> DEFINE r == [m \in D |-> UNION {B[x] : x \in Reach(m, K, D)}]
<1>1. ASSUME NEW m \in D
      PROVE  r[m] = B[m] \cup UNION {r[c] : c \in K[m]}
  <2>1. K[m] \subseteq D
    BY DEF Closed
  <2>2. \A x : x \in Reach(m, K, D) <=> x = m \/ \E c \in K[m] : x \in Reach(c, K, D)
    BY ReachUnfolds
  <2>3. \A c \in K[m] : r[c] = UNION {B[x] : x \in Reach(c, K, D)}
    BY <2>1
  <2>4. r[m] = UNION {B[x] : x \in Reach(m, K, D)}
    OBVIOUS
  <2> HIDE DEF r
  <2> QED
    BY <2>2, <2>3, <2>4
<1>2. PICK q : q = r
  OBVIOUS
<1>3. q = [m \in D |-> q[m]] /\ \A m \in D : q[m] = B[m] \cup UNION {q[c] : c \in K[m]}
  BY <1>1, <1>2
<1> HIDE DEF r
<1>4. Collects(q, B, K, D)
  BY <1>3 DEF Collects
<1> QED
  BY <1>4

LEMMA CollectIsReach ==
    ASSUME NEW D \in SUBSET Names, NEW K, Closed(D, K), Down(D, K),
           NEW B, NEW r, Collects(r, B, K, D), NEW n \in D
    PROVE  Gathers(r, B, n, K, D)
<1> DEFINE Right(m) == \A p : p \in r[m] <=> \E x \in Reach(m, K, D) : p \in B[x]
           Wrong == {m \in D : ~ Right(m)}
<1>1. SUFFICES ASSUME Wrong # {} PROVE FALSE
  BY DEF Gathers
<1>2. PICK m \in Wrong : \A c \in Below(m) : c \in Wrong => c = m
  <2> HIDE DEF Wrong
  <2>1. Wrong \in SUBSET Names
    BY DEF Wrong
  <2> QED
    BY <1>1, <2>1, DeepestName
<1>3. K[m] \subseteq D /\ m \in D
  BY DEF Closed
<1>4. \A c \in K[m] : Right(c)
  BY <1>2, <1>3 DEF Down
<1>5. r[m] = B[m] \cup UNION {r[c] : c \in K[m]}
  BY <1>3 DEF Collects
<1>6. \A x : x \in Reach(m, K, D) <=> x = m \/ \E c \in K[m] : x \in Reach(c, K, D)
  BY <1>3, ReachUnfolds
<1>7. \A p : p \in UNION {r[c] : c \in K[m]} <=>
                \E c \in K[m] : \E x \in Reach(c, K, D) : p \in B[x]
  BY <1>4
<1>8. Right(m)
  <2> HIDE DEF Wrong
  <2> QED
    BY <1>5, <1>6, <1>7
<1> QED
  BY <1>2, <1>8

-----------------------------------------------------------------------------
(* Tile set files                                                          *)

(* The children of a tile are tiles of children of its node.               *)
Hanging(all) == \A m \in Names : all[m].children \subseteq Children(m)

(* The tiles D but the first are children of tiles in D.                   *)
Hung(D, n, all) == \A m \in D : m # n => \E y \in D : m \in all[y].children

(* The recursive functions of Document and Synced.                         *)
SeenIn(r, all) == r = [m \in Names |-> {m} \cup UNION {r[c] : c \in all[m].children}]
BoxesIn(r, t) == r = [m \in DOMAIN t |-> t[m].box \cup UNION {r[c] : c \in t[m].children}]

LEMMA SyncedIsBoxes == \A t : Synced(t) = CHOOSE r : BoxesIn(r, t)
BY DEF Synced, BoxesIn

SeenOf(all) == CHOOSE r : SeenIn(r, all)
DocumentOf(n, all, seen) ==
    LET doc == [m \in seen[n] |-> all[m]]
    IN  [m \in seen[n] |-> [doc[m] EXCEPT !.box = Synced(doc)[m]]]

LEMMA DocumentIsSeen ==
    ASSUME NEW n, NEW t, NEW all, all = [tiles EXCEPT ![n] = t],
           NEW seen, seen = SeenOf(all)
    PROVE  Document(n, t) = DocumentOf(n, all, seen)
BY DEF Document, DocumentOf, SeenIn, SeenOf

(* The tiles of a file: those that hang from its first, each with the      *)
(* boxes below it in its own.                                              *)
LEMMA SeenFacts ==
    ASSUME NEW all \in [Names -> TileType], Hanging(all),
           NEW n \in Names, NEW seen, seen = SeenOf(all), NEW D, D = seen[n]
    PROVE  /\ n \in D /\ D \subseteq Below(n)
           /\ \A m \in D : all[m].children \subseteq D
           /\ Hung(D, n, all)
<1>1. PICK K : K = [m \in Names |-> all[m].children]
  OBVIOUS
<1>2. PICK B : B = [m \in Names |-> {m}]
  OBVIOUS
<1>3. Closed(Names, K) /\ Names \in SUBSET Names
  BY <1>1 DEF Closed, TileType
<1>4. \A r : Collects(r, B, K, Names) <=> SeenIn(r, all)
  <2> SUFFICES ASSUME NEW r PROVE Collects(r, B, K, Names) <=> SeenIn(r, all)
    OBVIOUS
  <2>1. \A m \in Names : B[m] = {m} /\ K[m] = all[m].children
    BY <1>1, <1>2
  <2>2. [m \in Names |-> B[m] \cup UNION {r[c] : c \in K[m]}]
          = [m \in Names |-> {m} \cup UNION {r[c] : c \in all[m].children}]
    BY <2>1
  <2> QED
    BY <2>2 DEF Collects, SeenIn
<1>5. SeenIn(seen, all)
  BY <1>3, <1>4, CollectExists DEF SeenOf
<1>6. Collects(seen, B, K, Names)
  BY <1>4, <1>5
<1>7. Down(Names, K)
  <2> SUFFICES ASSUME NEW y \in Names, NEW c \in K[y] PROVE c \in Below(y) /\ c # y
    BY DEF Down
  <2>1. c \in Children(y) /\ y \in Below(y)
    BY <1>1, BelowFacts, LenType DEF Hanging
  <2> QED
    BY <2>1, BelowOrder
<1>8. \A p : p \in seen[n] <=> \E x \in Reach(n, K, Names) : p \in B[x]
  <2>1. Gathers(seen, B, n, K, Names)
    BY <1>3, <1>6, <1>7, CollectIsReach
  <2> QED
    BY <2>1 DEF Gathers
<1>9. seen[n] = Reach(n, K, Names)
  <2>1. Reach(n, K, Names) \subseteq Names
    BY <1>3, ReachFacts
  <2>2. \A p : p \in seen[n] <=> p \in Reach(n, K, Names)
    BY <1>2, <1>8, <2>1
  <2>3. seen[n] = {n} \cup UNION {seen[c] : c \in all[n].children}
    BY <1>5 DEF SeenIn
  <2> QED
    BY <2>2, <2>3
<1>10. Below(n) \in SUBSET Names /\ n \in Below(n) /\ Closed(Below(n), K)
  <2>1. n \in Below(n)
    BY BelowFacts, LenType
  <2>2. ASSUME NEW y \in Below(n) PROVE K[y] \subseteq Below(n)
    BY <1>7, <2>2, BelowOrder DEF Down, Below
  <2> QED
    BY <2>1, <2>2 DEF Closed, Below
<1>11. n \in D /\ D \subseteq Below(n) /\ Closed(D, K)
  <2>1. n \in Reach(n, K, Names) /\ Closed(Reach(n, K, Names), K)
    BY <1>3, ReachFacts
  <2>2. Reach(n, K, Names) \subseteq Below(n)
    BY <1>3, <1>10, ReachFacts
  <2> QED
    BY <1>9, <2>1, <2>2
<1>12. \A m \in D : m # n => \E y \in D : m \in K[y]
  <2>1. \A m \in Reach(n, K, Names) : m # n => \E y \in Reach(n, K, Names) : m \in K[y]
    BY <1>3, ReachFacts
  <2> QED
    BY <1>9, <2>1
<1>13. \A y \in D : K[y] = all[y].children
  BY <1>1, <1>11 DEF Below
<1> QED
  BY <1>11, <1>12, <1>13 DEF Closed, Hung

LEMMA SyncedFacts ==
    ASSUME NEW D \in SUBSET Names, NEW t \in [D -> TileType],
           \A m \in D : t[m].children \subseteq D \cap Children(m)
    PROVE  /\ \A m \in D : t[m].box \subseteq Synced(t)[m]
           /\ \A m \in D : \A c \in t[m].children : Synced(t)[c] \subseteq Synced(t)[m]
<1>1. PICK K : K = [m \in D |-> t[m].children]
  OBVIOUS
<1>2. PICK B : B = [m \in D |-> t[m].box]
  OBVIOUS
<1>3. Closed(D, K)
  BY <1>1 DEF Closed
<1>4. \A r : Collects(r, B, K, D) <=> BoxesIn(r, t)
  <2> SUFFICES ASSUME NEW r PROVE Collects(r, B, K, D) <=> BoxesIn(r, t)
    OBVIOUS
  <2>1. \A m \in D : B[m] = t[m].box /\ K[m] = t[m].children
    BY <1>1, <1>2
  <2>2. [m \in D |-> B[m] \cup UNION {r[c] : c \in K[m]}]
          = [m \in D |-> t[m].box \cup UNION {r[c] : c \in t[m].children}]
    BY <2>1
  <2>3. DOMAIN t = D
    OBVIOUS
  <2> QED
    BY <2>2, <2>3 DEF Collects, BoxesIn
<1>5. PICK s : s = Synced(t)
  OBVIOUS
<1>6. BoxesIn(s, t)
  BY <1>3, <1>4, <1>5, CollectExists, SyncedIsBoxes
<1>7. \A m \in D : s[m] = t[m].box \cup UNION {s[c] : c \in t[m].children}
  BY <1>6 DEF BoxesIn
<1> QED
  BY <1>5, <1>7

TilesWith(n, t) == [tiles EXCEPT ![n] = t]

LEMMA DocumentFacts ==
    ASSUME NEW n \in Names, NEW t, NEW all \in [Names -> TileType],
           all = TilesWith(n, t),
           Hanging(all),
           NEW doc, doc = Document(n, t), NEW D, D = DOMAIN doc
    PROVE  /\ n \in D /\ D \subseteq Below(n)
           /\ \A m \in D : /\ doc[m].content = all[m].content
                           /\ doc[m].children = all[m].children
                           /\ doc[m].refine = all[m].refine
                           /\ all[m].box \subseteq doc[m].box
                           /\ all[m].children \subseteq D
           /\ \A m \in D : \A c \in all[m].children : doc[c].box \subseteq doc[m].box
           /\ Hung(D, n, all)
<1>1. PICK seen : seen = SeenOf(all)
  OBVIOUS
<1>2. doc = DocumentOf(n, all, seen)
  BY <1>1, DocumentIsSeen DEF TilesWith
<1>3. D = seen[n]
  BY <1>2 DEF DocumentOf
<1>4. PICK own : own = [m \in D |-> all[m]]
  OBVIOUS
<1>5. doc = [m \in D |-> [own[m] EXCEPT !.box = Synced(own)[m]]]
  BY <1>2, <1>3, <1>4 DEF DocumentOf
<1>6. /\ n \in D /\ D \subseteq Below(n)
      /\ \A m \in D : all[m].children \subseteq D
      /\ Hung(D, n, all)
  <2>1. n \in D /\ D \subseteq Below(n)
    BY <1>1, <1>3, SeenFacts
  <2>2. \A m \in D : all[m].children \subseteq D
    BY <1>1, <1>3, SeenFacts
  <2>3. Hung(D, n, all)
    BY <1>1, <1>3, SeenFacts
  <2> QED
    BY <2>1, <2>2, <2>3
<1>7. D \in SUBSET Names
  BY <1>6 DEF Below
<1>8. own \in [D -> TileType] /\ \A m \in D : own[m] = all[m]
  BY <1>4, <1>7
<1>9. \A m \in D : own[m].children \subseteq D \cap Children(m)
  BY <1>6, <1>7, <1>8 DEF Hanging
<1>10. /\ \A m \in D : own[m].box \subseteq Synced(own)[m]
       /\ \A m \in D : \A c \in own[m].children : Synced(own)[c] \subseteq Synced(own)[m]
  BY <1>7, <1>8, <1>9, SyncedFacts
<1>11. ASSUME NEW m \in D
       PROVE  /\ doc[m].content = all[m].content
              /\ doc[m].children = all[m].children
              /\ doc[m].refine = all[m].refine
              /\ doc[m].box = Synced(own)[m]
  <2>1. doc[m] = [own[m] EXCEPT !.box = Synced(own)[m]]
    BY <1>5
  <2>2. own[m] \in TileType
    BY <1>8
  <2>3. PICK b : b = Synced(own)[m]
    OBVIOUS
  <2> QED
    BY <1>8, <2>1, <2>2, <2>3 DEF TileType
<1>12. \A m \in D : all[m].box \subseteq doc[m].box
  BY <1>8, <1>10, <1>11
<1>13. \A m \in D : \A c \in all[m].children : doc[c].box \subseteq doc[m].box
  BY <1>6, <1>8, <1>10, <1>11
<1> QED
  BY <1>6, <1>11, <1>12, <1>13

-----------------------------------------------------------------------------
(* Every file is found by a call: while a node waits its parent has not    *)
(* ended its loop, and a node in its loop has a file but during the merge  *)
(* of a child.                                                             *)
Done(n) == phase[n] \in {"returned", "written"}
Absent(n) == phase[n] = "waiting" /\ files[n] = {}

WaitsFor(n) ==
    /\ phase[n] # "written"
    /\ phase[n] # "waiting" => phase[Parent(n)] # "waiting"
    /\ phase[n] = "waiting" /\ files[n] # {} =>
          /\ phase[Parent(n)] \in {"waiting", "children"}
          /\ Parent(n) = Root \/ ~ Absent(Parent(n))
    /\ phase[n] = "children" /\ files[n] = {} =>
          \E c \in Children(n) : phase[c] = "unlinked"
FilesFound ==
    /\ \A n \in Names \ {Root} : WaitsFor(n)
    /\ \A n \in Names : phase[n] = "unlinked" => held[n] # {}
    /\ phase[Root] # "waiting" => files[Root] # {}
    /\ \A n \in Names : ~ Done(n) => tiles[n] = NoTile /\ docs[n] = NoDoc
    /\ DOMAIN docs = Names

(* A call whose loop is done has a file, and its children have returned or *)
(* never had one.                                                          *)
LEMMA LoopDoneFacts ==
    ASSUME IInv, FilesFound, NEW n \in Names, phase[n] = "children", LoopDone(n)
    PROVE  /\ files[n] # {}
           /\ \A c \in Children(n) : Done(c) \/ Absent(c)
<1>1. ASSUME NEW c \in Children(n) PROVE Done(c) \/ Absent(c)
  <2>1. ~ InCall(c) /\ (phase[c] = "waiting" => files[c] = {}) /\ c \in Names
    BY DEF LoopDone, ToCall, Children
  <2>2. phase[c] \in {"waiting", "children", "unlinked", "rewritten", "returned", "written"}
    BY <2>1 DEF IInv, TypeOK
  <2> QED
    BY <2>1, <2>2 DEF InCall, Done, Absent
<1>2. files[n] # {}
  <2>1. CASE n = Root
    BY <2>1 DEF FilesFound
  <2>2. CASE n # Root
    <3>1. \A c \in Children(n) : phase[c] # "unlinked"
      BY DEF LoopDone, InCall
    <3> QED
      BY <2>2, <3>1 DEF FilesFound, WaitsFor
  <2> QED
    BY <2>1, <2>2
<1> QED
  BY <1>1, <1>2

LEMMA InitFilesFound == Init => FilesFound
<1> SUFFICES ASSUME Init PROVE FilesFound
  OBVIOUS
<1>1. /\ \A n \in Names : phase[n] = "waiting" /\ tiles[n] = NoTile /\ docs[n] = NoDoc
      /\ DOMAIN docs = Names
  BY DEF Init
<1>2. \A n \in Names : Len(n) > 1 /\ files[n] # {} => files[Parent(n)] # {}
  BY TreeAssumption DEF Init
<1>3. ASSUME NEW n \in Names \ {Root} PROVE WaitsFor(n)
  <2>1. Parent(n) \in Names /\ Len(n) \in Nat /\ Len(n) # 0 /\ Len(Parent(n)) = Len(n) - 1
    BY <1>3, ParentType
  <2>2. CASE Len(n) > 1
    BY <1>1, <1>2, <2>1, <2>2 DEF WaitsFor, Absent
  <2>3. CASE ~ (Len(n) > 1)
    <3>1. Len(Parent(n)) = 0 /\ Parent(n) \in Seq(Digit)
      BY <2>1, <2>3, TreeAssumption DEF NodeName
    <3>2. Parent(n) = Root
      BY <3>1, EmptySeq DEF Root
    <3> QED
      BY <1>1, <2>1, <3>2 DEF WaitsFor
  <2> QED
    BY <2>2, <2>3
<1> QED
  BY <1>1, <1>3, TreeAssumption DEF FilesFound, Done

(* Steps that give no file up.                                             *)
LEMMA WriteRootTileFound ==
    ASSUME IInv, FilesFound, WriteRootTile
    PROVE  FilesFound'
<1>1. /\ files'[Root] # {} /\ \A n \in Names \ {Root} : files'[n] = files[n]
      /\ \A n \in Names : phase'[n] = IF n = Root THEN "children" ELSE phase[n]
      /\ phase[Root] = "waiting" /\ UNCHANGED <<held, tiles, docs>>
  BY TreeAssumption DEF WriteRootTile, IInv, TypeOK
<1>2. ASSUME NEW n \in Names \ {Root} PROVE WaitsFor(n)'
  <2>1. WaitsFor(n) /\ Parent(n) \in Names
    BY ParentType DEF FilesFound
  <2>2. \A c \in Children(n) : phase'[c] = phase[c]
    BY <1>1, ChildIsBelow DEF Children
  <2> QED
    BY <1>1, <2>1, <2>2 DEF WaitsFor, Absent, Children
<1> QED
  BY <1>1, <1>2 DEF FilesFound, Done

LEMMA SubmitFound ==
    ASSUME IInv, FilesFound, Submit
    PROVE  FilesFound'
<1>1. /\ \A n \in Names : phase'[n] = IF n \in ToCall(Root) THEN "children" ELSE phase[n]
      /\ phase[Root] = "children" /\ UNCHANGED <<files, held, tiles, docs>>
  BY DEF Submit
<1>2. \A n \in ToCall(Root) : /\ n \in Names /\ n # Root /\ Parent(n) = Root
                              /\ phase[n] = "waiting" /\ files[n] # {}
  BY TreeAssumption, ChildIsBelow DEF ToCall, Children
<1>3. ASSUME NEW n \in Names \ {Root} PROVE WaitsFor(n)'
  <2>1. WaitsFor(n) /\ Parent(n) \in Names
    BY ParentType DEF FilesFound
  <2>2. \A c \in Children(n) : phase[c] = "unlinked" => phase'[c] = "unlinked"
    BY <1>1, <1>2 DEF Children
  <2>3. phase'[n] # "waiting" => phase'[Parent(n)] # "waiting"
    BY <1>1, <1>2, <2>1 DEF WaitsFor
  <2>4. phase'[n] # "written"
    BY <1>1, <1>2, <2>1 DEF WaitsFor
  <2>5. phase'[n] = "waiting" /\ files'[n] # {} =>
           /\ phase'[Parent(n)] \in {"waiting", "children"}
           /\ Parent(n) = Root \/ ~ Absent(Parent(n))'
    BY <1>1, <1>2, <2>1 DEF WaitsFor, Absent
  <2>6. phase'[n] = "children" /\ files'[n] = {} =>
           \E c \in Children(n) : phase'[c] = "unlinked"
    BY <1>1, <1>2, <2>1, <2>2 DEF WaitsFor
  <2> QED
    BY <2>3, <2>4, <2>5, <2>6 DEF WaitsFor, Children
<1> QED
  BY <1>1, <1>2, <1>3, TreeAssumption DEF FilesFound, Done

LEMMA CallChildFound ==
    ASSUME IInv, FilesFound, NEW k \in Names, CallChild(k)
    PROVE  FilesFound'
<1>1. PICK called : called = FirstOf(ToCall(k))
  OBVIOUS
<1>2. called \in ToCall(k)
  BY <1>1, FirstOfType DEF CallChild
<1>3. /\ called \in Names /\ called # Root /\ Parent(called) = k
      /\ phase[called] = "waiting" /\ files[called] # {} /\ phase[k] = "children"
  BY <1>2, ChildIsBelow DEF CallChild, ToCall, Children
<1>4. /\ \A n \in Names : phase'[n] = IF n = called THEN "children" ELSE phase[n]
      /\ UNCHANGED <<files, held, tiles, docs>>
  BY <1>1, <1>3 DEF CallChild, IInv, TypeOK
<1>5. ASSUME NEW n \in Names \ {Root} PROVE WaitsFor(n)'
  <2>1. WaitsFor(n) /\ Parent(n) \in Names
    BY ParentType DEF FilesFound
  <2>2. \A c \in Children(n) : phase[c] = "unlinked" => phase'[c] = "unlinked"
    BY <1>3, <1>4 DEF Children
  <2>3. phase'[n] # "waiting" => phase'[Parent(n)] # "waiting"
    BY <1>3, <1>4, <2>1 DEF WaitsFor
  <2>4. phase'[n] # "written"
    BY <1>3, <1>4, <2>1 DEF WaitsFor
  <2>5. phase'[n] = "waiting" /\ files'[n] # {} =>
           /\ phase'[Parent(n)] \in {"waiting", "children"}
           /\ Parent(n) = Root \/ ~ Absent(Parent(n))'
    BY <1>3, <1>4, <2>1 DEF WaitsFor, Absent
  <2>6. phase'[n] = "children" /\ files'[n] = {} =>
           \E c \in Children(n) : phase'[c] = "unlinked"
    BY <1>3, <1>4, <2>1, <2>2 DEF WaitsFor
  <2> QED
    BY <2>3, <2>4, <2>5, <2>6 DEF WaitsFor, Children
<1> QED
  BY <1>3, <1>4, <1>5, TreeAssumption DEF FilesFound, Done

LEMMA UnlinkParentFound ==
    ASSUME IInv, FilesFound, NEW k \in Names, UnlinkParent(k)
    PROVE  FilesFound'
<1>1. /\ phase[k] = "children" /\ LoopDone(k) /\ InCall(k) /\ Len(k) > 1
      /\ held' = [held EXCEPT ![k] = files[Parent(k)] \cup files[k]]
      /\ files' = [files EXCEPT ![Parent(k)] = {}]
      /\ phase' = [phase EXCEPT ![k] = "unlinked"]
      /\ UNCHANGED <<tiles, docs>>
  BY DEF UnlinkParent, IsSmall, InCall
<1>2. k # Root /\ Parent(k) \in Names /\ Parent(k) # Root /\ phase[Parent(k)] = "children"
  BY <1>1, SmallNode
<1>3. /\ \A m \in Names : held'[m] = IF m = k THEN files[Parent(k)] \cup files[k] ELSE held[m]
      /\ \A m \in Names : files'[m] = IF m = Parent(k) THEN {} ELSE files[m]
      /\ \A m \in Names : phase'[m] = IF m = k THEN "unlinked" ELSE phase[m]
  BY <1>1, <1>2 DEF IInv, TypeOK
<1>4. files[k] # {} /\ \A c \in Children(k) : Done(c) \/ Absent(c)
  BY <1>1, LoopDoneFacts
<1>5. ASSUME NEW n \in Names \ {Root} PROVE WaitsFor(n)'
  <2>1. WaitsFor(n) /\ Parent(n) \in Names
    BY ParentType DEF FilesFound
  <2>2. /\ phase'[n] # "written"
        /\ phase'[n] # "waiting" => phase'[Parent(n)] # "waiting"
    BY <1>1, <1>3, <2>1 DEF WaitsFor
  <2>3. ASSUME phase'[n] = "waiting", files'[n] # {}
        PROVE  /\ phase'[Parent(n)] \in {"waiting", "children"}
               /\ Parent(n) = Root \/ ~ Absent(Parent(n))'
    <3>1. phase[n] = "waiting" /\ files[n] # {} /\ n # k
      BY <1>3, <2>3
    <3>2. Parent(n) # k
      <4>1. Parent(n) = k => n \in Children(k)
        BY ChildIsBelow
      <4> QED
        BY <1>4, <3>1, <4>1 DEF Done, Absent
    <3>3. phase'[Parent(n)] = phase[Parent(n)]
      BY <1>3, <2>1, <3>2
    <3>4. Parent(n) = Parent(k) => phase[Parent(n)] # "waiting"
      BY <1>2
    <3> QED
      BY <1>3, <2>1, <3>1, <3>3, <3>4 DEF WaitsFor, Absent
  <2>4. ASSUME phase'[n] = "children", files'[n] = {}
        PROVE  \E c \in Children(n) : phase'[c] = "unlinked"
    <3>1. CASE n = Parent(k)
      <4>1. k \in Children(n)
        BY <1>2, <3>1, ChildIsBelow
      <4> QED
        BY <1>3, <4>1
    <3>2. CASE n # Parent(k)
      <4>1. PICK c \in Children(n) : phase[c] = "unlinked"
        BY <1>3, <2>1, <2>4, <3>2 DEF WaitsFor
      <4> QED
        BY <1>3, <4>1 DEF Children
    <3> QED
      BY <3>1, <3>2
  <2> QED
    BY <2>2, <2>3, <2>4 DEF WaitsFor, Children
<1>6. \A n \in Names : phase'[n] = "unlinked" => held'[n] # {}
  BY <1>3, <1>4 DEF FilesFound
<1>7. phase'[Root] # "waiting" => files'[Root] # {}
  BY <1>2, <1>3, TreeAssumption DEF FilesFound
<1>8. \A n \in Names : ~ Done(n)' => ~ Done(n)
  BY <1>1, <1>3 DEF Done
<1> QED
  BY <1>1, <1>5, <1>6, <1>7, <1>8 DEF FilesFound

LEMMA WriteMergedFound ==
    ASSUME IInv, FilesFound, NEW k \in Names, WriteMerged(k)
    PROVE  FilesFound'
<1>1. /\ phase[k] = "unlinked" /\ InCall(k) /\ Len(k) > 1
      /\ files' = [files EXCEPT ![Parent(k)] = held[k]]
      /\ held' = [held EXCEPT ![k] = {}]
      /\ phase' = [phase EXCEPT ![k] = "rewritten"]
      /\ UNCHANGED <<tiles, docs>>
  BY DEF WriteMerged, InCall, Merging, IInv, MergesApart
<1>2. k # Root /\ Parent(k) \in Names /\ Parent(k) # Root /\ phase[Parent(k)] = "children"
  BY <1>1, SmallNode
<1>3. /\ \A m \in Names : held'[m] = IF m = k THEN {} ELSE held[m]
      /\ \A m \in Names : files'[m] = IF m = Parent(k) THEN held[k] ELSE files[m]
      /\ \A m \in Names : phase'[m] = IF m = k THEN "rewritten" ELSE phase[m]
  BY <1>1, <1>2 DEF IInv, TypeOK
<1>4. held[k] # {}
  BY <1>1 DEF FilesFound
<1>5. ASSUME NEW n \in Names \ {Root} PROVE WaitsFor(n)'
  <2>1. WaitsFor(n) /\ Parent(n) \in Names
    BY ParentType DEF FilesFound
  <2>2. /\ phase'[n] # "written"
        /\ phase'[n] # "waiting" => phase'[Parent(n)] # "waiting"
    BY <1>1, <1>3, <2>1 DEF WaitsFor
  <2>3. ASSUME phase'[n] = "waiting", files'[n] # {}
        PROVE  /\ phase'[Parent(n)] \in {"waiting", "children"}
               /\ Parent(n) = Root \/ ~ Absent(Parent(n))'
    <3>1. phase[n] = "waiting" /\ files[n] # {} /\ n # k
      BY <1>2, <1>3, <2>3
    <3>2. Parent(n) # k
      BY <1>1, <2>1, <3>1 DEF WaitsFor
    <3>3. phase'[Parent(n)] = phase[Parent(n)]
      BY <1>3, <2>1, <3>2
    <3>4. Parent(n) = Parent(k) => phase[Parent(n)] # "waiting"
      BY <1>2
    <3> QED
      BY <1>3, <2>1, <3>1, <3>3, <3>4 DEF WaitsFor, Absent
  <2>4. ASSUME phase'[n] = "children", files'[n] = {}
        PROVE  \E c \in Children(n) : phase'[c] = "unlinked"
    <3>1. n # Parent(k) /\ phase[n] = "children" /\ files[n] = {}
      BY <1>3, <1>4, <2>4
    <3>2. PICK c \in Children(n) : phase[c] = "unlinked"
      BY <2>1, <3>1 DEF WaitsFor
    <3>3. c # k /\ c \in Names
      BY <3>1, <3>2, ChildIsBelow DEF Children
    <3> QED
      BY <1>3, <3>2, <3>3
  <2> QED
    BY <2>2, <2>3, <2>4 DEF WaitsFor, Children
<1>6. \A n \in Names : phase'[n] = "unlinked" => held'[n] # {}
  BY <1>3 DEF FilesFound
<1>7. phase'[Root] # "waiting" => files'[Root] # {}
  BY <1>2, <1>3, TreeAssumption DEF FilesFound
<1>8. \A n \in Names : ~ Done(n)' => ~ Done(n)
  BY <1>1, <1>3 DEF Done
<1> QED
  BY <1>1, <1>5, <1>6, <1>7, <1>8 DEF FilesFound

(* A call that returns.                                                    *)
LEMMA ReturnFound ==
    ASSUME IInv, FilesFound, NEW k \in Names, NEW t, Return(k, t), InCall(k), phase[k] # "unlinked",
           held' = held,
           \A m \in Names : m # k \/ m = Root => files'[m] = files[m],
           \A c \in Children(k) : Done(c) \/ Absent(c)
    PROVE  FilesFound'
<1>1. /\ \A m \in Names : phase'[m] = IF m = k THEN "returned" ELSE phase[m]
      /\ \A m \in Names : m # k => tiles'[m] = tiles[m] /\ docs'[m] = docs[m]
      /\ DOMAIN docs' = Names
  BY DEF Return, SplitTileset, IInv, TypeOK, FilesFound
<1>2. ASSUME NEW n \in Names \ {Root} PROVE WaitsFor(n)'
  <2>1. WaitsFor(n) /\ Parent(n) \in Names
    BY ParentType DEF FilesFound
  <2>2. /\ phase'[n] # "written"
        /\ phase'[n] # "waiting" => phase'[Parent(n)] # "waiting"
    BY <1>1, <2>1 DEF WaitsFor, InCall
  <2>3. ASSUME phase'[n] = "waiting", files'[n] # {}
        PROVE  /\ phase'[Parent(n)] \in {"waiting", "children"}
               /\ Parent(n) = Root \/ ~ Absent(Parent(n))'
    <3>1. phase[n] = "waiting" /\ files[n] # {} /\ n # k
      BY <1>1, <2>3
    <3>2. Parent(n) # k
      <4>1. Parent(n) = k => n \in Children(k)
        BY ChildIsBelow
      <4> QED
        BY <3>1, <4>1 DEF Done, Absent
    <3> QED
      BY <1>1, <2>1, <3>1, <3>2 DEF WaitsFor, Absent
  <2>4. ASSUME phase'[n] = "children", files'[n] = {}
        PROVE  \E c \in Children(n) : phase'[c] = "unlinked"
    <3>1. n # k /\ phase[n] = "children" /\ files[n] = {}
      BY <1>1, <2>4
    <3>2. PICK c \in Children(n) : phase[c] = "unlinked"
      BY <2>1, <3>1 DEF WaitsFor
    <3>3. c # k /\ c \in Names
      BY <3>2 DEF Children
    <3> QED
      BY <1>1, <3>2, <3>3
  <2> QED
    BY <2>2, <2>3, <2>4 DEF WaitsFor, Children
<1>3. \A n \in Names : phase'[n] = "unlinked" => held'[n] # {}
  BY <1>1 DEF FilesFound
<1>4. phase'[Root] # "waiting" => files'[Root] # {}
  BY <1>1, TreeAssumption DEF FilesFound, InCall
<1>5. \A n \in Names : ~ Done(n)' => ~ Done(n) /\ n # k
  BY <1>1 DEF Done
<1> QED
  BY <1>1, <1>2, <1>3, <1>4, <1>5 DEF FilesFound

-----------------------------------------------------------------------------
(* The tiles the calls returned, and the files they wrote: the tile of a   *)
(* node, in its own file when it was split off, has the children that were *)
(* kept, names the file there is and encloses its points; a tile set file  *)
(* is a tree of such tiles.                                                *)
FullTile(n) == IF docs[n] = NoDoc THEN tiles[n] ELSE docs[n][n]

TileInv(n) ==
    /\ \A c \in Children(n) : Done(c) \/ Absent(c)
    /\ FullTile(n).children = Kept(n)
    /\ FullTile(n).content = IF files[n] = {} THEN "none" ELSE "pnts"
    /\ files[n] \subseteq FullTile(n).box
    /\ tiles[n].children \subseteq Children(n)
    /\ tiles[n].refine = "ADD"
    /\ IF n = Root THEN /\ tiles[n].content # "json"
                        /\ docs[n] # NoDoc <=> phase[n] = "written"
       ELSE docs[n] # NoDoc <=> tiles[n].content = "json"
    /\ tiles[n].content = "json" => tiles[n].children = {}

(* The tile m, below tile d, in the file of d.                             *)
Placed(d, m) ==
    /\ Parent(m) \in DOMAIN docs[d] /\ m \in docs[d][Parent(m)].children
    /\ Done(m)
    /\ docs[d][m].content = tiles[m].content
    /\ docs[d][m].children = tiles[m].children
    /\ docs[d][m].refine = tiles[m].refine
    /\ tiles[m].box \subseteq docs[d][m].box

DocInv(d) ==
    /\ d \in DOMAIN docs[d] /\ DOMAIN docs[d] \subseteq Below(d)
    /\ docs[d][d].refine = IF d = Root THEN "REPLACE" ELSE "ADD"
    /\ \A m \in DOMAIN docs[d] :
          /\ docs[d][m].children \subseteq DOMAIN docs[d] \cap Children(m)
          /\ \A c \in docs[d][m].children : docs[d][c].box \subseteq docs[d][m].box
    /\ \A m \in DOMAIN docs[d] \ {d} : Placed(d, m)

TilesInv == \A n \in Names : (Done(n) => TileInv(n)) /\ (docs[n] # NoDoc => DocInv(n))

(* What a step does to a call that has returned or was never made.         *)
Stays(n) ==
    /\ Done(n) => Done(n)' /\ tiles'[n] = tiles[n]
    /\ Absent(n) => Absent(n)' /\ tiles'[n] = tiles[n]

LEMMA SameKept ==
    ASSUME NEW n \in Names, \A c \in Children(n) : tiles'[c] = tiles[c]
    PROVE  Kept(n)' = Kept(n)
BY DEF Kept, Children

LEMMA FrameTile ==
    ASSUME NEW n \in Names, TileInv(n), \A c \in Children(n) : Stays(c),
           phase'[n] = phase[n], files'[n] = files[n], tiles'[n] = tiles[n], docs'[n] = docs[n]
    PROVE  TileInv(n)'
<1>1. \A c \in Children(n) : tiles'[c] = tiles[c] /\ (Done(c)' \/ Absent(c)')
  BY DEF TileInv, Stays
<1>2. Kept(n)' = Kept(n)
  BY <1>1, SameKept
<1>3. FullTile(n)' = FullTile(n)
  BY DEF FullTile, NoDoc
<1>4. PICK t : t = FullTile(n)
  OBVIOUS
<1>5. /\ \A c \in Children(n)' : Done(c)' \/ Absent(c)'
      /\ Children(n)' = Children(n)
  BY <1>1 DEF Children
<1>6. /\ FullTile(n)'.children = Kept(n)'
      /\ FullTile(n)'.content = IF files'[n] = {} THEN "none" ELSE "pnts"
      /\ files'[n] \subseteq FullTile(n)'.box
  BY <1>2, <1>3 DEF TileInv
<1>7. NoDoc' = NoDoc
  BY DEF NoDoc, NoTile
<1> QED
  BY <1>5, <1>6, <1>7 DEF TileInv

LEMMA FrameDoc ==
    ASSUME NEW d \in Names, DocInv(d), docs'[d] = docs[d],
           \A m \in Names \ {Root} : Stays(m)
    PROVE  DocInv(d)'
<1>1. PICK doc : doc = docs[d] /\ doc = docs'[d]
  OBVIOUS
<1>2. PICK D : D = DOMAIN doc
  OBVIOUS
<1>3. /\ d \in D /\ D \subseteq Below(d)
      /\ doc[d].refine = IF d = Root THEN "REPLACE" ELSE "ADD"
      /\ \A m \in D : /\ doc[m].children \subseteq D \cap Children(m)
                      /\ \A c \in doc[m].children : doc[c].box \subseteq doc[m].box
      /\ \A m \in D \ {d} : Placed(d, m)
  BY <1>1, <1>2 DEF DocInv
<1>4. ASSUME NEW m \in D \ {d} PROVE Placed(d, m)'
  <2>1. m \in Names /\ m # Root
    BY <1>3, BelowOrder
  <2>2. Placed(d, m) /\ Stays(m)
    BY <1>3, <2>1
  <2> QED
    BY <1>1, <1>2, <2>2 DEF Placed, Stays
<1>5. \A m : Children(m)' = Children(m) /\ Below(m)' = Below(m)
  BY DEF Children, Below
<1> QED
  BY <1>1, <1>2, <1>3, <1>4, <1>5 DEF DocInv

LEMMA TilesHang == FilesFound /\ TilesInv => Hanging(tiles)
<1> SUFFICES ASSUME FilesFound, TilesInv, NEW n \in Names
             PROVE  tiles[n].children \subseteq Children(n)
  BY DEF Hanging
<1>1. CASE Done(n)
  BY <1>1 DEF TilesInv, TileInv
<1>2. CASE ~ Done(n)
  BY <1>2 DEF FilesFound, NoTile
<1> QED
  BY <1>1, <1>2

(* A tile in memory that still has children has all that were kept, and    *)
(* they have returned.                                                     *)
LEMMA KeptDone ==
    ASSUME FilesFound, TilesInv, NEW n \in Names
    PROVE  /\ \A c \in Kept(n) : c \in Children(n) /\ Done(c)
           /\ n # Root => \A c \in tiles[n].children : Done(c)
<1>1. \A c \in Kept(n) : c \in Children(n) /\ Done(c)
  BY DEF Kept, FilesFound, Children
<1>2. ASSUME n # Root, NEW c \in tiles[n].children PROVE Done(c)
  <2>1. Done(n)
    BY <1>2 DEF FilesFound, NoTile
  <2>2. TileInv(n)
    BY <2>1 DEF TilesInv
  <2>3. docs[n] = NoDoc
    BY <1>2, <2>2 DEF TileInv
  <2>4. tiles[n].children = Kept(n)
    BY <2>2, <2>3 DEF TileInv, FullTile
  <2> QED
    BY <1>1, <1>2, <2>4
<1> QED
  BY <1>1, <1>2

(* The file that a call writes for its tile t.                             *)
LEMMA NewDocument ==
    ASSUME IInv, FilesFound, TilesInv, NEW n \in Names, NEW t \in TileType,
           t.children = Kept(n), docs'[n] = Document(n, t),
           t.refine = IF n = Root THEN "REPLACE" ELSE "ADD",
           \A m \in Names \ {n} : Stays(m)
    PROVE  /\ DocInv(n)' /\ docs'[n] # NoDoc
           /\ docs'[n][n].children = t.children /\ docs'[n][n].content = t.content
           /\ t.box \subseteq docs'[n][n].box
<1>1. PICK all : all = TilesWith(n, t)
  OBVIOUS
<1>2. /\ all \in [Names -> TileType] /\ all[n] = t
      /\ \A m \in Names : m # n => all[m] = tiles[m]
  BY <1>1 DEF IInv, TypeOK, TileType, TilesWith
<1>3. Kept(n) \subseteq Children(n) /\ \A c \in Kept(n) : Done(c)
  BY KeptDone
<1>4. Hanging(all)
  BY <1>2, <1>3, TilesHang DEF Hanging
<1>5. PICK doc : doc = Document(n, t)
  OBVIOUS
<1>6. PICK D : D = DOMAIN doc
  OBVIOUS
<1>7. n \in D /\ D \subseteq Below(n)
  BY <1>1, <1>2, <1>4, <1>5, <1>6, DocumentFacts
<1>8. \A m \in D : /\ doc[m].content = all[m].content
                   /\ doc[m].children = all[m].children
                   /\ doc[m].refine = all[m].refine
                   /\ all[m].box \subseteq doc[m].box
                   /\ all[m].children \subseteq D
  BY <1>1, <1>2, <1>4, <1>5, <1>6, DocumentFacts
<1>9. \A m \in D : \A c \in all[m].children : doc[c].box \subseteq doc[m].box
  BY <1>1, <1>2, <1>4, <1>5, <1>6, DocumentFacts
<1>10. Hung(D, n, all)
  BY <1>1, <1>2, <1>4, <1>5, <1>6, DocumentFacts
<1>11. D \in SUBSET Names
  BY <1>7 DEF Below
<1>12. docs'[n] = doc
  BY <1>5
<1>13. ASSUME NEW m \in D \ {n} PROVE Placed(n, m)'
  <2>1. PICK y \in D : m \in all[y].children
    BY <1>10, <1>13 DEF Hung
  <2>2. m \in Children(y) /\ m \in Names
    BY <1>4, <1>11, <2>1 DEF Hanging
  <2>3. Parent(m) = y /\ m # Root
    BY <1>11, <2>2, ChildIsBelow
  <2>4. Done(m)
    <3>1. CASE y = n
      BY <1>2, <1>3, <2>1, <3>1
    <3>2. CASE y # n
      <4>1. y # Root
        BY <1>7, <3>2, BelowOrder
      <4> QED
        BY <1>2, <1>11, <2>1, <3>2, <4>1, KeptDone
    <3> QED
      BY <3>1, <3>2
  <2>5. Stays(m) /\ all[m] = tiles[m]
    BY <1>2, <1>11, <1>13
  <2>6. Done(m)' /\ tiles'[m] = tiles[m]
    BY <2>4, <2>5 DEF Stays
  <2>7. Parent(m) \in D /\ m \in doc[Parent(m)].children
    BY <1>8, <2>1, <2>3
  <2> QED
    BY <1>6, <1>8, <1>12, <1>13, <2>5, <2>6, <2>7 DEF Placed
<1>14. /\ \A m : Children(m)' = Children(m) /\ Below(m)' = Below(m)
  BY DEF Children, Below
<1>15. doc[n].refine = IF n = Root THEN "REPLACE" ELSE "ADD"
  BY <1>2, <1>7, <1>8
<1>16. \A m \in D : /\ doc[m].children \subseteq D \cap Children(m)
                    /\ \A c \in doc[m].children : doc[c].box \subseteq doc[m].box
  BY <1>4, <1>8, <1>9, <1>11 DEF Hanging
<1>17. DocInv(n)'
  BY <1>6, <1>7, <1>12, <1>13, <1>14, <1>15, <1>16 DEF DocInv
<1>18. doc # NoDoc
  BY <1>6, <1>7 DEF NoDoc
<1> QED
  BY <1>2, <1>7, <1>8, <1>12, <1>17, <1>18

(* A call returns its tile t.                                              *)
LEMMA ReturnTiles ==
    ASSUME IInv, FilesFound, TilesInv, NEW n \in Names, NEW t \in TileType, Return(n, t),
           InCall(n), \A c \in Children(n) : Done(c) \/ Absent(c),
           \A m \in Names \ {n} : files'[m] = files[m],
           t.content = IF files'[n] = {} THEN "none" ELSE "pnts",
           t.children = Kept(n), files'[n] \subseteq t.box, t.refine = "ADD"
    PROVE  TilesInv'
<1>1. /\ phase'[n] = "returned" /\ \A m \in Names \ {n} : phase'[m] = phase[m]
      /\ \A m \in Names \ {n} : tiles'[m] = tiles[m] /\ docs'[m] = docs[m]
  BY DEF Return, SplitTileset, IInv, TypeOK, FilesFound
<1>2. \A m \in Names \ {n} : Stays(m)
  BY <1>1 DEF Stays, Done, Absent
<1>3. ~ Done(n) /\ ~ Absent(n) /\ docs[n] = NoDoc /\ tiles[n] = NoTile
  BY DEF InCall, Done, Absent, FilesFound
<1>4. \A m \in Names : \A c \in Children(m) : c \in Names \ {m} /\ c # Root /\ Parent(c) = m
  BY ChildIsBelow, ParentType DEF Children
<1>5. ASSUME NEW m \in Names \ {n}, Done(m)' PROVE TileInv(m)'
  <2>1. Done(m) /\ TileInv(m)
    BY <1>1, <1>5 DEF Done, TilesInv
  <2>2. \A c \in Children(m) : c # n
    BY <1>3, <2>1 DEF TileInv
  <2>3. \A c \in Children(m) : Stays(c)
    BY <1>2, <1>4, <2>2
  <2> QED
    BY <1>1, <2>1, <2>3, FrameTile
<1>6. Stays(n)
  BY <1>3 DEF Stays
<1>7. ASSUME NEW m \in Names \ {n}, docs'[m] # NoDoc PROVE DocInv(m)'
  <2>1. docs[m] # NoDoc /\ DocInv(m) /\ docs'[m] = docs[m]
    BY <1>1, <1>7 DEF TilesInv
  <2> QED
    BY <1>2, <1>6, <2>1, FrameDoc
<1>8. /\ Kept(n)' = Kept(n)
      /\ \A c \in Children(n)' : Done(c)' \/ Absent(c)'
  <2>1. \A c \in Children(n) : tiles'[c] = tiles[c]
    BY <1>1, <1>4
  <2>2. Children(n)' = Children(n)
    BY DEF Children
  <2> QED
    BY <1>2, <1>4, <2>1, <2>2, SameKept DEF Stays
<1>9. Kept(n) \subseteq Children(n) /\ Children(n)' = Children(n)
  BY KeptDone DEF Children
<1>10. tiles \in [Names -> TileType] /\ DOMAIN docs = Names
  BY DEF IInv, TypeOK, TileType, FilesFound
<1>11. NoDoc' = NoDoc
  BY DEF NoDoc, NoTile
<1>12. CASE tiles' = [tiles EXCEPT ![n] = t] /\ docs' = docs
  <2>1. tiles'[n] = t /\ docs'[n] = NoDoc
    BY <1>3, <1>10, <1>12
  <2>2. FullTile(n)' = t
    BY <1>11, <2>1 DEF FullTile
  <2>3. t.content # "json"
    OBVIOUS
  <2>4. TileInv(n)'
    BY <1>1, <1>8, <1>9, <1>11, <2>1, <2>2, <2>3 DEF TileInv
  <2> QED
    BY <1>5, <1>7, <1>11, <2>1, <2>4 DEF TilesInv
<1>13. CASE n # Root /\ t.children # {} /\ SplitTileset(n, t)
  <2>1. tiles'[n] = [t EXCEPT !.content = "json", !.children = {}] /\ docs'[n] = Document(n, t)
    BY <1>10, <1>13 DEF SplitTileset
  <2>2. tiles'[n].content = "json" /\ tiles'[n].children = {} /\ tiles'[n].refine = "ADD"
    BY <2>1 DEF TileType
  <2>3. /\ DocInv(n)' /\ docs'[n] # NoDoc
        /\ docs'[n][n].children = t.children /\ docs'[n][n].content = t.content
        /\ t.box \subseteq docs'[n][n].box
    BY <1>2, <1>13, <2>1, NewDocument
  <2>4. FullTile(n)' = docs'[n][n]
    BY <1>11, <2>3 DEF FullTile
  <2>5. TileInv(n)'
    BY <1>8, <1>9, <1>11, <1>13, <2>2, <2>3, <2>4 DEF TileInv
  <2> QED
    BY <1>5, <1>7, <2>3, <2>5 DEF TilesInv
<1> QED
  BY <1>12, <1>13 DEF Return

(* A step that leaves the tiles and the tile set files alone.              *)
LEMMA SameTiles ==
    ASSUME IInv, FilesFound, TilesInv, UNCHANGED <<tiles, docs>>,
           \A n \in Names : Done(n)' <=> Done(n),
           \A n \in Names : Done(n) => phase'[n] = phase[n] /\ files'[n] = files[n],
           \A n \in Names \ {Root} : Absent(n) => Absent(n)'
    PROVE  TilesInv'
<1>1. \A n \in Names \ {Root} : Stays(n)
  BY DEF Stays
<1>2. NoDoc' = NoDoc
  BY DEF NoDoc, NoTile
<1>5. \A n \in Names : \A c \in Children(n) : c \in Names \ {Root}
  BY ChildIsBelow DEF Children
<1>3. ASSUME NEW n \in Names, Done(n)' PROVE TileInv(n)'
  <2>1. Done(n) /\ TileInv(n) /\ \A c \in Children(n) : Stays(c)
    BY <1>1, <1>3, <1>5 DEF TilesInv
  <2> QED
    BY <2>1, FrameTile
<1>4. ASSUME NEW n \in Names, docs'[n] # NoDoc PROVE DocInv(n)'
  <2>1. DocInv(n)
    BY <1>2, <1>4 DEF TilesInv
  <2> QED
    BY <1>1, <2>1, FrameDoc
<1> QED
  BY <1>2, <1>3, <1>4 DEF TilesInv

LEMMA WriteTilesetTiles ==
    ASSUME IInv, FilesFound, TilesInv, WriteTileset
    PROVE  TilesInv'
<1>1. PICK t : t = [tiles[Root] EXCEPT !.refine = "REPLACE"]
  OBVIOUS
<1>2. Root \in Names /\ tiles[Root] \in TileType /\ DOMAIN docs = Names
  BY TreeAssumption DEF IInv, TypeOK, TileType, FilesFound
<1>3. /\ phase[Root] = "returned" /\ phase'[Root] = "written"
      /\ \A m \in Names \ {Root} : phase'[m] = phase[m] /\ docs'[m] = docs[m]
      /\ docs'[Root] = Document(Root, t) /\ UNCHANGED <<files, held, tiles>>
  BY <1>1, <1>2 DEF WriteTileset, IInv, TypeOK
<1>4. \A m \in Names \ {Root} : Stays(m)
  BY <1>3 DEF Stays, Done, Absent
<1>5. Done(Root) /\ TileInv(Root)
  BY <1>2, <1>3 DEF Done, TilesInv
<1>6. docs[Root] = NoDoc /\ FullTile(Root) = tiles[Root] /\ tiles[Root].content # "json"
  BY <1>3, <1>5 DEF TileInv, FullTile
<1>7. /\ t \in TileType /\ t.children = Kept(Root) /\ t.refine = "REPLACE"
      /\ t.content = tiles[Root].content /\ t.box = tiles[Root].box
  BY <1>1, <1>2, <1>5, <1>6 DEF TileInv, TileType
<1>8. /\ DocInv(Root)' /\ docs'[Root] # NoDoc
      /\ docs'[Root][Root].children = t.children /\ docs'[Root][Root].content = t.content
      /\ t.box \subseteq docs'[Root][Root].box
  BY <1>2, <1>3, <1>4, <1>7, NewDocument
<1>9. NoDoc' = NoDoc
  BY DEF NoDoc, NoTile
<1>10. \A m \in Names : \A c \in Children(m) : c \in Names \ {Root}
  BY ChildIsBelow DEF Children
<1>11. TileInv(Root)'
  <2>1. FullTile(Root)' = docs'[Root][Root]
    BY <1>8, <1>9 DEF FullTile
  <2>2. Kept(Root)' = Kept(Root)
    BY <1>2, <1>3, SameKept
  <2>3. Children(Root)' = Children(Root) /\ \A c \in Children(Root) : Done(c)' \/ Absent(c)'
    BY <1>2, <1>4, <1>5, <1>10 DEF TileInv, Stays, Children
  <2>4. /\ FullTile(Root)'.children = Kept(Root)'
        /\ FullTile(Root)'.content = IF files'[Root] = {} THEN "none" ELSE "pnts"
        /\ files'[Root] \subseteq FullTile(Root)'.box
    BY <1>3, <1>5, <1>6, <1>7, <1>8, <2>1, <2>2 DEF TileInv
  <2>5. /\ tiles'[Root].children \subseteq Children(Root)' /\ tiles'[Root].refine = "ADD"
        /\ tiles'[Root].content # "json"
    BY <1>3, <1>5, <1>6, <2>3 DEF TileInv
  <2> QED
    BY <1>3, <1>8, <1>9, <2>3, <2>4, <2>5 DEF TileInv
<1>12. ASSUME NEW m \in Names \ {Root}, Done(m)' PROVE TileInv(m)'
  <2>1. Done(m) /\ TileInv(m) /\ \A c \in Children(m) : Stays(c)
    BY <1>3, <1>4, <1>10, <1>12 DEF TilesInv, Done
  <2> QED
    BY <1>3, <2>1, FrameTile
<1>13. ASSUME NEW m \in Names \ {Root}, docs'[m] # NoDoc PROVE DocInv(m)'
  <2>1. DocInv(m) /\ docs'[m] = docs[m]
    BY <1>3, <1>9, <1>13 DEF TilesInv
  <2> QED
    BY <1>4, <2>1, FrameDoc
<1> QED
  BY <1>8, <1>9, <1>11, <1>12, <1>13 DEF TilesInv

-----------------------------------------------------------------------------
(* The invariant of the whole tree, by the steps                           *)
TreeInv == IInv /\ FilesFound /\ TilesInv

LEMMA InitTreeInv == Init => TreeInv
<1> SUFFICES ASSUME Init PROVE TreeInv
  OBVIOUS
<1>1. \A n \in Names : ~ Done(n) /\ docs[n] = NoDoc
  BY DEF Init, Done
<1> QED
  BY <1>1, InitIInv, InitFilesFound DEF TreeInv, TilesInv

LEMMA UnlinkChildFull ==
    ASSUME TreeInv, NEW n \in Names, UnlinkChild(n)
    PROVE  FilesFound' /\ TilesInv'
<1>1. /\ phase[n] = "rewritten" /\ InCall(n) /\ Len(n) > 1 /\ IInv /\ FilesFound /\ TilesInv
      /\ files' = [files EXCEPT ![n] = {}] /\ held' = held
      /\ Return(n, MergedTile(n))
  BY DEF TreeInv, UnlinkChild, InCall, Merging, IInv, MergesApart
<1>2. n # Root /\ MergedTile(n) \in TileType
  BY <1>1, SmallNode, TilesType DEF IInv
<1>3. files'[n] = {} /\ \A m \in Names \ {n} : files'[m] = files[m]
  BY <1>1 DEF IInv, TypeOK
<1>4. ASSUME NEW c \in Children(n) PROVE Done(c) \/ Absent(c)
  <2>1. c \in Names /\ c # Root /\ Parent(c) = n
    BY ChildIsBelow DEF Children
  <2>2. ~ InCall(c) /\ WaitsFor(c)
    BY <1>1, <2>1 DEF IInv, TypeOK, FilesFound
  <2>3. phase[c] = "waiting" => files[c] = {}
    BY <1>1, <2>1, <2>2 DEF WaitsFor
  <2>4. phase[c] \in {"waiting", "children", "unlinked", "rewritten", "returned", "written"}
    BY <1>1, <2>1 DEF IInv, TypeOK
  <2> QED
    BY <2>2, <2>3, <2>4 DEF InCall, Done, Absent
<1>5. FilesFound'
  BY <1>1, <1>2, <1>3, <1>4, ReturnFound
<1>6. /\ MergedTile(n).content = "none" /\ MergedTile(n).children = Kept(n)
      /\ MergedTile(n).refine = "ADD"
  BY DEF MergedTile
<1>7. TilesInv'
  BY <1>1, <1>2, <1>3, <1>4, <1>6, ReturnTiles
<1> QED
  BY <1>5, <1>7

LEMMA KeepTileFull ==
    ASSUME TreeInv, NEW n \in Names, KeepTile(n)
    PROVE  FilesFound' /\ TilesInv'
<1>1. /\ phase[n] = "children" /\ LoopDone(n) /\ InCall(n) /\ IInv /\ FilesFound /\ TilesInv
      /\ UNCHANGED <<files, held>> /\ Return(n, OwnTile(n))
  BY DEF TreeInv, KeepTile, InCall
<1>2. files[n] # {} /\ \A c \in Children(n) : Done(c) \/ Absent(c)
  BY <1>1, LoopDoneFacts
<1>3. OwnTile(n) \in TileType
  BY <1>1, TilesType DEF IInv
<1>4. FilesFound'
  BY <1>1, <1>2, ReturnFound
<1>5. /\ OwnTile(n).content = "pnts" /\ OwnTile(n).children = Kept(n)
      /\ OwnTile(n).refine = "ADD" /\ OwnTile(n).box = files[n]
  BY DEF OwnTile
<1>6. TilesInv'
  BY <1>1, <1>2, <1>3, <1>5, ReturnTiles
<1> QED
  BY <1>4, <1>6

LEMMA WriteTilesetFound ==
    ASSUME TreeInv, WriteTileset
    PROVE  FilesFound'
<1>1. /\ phase[Root] = "returned" /\ UNCHANGED <<files, held, tiles>>
      /\ \A n \in Names : phase'[n] = IF n = Root THEN "written" ELSE phase[n]
      /\ \A n \in Names \ {Root} : docs'[n] = docs[n]
      /\ DOMAIN docs' = Names
  BY TreeAssumption DEF TreeInv, WriteTileset, IInv, TypeOK, FilesFound
<1>2. ASSUME NEW n \in Names \ {Root} PROVE WaitsFor(n)'
  <2>1. WaitsFor(n) /\ Parent(n) \in Names
    BY ParentType DEF TreeInv, FilesFound
  <2>2. \A c \in Children(n) : phase'[c] = phase[c]
    BY <1>1, ChildIsBelow DEF Children
  <2>3. phase'[n] = phase[n] /\ phase[n] # "written"
    BY <1>1, <2>1 DEF WaitsFor
  <2>4. phase'[n] # "waiting" => phase'[Parent(n)] # "waiting"
    BY <1>1, <2>1 DEF WaitsFor
  <2>5. ASSUME phase[n] = "waiting", files[n] # {} PROVE Parent(n) # Root
    <3>1. Parent(n) = Root => n \in Children(Root)
      BY TreeAssumption, ChildIsBelow
    <3>2. TileInv(Root)
      BY <1>1, TreeAssumption DEF TreeInv, TilesInv, Done
    <3> QED
      BY <2>5, <3>1, <3>2 DEF TileInv, Done, Absent
  <2>6. phase'[n] = "waiting" /\ files'[n] # {} =>
           /\ phase'[Parent(n)] \in {"waiting", "children"}
           /\ Parent(n) = Root \/ ~ Absent(Parent(n))'
    BY <1>1, <2>1, <2>3, <2>5 DEF WaitsFor, Absent
  <2>7. phase'[n] = "children" /\ files'[n] = {} =>
           \E c \in Children(n) : phase'[c] = "unlinked"
    BY <1>1, <2>1, <2>2 DEF WaitsFor
  <2> QED
    BY <2>3, <2>4, <2>6, <2>7 DEF WaitsFor, Children
<1> QED
  BY <1>1, <1>2, TreeAssumption DEF TreeInv, FilesFound, Done

(* A step that calls nodes or merges files.                                *)
LEMMA CallsTiles ==
    ASSUME TreeInv,
           \/ WriteRootTile \/ Submit
           \/ \E n \in Names : CallChild(n) \/ UnlinkParent(n) \/ WriteMerged(n)
    PROVE  TilesInv'
<1>1. IInv /\ FilesFound /\ TilesInv
  BY DEF TreeInv
<1>2. UNCHANGED <<tiles, docs>>
  BY DEF WriteRootTile, Submit, CallChild, UnlinkParent, WriteMerged
<1>3. /\ \A n \in Names : Done(n)' <=> Done(n)
      /\ \A n \in Names : Done(n) => phase'[n] = phase[n] /\ files'[n] = files[n]
      /\ \A n \in Names \ {Root} : Absent(n) => Absent(n)'
  <2>1. CASE WriteRootTile
    <3>1. /\ phase[Root] = "waiting" /\ \A n \in Names \ {Root} : files'[n] = files[n]
          /\ \A n \in Names : phase'[n] = IF n = Root THEN "children" ELSE phase[n]
      BY <1>1, <2>1 DEF WriteRootTile, IInv, TypeOK
    <3>2. ~ Done(Root) /\ ~ Done(Root)'
      BY <3>1, TreeAssumption DEF Done
    <3> QED
      BY <3>1, <3>2 DEF Done, Absent
  <2>2. CASE Submit
    <3>1. /\ \A n \in Names : phase'[n] = IF n \in ToCall(Root) THEN "children" ELSE phase[n]
          /\ files' = files
      BY <2>2 DEF Submit
    <3> QED
      BY <3>1 DEF Done, Absent, ToCall
  <2>3. ASSUME NEW k \in Names, CallChild(k)
        PROVE  /\ \A n \in Names : Done(n)' <=> Done(n)
               /\ \A n \in Names : Done(n) => phase'[n] = phase[n] /\ files'[n] = files[n]
               /\ \A n \in Names \ {Root} : Absent(n) => Absent(n)'
    <3>1. PICK called \in ToCall(k) : called = FirstOf(ToCall(k))
      BY <2>3, FirstOfType DEF CallChild
    <3>2. /\ \A n \in Names : phase'[n] = IF n = called THEN "children" ELSE phase[n]
          /\ files' = files /\ phase[called] = "waiting" /\ files[called] # {}
      BY <1>1, <2>3, <3>1 DEF CallChild, ToCall, IInv, TypeOK
    <3> QED
      BY <3>2 DEF Done, Absent
  <2>4. ASSUME NEW k \in Names, UnlinkParent(k)
        PROVE  /\ \A n \in Names : Done(n)' <=> Done(n)
               /\ \A n \in Names : Done(n) => phase'[n] = phase[n] /\ files'[n] = files[n]
               /\ \A n \in Names \ {Root} : Absent(n) => Absent(n)'
    <3>1. phase[k] = "children" /\ InCall(k) /\ Len(k) > 1
      BY <2>4 DEF UnlinkParent, IsSmall, InCall
    <3>2. Parent(k) \in Names /\ phase[Parent(k)] = "children"
      BY <1>1, <3>1, SmallNode
    <3>3. /\ \A m \in Names : files'[m] = IF m = Parent(k) THEN {} ELSE files[m]
          /\ \A m \in Names : phase'[m] = IF m = k THEN "unlinked" ELSE phase[m]
      BY <1>1, <2>4, <3>2 DEF UnlinkParent, IInv, TypeOK
    <3> QED
      BY <3>1, <3>2, <3>3 DEF Done, Absent
  <2>5. ASSUME NEW k \in Names, WriteMerged(k)
        PROVE  /\ \A n \in Names : Done(n)' <=> Done(n)
               /\ \A n \in Names : Done(n) => phase'[n] = phase[n] /\ files'[n] = files[n]
               /\ \A n \in Names \ {Root} : Absent(n) => Absent(n)'
    <3>1. phase[k] = "unlinked" /\ InCall(k) /\ Len(k) > 1
      BY <1>1, <2>5 DEF WriteMerged, InCall, Merging, IInv, MergesApart
    <3>2. Parent(k) \in Names /\ phase[Parent(k)] = "children"
      BY <1>1, <3>1, SmallNode
    <3>3. /\ \A m \in Names : files'[m] = IF m = Parent(k) THEN held[k] ELSE files[m]
          /\ \A m \in Names : phase'[m] = IF m = k THEN "rewritten" ELSE phase[m]
      BY <1>1, <2>5, <3>2 DEF WriteMerged, IInv, TypeOK
    <3> QED
      BY <3>1, <3>2, <3>3 DEF Done, Absent
  <2> QED
    BY <2>1, <2>2, <2>3, <2>4, <2>5
<1> QED
  BY <1>1, <1>2, <1>3, SameTiles

LEMMA StepTreeInv == TreeInv /\ [Next]_vars => TreeInv'
<1> SUFFICES ASSUME TreeInv, [Next]_vars PROVE TreeInv'
  OBVIOUS
<1>1. IInv /\ FilesFound /\ TilesInv
  BY DEF TreeInv
<1>2. IInv'
  BY <1>1, StepIInv
<1>3. FilesFound' /\ TilesInv'
  <2>1. CASE WriteRootTile
    BY <1>1, <2>1, WriteRootTileFound, CallsTiles
  <2>2. CASE Submit
    BY <1>1, <2>2, SubmitFound, CallsTiles
  <2>3. ASSUME NEW n \in Names, CallChild(n) PROVE FilesFound' /\ TilesInv'
    BY <1>1, <2>3, CallChildFound, CallsTiles
  <2>4. ASSUME NEW n \in Names, UnlinkParent(n) PROVE FilesFound' /\ TilesInv'
    BY <1>1, <2>4, UnlinkParentFound, CallsTiles
  <2>5. ASSUME NEW n \in Names, WriteMerged(n) PROVE FilesFound' /\ TilesInv'
    BY <1>1, <2>5, WriteMergedFound, CallsTiles
  <2>6. ASSUME NEW n \in Names, UnlinkChild(n) PROVE FilesFound' /\ TilesInv'
    BY <2>6, UnlinkChildFull
  <2>7. ASSUME NEW n \in Names, KeepTile(n) PROVE FilesFound' /\ TilesInv'
    BY <2>7, KeepTileFull
  <2>8. CASE WriteTileset
    BY <1>1, <2>8, WriteTilesetFound, WriteTilesetTiles
  <2>9. CASE UNCHANGED vars
    <3>1. UNCHANGED <<files, phase, held, tiles, docs>>
      BY <2>9 DEF vars
    <3>2. FilesFound'
      BY <1>1, <3>1 DEF FilesFound, WaitsFor, Done, Absent, Children, NoDoc, NoTile
    <3>3. TilesInv'
      BY <1>1, <3>1, SameTiles DEF Done, Absent
    <3> QED
      BY <3>2, <3>3
  <2> QED
    BY <2>1, <2>2, <2>3, <2>4, <2>5, <2>6, <2>7, <2>8, <2>9 DEF Next, ToTileset, Finished
<1> QED
  BY <1>2, <1>3 DEF TreeInv

LEMMA TreeInvariant == Spec => []TreeInv
<1>1. Init => TreeInv
  BY InitTreeInv
<1>2. TreeInv /\ [Next]_vars => TreeInv'
  BY StepTreeInv
<1> QED
  BY <1>1, <1>2, PTL DEF Spec

-----------------------------------------------------------------------------
(* What a viewer reaches.                                                  *)
Linked(n) == {m \in DOMAIN docs[n] \ {n} : docs[n][m].content = "json"}
FilesIn(r) ==
    r = [n \in Names |-> {n} \cup UNION {r[m] : m \in {m \in DOMAIN docs[n] \ {n} :
                                                        docs[n][m].content = "json"}}]
FilesSeen == (CHOOSE r : FilesIn(r))[Root]

LEMMA ReachedFacts ==
    \A at : at \in Reached <=> \E d \in FilesSeen : \E m \in DOMAIN docs[d] : at = <<d, m>>
<1>1. Reached = UNION {{<<d, m>> : m \in DOMAIN docs[d]} : d \in FilesSeen}
  BY DEF Reached, FilesSeen, FilesIn
<1>2. PICK S : S = FilesSeen
  OBVIOUS
<1>3. Reached = UNION {{<<d, m>> : m \in DOMAIN docs[d]} : d \in S}
  BY <1>1, <1>2
<1>4. \A at : at \in Reached <=> \E d \in S : \E m \in DOMAIN docs[d] : at = <<d, m>>
  BY <1>3
<1> QED
  BY <1>2, <1>4

LEMMA FilesSeenFacts ==
    ASSUME TreeInv
    PROVE  /\ Root \in FilesSeen /\ FilesSeen \subseteq Names
           /\ \A d \in FilesSeen : Linked(d) \subseteq FilesSeen
<1>1. PICK K : K = [n \in Names |-> Linked(n)]
  OBVIOUS
<1>2. PICK B : B = [n \in Names |-> {n}]
  OBVIOUS
<1>3. \A n \in Names : Linked(n) \subseteq Below(n) \ {n}
  <2> SUFFICES ASSUME NEW n \in Names, NEW m \in Linked(n) PROVE m \in Below(n) \ {n}
    OBVIOUS
  <2>1. m \in DOMAIN docs[n] /\ m # n
    BY DEF Linked
  <2>2. docs[n] # NoDoc
    BY <2>1 DEF NoDoc
  <2> QED
    BY <2>1, <2>2 DEF TreeInv, TilesInv, DocInv
<1>4. Closed(Names, K) /\ Names \in SUBSET Names
  BY <1>1, <1>3 DEF Closed, Below
<1>14. Down(Names, K)
  BY <1>1, <1>3 DEF Down
<1>5. \A r : Collects(r, B, K, Names) <=> FilesIn(r)
  <2> SUFFICES ASSUME NEW r PROVE Collects(r, B, K, Names) <=> FilesIn(r)
    OBVIOUS
  <2>1. \A n \in Names : B[n] = {n} /\ K[n] = {m \in DOMAIN docs[n] \ {n} : docs[n][m].content = "json"}
    BY <1>1, <1>2 DEF Linked
  <2>2. [n \in Names |-> B[n] \cup UNION {r[c] : c \in K[n]}]
          = [n \in Names |-> {n} \cup UNION {r[m] : m \in {m \in DOMAIN docs[n] \ {n} :
                                                        docs[n][m].content = "json"}}]
    BY <2>1
  <2> QED
    BY <2>2 DEF Collects, FilesIn
<1>6. PICK r : r = CHOOSE q : FilesIn(q)
  OBVIOUS
<1>7. Collects(r, B, K, Names)
  BY <1>4, <1>5, <1>6, CollectExists
<1>8. PICK root \in Names : root = Root
  BY TreeAssumption
<1>9. \A p : p \in r[root] <=> \E x \in Reach(root, K, Names) : p \in B[x]
  <2>1. Gathers(r, B, root, K, Names)
    BY <1>4, <1>7, <1>14, CollectIsReach
  <2> QED
    BY <2>1 DEF Gathers
<1>10. PICK S : S = Reach(root, K, Names)
  OBVIOUS
<1>11. Root \in S /\ S \subseteq Names /\ Closed(S, K)
  BY <1>4, <1>8, <1>10, ReachFacts
<1>12. FilesSeen = S
  <2>1. \A p : p \in r[root] <=> p \in S
    BY <1>2, <1>9, <1>10, <1>11
  <2>2. r[root] = B[root] \cup UNION {r[c] : c \in K[root]}
    BY <1>7, <1>8 DEF Collects
  <2> QED
    BY <1>6, <1>8, <2>1, <2>2 DEF FilesSeen
<1>13. \A d \in S : Linked(d) \subseteq S
  BY <1>1, <1>11 DEF Closed
<1> QED
  BY <1>11, <1>12, <1>13

(* When the root's file is written, every node has returned or never had a *)
(* file of its own.                                                        *)
LEMMA AllDone ==
    ASSUME TreeInv, phase[Root] = "written"
    PROVE  \A n \in Names : Done(n) \/ Absent(n)
<1> DEFINE T == {n \in Names : ~ Done(n) /\ ~ Absent(n)}
<1>1. SUFFICES ASSUME T # {} PROVE FALSE
  OBVIOUS
<1>2. PICK n \in T : n = Root \/ Parent(n) \notin T
  <2>1. T \in SUBSET Names
    OBVIOUS
  <2> HIDE DEF T
  <2> QED
    BY <1>1, <2>1, HighestName
<1>3. n # Root
  BY <1>2 DEF Done
<1>4. Parent(n) \in Names /\ n \in Children(Parent(n)) /\ WaitsFor(n)
  BY <1>2, <1>3, ParentType, ChildIsBelow DEF TreeInv, FilesFound
<1>5. Done(Parent(n)) \/ Absent(Parent(n))
  BY <1>2, <1>3, <1>4
<1>6. CASE Done(Parent(n))
  BY <1>2, <1>4, <1>6 DEF TreeInv, TilesInv, TileInv
<1>7. CASE Absent(Parent(n))
  <2>1. phase[n] = "waiting" /\ files[n] # {}
    BY <1>2, <1>4, <1>7 DEF WaitsFor, Absent
  <2>2. Parent(n) = Root
    BY <1>4, <1>7, <2>1 DEF WaitsFor
  <2> QED
    BY <1>7, <2>2 DEF Absent
<1> QED
  BY <1>5, <1>6, <1>7

(* A tile set file, and what it says of a tile below its own.              *)
LEMMA InFile ==
    ASSUME TreeInv, NEW d \in Names, NEW n \in DOMAIN docs[d]
    PROVE  /\ docs[d] # NoDoc /\ DocInv(d) /\ n \in Names /\ n \in Below(d)
           /\ n = d => Done(n) /\ TileInv(n) /\ FullTile(n) = docs[d][n]
           /\ n # d => Placed(d, n) /\ Done(n) /\ TileInv(n) /\ n # Root
<1>1. docs[d] # NoDoc
  BY DEF NoDoc
<1>2. DocInv(d) /\ n \in Below(d)
  BY <1>1 DEF TreeInv, TilesInv, DocInv
<1>3. n \in Names
  BY <1>2 DEF Below
<1>4. Done(d) /\ TileInv(d)
  BY <1>1 DEF TreeInv, TilesInv, FilesFound
<1>5. n # d => Placed(d, n) /\ n # Root
  BY <1>2, BelowOrder DEF DocInv
<1> QED
  BY <1>1, <1>2, <1>3, <1>4, <1>5 DEF FullTile, Placed, TreeInv, TilesInv

(* Each tile that was kept is in a file the viewer reaches, and in one.    *)
LEMMA PlacedOnce ==
    ASSUME TreeInv, NEW d \in Names, NEW e \in Names, NEW n \in Names,
           n \in DOMAIN docs[d], n # d, n \in DOMAIN docs[e], n # e
    PROVE  d = e
<1> DEFINE InTwoFiles(m) == \E a, b \in Names : /\ m \in DOMAIN docs[a] /\ m # a
                                           /\ m \in DOMAIN docs[b] /\ m # b /\ a # b
           T == {m \in Names : InTwoFiles(m)}
<1>1. SUFFICES ASSUME T # {} PROVE FALSE
  OBVIOUS
<1>2. PICK m \in T : m = Root \/ Parent(m) \notin T
  <2>1. T \in SUBSET Names
    OBVIOUS
  <2> HIDE DEF T
  <2> QED
    BY <1>1, <2>1, HighestName
<1>3. PICK a \in Names, b \in Names : /\ m \in DOMAIN docs[a] /\ m # a
                                      /\ m \in DOMAIN docs[b] /\ m # b /\ a # b
  BY <1>2
<1>4. Placed(a, m) /\ Placed(b, m) /\ m # Root
  BY <1>3, InFile
<1>5. PICK p : p = Parent(m)
  OBVIOUS
<1>6. /\ p \in DOMAIN docs[a] /\ m \in docs[a][p].children
      /\ p \in DOMAIN docs[b] /\ m \in docs[b][p].children
  BY <1>4, <1>5 DEF Placed
<1>7. p \in Names /\ p \notin T
  BY <1>2, <1>4, <1>5, <1>6, ParentType
<1>8. ASSUME NEW x \in Names, NEW y \in Names, p = x, p # y,
             m \in docs[y][p].children, p \in DOMAIN docs[y], p \in DOMAIN docs[x]
      PROVE  FALSE
  <2>1. Placed(y, p) /\ TileInv(p) /\ p # Root
    BY <1>8, InFile
  <2>2. docs[p] # NoDoc
    BY <1>8, InFile
  <2>3. tiles[p].children = {}
    BY <2>1, <2>2 DEF TileInv
  <2> QED
    BY <1>8, <2>1, <2>3 DEF Placed
<1>9. p # a /\ p # b
  BY <1>3, <1>6, <1>8
<1> QED
  BY <1>3, <1>6, <1>7, <1>9

LEMMA PlacedSomewhere ==
    ASSUME TreeInv, phase[Root] = "written", NEW n \in Names, n # Root, tiles[n] # NoTile
    PROVE  \E d \in FilesSeen : n \in DOMAIN docs[d] /\ n # d
<1> DEFINE Lost(m) == /\ m # Root /\ tiles[m] # NoTile
                      /\ \A d \in FilesSeen : m \in DOMAIN docs[d] => m = d
           T == {m \in Names : Lost(m)}
<1>1. SUFFICES ASSUME T # {} PROVE FALSE
  OBVIOUS
<1>2. PICK m \in T : m = Root \/ Parent(m) \notin T
  <2>1. T \in SUBSET Names
    OBVIOUS
  <2> HIDE DEF T
  <2> QED
    BY <1>1, <2>1, HighestName
<1>3. m \in Names /\ Lost(m)
  BY <1>2
<1>4. PICK p : p = Parent(m)
  OBVIOUS
<1>5. p \in Names /\ ~ Lost(p) /\ m \in Children(p) /\ m # p
  BY <1>2, <1>3, <1>4, ParentType, ChildIsBelow
<1>6. Done(m) /\ WaitsFor(m)
  BY <1>3 DEF TreeInv, FilesFound
<1>7. Done(p) /\ TileInv(p)
  <2>1. phase[p] # "waiting"
    BY <1>4, <1>6 DEF WaitsFor, Done
  <2> QED
    BY <1>5, <2>1, AllDone DEF Absent, TreeInv, TilesInv
<1>8. m \in FullTile(p).children
  BY <1>3, <1>5, <1>7 DEF TileInv, Kept
<1>9. p = Root \/ \E d \in FilesSeen : p \in DOMAIN docs[d] /\ p # d
  <2>1. ASSUME p # Root, tiles[p] = NoTile PROVE FALSE
    <3>1. docs[p] = NoDoc
      BY <1>7, <2>1 DEF TileInv, NoTile
    <3> QED
      BY <1>8, <2>1, <3>1 DEF FullTile, NoTile
  <2> QED
    BY <1>5, <2>1
<1>10. CASE docs[p] # NoDoc
  <2>1. p \in FilesSeen
    <3>1. CASE p = Root
      BY <3>1, FilesSeenFacts
    <3>2. CASE p # Root
      <4>1. PICK d \in FilesSeen : p \in DOMAIN docs[d] /\ p # d
        BY <1>9, <3>2
      <4>2. docs[d][p].content = "json"
        BY <1>7, <1>10, <3>2, <4>1, FilesSeenFacts, InFile DEF TileInv, Placed
      <4> QED
        BY <4>1, <4>2, FilesSeenFacts DEF Linked
    <3> QED
      BY <3>1, <3>2
  <2>2. DocInv(p)
    BY <1>5, <1>10 DEF TreeInv, TilesInv
  <2>3. m \in DOMAIN docs[p]
    BY <1>8, <1>10, <2>2 DEF FullTile, DocInv
  <2> QED
    BY <1>3, <1>5, <2>1, <2>3
<1>11. CASE docs[p] = NoDoc
  <2>1. p # Root
    BY <1>7, <1>11 DEF TileInv
  <2>2. PICK d \in FilesSeen : p \in DOMAIN docs[d] /\ p # d
    BY <1>9, <2>1
  <2>3. d \in Names /\ Placed(d, p) /\ DocInv(d) /\ p \in Below(d)
    BY <2>2, FilesSeenFacts, InFile
  <2>4. m \in docs[d][p].children
    BY <1>8, <1>11, <2>3 DEF FullTile, Placed
  <2>5. m \in DOMAIN docs[d]
    BY <2>2, <2>3, <2>4 DEF DocInv
  <2>6. m # d
    BY <1>5, <2>3, BelowOrder
  <2> QED
    BY <1>3, <2>2, <2>5, <2>6
<1> QED
  BY <1>10, <1>11

(* A file of points is named by one tile the viewer reaches, and that tile *)
(* by the file of its node when that was split off.                        *)
Shows(d, n) == n \in DOMAIN docs[d] /\ docs[d][n].content = "pnts"

LEMMA NamesAFile ==
    ASSUME TreeInv, NEW d \in Names, NEW n, Shows(d, n)
    PROVE  /\ n \in Names /\ files[n] # {}
           /\ docs[d][n].refine = IF n = Root THEN "REPLACE" ELSE "ADD"
           /\ files[n] \subseteq docs[d][n].box
           /\ n = d <=> docs[n] # NoDoc
<1>1. n \in DOMAIN docs[d] /\ docs[d][n].content = "pnts"
  BY DEF Shows
<1>2. docs[d] # NoDoc /\ DocInv(d) /\ n \in Names
  BY <1>1, InFile
<1>3. CASE n = d
  <2>1. TileInv(n) /\ FullTile(n) = docs[d][n]
    BY <1>1, <1>3, InFile
  <2> QED
    BY <1>1, <1>2, <1>3, <2>1 DEF TileInv, DocInv
<1>4. CASE n # d
  <2>1. Placed(d, n) /\ TileInv(n) /\ n # Root
    BY <1>1, <1>4, InFile
  <2>2. docs[n] = NoDoc /\ FullTile(n) = tiles[n] /\ tiles[n].content = "pnts"
    BY <1>1, <2>1 DEF TileInv, Placed, FullTile
  <2> QED
    BY <1>1, <1>2, <1>4, <2>1, <2>2 DEF TileInv, Placed
<1> QED
  BY <1>3, <1>4

LEMMA NamedOnce ==
    ASSUME TreeInv, NEW d \in Names, NEW e \in Names, NEW n, Shows(d, n), Shows(e, n)
    PROVE  d = e
BY NamesAFile, PlacedOnce DEF Shows

LEMMA FileReached ==
    ASSUME TreeInv, phase[Root] = "written", NEW n \in Names, docs[n] # NoDoc
    PROVE  n \in FilesSeen /\ n \in DOMAIN docs[n]
<1>1. Done(n) /\ TileInv(n) /\ DocInv(n)
  BY DEF TreeInv, FilesFound, TilesInv
<1>2. CASE n = Root
  BY <1>1, <1>2, FilesSeenFacts DEF DocInv
<1>3. CASE n # Root
  <2>1. tiles[n].content = "json"
    BY <1>1, <1>3 DEF TileInv
  <2>2. PICK d \in FilesSeen : n \in DOMAIN docs[d] /\ n # d
    BY <1>3, <2>1, PlacedSomewhere DEF NoTile
  <2>3. Placed(d, n)
    BY <2>2, FilesSeenFacts, InFile
  <2>4. n \in Linked(d)
    BY <2>1, <2>2, <2>3 DEF Linked, Placed
  <2> QED
    BY <1>1, <2>2, <2>4, FilesSeenFacts DEF DocInv
<1> QED
  BY <1>2, <1>3

LEMMA NamedSomewhere ==
    ASSUME TreeInv, phase[Root] = "written", NEW n \in Names, files[n] # {}
    PROVE  \E d \in FilesSeen : Shows(d, n)
<1>1. Done(n) /\ TileInv(n)
  BY AllDone DEF Absent, TreeInv, TilesInv
<1>2. CASE docs[n] # NoDoc
  <2>1. docs[n][n].content = "pnts"
    BY <1>1, <1>2 DEF TileInv, FullTile
  <2> QED
    BY <1>2, <2>1, FileReached DEF Shows
<1>3. CASE docs[n] = NoDoc
  <2>1. tiles[n].content = "pnts" /\ n # Root
    BY <1>1, <1>3 DEF TileInv, FullTile
  <2>2. PICK d \in FilesSeen : n \in DOMAIN docs[d] /\ n # d
    BY <2>1, PlacedSomewhere DEF NoTile
  <2>3. Placed(d, n)
    BY <2>2, FilesSeenFacts, InFile
  <2> QED
    BY <2>1, <2>2, <2>3 DEF Placed, Shows
<1> QED
  BY <1>2, <1>3

(* When tileset.json is written a point is in the file of one node below   *)
(* the root.                                                               *)
LEMMA OneFile ==
    ASSUME TreeInv, phase[Root] = "written", NEW p \in Point
    PROVE  \E n \in Names \ {Root} :
              p \in files[n] /\ \A m \in Names \ {Root} : p \in files[m] => m = n
<1>1. \A n \in Names : phase[n] \notin {"unlinked", "rewritten"}
  BY AllDone DEF Done, Absent
<1>2. \A n \in Names : p \notin held[n]
  BY <1>1 DEF TreeInv, IInv, TypeOK
<1>3. Somewhere(p) /\ NeverApart
  BY PointsFacts DEF TreeInv, IInv
<1>4. PICK n \in Names \ {Root} : p \in files[n]
  BY <1>2, <1>3 DEF Somewhere
<1>5. \A m \in Names \ {Root} : p \in files[m] => m = n
  BY <1>1, <1>3, <1>4 DEF NeverApart, Twice
<1> QED
  BY <1>4, <1>5

LEMMA TreeEveryPointShown == TreeInv => EveryPointShown
<1> SUFFICES ASSUME TreeInv, phase[Root] = "written" PROVE EveryPointShown
  BY DEF EveryPointShown
<1> DEFINE points == {at \in Reached : TileAt(at).content = "pnts"}
           added == {at \in points : TileAt(at).refine = "ADD"}
<1>1. PICK R : R = Reached
  OBVIOUS
<1>2. \A at : at \in R <=> \E d \in FilesSeen : \E m \in DOMAIN docs[d] : at = <<d, m>>
  BY <1>1, ReachedFacts
<1>3. FilesSeen \subseteq Names
  BY FilesSeenFacts
<1>4. \A at : at \in points <=> \E d \in FilesSeen : \E n : Shows(d, n) /\ at = <<d, n>>
  <2> SUFFICES ASSUME NEW at
               PROVE  at \in points <=> \E d \in FilesSeen : \E n : Shows(d, n) /\ at = <<d, n>>
    OBVIOUS
  <2>1. at \in points <=> at \in R /\ docs[at[1]][at[2]].content = "pnts"
    BY <1>1 DEF TileAt
  <2>2. ASSUME at \in points
        PROVE  \E d \in FilesSeen : \E n : Shows(d, n) /\ at = <<d, n>>
    <3>1. PICK d, m : d \in FilesSeen /\ m \in DOMAIN docs[d] /\ at = <<d, m>>
      BY <1>2, <2>1, <2>2
    <3>2. at[1] = d /\ at[2] = m
      BY <3>1
    <3> QED
      BY <2>1, <2>2, <3>1, <3>2 DEF Shows
  <2>3. ASSUME NEW d \in FilesSeen, NEW n, Shows(d, n), at = <<d, n>>
        PROVE  at \in points
    <3>1. at[1] = d /\ at[2] = n
      BY <2>3
    <3> QED
      BY <1>2, <2>1, <2>3, <3>1 DEF Shows
  <2> QED
    BY <2>2, <2>3
<1>5. \A at : at \in added <=> \E d \in FilesSeen : \E n :
                 Shows(d, n) /\ n # Root /\ at = <<d, n>>
  <2> SUFFICES ASSUME NEW at
               PROVE  at \in added <=> \E d \in FilesSeen : \E n :
                         Shows(d, n) /\ n # Root /\ at = <<d, n>>
    OBVIOUS
  <2>1. at \in added <=> at \in points /\ docs[at[1]][at[2]].refine = "ADD"
    BY DEF TileAt
  <2>2. ASSUME NEW d \in FilesSeen, NEW n, Shows(d, n), at = <<d, n>>
        PROVE  docs[at[1]][at[2]].refine = "ADD" <=> n # Root
    <3>1. at[1] = d /\ at[2] = n
      BY <2>2
    <3> QED
      BY <1>3, <2>2, <3>1, NamesAFile
  <2> HIDE DEF points, added
  <2> QED
    BY <1>4, <2>1, <2>2
<1>6. {at[2] : at \in points} = {n \in Names : files[n] # {}}
  <2> HIDE DEF points
  <2>1. ASSUME NEW at \in points PROVE at[2] \in Names /\ files[at[2]] # {}
    <3>1. PICK d, n : d \in FilesSeen /\ Shows(d, n) /\ at = <<d, n>>
      BY <1>4
    <3>2. at[2] = n
      BY <3>1
    <3> QED
      BY <1>3, <3>1, <3>2, NamesAFile
  <2>2. ASSUME NEW n \in Names, files[n] # {} PROVE \E at \in points : at[2] = n
    <3>1. PICK d \in FilesSeen : Shows(d, n)
      BY <2>2, NamedSomewhere
    <3>2. <<d, n>> \in points /\ <<d, n>>[2] = n
      BY <1>4, <3>1
    <3> QED
      BY <3>2
  <2> QED
    BY <2>1, <2>2
<1>7. {at[1] : at \in Reached} = {n \in Names : docs[n] # NoDoc}
  <2>1. ASSUME NEW at \in R PROVE at[1] \in Names /\ docs[at[1]] # NoDoc
    <3>1. PICK d, m : d \in FilesSeen /\ m \in DOMAIN docs[d] /\ at = <<d, m>>
      BY <1>2
    <3>2. at[1] = d
      BY <3>1
    <3> QED
      BY <1>3, <3>1, <3>2, InFile
  <2>2. ASSUME NEW n \in Names, docs[n] # NoDoc PROVE \E at \in R : at[1] = n
    <3>1. n \in FilesSeen /\ n \in DOMAIN docs[n]
      BY <2>2, FileReached
    <3>2. <<n, n>> \in R /\ <<n, n>>[1] = n
      BY <1>2, <3>1
    <3> QED
      BY <3>2
  <2>3. {at[1] : at \in R} = {n \in Names : docs[n] # NoDoc}
    BY <2>1, <2>2
  <2> QED
    BY <1>1, <2>3
<1>8. ASSUME NEW p \in Point
      PROVE  Cardinality({at \in added : p \in files[at[2]]}) = 1
  <2>1. PICK n \in Names \ {Root} :
           p \in files[n] /\ \A m \in Names \ {Root} : p \in files[m] => m = n
    BY <1>8, OneFile
  <2>2. PICK d \in FilesSeen : Shows(d, n)
    BY <2>1, NamedSomewhere
  <2>3. PICK one : one = <<d, n>>
    OBVIOUS
  <2>4. one \in added /\ p \in files[one[2]]
    <3> HIDE DEF added
    <3> QED
      BY <1>5, <2>1, <2>2, <2>3
  <2>5. ASSUME NEW at \in added, p \in files[at[2]] PROVE at = one
    <3> HIDE DEF added
    <3>1. PICK e, m : e \in FilesSeen /\ Shows(e, m) /\ m # Root /\ at = <<e, m>>
      BY <1>5, <2>5
    <3>2. at[2] = m /\ m \in Names
      BY <1>3, <3>1, NamesAFile
    <3>3. m = n
      BY <2>1, <2>5, <3>1, <3>2
    <3>4. e = d
      BY <1>3, <2>2, <3>1, <3>3, NamedOnce
    <3> QED
      BY <2>3, <3>1, <3>3, <3>4
  <2>6. {at \in added : p \in files[at[2]]} = {one}
    <3> HIDE DEF added
    <3> QED
      BY <2>4, <2>5
  <2> QED
    BY <2>6, FS_Singleton
<1> QED
  BY <1>6, <1>7, <1>8 DEF EveryPointShown

LEMMA TreeBoxesCover == TreeInv => BoxesCover
<1> SUFFICES ASSUME TreeInv, NEW at \in Reached,
                    NEW m \in Below(at[2]) \cap DOMAIN docs[at[1]],
                    docs[at[1]][m].content = "pnts"
             PROVE  files[m] \subseteq TileAt(at).box
  BY DEF BoxesCover
<1>1. PICK d, a : d \in FilesSeen /\ a \in DOMAIN docs[d] /\ at = <<d, a>>
  BY ReachedFacts
<1>2. at[1] = d /\ at[2] = a /\ d \in Names
  BY <1>1, FilesSeenFacts
<1>3. DocInv(d) /\ a \in Names /\ a \in Below(d)
  BY <1>1, <1>2, InFile
<1>4. m \in Below(a) /\ m \in DOMAIN docs[d] /\ docs[d][m].content = "pnts"
  BY <1>2
<1>5. files[m] \subseteq docs[d][m].box
  BY <1>2, <1>4, NamesAFile DEF Shows
<1>6. docs[d][m].box \subseteq docs[d][a].box
  <2> DEFINE T == {k \in Below(a) \cap DOMAIN docs[d] : ~ (docs[d][k].box \subseteq docs[d][a].box)}
  <2>1. SUFFICES ASSUME T # {} PROVE FALSE
    BY <1>4
  <2>2. PICK k \in T : k = Root \/ Parent(k) \notin T
    <3>1. T \in SUBSET Names
      BY DEF Below
    <3> HIDE DEF T
    <3> QED
      BY <2>1, <3>1, HighestName
  <2>3. k \in Below(a) /\ k \in DOMAIN docs[d] /\ k # a
    BY <2>2
  <2>4. k # Root /\ Parent(k) \in Below(a)
    BY <1>3, <2>3, BelowOrder
  <2>5. k # d
    BY <1>2, <1>3, <2>3, BelowOrder
  <2>6. Placed(d, k)
    BY <1>2, <2>3, <2>5, InFile
  <2>7. Parent(k) \in DOMAIN docs[d] /\ k \in docs[d][Parent(k)].children
    BY <2>6 DEF Placed
  <2>8. docs[d][k].box \subseteq docs[d][Parent(k)].box
    BY <1>3, <2>7 DEF DocInv
  <2>9. docs[d][Parent(k)].box \subseteq docs[d][a].box
    BY <2>2, <2>4, <2>7
  <2> QED
    BY <2>2, <2>8, <2>9
<1> QED
  BY <1>2, <1>5, <1>6 DEF TileAt

(* When tileset.json is written, the tiles that a viewer reaches from it   *)
(* name each file of points and each tile set file there is, and no other, *)
(* and each point is shown once at full detail, however the pool of        *)
(* write_tileset runs the calls of to_tileset and wherever split_tileset   *)
(* splits.                                                                 *)
THEOREM TileTreeEveryPointShown == Spec => []EveryPointShown
BY TreeInvariant, TreeEveryPointShown, PTL

(* When tileset.json is written, in each tile set file the box of a tile   *)
(* encloses the points of all the tiles below it that the file holds       *)
(* (sync_bounding_volume_with_children), for any tree of nodes.            *)
THEOREM TileTreeBoxesCover == Spec => []BoxesCover
BY TreeInvariant, TreeBoxesCover, PTL
=============================================================================
