------------------------------- MODULE Merger -------------------------------
(***************************************************************************)
(* src/py3dtiles/merger.py: merge_with_pnts_content, which puts the tile   *)
(* sets to merge in a quadtree, by the centres of their boxes, and gives   *)
(* each inner tile a sample of the points below it.                        *)
(*                                                                         *)
(* Abstracted: coordinates are integers, an input's transform a            *)
(* translation; boxes are parallel to the axes; a sample is the set of     *)
(* the tile sets it was taken from; geometric errors are left out.  The    *)
(* quarters of a box need not have integer corners: a cell of the quadtree *)
(* is the number of parts the sides of the whole box are cut in and its    *)
(* place in the grid of these parts.  The list of the tile sets inside a   *)
(* cell, always in the order of the inputs, is the set of their indices.   *)
(* The recursion of build_tileset_quadtree is a list of the calls still to *)
(* make; a tile is numbered by the call that creates it.                   *)
(*                                                                         *)
(* The definitions whose names start with Bug are not the code's: each is  *)
(* a slip in the definition that follows it, which the properties must     *)
(* catch.                                                                  *)
(***************************************************************************)
EXTENDS Integers, Sequences, FiniteSets, FiniteSetsExt

CONSTANTS
    Inputs,     \* the sequences of tile sets: [box, transform] each
    Unit        \* the coordinates in a unit of length

Axis == 1..3
Corner == [Axis -> Int]
Box == {b \in [min : Corner, max : Corner] : \A a \in Axis : b.min[a] <= b.max[a]}

ASSUME MergerAssumption ==
    /\ Inputs \subseteq Seq([box : Box, transform : Corner]) \ {<<>>}
    /\ Unit \in Nat \ {0}

VARIABLES
    tilesets,   \* the tile sets to merge
    stage,      \* merging, writing, done, raised
    todo,       \* the calls to make: [cell, candidates, parent]
    tiles,      \* the tiles, in the order of the calls, the root first
    boxes,      \* their boxes
    unwritten,  \* the inner tiles whose content is to be written
    sample      \* the file r.pnts: the tile sets its points come from

vars == <<tilesets, stage, todo, tiles, boxes, unwritten, sample>>

Number == DOMAIN tilesets

Moved(box, offset) ==
    [min |-> [a \in Axis |-> box.min[a] + offset[a]],
     max |-> [a \in Axis |-> box.max[a] + offset[a]]]
HullOf(several) ==
    [min |-> [a \in Axis |-> Min({b.min[a] : b \in several})],
     max |-> [a \in Axis |-> Max({b.max[a] : b \in several})]]
Minus(offset) == [a \in Axis |-> - offset[a]]
Zero == [a \in Axis |-> 0]

(* The box of an input with its transform applied; the box of them all,    *)
(* and from its lower corner twice the centre of an input.                 *)
WorldBox(i) == Moved(tilesets[i].box, tilesets[i].transform)
Global == HullOf({WorldBox(i) : i \in Number})
Size(a) == Global.max[a] - Global.min[a]
Centre2(i, a) == WorldBox(i).min[a] + WorldBox(i).max[a] - 2 * Global.min[a]

-----------------------------------------------------------------------------
Cell(parts, x, y) == [parts |-> parts, x |-> x, y |-> y]
Call(cell, candidates, parent) ==
    [cell |-> cell, candidates |-> candidates, parent |-> parent]

(* quadtree_split: the quarters of a cell, which is never split in z.      *)
BugQuarters(cell) ==
    [q \in 1..3 |-> Cell(2 * cell.parts, (2 * cell.x) + (q \div 2), (2 * cell.y) + (q % 2))]
Quarters(cell) ==
    [q \in 1..4 |-> Cell(2 * cell.parts, (2 * cell.x) + ((q - 1) \div 2),
                                         (2 * cell.y) + ((q - 1) % 2))]

(* is_point_inside: a cell has its lower borders and not its upper ones.   *)
Within(i, a, parts, k) ==
    /\ k * (2 * Size(a)) <= parts * Centre2(i, a)
    /\ parts * Centre2(i, a) < (k + 1) * (2 * Size(a))
IsPointInside(i, cell) ==
    /\ Within(i, 1, cell.parts, cell.x)
    /\ Within(i, 2, cell.parts, cell.y)
    /\ Within(i, 3, 1, 0)

(* The diagonal of a cell is below 1.                                      *)
IsSmall(parts) == Size(1) * Size(1) + Size(2) * Size(2) < (parts * Unit) * (parts * Unit)

(* A leaf refers to the first of its inputs and undoes the base transform, *)
(* which the root tile will have; an inner tile has a sample of them all.  *)
BaseTransform == tilesets[1].transform
Leaf(insides) == [kind |-> "leaf", inputs |-> insides,
                  transform |-> Minus(BaseTransform), children |-> {}]
Inner(insides) == [kind |-> "inner", inputs |-> insides,
                   transform |-> Zero, children |-> {}]
Content(n) == Min(tiles[n].inputs)

Init ==
    /\ tilesets \in Inputs
    /\ stage = "merging"
    /\ todo = <<Call(Cell(1, 0, 0), Number, 0)>>
    /\ tiles = <<>> /\ boxes = <<>> /\ unwritten = {} /\ sample = {}

(* build_tileset_quadtree: one call, which gives no tile when nothing is   *)
(* inside.                                                                 *)
BuildTilesetQuadtree ==
    /\ stage = "merging" /\ todo # <<>>
    /\ LET call == Head(todo)
           insides == {i \in call.candidates : IsPointInside(i, call.cell)}
           isLeaf == Cardinality(insides) = 1 \/ IsSmall(call.cell.parts)
           tile == Len(tiles) + 1
           quarters == Quarters(call.cell)
       IN  IF insides = {}
           THEN todo' = Tail(todo) /\ UNCHANGED tiles
           ELSE /\ tiles' = [n \in 1..tile |->
                               IF n = tile
                               THEN IF isLeaf THEN Leaf(insides) ELSE Inner(insides)
                               ELSE IF n = call.parent
                               THEN [tiles[n] EXCEPT !.children = @ \cup {tile}]
                               ELSE tiles[n]]
                /\ todo' = (IF isLeaf THEN <<>>
                            ELSE [q \in DOMAIN quarters |-> Call(quarters[q], insides, tile)])
                               \o Tail(todo)
    /\ UNCHANGED <<tilesets, stage, boxes, unwritten, sample>>

(* add_child: the box of an inner tile encloses those of its children.     *)
BugTileBoxes ==
    LET box[n \in DOMAIN tiles] ==
            IF tiles[n].kind = "leaf" THEN WorldBox(Content(n))
            ELSE HullOf({box[c] : c \in tiles[n].children})
    IN  box
TileBoxes ==
    LET box[n \in DOMAIN tiles] ==
            IF tiles[n].kind = "leaf" THEN WorldBox(Content(n))
            ELSE HullOf({Moved(box[c], tiles[c].transform) : c \in tiles[n].children})
    IN  box

(* merge_with_pnts_content: the base transform is that of the first input. *)
MergeWithPntsContent ==
    /\ stage = "merging" /\ todo = <<>>
    /\ IF tiles = <<>>
       THEN stage' = "raised" /\ UNCHANGED <<tiles, boxes, unwritten>>
       ELSE /\ stage' = "writing"
            /\ boxes' = TileBoxes
            /\ tiles' = [tiles EXCEPT ![1].transform = BaseTransform]
            /\ unwritten' = {n \in DOMAIN tiles : tiles[n].kind = "inner"}
    /\ UNCHANGED <<tilesets, todo, sample>>

(* write_to_directory: the contents of the inner tiles, which all have the *)
(* uri r.pnts, each over the one before; get_all_children, then the root.  *)
NextToWrite == IF unwritten = {1} THEN 1 ELSE Min(unwritten \ {1})
WriteContent ==
    /\ stage = "writing" /\ unwritten # {}
    /\ sample' = tiles[NextToWrite].inputs
    /\ unwritten' = unwritten \ {NextToWrite}
    /\ UNCHANGED <<tilesets, stage, todo, tiles, boxes>>

EndWriting ==
    /\ stage = "writing" /\ unwritten = {}
    /\ stage' = "done"
    /\ UNCHANGED <<tilesets, todo, tiles, boxes, unwritten, sample>>

Next == BuildTilesetQuadtree \/ MergeWithPntsContent \/ WriteContent \/ EndWriting

Spec == Init /\ [][Next]_vars

-----------------------------------------------------------------------------
Leaves == {n \in DOMAIN tiles : tiles[n].kind = "leaf"}

(* The quadtree sorts what it has taken: every input the root tile takes   *)
(* is an input of exactly one leaf, whatever the quarters its centre goes  *)
(* through.                                                                *)
OneLeafEach ==
    stage \in {"writing", "done"} =>
        \A i \in tiles[1].inputs : Cardinality({n \in Leaves : i \in tiles[n].inputs}) = 1

(* What the command's help promises, "Merge several pointcloud tilesets in *)
(* 1 tileset" with "All tileset paths to merge": every input is the        *)
(* content of a tile.  It is not so: the root tile leaves out those on an  *)
(* upper border, and a leaf shows the first of its inputs only.            *)
EveryInputShown ==
    stage = "done" => \A i \in Number : \E n \in Leaves : Content(n) = i

(* The tiles of the tree below a tile, and the sum of the transforms of a  *)
(* tile and of those above it.                                             *)
TilesBelow(n) ==
    {m \in DOMAIN tiles :
        \A S \in SUBSET DOMAIN tiles :
            n \in S /\ (\A k \in S : tiles[k].children \subseteq S) => m \in S}
Parent(n) == CHOOSE m \in DOMAIN tiles : n \in tiles[m].children
Offset ==
    LET offset[n \in DOMAIN tiles] ==
            IF n = 1 THEN tiles[n].transform
            ELSE [a \in Axis |-> offset[Parent(n)][a] + tiles[n].transform[a]]
    IN  offset

(* In the result an input is where its own transform puts it, and a tile's *)
(* box encloses, at the tile's place, the boxes of the inputs kept below   *)
(* it; the file all the inner tiles name has a sample for each of them.    *)
(* Not when a single input is left: the transform of the first one is then *)
(* applied on top of its own.                                              *)
Encloses(outer, inner) ==
    \A a \in Axis : outer.min[a] <= inner.min[a] /\ inner.max[a] <= outer.max[a]
ShownInPlace ==
    stage = "done" =>
        /\ \A n \in Leaves : Offset[n] = IF 1 \in Leaves THEN BaseTransform ELSE Zero
        /\ 1 \notin Leaves =>
              \A n \in DOMAIN tiles : \A m \in TilesBelow(n) \cap Leaves :
                  Encloses(Moved(boxes[n], Offset[n]), WorldBox(Content(m)))
        /\ \A n \in DOMAIN tiles \ Leaves : tiles[n].inputs \subseteq sample
=============================================================================
