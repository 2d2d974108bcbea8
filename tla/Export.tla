------------------------------- MODULE Export -------------------------------
(***************************************************************************)
(* src/py3dtiles/export.py: arrays2tileset, which makes a tile set of a    *)
(* list of geometries.  The extent is cut in squares of 2000 units; a      *)
(* square keeps its first 20 features and is divided in four for the rest, *)
(* and so on.  The tile set is written, then a .b3dm file for each node.   *)
(*                                                                         *)
(* Abstracted: a geometry is its bounding box, with integer coordinates;   *)
(* a list of features, which always has them in the order of the           *)
(* geometries, is the set of their indices.  A square is the number of     *)
(* parts the sides of the first squares are cut in and its place in the    *)
(* grid of these parts, so that halves need no fractions.  The recursion   *)
(* of divide is a list of the squares still to look at.                    *)
(***************************************************************************)
EXTENDS Integers, Sequences, FiniteSets, FiniteSetsExt

CONSTANTS
    Geometries,         \* the lists of boxes [min, max], in glTF's axes
    Counters,           \* the values Node.counter may have: 0, or more after
                        \* an earlier export of the program
    FeaturesPerTile,    \* 20
    MaxTileSize,        \* 2000
    Unit                \* 1: an extent below counts as this much

Corner == [1..3 -> Int]
Box == {b \in [min : Corner, max : Corner] : \A a \in 1..3 : b.min[a] <= b.max[a]}

(* What the theorems suppose of the constants.                             *)
ExportAssumption ==
    /\ Geometries \subseteq Seq(Box) /\ Counters \subseteq Nat
    /\ {FeaturesPerTile, MaxTileSize, Unit} \subseteq Nat \ {0}

VARIABLES
    bboxes,     \* the boxes of the geometries
    todo,       \* the squares to look at: [square, geoms, parent]
    counter,    \* Node.counter
    nodes,      \* the nodes: id -> [features, children]
    stage,      \* dividing, writing, done
    tileset,    \* tileset.json: id -> [content, box, children]
    written     \* the .b3dm files: id -> the features in it

vars == <<bboxes, todo, counter, nodes, stage, tileset, written>>

Number == DOMAIN bboxes
Tree == Min(DOMAIN nodes)

(* The Y-to-Z transform of a box: both of its y are that of the lower z.   *)
ZUp(b) == [min |-> <<b.min[1], - b.min[3], b.min[2]>>,
           max |-> <<b.max[1], - b.min[3], b.max[2]>>]

BoxOf(i) == ZUp(bboxes[i])
ExtentMin(a) == Min({BoxOf(i).min[a] : i \in Number})
ExtentMax(a) == Max({BoxOf(i).max[a] : i \in Number})

(* How many squares the extent takes along an axis; without geometries,    *)
(* when it is below any number, as many as a unit does.                    *)
Extent(a) == IF Number = {} THEN Unit ELSE Max({Unit, ExtentMax(a) - ExtentMin(a)})
Squares(a) == (Extent(a) + MaxTileSize - 1) \div MaxTileSize

(* tile_extent and BoundingBox.inside, on twice the centre of the box.     *)
Centre2(i, a) == BoxOf(i).min[a] + BoxOf(i).max[a] - 2 * ExtentMin(a)
Within(i, a, parts, k) ==
    /\ k * (2 * MaxTileSize) <= parts * Centre2(i, a)
    /\ parts * Centre2(i, a) < (k + 1) * (2 * MaxTileSize)
Inside(i, square) ==
    Within(i, 1, square.parts, square.x) /\ Within(i, 2, square.parts, square.y)

Node(features) == [features |-> features, children |-> {}]
Task(parts, x, y, geoms, parent) ==
    [square |-> [parts |-> parts, x |-> x, y |-> y], geoms |-> geoms, parent |-> parent]

-----------------------------------------------------------------------------
(* The root node has no features; the squares are taken column by column.  *)
Init ==
    /\ bboxes \in Geometries
    /\ \E id \in Counters :
          /\ counter = id + 1
          /\ nodes = [n \in {id} |-> Node({})]
          /\ todo = [k \in 1..(Squares(1) * Squares(2)) |->
                        Task(1, (k - 1) \div Squares(2), (k - 1) % Squares(2), Number, id)]
    /\ stage = "dividing"
    /\ tileset = <<>> /\ written = <<>>

(* divide: the rest of a full square, in the order of its loops.           *)
First(most, geoms) == {i \in geoms : Cardinality({j \in geoms : j < i}) < most}
Rest(geoms) == geoms \ First(FeaturesPerTile, geoms)
Divide(square, geoms, node) ==
    IF Cardinality(geoms) <= FeaturesPerTile THEN <<>>
    ELSE [q \in 1..4 |->
            Task(2 * square.parts, (2 * square.x) + ((q - 1) \div 2),
                 (2 * square.y) + ((q - 1) % 2), Rest(geoms), node)]

LookAtSquare ==
    /\ stage = "dividing" /\ todo # <<>>
    /\ LET task == Head(todo)
           geoms == {i \in task.geoms : Inside(i, task.square)}
       IN  IF geoms = {}
           THEN todo' = Tail(todo) /\ UNCHANGED <<counter, nodes>>
           ELSE /\ nodes' = [n \in DOMAIN nodes \cup {counter} |->
                                IF n = counter THEN Node(First(FeaturesPerTile, geoms))
                                ELSE IF n = task.parent
                                THEN [nodes[n] EXCEPT !.children = @ \cup {counter}]
                                ELSE nodes[n]]
                /\ todo' = Divide(task.square, geoms, counter) \o Tail(todo)
                /\ counter' = counter + 1
    /\ UNCHANGED <<bboxes, stage, tileset, written>>

(* compute_bbox: the box of a node encloses its features and its children; *)
(* that of the root alone, when no square has taken anything, is infinite. *)
Infinite == [min |-> <<>>, max |-> <<>>]
HullOf(boxes) ==
    LET finite == boxes \ {Infinite}
    IN  IF finite = {} THEN Infinite
        ELSE [min |-> [a \in 1..3 |-> Min({b.min[a] : b \in finite})],
              max |-> [a \in 1..3 |-> Max({b.max[a] : b \in finite})]]
ComputeBbox ==
    LET box[n \in DOMAIN nodes] ==
            HullOf({box[c] : c \in nodes[n].children}
                       \cup {BoxOf(i) : i \in nodes[n].features})
    IN  box

(* to_tileset_r: a tile for each node, a content for those with features.  *)
HasContent(n) == nodes[n].features # {}
WriteTileset ==
    /\ stage = "dividing" /\ todo = <<>>
    /\ tileset' = [n \in DOMAIN nodes |->
                     [content |-> HasContent(n), box |-> ComputeBbox[n],
                      children |-> nodes[n].children]]
    /\ stage' = "writing"
    /\ UNCHANGED <<bboxes, todo, counter, nodes, written>>

(* The next file of all_nodes, whose ids grow.                             *)
ToWrite == {n \in DOMAIN nodes : HasContent(n)} \ DOMAIN written
WriteTile ==
    /\ stage = "writing" /\ ToWrite # {}
    /\ written' = [n \in DOMAIN written \cup {Min(ToWrite)} |->
                     IF n \in DOMAIN written THEN written[n] ELSE nodes[n].features]
    /\ UNCHANGED <<bboxes, todo, counter, nodes, stage, tileset>>

EndWriting ==
    /\ stage = "writing" /\ ToWrite = {}
    /\ stage' = "done"
    /\ UNCHANGED <<bboxes, todo, counter, nodes, tileset, written>>

Next == LookAtSquare \/ WriteTileset \/ WriteTile \/ EndWriting

Spec == Init /\ [][Next]_vars

-----------------------------------------------------------------------------
(* The tiles a viewer reaches from a tile: those of each set that has it   *)
(* and, with a tile, its children.                                         *)
TilesBelow(n) ==
    {m \in DOMAIN tileset :
        \A S \in SUBSET DOMAIN tileset :
            n \in S /\ (\A k \in S : tileset[k].children \subseteq S) => m \in S}

(* Every geometry provided is in a file of the tile set: docs/cli.rst      *)
(* promises to transform all of them.                                      *)
AllGeometriesExported ==
    stage = "done" =>
        \A i \in Number : \E n \in TilesBelow(Tree) : tileset[n].content /\ i \in written[n]

(* A geometry whose centre is on the upper border of the last square, or   *)
(* beyond it: the extent is a whole number of squares and the geometry,    *)
(* flat in y as they all are once transformed, lies at its end.            *)
AtTheEnd(i) ==
    \E a \in {1, 2} : Centre2(i, a) >= Squares(a) * (2 * MaxTileSize)

(* The geometries that are lost are those at the end of the extent, which  *)
(* no square takes: each of the others is in one file, which one tile of   *)
(* the tile set names.  The tiles name the files that are written, and no  *)
(* file has too many geometries.                                           *)
FeaturesLost ==
    stage = "done" =>
        LET named == {n \in TilesBelow(Tree) : tileset[n].content}
        IN  /\ named = DOMAIN written
            /\ \A i \in Number :
                  Cardinality({n \in named : i \in written[n]})
                      = IF AtTheEnd(i) THEN 0 ELSE 1
            /\ \A n \in named : Cardinality(written[n]) <= FeaturesPerTile

(* The box of a tile encloses the geometries of the files below it, in x   *)
(* and in z.  In y it encloses one side of them only, that of their lowest *)
(* z in glTF's axes: the boxes have no size in y.                          *)
BoxesCover ==
    stage = "done" =>
        \A n \in DOMAIN tileset : \A m \in TilesBelow(n) \cap DOMAIN written :
            \A i \in written[m] :
                LET box == tileset[n].box
                IN  /\ box.min[1] <= bboxes[i].min[1] /\ bboxes[i].max[1] <= box.max[1]
                    /\ box.min[3] <= bboxes[i].min[2] /\ bboxes[i].max[2] <= box.max[3]
                    /\ box.min[2] <= - bboxes[i].min[3] /\ - bboxes[i].min[3] <= box.max[2]
=============================================================================
