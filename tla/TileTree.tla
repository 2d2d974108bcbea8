------------------------------ MODULE TileTree ------------------------------
(***************************************************************************)
(* src/py3dtiles/tilers/point: how the files the workers have written      *)
(* become a tile set.  PointTiler.write_tileset samples a root tile and    *)
(* calls Node.to_tileset on it; a call first makes the tiles of the        *)
(* children whose file exists, then merges a small tile into the file of   *)
(* its parent.  The subtrees of the root's children are given to a pool of *)
(* processes that work on the same folder at the same time; in a subtree   *)
(* the calls are made one after the other.                                 *)
(*                                                                         *)
(* Abstracted: a file is the set of its points; a box is the set of the    *)
(* points it was computed from, which it encloses; geometric errors and    *)
(* transforms are left out; whether the JSON of a tile is above 100 000    *)
(* bytes is left open.                                                     *)
(*                                                                         *)
(* The definitions whose names start with Bug are not the code's: each is  *)
(* a slip in the definition that follows it, which the properties must     *)
(* catch.                                                                  *)
(***************************************************************************)
EXTENDS NodeNames, FiniteSets

CONSTANTS
    Point,      \* the points of the conversion
    Names,      \* the nodes that may have a file, and the root
    PruneBelow, \* 100: a tile with fewer points is merged into its parent
    Written     \* the contents the folder may have: node name -> points

Parent(n) == SubSeq(n, 1, Len(n) - 1)
Below(n) == {c \in Names : IsAncestor(c, n)}

(* The workers leave each point in one file, and no file without that of   *)
(* its parent but for the root, which they do not write.                   *)
ASSUME TreeAssumption ==
    /\ Names \subseteq NodeName /\ IsFiniteSet(Names) /\ Root \in Names
    /\ \A n \in Names \ {Root} : Parent(n) \in Names
    /\ PruneBelow \in Nat
    /\ \A f \in Written :
          /\ f \in [Names -> SUBSET Point] /\ f[Root] = {}
          /\ \A n, m \in Names : n # m => f[n] \cap f[m] = {}
          /\ \A n \in Names : Len(n) > 1 /\ f[n] # {} => f[Parent(n)] # {}
          /\ UNION {f[n] : n \in Names} = Point

VARIABLES
    files,  \* the .pnts files: node name -> points, {} when there is none
    phase,  \* where the call of to_tileset on a node stands
    held,   \* the merged points a call has in memory only
    tiles,  \* what the calls have returned
    docs    \* the tile set files: that of the root is tileset.json

vars == <<files, phase, held, tiles, docs>>

NoTile == [content |-> "none", children |-> {}, box |-> {}, refine |-> "ADD"]
NoDoc == [m \in {} |-> NoTile]

Init ==
    /\ files \in Written
    /\ \E n \in Names : Len(n) = 1 /\ files[n] # {}
    /\ phase = [n \in Names |-> "waiting"]
    /\ held = [n \in Names |-> {}]
    /\ tiles = [n \in Names |-> NoTile]
    /\ docs = [n \in Names |-> NoDoc]

-----------------------------------------------------------------------------
Children(n) == {c \in Names : Len(c) = Len(n) + 1 /\ IsAncestor(c, n)}
InCall(n) == phase[n] \in {"children", "unlinked", "rewritten"}

(* The children the loop of to_tileset has still to call, in the order of  *)
(* get_child_names: those whose file exists.                               *)
ToCall(n) == {c \in Children(n) : phase[c] = "waiting" /\ files[c] # {}}
FirstOf(S) == CHOOSE c \in S : \A d \in S : c[Len(c)] <= d[Len(d)]
BugLoopDone(n) == ToCall(n) = {}
LoopDone(n) == ToCall(n) = {} /\ \A c \in Children(n) : ~ InCall(c)

(* write_tileset: the root tile is a sample of its children's points.      *)
WriteRootTile ==
    /\ phase[Root] = "waiting"
    /\ \E sample \in SUBSET UNION {files[c] : c \in Children(Root)} :
          /\ sample # {}
          /\ files' = [files EXCEPT ![Root] = sample]
    /\ phase' = [phase EXCEPT ![Root] = "children"]
    /\ UNCHANGED <<held, tiles, docs>>

(* The root's children go to the pool, all at once.                        *)
Submit ==
    /\ phase[Root] = "children" /\ ToCall(Root) # {}
    /\ phase' = [n \in Names |-> IF n \in ToCall(Root) THEN "children" ELSE phase[n]]
    /\ UNCHANGED <<files, held, tiles, docs>>

(* Another node calls its children one by one.                             *)
CallChild(n) ==
    /\ n # Root /\ phase[n] = "children"
    /\ ToCall(n) # {} /\ \A c \in Children(n) : ~ InCall(c)
    /\ phase' = [phase EXCEPT ![FirstOf(ToCall(n))] = "children"]
    /\ UNCHANGED <<files, held, tiles, docs>>

-----------------------------------------------------------------------------
(* The merge of a small tile, in three steps on the folder.                *)
BugIsSmall(n) == Len(n) > 0 /\ Cardinality(files[n]) < PruneBelow
IsSmall(n) == Len(n) > 1 /\ Cardinality(files[n]) < PruneBelow

UnlinkParent(n) ==
    /\ phase[n] = "children" /\ LoopDone(n) /\ IsSmall(n)
    /\ held' = [held EXCEPT ![n] = files[Parent(n)] \cup files[n]]
    /\ files' = [files EXCEPT ![Parent(n)] = {}]
    /\ phase' = [phase EXCEPT ![n] = "unlinked"]
    /\ UNCHANGED <<tiles, docs>>

WriteMerged(n) ==
    /\ phase[n] = "unlinked"
    /\ files' = [files EXCEPT ![Parent(n)] = held[n]]
    /\ held' = [held EXCEPT ![n] = {}]
    /\ phase' = [phase EXCEPT ![n] = "rewritten"]
    /\ UNCHANGED <<tiles, docs>>

(* The children of a tile: those that were not merged into it.             *)
Kept(n) == {c \in Children(n) : tiles[c] # NoTile}

(* TileSet.write_as_json: the tiles below tile n, returned as t; a box is  *)
(* extended to those of the children (sync_bounding_volume_with_children). *)
BugSynced(t) == [m \in DOMAIN t |-> t[m].box]
Synced(t) ==
    LET box[m \in DOMAIN t] == t[m].box \cup UNION {box[c] : c \in t[m].children}
    IN  box

Document(n, t) ==
    LET all == [tiles EXCEPT ![n] = t]
        seen[m \in Names] == {m} \cup UNION {seen[c] : c \in all[m].children}
        doc == [m \in seen[n] |-> all[m]]
    IN  [m \in seen[n] |-> [doc[m] EXCEPT !.box = Synced(doc)[m]]]

(* split_tileset: the tile keeps its box and refers to a tile set file.    *)
SplitTileset(n, t) ==
    /\ docs' = [docs EXCEPT ![n] = Document(n, t)]
    /\ tiles' = [tiles EXCEPT ![n] = [t EXCEPT !.content = "json", !.children = {}]]

Return(n, t) ==
    /\ phase' = [phase EXCEPT ![n] = "returned"]
    /\ \/ tiles' = [tiles EXCEPT ![n] = t] /\ docs' = docs
       \/ n # Root /\ t.children # {} /\ SplitTileset(n, t)

(* The tile of a merged node: none without children, else their boxes.     *)
BugMergedTile(n) == NoTile
MergedTile(n) ==
    [content |-> "none", children |-> Kept(n),
     box |-> UNION {tiles[c].box : c \in Kept(n)}, refine |-> "ADD"]

UnlinkChild(n) ==
    /\ phase[n] = "rewritten"
    /\ files' = [files EXCEPT ![n] = {}]
    /\ Return(n, MergedTile(n))
    /\ UNCHANGED held

OwnTile(n) == [content |-> "pnts", children |-> Kept(n), box |-> files[n], refine |-> "ADD"]

KeepTile(n) ==
    /\ phase[n] = "children" /\ LoopDone(n) /\ ~ IsSmall(n)
    /\ Return(n, OwnTile(n))
    /\ UNCHANGED <<files, held>>

(* write_tileset, the end: the root replaces nothing but its sample.       *)
WriteTileset ==
    /\ phase[Root] = "returned"
    /\ docs' = [docs EXCEPT ![Root] =
                  Document(Root, [tiles[Root] EXCEPT !.refine = "REPLACE"])]
    /\ phase' = [phase EXCEPT ![Root] = "written"]
    /\ UNCHANGED <<files, held, tiles>>

Finished == phase[Root] = "written" /\ UNCHANGED vars

ToTileset(n) ==
    CallChild(n) \/ UnlinkParent(n) \/ WriteMerged(n) \/ UnlinkChild(n) \/ KeepTile(n)

Next ==
    WriteRootTile \/ Submit \/ (\E n \in Names : ToTileset(n)) \/ WriteTileset \/ Finished

Spec == Init /\ [][Next]_vars

-----------------------------------------------------------------------------
(* Types, and where the calls stand: a call is made, and runs, while the   *)
(* call on the parent is in its loop, and a parent below the root waits    *)
(* for one child at a time; only a merge between its first two steps       *)
(* holds points (Node.to_tileset).                                         *)
TypeOK ==
    /\ files \in [Names -> SUBSET Point]
    /\ phase \in [Names -> {"waiting", "children", "unlinked", "rewritten",
                            "returned", "written"}]
    /\ held \in [Names -> SUBSET Point]
    /\ tiles \in [Names -> [content : {"none", "pnts", "json"}, children : SUBSET Names,
                            box : SUBSET Point, refine : {"ADD", "REPLACE"}]]
    /\ \A n \in Names : held[n] # {} => phase[n] = "unlinked"
    /\ \A n \in Names \ {Root} : InCall(n) => phase[Parent(n)] = "children"
    /\ \A n \in Names : \A c, d \in Children(n) :
          n # Root /\ InCall(c) /\ InCall(d) => c = d

(* Merging small tiles, in any order and in several processes, never loses *)
(* a point: one that is in no file is in the hands of the one call that    *)
(* rewrites the file of a parent.  It is in two files at most, those of a  *)
(* tile and of its parent, between the last two steps of their merge.      *)
PointsInOneFile ==
    \A p \in Point :
        LET copies == {n \in Names \ {Root} : p \in files[n]}
        IN  /\ copies # {} \/ \E n \in Names : p \in held[n]
            /\ \A n, m \in copies :
                  \/ n = m
                  \/ n = Parent(m) /\ phase[m] = "rewritten"
                  \/ m = Parent(n) /\ phase[n] = "rewritten"

(* The tile set files and tiles a viewer reaches from tileset.json.        *)
Reached ==
    LET docsFrom[n \in Names] ==
            {n} \cup UNION {docsFrom[m] : m \in {m \in DOMAIN docs[n] \ {n} :
                                                   docs[n][m].content = "json"}}
    IN  UNION {{<<d, m>> : m \in DOMAIN docs[d]} : d \in docsFrom[Root]}
TileAt(at) == docs[at[1]][at[2]]

(* When tileset.json is written, the tiles a viewer reaches name each file *)
(* of points and each tile set file that exist, and no other; and at full  *)
(* detail, with the root's sample replaced, each point is shown once.      *)
EveryPointShown ==
    phase[Root] = "written" =>
        LET points == {at \in Reached : TileAt(at).content = "pnts"}
            added == {at \in points : TileAt(at).refine = "ADD"}
        IN  /\ {at[2] : at \in points} = {n \in Names : files[n] # {}}
            /\ {at[1] : at \in Reached} = {n \in Names : docs[n] # NoDoc}
            /\ \A p \in Point : Cardinality({at \in added : p \in files[at[2]]}) = 1

(* In a tile set file the box of a tile encloses its points and those of   *)
(* all the tiles below it (3D Tiles asks it), though to_tileset computes   *)
(* it from the tile's own points, or from the kept children of a merged    *)
(* tile.  It stops at the tiles split_tileset replaced: those keep the box *)
(* they had before the boxes of their own file were extended.              *)
BoxesCover ==
    phase[Root] = "written" =>
        \A at \in Reached : \A m \in Below(at[2]) \cap DOMAIN docs[at[1]] :
            docs[at[1]][m].content = "pnts" => files[m] \subseteq TileAt(at).box
=============================================================================
