------------------------------ MODULE TileSets ------------------------------
(***************************************************************************)
(* src/py3dtiles/tileset (TileSet, Tile) and merger.merge_from_files: tile *)
(* sets in memory and on disk.  A tile set read from a file loads the      *)
(* contents of its tiles when they are asked for, tile sets among them;    *)
(* it may then be written anywhere, over itself too, deleted with or       *)
(* without the tile sets its tiles refer to, or merged with others.        *)
(*                                                                         *)
(* A path is the sequence of its parts.  A tile set is the sequence of its *)
(* tiles in the order they are written, the root last; their tree, their   *)
(* boxes, transforms and errors have no influence on the files, but for    *)
(* the inputs that a merge keeps, and are left out.  Abstracted too: the   *)
(* bytes of a content, the directories.  The calls of a program are made   *)
(* one after the other, but a call that raises half way leaves what it has *)
(* done on disk.                                                           *)
(*                                                                         *)
(* The definitions whose names start with Bug are not the code's: each is  *)
(* a slip in the definition that follows it, which the properties must     *)
(* catch.                                                                  *)
(***************************************************************************)
EXTENDS Naturals, Sequences, SequencesExt, FiniteSets

CONSTANTS
    Disks,      \* the files a program may start with: path -> file
    JsonNames,  \* the file names that end in .json
    Inputs,     \* the sequences of tile sets to merge
    Outputs,    \* the paths tile sets are written to
    MaxCalls    \* bound of the model: the calls of the program

VARIABLES
    disk,       \* the files
    mem,        \* the tile set the program holds
    path,       \* the file it comes from
    calls,      \* the number of calls made
    last        \* the last call and how it ended

vars == <<disk, mem, path, calls, last>>

(* A file is a content or the uris of the tiles of a tile set; a uri is    *)
(* relative to the directory of the tile set or absolute.                  *)
Binary(data) == [kind |-> "binary", data |-> data]
Json(uris) == [kind |-> "json", tiles |-> uris]
Uri(p) == [absolute |-> FALSE, path |-> p]
NoUri == Uri(<<>>)
NoContent == [kind |-> "none"]
IsJson(p) == Last(p) \in JsonNames

Resolve(root_uri, uri) == IF uri.absolute THEN uri.path ELSE root_uri \o uri.path
Without(d, p) == [q \in DOMAIN d \ {p} |-> d[q]]
With(d, p, file) == [q \in DOMAIN d \cup {p} |-> IF q = p THEN file ELSE d[q]]

(* How a call on the disk ends: with what it returns, or with an exception.*)
Ok(d) == [disk |-> d, ok |-> TRUE]
Raised(d) == [disk |-> d, ok |-> FALSE]

-----------------------------------------------------------------------------
(* TileSet.from_file and Tile.from_dict: no content is loaded.             *)
FromFile(d, p) ==
    [kind |-> "tileset", root_uri |-> Front(p),
     tiles |-> [i \in DOMAIN d[p].tiles |-> [uri |-> d[p].tiles[i], content |-> NoContent]]]

(* Tile._load_tile_content: a loaded content is not read again.            *)
CanLoad(d, tile, root_uri) ==
    \/ tile.content # NoContent
    \/ tile.uri # NoUri /\ Resolve(root_uri, tile.uri) \in DOMAIN d
Content(d, tile, root_uri) ==
    LET uri == Resolve(root_uri, tile.uri)
    IN  IF tile.content # NoContent THEN tile.content
        ELSE IF IsJson(uri) THEN FromFile(d, uri)
        ELSE d[uri]

(* Tile.get_or_fetch_content on the tile at an address: the number of a    *)
(* tile, then those of the tiles in the tile sets that are its content.    *)
RECURSIVE Fetched(_, _, _)
Fetched(d, ts, at) ==
    LET tile == ts.tiles[Head(at)]
        content == Content(d, tile, ts.root_uri)
    IN  [ts EXCEPT !.tiles[Head(at)].content =
            IF Tail(at) = <<>> THEN content ELSE Fetched(d, tile.content, Tail(at))]

RECURSIVE IsTile(_, _)
IsTile(ts, at) ==
    /\ ts.kind = "tileset" /\ Head(at) \in DOMAIN ts.tiles
    /\ Tail(at) # <<>> => IsTile(ts.tiles[Head(at)].content, Tail(at))

RECURSIVE Holder(_, _)
Holder(ts, at) ==
    IF Tail(at) = <<>> THEN ts ELSE Holder(ts.tiles[Head(at)].content, Tail(at))

-----------------------------------------------------------------------------
(* TileSet.delete_on_disk and Tile.delete_on_disk.  The tile set of a tile *)
(* is loaded, and deleted without what it is told about its own tile sets. *)
BugSparesTileSet(delete_sub_tileset) == FALSE
SparesTileSet(delete_sub_tileset) == ~ delete_sub_tileset

RECURSIVE DeleteOnDisk(_, _, _, _)
DeleteOnDisk(d, ts, p, delete_sub_tileset) ==
    LET DeleteTile(r, tile) ==
            LET uri == Resolve(Front(p), tile.uri)
            IN  IF ~ r.ok \/ tile.uri = NoUri THEN r
                ELSE IF ~ IsJson(uri) THEN Ok(Without(r.disk, uri))
                ELSE IF SparesTileSet(delete_sub_tileset) THEN r
                ELSE IF ~ CanLoad(r.disk, tile, Front(p)) THEN Raised(r.disk)
                ELSE DeleteOnDisk(r.disk, Content(r.disk, tile, Front(p)), uri, FALSE)
    IN  IF p \notin DOMAIN d THEN Raised(d)
        ELSE FoldLeft(DeleteTile, Ok(Without(d, p)), ts.tiles)

(* The tile set in memory after that: delete_on_disk keeps in their tiles  *)
(* the tile sets it has loaded, up to the one it could not load.           *)
LoadedToDelete(d, ts, p, delete_sub_tileset) ==
    LET Reaches(i) ==
            DeleteOnDisk(d, [ts EXCEPT !.tiles = SubSeq(ts.tiles, 1, i)], p, TRUE).ok
        Loads(i) ==
            /\ delete_sub_tileset /\ Reaches(i) /\ ts.tiles[i].uri # NoUri
            /\ IsJson(Resolve(Front(p), ts.tiles[i].uri))
    IN  [ts EXCEPT !.tiles = [i \in DOMAIN ts.tiles |->
            IF Loads(i) THEN [ts.tiles[i] EXCEPT !.content = Content(d, ts.tiles[i], Front(p))]
            ELSE ts.tiles[i]]]

(* Only contents that are loaded are written.                              *)
BugTilesToWrite(ts) == Front(ts.tiles)
TilesToWrite(ts) == ts.tiles

(* TileSet.write_to_directory and Tile.write_content.                      *)
RECURSIVE WriteToDirectory(_, _, _, _)
WriteToDirectory(d, ts, p, overwrite) ==
    LET cleared == IF p \notin DOMAIN d THEN Ok(d)
                   ELSE IF ~ overwrite THEN Raised(d)
                   ELSE DeleteOnDisk(d, FromFile(d, p), p, TRUE)
        uris == [i \in DOMAIN ts.tiles |-> ts.tiles[i].uri]
        WriteContent(r, tile) ==
            LET uri == Resolve(Front(p), tile.uri)
            IN  IF ~ r.ok \/ tile.content = NoContent THEN r
                ELSE IF tile.content.kind = "binary"
                     THEN Ok(With(r.disk, uri, tile.content))
                ELSE WriteToDirectory(r.disk, tile.content, uri, FALSE)
    IN  IF ~ cleared.ok THEN cleared
        ELSE FoldLeft(WriteContent, Ok(With(cleared.disk, p, Json(uris))), TilesToWrite(ts))

-----------------------------------------------------------------------------
(* merge: a tile for each input, under a root without content.             *)
RelativeTo(p, folder) == Uri(SubSeq(p, Len(folder) + 1, Len(p)))
InputTiles(paths, output) ==
    [i \in DOMAIN paths |-> [uri |-> RelativeTo(paths[i], Front(output)), content |-> NoContent]]
MergedTileSet(tiles, output) ==
    [kind |-> "tileset", root_uri |-> Front(output), tiles |-> tiles]

SampleUri == Uri(<<"r.pnts">>)
UniversalRoot == [uri |-> NoUri, content |-> NoContent]
PntsRoot == [uri |-> SampleUri, content |-> Binary("sample")]

UniversalMerge(paths, output) ==
    MergedTileSet(InputTiles(paths, output) \o <<UniversalRoot>>, output)

(* merge_with_pnts_content: which inputs the quadtree keeps depends on     *)
(* their boxes, left out here and kept by module Merger; any are possible. *)
(* It is the tile of one input, or a tree over those kept whose inner      *)
(* tiles, a single one here, have a sample in r.pnts.                      *)
PntsMerges(paths, output) ==
    {MergedTileSet(InputTiles(<<p>>, output), output) : p \in ToSet(paths)} \cup
    {MergedTileSet(InputTiles(SelectSeq(paths, LAMBDA p : p \in kept), output)
                       \o <<PntsRoot>>, output) :
        kept \in IF Len(paths) = 1 THEN {} ELSE SUBSET ToSet(paths) \ {{}}}

(* merge_from_files: the old output is deleted before the inputs are read. *)
(* The ways it may end: it raises too when the quadtree keeps no input.    *)
BugDeletesInputs == TRUE
DeletesInputs == FALSE

MergeFromFiles(d, paths, output, overwrite, force) ==
    LET cleared == IF output \notin DOMAIN d THEN Ok(d)
                   ELSE IF ~ overwrite THEN Raised(d)
                   ELSE DeleteOnDisk(d, FromFile(d, output), output, DeletesInputs)
        on == cleared.disk
        RootTile(p) == Last(FromFile(on, p).tiles)
        Fetches(p) == CanLoad(on, RootTile(p), Front(p))
        IsPnts(p) == Fetches(p) /\ Content(on, RootTile(p), Front(p)).kind = "binary"
        only_pnts == ~ force /\ \A i \in DOMAIN paths : IsPnts(paths[i])
    IN  IF \/ ~ cleared.ok
           \/ \E i \in DOMAIN paths : paths[i] \notin DOMAIN on
           \/ /\ ~ force       \* any() stops at the first one that is not a Pnts
              /\ \E i \in DOMAIN paths :
                    ~ Fetches(paths[i]) /\ \A k \in 1..(i - 1) : IsPnts(paths[k])
           \/ \E i \in DOMAIN paths : ~ IsPrefix(Front(output), paths[i])
        THEN {Raised(on)}
        ELSE IF only_pnts
        THEN {Raised(on)} \cup {WriteToDirectory(on, ts, output, FALSE) :
                                   ts \in PntsMerges(paths, output)}
        ELSE {WriteToDirectory(on, UniversalMerge(paths, output), output, FALSE)}

-----------------------------------------------------------------------------
Nothing == [kind |-> "nothing"]

Init ==
    /\ disk \in Disks
    /\ mem = Nothing /\ path = <<>> /\ calls = 0
    /\ last = [op |-> "none", ok |-> TRUE]

Call == calls < MaxCalls /\ calls' = calls + 1

Load(p) ==
    /\ Call
    /\ p \in DOMAIN disk /\ IsJson(p)
    /\ mem' = FromFile(disk, p) /\ path' = p
    /\ last' = [op |-> "load", ok |-> TRUE]
    /\ UNCHANGED disk

(* Loading the contents is not counted: a program may load any of them.    *)
GetOrFetchContent(at) ==
    /\ mem # Nothing /\ IsTile(mem, at)
    /\ LET ts == Holder(mem, at)
       IN  /\ ts.tiles[Last(at)].content = NoContent
           /\ CanLoad(disk, ts.tiles[Last(at)], ts.root_uri)
    /\ mem' = Fetched(disk, mem, at)
    /\ last' = [op |-> "fetch", ok |-> TRUE]
    /\ UNCHANGED <<disk, path, calls>>

Write(p, overwrite) ==
    /\ Call /\ mem # Nothing
    /\ LET r == WriteToDirectory(disk, mem, p, overwrite)
       IN  disk' = r.disk /\ last' = [op |-> "write", ok |-> r.ok, path |-> p]
    /\ UNCHANGED <<mem, path>>

Delete(delete_sub_tileset) ==
    /\ Call /\ mem # Nothing
    /\ LET r == DeleteOnDisk(disk, mem, path, delete_sub_tileset)
       IN  /\ disk' = r.disk
           /\ last' = [op |-> "delete", ok |-> r.ok, sub |-> delete_sub_tileset]
    /\ mem' = LoadedToDelete(disk, mem, path, delete_sub_tileset)
    /\ UNCHANGED path

Merge(paths, output, overwrite, force) ==
    /\ Call
    /\ \E r \in MergeFromFiles(disk, paths, output, overwrite, force) :
          /\ disk' = r.disk
          /\ last' = [op |-> "merge", ok |-> r.ok, paths |-> paths,
                      output |-> output, force |-> force]
    /\ UNCHANGED <<mem, path>>

Next ==
    \/ \E p \in DOMAIN disk : Load(p)
    \/ \E at \in UNION {[1..k -> 1..3] : k \in 1..3} : GetOrFetchContent(at)
    \/ \E p \in Outputs, overwrite \in BOOLEAN : Write(p, overwrite)
    \/ \E delete_sub_tileset \in BOOLEAN : Delete(delete_sub_tileset)
    \/ \E paths \in Inputs, output \in Outputs, overwrite, force \in BOOLEAN :
          Merge(paths, output, overwrite, force)

Spec == Init /\ [][Next]_vars

-----------------------------------------------------------------------------
(* The files a tile set on disk needs: its own, those of its contents and  *)
(* of the tile sets among them, all the way down.                          *)
RECURSIVE Needed(_, _)
Needed(d, p) ==
    IF p \notin DOMAIN d THEN {}
    ELSE {p} \cup IF d[p].kind = "binary" THEN {}
                  ELSE UNION {Needed(d, Resolve(Front(p), d[p].tiles[i])) :
                                i \in {i \in DOMAIN d[p].tiles : d[p].tiles[i] # NoUri}}

(* The file of a tile set, on disk or in memory, and those of its contents *)
(* that are not tile sets; the tile sets among its contents; and the files *)
(* linked to it, all the way down.                                         *)
Uris(ts, p) == {Resolve(Front(p), ts.tiles[i].uri) :
                   i \in {i \in DOMAIN ts.tiles : ts.tiles[i].uri # NoUri}}
OwnFiles(ts, p) == {p} \cup {uri \in Uris(ts, p) : ~ IsJson(uri)}
SubTileSets(d, ts, p) ==
    {[ts |-> Content(d, ts.tiles[i], Front(p)), path |-> Resolve(Front(p), ts.tiles[i].uri)] :
        i \in {i \in DOMAIN ts.tiles :
                 /\ ts.tiles[i].uri # NoUri /\ IsJson(Resolve(Front(p), ts.tiles[i].uri))
                 /\ CanLoad(d, ts.tiles[i], Front(p))}}
WithSubTileSets(d, ts, p) ==
    OwnFiles(ts, p) \cup UNION {OwnFiles(s.ts, s.path) : s \in SubTileSets(d, ts, p)}
RECURSIVE Linked(_, _, _)
Linked(d, ts, p) ==
    OwnFiles(ts, p) \cup UNION {Linked(d, s.ts, s.path) : s \in SubTileSets(d, ts, p)}

(* The files of the contents that are loaded.                              *)
RECURSIVE Loaded(_, _)
Loaded(ts, p) ==
    {p} \cup UNION
        {LET uri == Resolve(Front(p), ts.tiles[i].uri)
         IN  IF ts.tiles[i].content.kind = "binary" THEN {uri}
             ELSE Loaded(ts.tiles[i].content, uri) :
           i \in {i \in DOMAIN ts.tiles : ts.tiles[i].content # NoContent}}

RECURSIVE WrittenAt(_, _, _)
WrittenAt(d, ts, p) ==
    /\ p \in DOMAIN d
    /\ d[p] = Json([i \in DOMAIN ts.tiles |-> ts.tiles[i].uri])
    /\ \A i \in DOMAIN ts.tiles :
          LET uri == Resolve(Front(p), ts.tiles[i].uri)
              content == ts.tiles[i].content
          IN  /\ content.kind = "binary" => uri \in DOMAIN d /\ d[uri] = content
              /\ content.kind = "tileset" => WrittenAt(d, content, uri)

(* write_to_directory, when it does not raise, has written the tile set as *)
(* it is in memory, and each content that is loaded, in the tile sets that *)
(* are contents too (its docstring: "all the tiles content").              *)
WrittenAsLoaded ==
    [][last'.op = "write" /\ last'.ok => WrittenAt(disk', mem, last'.path)]_vars

(* What a call takes from the disk.  delete_on_disk: the files of the tile *)
(* set; with delete_sub_tileset at least those of the tile sets it names   *)
(* too, and never a file that is not linked to it.  write_to_directory     *)
(* over an existing tile set: the same, but for the files whose content is *)
(* loaded in the tile set that is written.  So a tile set written over     *)
(* itself loses what was not loaded.                                       *)
LostFiles ==
    [][LET lost == DOMAIN disk \ DOMAIN disk'
           Between(least, most) == DOMAIN disk \cap least \subseteq lost /\ lost \subseteq most
       IN  /\ last'.op = "delete" /\ last'.ok =>
                IF last'.sub
                THEN Between(WithSubTileSets(disk, mem, path), Linked(disk, mem, path))
                ELSE Between(OwnFiles(mem, path), OwnFiles(mem, path))
           /\ last'.op = "write" /\ last'.ok =>
                LET p == last'.path
                    old == FromFile(disk, p)
                    again == Loaded(mem, p)
                IN  IF p \notin DOMAIN disk THEN lost = {}
                    ELSE Between(WithSubTileSets(disk, old, p) \ again,
                                 Linked(disk, old, p) \ again)]_vars

(* What the docstrings of delete_on_disk say of delete_sub_tileset: "If    *)
(* True, all tilesets present as tile content will be removed as well as   *)
(* their content".  The code takes the first level of tile sets only.      *)
SubTilesetsDeleted ==
    [][last'.op = "delete" /\ last'.ok /\ last'.sub =>
          DOMAIN disk' \cap Linked(disk, mem, path) = {}]_vars

(* merge_from_files, whether it raises or not, leaves the files its inputs *)
(* need as they are, all the way down, but for those the old output names  *)
(* itself and r.pnts beside the output.  The tile set it writes names no   *)
(* file but inputs and r.pnts, and reaches an input; every input, when the *)
(* universal merger is forced.                                             *)
MergeKeepsInputs ==
    [][last'.op = "merge" =>
         LET output == last'.output
             inputs == ToSet(last'.paths)
             old == IF output \in DOMAIN disk
                    THEN OwnFiles(FromFile(disk, output), output) ELSE {}
             sample == Resolve(Front(output), SampleUri)
         IN  /\ \A p \in inputs : \A q \in Needed(disk, p) \ (old \cup {sample}) :
                    q \in DOMAIN disk' /\ disk'[q] = disk[q]
             /\ last'.ok =>
                   /\ Uris(FromFile(disk', output), output) \subseteq inputs \cup {sample}
                   /\ inputs \cap Needed(disk', output) # {}
                   /\ last'.force => inputs \subseteq Needed(disk', output)]_vars
=============================================================================
