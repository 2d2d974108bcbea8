# A TLA+ model of py3dtiles

py3dtiles converts point clouds (LAS, XYZ, PLY) and geometries into 3D Tiles. What is hard in it
is the conversion of point clouds: one manager process and several workers that
exchange file portions, tasks, node contents and tiles, where the manager must decide alone when a
tile can no longer receive points. These modules model that conversion, from the readers to the
written tile set, with its channels, its failures and its storage; then what the library does with
tile sets: writing, deleting and merging them on disk, the export of geometries, and the layout of
the files. TLC checks them on small instances and TLAPS proves part of the results for all values
of the constants.

Paths below are under `src/py3dtiles/`.

## 1. The system

| part | state it keeps | operations | talks to |
|---|---|---|---|
| manager: `_Convert`, `_ZmqManager` (`convert.py`) | registered and idle clients, the process list | receive and handle all messages, dispatch commands while a worker is idle, validate, shut down, join | the workers (zmq ROUTER), the tiler |
| worker: `_WorkerDispatcher` (`convert.py`), `PointTilerWorker` (`tilers/point/point_tiler_worker.py`) | nothing between two commands | register, execute READ_FILE, PROCESS_JOBS, WRITE_PNTS, report IDLE, ERROR, HALTED | the manager (zmq DEALER), the readers, NodeProcess, the writer |
| tiler in the manager: `PointTiler`, `PointState` (`tilers/point/`) | portions left, queued tasks, nodes at workers, waiting and to be written, the counters | `get_tasks`, the three `send_*`, `process_message` | the manager, the store |
| shared node store (`node/shared_node_store.py`) | blobs in a list, a dictionary of positions, files | `get`, `put`, `remove`, `control_memory_usage` | the tiler |
| node processing: `NodeProcess`, `Node`, `NodeCatalog`, `Grid` (`tilers/point/node/`) | during a job, a subtree of nodes with leaf points, grids, pending points, dirty flags | `insert`, `_split`, `_flush`, `_balance`, `dump`, load | the worker |
| readers (`reader/`) | a position in a file | `get_metadata` (portions), `run` (chunks) | the manager, the workers |
| tile writer (`pnts/pnts_writer.py`) | files | `run`: one file per node, refused if it exists | the worker |
| tile tree: `PointTiler.write_tileset`, `Node.to_tileset` | JSON trees, files it merges | prune small tiles, split tile sets | after validation |
| tile set model: `TileSet`, `Tile` (`tileset/`) | trees of tiles, contents loaded on demand; files | `from_file`, `get_or_fetch_content`, `write_to_directory`, `delete_on_disk` | the merger, users |
| merger (`merger.py`) | boxes and centres of the inputs, a quadtree of tiles | `merge`, `merge_with_pnts_content`, `merge_from_files` | the tile set model |
| export (`export.py`) | a tree of nodes of features, a class-level counter | `arrays2tileset`: cut in squares, divide, write | the tile set model |
| contents (`tileset/content/`) | headers, feature and batch tables, arrays | `sync`, `to_array`, `from_array`, `add_property_as_binary` | everyone |
| WKB triangulation, command line, info | | sequential | |

What is hard:

* *Interleaving and ordering.* A worker sends the NEW_TASKs of a node before its PROCESSED; the
  messages of different workers arrive in any order. A child can be processed, and even ready to
  be written, while the manager still takes its parent for being processed.
* *Atomicity and staleness.* A job carries a copy of the stored content; more tasks for the same
  node arrive meanwhile. In a job, only nodes marked dirty are saved again.
* *Ending.* The loop has no count of what remains: it ends when all workers are idle and
  `get_tasks` gave nothing. A wrong idea of who is idle ends it early or never.
* *Failure.* Any command may raise, before all workers have registered too.
* *Files rewritten in place.* The tile tree deletes and rewrites files in a pool of processes that
  share a folder; a tile set may be written over the files its own contents have not been loaded
  from yet; the output of a merge is deleted before the inputs are read.
* *Half-open intervals.* The quadtree of the merger and the squares of the export drop what is on
  their upper border.
* *Limits.* Points in progress, points per batch, memory of the store, cells of a grid, points
  pending in a job, sizes of portions that must divide each other.

What makes each part correct:

* manager and tiler: every point is written in exactly one tile, whose octant holds it; nothing is
  written while points may still come to it; the counters are exact; the run ends; errors are reported;
* store: it is a map, wherever a content is kept;
* node processing: a job keeps or forwards each of its points, and what it saves is what it had;
* readers: the chunks are a partition of the file;
* names: `can_pnts_be_written` is right about what may still be created, and files do not collide;
* tile tree: merging small tiles loses no point, the tile set names exactly the files that exist and shows
  each point once, and boxes enclose what is below them;
* tile set model: what is written is what is loaded, and a deletion takes what it is asked to take (but finding 3);
* merger, export: every input, every geometry is in the result exactly once, where it was (findings 4 and 5);
* contents: what is read back is what was written.

`PROJECT.json` lists the hazards one by one, at their lines, with the properties that cover them.

## 2. Modules

```
NodeNames ---- JobOutputs ---- PointTiler ---- Convert ---- ConvertProperties ---- MCConvert, ConvertProofs
   |               |                                              | (refines) Tiling       |
   |               +---------- NodeProcess ---- MCNodeProcess                  ConvertSafetyProofs
   |                                   +------- NodeProcessProofs (with PointsGrid)
   +---- TileTree ---- MCTileTree, TileTreeProofs
NodeMap (refined by) SharedNodeStore -- MCSharedNodeStore, SharedNodeStoreProofs
Readers -- MCReaders, ReadersProofs         Merger -- MCMerger, MergerProofs
TileSets -- MCTileSets                      Export -- MCExport, ExportProofs (with TileLayout)
```

| module | what it models |
|---|---|
| `NodeNames` | names as sequences of octants, `is_ancestor`, `can_pnts_be_written`, the depth of a job, `node_name_to_path` |
| `JobOutputs` | what a worker may answer to the job of a node, seen from outside |
| `PointTiler` | the variables of `PointState`, each command `PointTiler` sends, each message it handles |
| `Convert` | the processes and channels: the manager's loop, the worker's, failure, shutdown, join |
| `ConvertProperties` | what is required of `Convert`, and its refinement of `Tiling` |
| `Tiling` | the promise: tiles published once, points in one tile, success only if none is missing |
| `NodeProcess` | the inside of the jobs of one node, one job after the other |
| `SharedNodeStore` | the store with its list, its holes, its files and its account of memory |
| `NodeMap` | the promise of the store: a map from names to contents |
| `Readers` | portions and chunks of the three readers |
| `TileTree` | `write_tileset` and `to_tileset`: the calls, the merges file by file, the tile set files |
| `TileSets` | tile sets in memory and on disk: lazy loading, write, overwrite, delete, `merge_from_files` |
| `Merger` | `merge_with_pnts_content`: the quadtree, its boxes and its transforms |
| `Export` | `arrays2tileset`: squares, `divide`, boxes, the files |
| `TileLayout` | the places of the sections of a .pnts or .b3dm file, and of the arrays in its tables |
| `PointsGrid` | the cell of a point in a grid, insertion, balancing, and the child and its box for a pending point |

The modules are layered by assumptions that one of them makes and another discharges:

* `PointTiler` takes the portions and chunks to be a partition of the points without empty chunks
  (`PortionAssumption`): `Readers!EachRowOnce` and `ChunkInPortion`, proved in `ReadersProofs`.
* `PointTiler` keeps node contents in a map `node_store`: `SharedNodeStore` implements `NodeMap`
  (`StoreImplementsMap`, proved). Where the store keeps them, and when `memory_control` runs, is
  then invisible.
* `PointTiler` lets a job answer anything in `ProcessOutputs`: `NodeProcess!OutputAllowed`, proved for any
  jobs, says that jobs answer nothing else. `NodeProcess` in turn assumes of its jobs (`JobsAssumption`)
  that they have tasks, with points of the octant of the node, and that no point is given twice: it is what
  `DataInv` and `PointInv` of `ConvertSafetyProofs` establish of the commands the manager sends.
* `PointTiler` writes what `Tiling` calls a tile per job: `tiles[n]` stands for all the files of
  the subtree that a job of `n` holds. These subtrees do not overlap: names of length 1, 2, 3-4,
  5-7, 8-12 and so on, a job forwarding to `ForwardLength(Len(n))`. `NodePathInjective` (proved)
  says that two names never share a file.
* `TileTree` starts with what `Tiling` calls a success, seen by files: each point in one file, and
  no file without that of its parent but for the root (`TreeAssumption`), since a node that points go through keeps at
  least one of them.
* `Merger` computes the tree of tiles, `TileSets!MergeFromFiles` the files of the same merge, which may keep any
  of the inputs in its branch for points, or raise.

### State and actions

In `PointTiler`, `point_cloud_file_parts` is the number of portions left (the list is popped from
its end); `node_to_process`, `node_store` and `tiles` are total functions in which `{}` stands for
an absent key; the queue of the nodes to be written and the tasks of a node are sets, whose order
the code does not rely on and in which nothing can occur twice (`NodeAccounting`, `PointsKept`).
`points_in_progress` and the other counters are the code's.

In `Convert`, `phase` is the place in `convert()`; `inbox[w]` and `outbox[w]` are FIFO channels
without a limit; `worker[w]` is the life of the process. `Receive*` actions are the branches of
`process_message`, `Dispatch*` the branches of `get_tasks`, `EndReceive`/`EndDispatch` the
conditions of the two loops, `Fail` an exception at any point of a command after any prefix of
its messages and of the files it writes, `Halt` the answer to the shutdown message. The messages of one node, or one command,
enter the channel in one step; the manager still takes them one by one and between those of
other workers, and the worker reads nothing in between, so no interleaving that the manager could
tell apart is lost. A turn of the loop that receives nothing is a stutter.

In `NodeProcess`, a node is a record (`split` stands for `children is not None`); `StartJob` is
`NodeCatalog.__init__`, `InsertTask` one turn of the loop of `run`, `Flush` one call of `_flush`,
`Balance` the final `_balance`, `SendProcessed` the `dump` and the PROCESSED message. Coordinates
are abstracted: a grid keeps any part of what it is given, at least one point when empty. When a
cell is too full is left open as well once the grid has more than `BalanceCount` points.

In `Readers`, a point is its row. `Yield` records which rows a chunk has, and from which rows its
classifications are.

In `TileTree`, `files` is the folder of .pnts files, each the set of its points. `phase` is where a
call of `to_tileset` stands: `UnlinkParent`, `WriteMerged` and `UnlinkChild` are the three calls that
change the folder in a merge, so that other processes of the pool act between them; `held` is
what the merging process has in memory alone. `Submit` is `pool_executor.map`, `CallChild` the loop
of a process below the root. `docs` are the JSON files; `Return` leaves open whether the JSON of a tile
is large enough to be split. The root's file is a sample of its children's points, shown until they
are: the properties count the points of the other files.

In `TileSets`, an action is one call of the library by a program, whole: a call that raises leaves
what it has done so far on `disk` (`Raised`). A tile set in memory carries the directory it was
read from and the contents that have been loaded; `GetOrFetchContent` loads any of them.

`Merger` starts in a list of inputs (`Inputs`). The recursion of `build_tileset_quadtree` is the list `todo` of the
calls still to make, first the deepest: `BuildTilesetQuadtree` makes one, which appends its tile to `tiles`, puts
itself among its parent's children and leaves a call for each quarter. A cell of the quadtree is a place in the grid
of so many parts, on twice the coordinates, so that half-open intervals are exact. `MergeWithPntsContent` is what follows
the recursion: the boxes, which `add_child` makes from those of the children (`boxes`, a recursive function), and the base
transform; `WriteContent` writes the file of one inner tile. In `Export` the stack of squares `todo` is the
recursion of `divide`, and `counter` is `Node.counter`. A square is the number of parts that the sides of the first
squares are cut in (1, 2, 4...) and its place among them, and a list of features, which the code never reorders,
is the set of their indices.

`TileLayout` has no state: an array of bytes is the place where it is in the file, `Slice` is numpy's,
and an operator is a function of the lengths that the code computes.

`PointsGrid` has no state either: a grid and a box are records, and `Insert` and `BalanceGrid` give the grid
after the call. `NodeProcess` uses none of it, since it leaves open which points a grid keeps; `PointsGrid`
adds where they go. Coordinates are integers from the corner of the box, so the quotient that chooses a
cell is exact, where the code rounds it in float32; `SplitAabb` is in twice the coordinates.

In all modules, definitions whose name starts with `Bug` belong to no
specification; they are slips one could make in the definition after them, which show that each
property can fail.

## 3. Model checking

| run | instance | checks |
|---|---|---|
| `node_store` | 3 names, 2 contents of sizes 1 and 3, at most 5 positions, a limit two entries reach, symmetry on names | `TypeOK`, `SlotsOwned` (an entry owns its position), `NoFault` (TilerException is impossible), `ContentCovered` (the account never says less than the truth), `StoreIsMap` (refines `NodeMap`) |
| `conversion` | 3 workers, 3 points in 2 portions, one of 2 chunks, two of the points together down to level 5; any command may raise | `TypeOK`, `IdleExact`, `NodeAccounting`, `NoLateTask`, `PointsKept`, `ProgressAccounting`, `NothingStranded`, `ShutdownReachesAll`, `RaisesOnlyForErrors`, `ConvertTiles` (refines `Tiling`), `Terminates`, `ErrorsReported` |
| `race` | 2 workers, 3 points, 1 portion, no command raises | `CountsMatch` is violated: finding 1 |
| `readers` | files of 0 to 28 rows, portions of 12, steps of 4, batches of 2 | `TypeOK`, `EachRowOnce`, `ChunkInPortion`, `MetadataAccepted` |
| `ply_chunks` | the same | `ClassificationAligned` is violated: finding 2 |
| `node_process` | 3 jobs of one node among the root, `<<0>>` and `<<0, 0, 0>>`, 5 points, 2 points split a leaf | `TypeOK`, `OutputAllowed`, `SavedIsCurrent`, `NodesWritable` |
| `tile_tree` | all ways to leave 6 points in the files of 7 nodes on three levels, under two children of the root; 2 points are not small | `TypeOK`, `PointsInOneFile` (at every step of the merges), `EveryPointShown` (the tile set names the files that exist, and each point is shown once), `BoxesCover` |
| `tilesets` | a tile set on three levels and two others, 4 calls, any contents loaded | `WrittenAsLoaded`, `LostFiles` (the files a call must take away, and those it may), `MergeKeepsInputs` |
| `delete_sub` | the same, 2 calls | `SubTilesetsDeleted` is violated: finding 3 |
| `merger` | 1 to 3 inputs among 8 boxes, moved or not | `OneLeafEach` (each input the root takes goes to one leaf), `ShownInPlace` |
| `merge_all` | the same | `EveryInputShown` is violated: finding 4 |
| `export_all` | none to 4 geometries among 8 boxes, a first and a later export | `AllGeometriesExported` is violated: finding 5 |

Each property is stated in words in its module, above its definition.

**Bounds.** `MaxSlots` and `MaxContent` bound the list and the account of the store, which grow
without limit in the code; five positions allow two entries, two holes and one put more. In `conversion`,
three workers are the fewest with one reading, one processing and one late; the three points
are chosen so that a tile keeps one point and forwards the other, is processed again and forwards
stored points, and so that a level is skipped from 3 to 5 digits, while another tile is complete. Both
portions can be read at once (`MaxReadingJobs = 2`), `MaxPointInProgress = 2`
makes the reading limit bite, `TargetCount = 2` cuts batches. In `readers`, 28 rows are two whole
portions and a partial one, which end in the middle of a step and of a batch. `node_process` has
a level within a job (`<<0, 0, 0>>` with its children), a threshold of 1 that holds points back
until the last task, and grids that can reach the limit of cells. `Deepest = 5` plays the 1 mm
spacing under which a node is not split. In `tile_tree`, `PruneBelow = 2` plays the 100 points under
which a tile is merged, and three levels let a merged tile receive its children's points first, grow
past the bound or be merged in turn, while the other subtree does the same. In `tilesets`,
`MaxCalls = 4` is a load, a write, an overwrite and a delete or a merge; loading contents is not
counted. In `merger`, `Unit = 2` on doubled coordinates is the diagonal of 1 under which a cell is not
divided, and the boxes are chosen on borders, in one cell and apart. In `export_all`, `FeaturesPerTile = 1`
and `MaxTileSize = 4` divide a square several times; among the eight boxes some
are in one quarter of a square, some in different squares, and some at the end of the extent.

**Deadlock.** Checked where the code must go on: `Convert` ends in `Finished`, an explicit
stuttering step of the ended program; any other stop would be an error. So does `TileTree`: its calls wait for one another.
`readers`, `ply_chunks`, `node_process`, `merger`, `merge_all` and `export_all` end when the file, the jobs or the result
do, `tilesets` and `delete_sub` after the last call, and they turn the check off.

**Fairness.** `FairSpec` is weak fairness of the manager's step and of each worker's step: they are
operating system processes, and a blocked `recv` returns when there is a message. No fairness is
assumed between the branches of a step. `Fail` is in the step of a worker and may be taken or not.

## 4. Findings

1. **A conversion with two workers or more can end with tiles unwritten** (`race`). When PROCESSED
   of a child arrives before PROCESSED of the root, `can_pnts_be_written` refuses the child, as it must.
   `dispatch_processed_nodes` would look at it again, but it returns at once for the root
   (`point_tiler.py:418`), and is not called when a READ arrives (386-388). If such a
   message is the last one, all workers are idle, `get_tasks` has nothing and `convert()` takes it for
   the end; validation then raises "Invalid point count in the written .pnts". `ConvertOneWorker`, proved,
   says that it cannot happen with one worker. No property of `conversion` is affected: no point is lost in memory, and
   success is never reported for a wrong result.
2. **A PLY file of more than one chunk gets wrong classifications and intensities** (`ply_chunks`).
   `ply_reader.run` slices coordinates and colors by chunk but takes the other two for the whole
   file (126-128, 139-141).
3. **Deleting a tile set with its sub tile sets stops one level down** (`delete_sub`). `Tile.delete_on_disk` calls that of
   the tile set it refers to without `delete_sub_tileset` (`tile.py:131`), against the docstrings: "If True, all tilesets
   present as tile content will be removed as well as their content" (`tile.py:115`, `tileset.py:103`). A
   tile set on three levels is never deleted whole, and `write_to_directory` with `overwrite`, which
   deletes that way, meets its files (FileExistsError).
4. **A merge of point tile sets may leave inputs out** (`merge_all`), though the help asks for "All tileset paths to
   merge" (`merger.py:318`): of several inputs whose centres share a smallest cell the first is kept (104-106), and those
   with their centre on the upper border of the whole box are dropped (80). The merge ends well unless all are dropped;
   then it raises (259-260), when the old output is deleted already. `MergerInputsLost`, proved, says exactly which are lost.
5. **An export leaves out geometries at the end of the extent** (`export_all`), though the documentation says that the exports
   "transform all the geometries provided" (`docs/cli.rst:62-63` of the repository): a square does not include its upper
   end (`export.py:33`), and the last square ends where the extent does when it is a whole number of squares.
   `ExportFeaturesLost`, proved, says that no other geometry is lost.

Also shown by the models, in the form of a property or a theorem that says exactly what the code
does. They are not stated as violations: no text of the repository states the contrary in terms one property could quote.

* Tile tree: a small tile is merged into its parent even if it has children, against the comment at
  `node.py:386` ("prune only if the node is a leaf"); `EveryPointShown` holds all the same. A split
  tile keeps the box it had before `write_as_json` extended the copy's (`node.py:524`), so
  `BoxesCover` holds inside each tile set file but not across two.
* Tile sets (`LostFiles`): overwriting a tile set that was read
  from the same file deletes the contents that are not loaded (`tileset.py:132`). `write_as_json` opens the
  file before `to_json` may raise (143).
* Merger (`ShownInPlace`, `MergeKeepsInputs`): a
  single remaining input gets the transform of the first on top of its own (`merger.py:262`); all inner
  tiles name `r.pnts` (219), each sample over the one before; the old output is deleted before the
  inputs are read (276); the root_uri given for an input is the path of its JSON file (160).
* Export (`ExportBoxesCover`): boxes are flat in y, both ends being that of the lower z (`export.py:136`).
* Contents: a feature table never writes its normals (`pnts_feature_table.py:177`) and `from_features` refuses them (458), so no
  file of this library has any; in one of another tool they are read at the offset of the colors (340:
  `NormalsReadAtColors`). `LatePropertyRefused`
  (`batch_table.py:83`), `B3dmGltfAligned` (the comment at `b3dm.py:229` asks for 8 bytes),
  `B3dmBatchTableText` (`b3dm.py:53`). Read beside them: the scale is assigned to
  `quantized_volume_offset` (`pnts_feature_table.py:264`).
* Conversion: `jobs=0` waits for ever; a killed worker (no exception) is never noticed.
* Readers: an XYZ file with a header alone raises ZeroDivisionError at `xyz_reader.py:60` before the
  message prepared at line 73, and an empty LAS file at `las_reader.py:21`.
* Store: it counts twice the size of a content that is overwritten in memory (on the safe side:
  `ContentCovered`).

## 5. Proofs

Checked by TLAPS, for every value of the constants:

* `ConvertProofs`, first part, about `NodeNames` (no assumption): `AncestorOrder`, `AncestorsComparable`,
  `WrittenIsOutOfReach` (if `can_pnts_be_written` accepts a node, no name that is queued or at a worker is
  an ancestor of it or it itself, and none can create one), `NodePathInjective` (cutting a name in directories
  of eight digits and a file is injective: names of equal path have equal lengths, then equal digits).
* `ConvertProofs`, the rest (from `PathAssumption`, `PortionAssumption`, `WorkerAssumption`, with no use of
  the limits): `ConvertTypeCorrect`, `ConvertIdleExact`, `ConvertShutdownReachesAll`. `TypeOK` only bounds what is in a channel;
  `TypeInv` adds that channels are sequences and that nothing else is in a command or message, which the
  `Head`s and `Tail`s need. `IdleExact` says nothing of the order of the messages, so it is not inductive: a
  worker whose IDLE is followed by another message would break it. `IdleInv` says in which of five
  states every worker is while the loop runs: starting, registering, waiting, busy (its
  one command, and messages that do not end it) or ending (its IDLE or ERROR comes last, after those
  messages). Each step moves one worker along these states; `ExecuteEffect` sums up
  what a worker may do, `Fail` included: it ends its command with such a last message or goes on with the rest of it.
  `ShutdownReachesAll` needs `ReachInv` besides: before all have registered no command has been sent, so the
  loop can only end once every worker is known to the manager and is sent the shutdown; after that
  only the worker itself takes from its inbox, and what it takes last is the shutdown.
* `ConvertSafetyProofs` (from the same assumptions; `WorkerAssumption` and `PathAssumption` say that workers and points
  are finitely many): `ConvertNoLateTask`, `ConvertNodeAccounting`, `ConvertRaisesForError`, `ConvertFaultless`,
  `ConvertPointsKept`, `ConvertProgressAccounting`, `ConvertNothingStranded`, `ConvertOneWorker`, `ConvertImplementsTiling`. A step is
  seen through its effect on the channels of one worker (`StepEffect`: a message is received and handled, a command is
  given, the worker starts or executes), and each invariant is kept by each effect. They are proved
  in this order, each from the ones before:
  - `DataInv`: names and octants of what is in the channels, the queues and the store.
  - `CountInv`: what a worker's channel can look like (`Grammar`: the READ message comes after all the tasks of its portion), so
    that the reading jobs count every worker that still owes tasks.
  - `NodeInv`: which nodes are at which worker; a task in a channel is followed by the PROCESSED of its parent, so that
    the parent is still in `processing_nodes` (this is the order of messages on which the code relies).
  - `StageInv`: a node queued for writing, at a writer or written (`Closed`) is not an ancestor of, nor equal to, any node with tasks,
    in a task under way or in processing, and reading is over. `WrittenIsOutOfReach` opens it; with `NodeInv` a task that arrives later
    is below a node in processing, so it keeps it. `NoLateTask` and `NodeAccounting` follow.
  - `PointInv`: no two places (portions, tasks, stored contents, workers, tiles) hold a point in common, and while no error has been
    sent each point is at one. `ProgInv`: the counters of points against the sizes of these places, which are cardinalities of
    sets of pairs, so that no sum is needed.
  - `EndInv` and `WriteInv`: what still holds after the loop, when the manager joins the workers and a writer may still
    write. With them every step, `Fail` included, is one of `Tiling` or a stutter.
  - `OneInv`, for `ConvertOneWorker`: `CountsMatch` is false in general (finding 1), and with one worker it holds for any points,
    limits and failures. With one channel, PROCESSED of the root, or READ, is received after tasks that keep the conversion going,
    so that the last answer handled is that of a node below the root, when nothing is left; it frees every waiting
    node. With two workers the other one may have taken these tasks, and answered for them, before: that is the finding.

  What an error breaks, and only that, is conditional: `NodeAccounting`, `PointsKept` and `ProgressAccounting`
  speak of the states in which no worker has sent an ERROR that is not received (`NoError`), since
  the failed command's points are gone; `ConvertFaultless` says that when commands do not raise (`FaultyCommands = {}`) these are
  all the states of the loop. `RaisesOnlyForErrors` relates the two: what ends the loop with an exception is such an ERROR. `NoLateTask`,
  `NothingStranded`, `ConvertOneWorker` and the refinement need no such condition.
* `NodeProcessProofs` (from `JobsAssumption`, for any thresholds, depths and contents): `NodeProcessTypeOK`, `NodeProcessSavedIsCurrent`,
  `NodeProcessNodesWritable`, `NodeProcessOutputAllowed`. `NodesInv` describes the subtree of a job: where a node stands between two
  calls (`StageInv`), what a split node and its children have (`TreeInv`), what the saved bytes
  lack of a node that is not dirty (nothing: `BytesInv`) and which points may be pending (`PendingInv`); `SavedIsCurrent` and
  `NodesWritable` are its cases at the end of a job. For `OutputAllowed`, which accounts for all the points of a job at once,
  `OutInv` follows them on their way: the contents of two nodes share no point, the nodes still to be flushed are apart
  (`FrontInv`), no point given before comes back (`BeforeInv`), and what has come in is what is held or sent
  (`FlowInv`).
* `NodeProcessProofs`, last part, about `PointsGrid` (no assumption; rows anywhere, boxes of any size, the 3 to 8 cells a grid may have): `KeyExists`,
  `KeysTellCells`, `InsertKeepsCells`, `BalanceKeepsRows`, `ChildHoldsPoint`. A key is a number in base 4 or 8
  whose digits are the cells of its axes, and the list, sized by other bit lengths, is long enough for the largest; a grid
  is `Sound` when each row is in the cell of its key, which an insertion keeps and a balance restores. The node
  judges its box flat by sizes of at least `MIN_POINT_SIZE`, `split_aabb` by half sizes without that bound: a box flat for
  the first is flat for the second, and in the other cases the box of the child has the whole height.
* `SharedNodeStoreProofs` (from `SizesAssumption`): `StoreTypeCorrect`, `StoreSlotsOwned`,
  `StoreNeverFaults`, `StoreImplementsMap`, `StoreContentCovered`. The inductive invariant is `TypeOK /\ SlotsOwned /\ NoFault`. `SlotsOwned`
  is what makes it inductive: `Remove` makes a hole at a position, and only if no other entry has
  that position does no entry point at a hole afterwards. The refinement then goes call by call:
  `Get`, `Put`, `Remove` are those of the map, and `ControlMemoryUsage` a stutter. `ContentCovered` compares the
  account with a sum over a dictionary: the lemmas about such sums are proved by taking a smallest set for which one fails
  (`SmallestSubset`, from the well-foundedness of strict inclusion among the subsets of a finite set).
* `ReadersProofs` (from `ReaderAssumption`): `ReadersTypeCorrect`, `ReadersPartition`,
  `ReadersChunks`, `ReadersAccept`. `EachRowOnce` is far from inductive. The invariant `IInv` says
  exactly which rows have been yielded: those of the portions after the current one, and those
  of the current one below `index` steps; and for XYZ that the values noted by the scan are the
  starts of the portions so far. `ReaderAssumption` is used once in each: batches divide portions, so a
  portion starts where a batch does; the step of a whole portion divides it, so that reading whole
  steps never runs over. With the code's 1 000 000, 100 000 and 10 000 both hold.
* `TileTreeProofs` (from `TreeAssumption`, whatever the tree, of finitely many nodes, and `PruneBelow`): `TileTreeTypeCorrect`,
  `MergesLoseNothing`, `TileTreeEveryPointShown`, `TileTreeBoxesCover`. `PointsInOneFile` alone is not inductive: nothing in it prevents `UnlinkParent` from deleting
  a file another merge is about to count on. `MergesApart` says that merges do not meet: below the
  root a node runs one child at a time, so two merges have different parents and neither is the other's
  parent; while a merge holds points, the parent's file is empty, its own file is among the held points,
  and no other file or call has a held point; once written, the parent's file includes the child's.
  The structure that gives this (`TypeOK`: a call runs while that on its parent is in its loop, one
  at a time below the root) is proved first, and the root, whose children do run together, is left out since
  its children are never merged into it (`depth > 1`).
  `EveryPointShown` and `BoxesCover` speak of the end only; what leads there is `FilesFound` (a node with a file that waits has a
  parent whose loop has not ended, so no file is left without a call) and `TilesInv`: the tile of a node that has
  returned has exactly the kept children, names its file if it has one and encloses its points (`TileInv`), and
  each tile set file is a tree of such tiles whose boxes grow upwards (`DocInv`, `Placed`). The three recursive
  functions of the model, the tiles below a tile, the boxes of a file and the files a viewer reaches, are all instances of
  `Collects`; `CollectIsReach` gives what they compute without recursion (`Reach`, the least closed set), by taking a deepest node for
  which it fails. At the end, a highest node that is in no reached file, or in two, has a parent that is one as
  well: so each kept tile is in one file that is reached.
* `ExportProofs` (`ExportAssumption` is a hypothesis of each theorem, since no passing run evaluates it; any geometries, sizes of
  squares, features per tile and first number of the counter): `ExportFeaturesLost`, `ExportBoxesCover`. Both speak of the end only. `InOnePlace` is what holds on the way: a geometry that is not at the end of
  the extent is in one node or falls in one waiting square, never both, and one at the end is nowhere. It
  rests on half-open intervals: the centre of a box is in one square of a row of squares or beyond the last (`OneSlot`,
  `FirstSlots`), and if it is in a square, in one of its two halves along each axis (`Halves`), so `divide` hands each remaining
  feature to one of the four squares. `NodesAreTree` says that each node but the first has one parent, of lower
  id, and `FilesOfNodes` that tiles and files are those of the nodes. At the end nothing waits; by `AllBelow` every node is reached from the
  root, the least node that is not having a parent that is, hence the count of `FeaturesLost`.
  For `BoxesCover`, `BoxIsHull` gives what the recursive `ComputeBbox` computes, the hull of the features of
  all nodes below: `HullOfHulls` says it of a node from its children, and a node with the greatest id for which it
  fails cannot exist.
* `ExportProofs`, last part, about `TileLayout` (no assumption; any lengths, any number of points and of properties):
  `PntsAligned`, `PntsReadBack`, `FeaturesReadBack` (the header goes through `from_semantic`, `to_json` and `from_array`),
  `NormalsReadAtColors`, `PointsAreCut`,
  `BatchTableReadBack`, `LatePropertyRefused`, `B3dmGltfReadBack`, `B3dmGltfAligned`,
  `B3dmBatchTableText`. The argument is arithmetic on the ends of slices: sums of lengths padded to 8
  stay multiples of 8, and a slice that ends inside its array is the place it was cut from. A batch
  table is described by `Contiguous`, which holds of the empty one and which `AddPropertyAsBinary` keeps.
* `MergerProofs` (from `MergerAssumption`: any number of tile sets, boxes and translations anywhere, any unit):
  `MergerOneLeafEach`, `MergerInputsLost`, `MergerShownInPlace`. They speak of the end; `MergerInv` is what holds on the way. `TilesAreTree`: each tile but the
  first is the child of a tile of lower number, each call has an inner tile as parent, and an inner tile has a child or will get one.
  `InOnePlace`: while there are calls, an input off the upper borders is a candidate inside the cell of one call or an input
  of one leaf, never both, and one on a border is in neither. It rests on `OneCell` (an input is in one cell of a grid)
  and `QuartersFacts` (who is in a cell is in exactly one quarter of it), the second time that half-open intervals carry an
  argument. A leaf keeps the first of its inputs, so what matters is who shares a leaf: `TogetherInPlace` says that two inputs
  that wait in one call are `Together` exactly if they stay so from its cell down, that two in one leaf are, and that two in different places are not.
  `Together` and the boxes of the tiles are recursive functions; that a function with their equations exists is proved for each
  (`TogetherExists`, from the sets of grids that go on to a finer one until the cells are small; `TileBoxesExist`, from the last tile back to the first). For `ShownInPlace`, a transform is undone once on
  every leaf and applied once at the root (`OffsetIs`, along the parents), and a tile with the greatest number whose box, at
  its place, does not enclose an input kept below cannot exist. With a single input kept the root is a leaf, and `ShownInPlace`
  says what the code does then.

Only model-checked:

* `Terminates` and `ErrorsReported`: liveness, which is beyond the prover.
* The properties of `TileSets`: the module reads trees of tile sets with RECURSIVE operators, on which the prover
  cannot work, and whose calls follow uris from one file to the next.

Only proved: the theorems of `TileLayout` and `PointsGrid`, modules that have no behaviour and whose operators are
covered for all values; `InputsLost` of `Merger`, `FeaturesLost` and `BoxesCover` of `Export`, which say exactly what findings 4 and 5
leave, and `CountsMatch` with one worker, which `race` refutes with two.

## 6. Not modelled, and the plan

Left out for good: floating-point geometry (rotations of bounding volumes, coordinate systems, distances
in a grid cell, the rounding of a coordinate to a cell), values in arrays, the quantization of positions, the inside of a glTF, triangulation of WKB, argument
parsing, logs and time stamps; reading geometries from a database or a directory; the extensions of a
tile set, which are data carried along. The loss of a process without an exception has no handling to
model, nor has a crash between two steps of a merge: nothing is resumed after a restart.

Left for later, in this order:

1. `Channels`: bounded channels (zmq's high-water mark) during shutdown.
2. An abstract specification of the tile set model: files owned by one tile set each, against which `TileSets`
   would show where ownership is broken.
