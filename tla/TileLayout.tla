----------------------------- MODULE TileLayout -----------------------------
(***************************************************************************)
(* src/py3dtiles/tileset/content: where the parts of a .pnts or .b3dm file *)
(* are written, and where they are read back.  A file is a header of 28    *)
(* bytes, a feature table and a batch table, each a JSON text and a body   *)
(* of arrays, then a glTF in a .b3dm.                                      *)
(*                                                                         *)
(* An array of bytes is the place it takes in the file, [at, size]: two    *)
(* arrays with the same place hold the same bytes.  Abstracted: the texts  *)
(* (their lengths are free), the values, the quantization of positions,    *)
(* the extensions and the names of the properties of a batch table, which  *)
(* are distinct.                                                           *)
(***************************************************************************)
EXTENDS Integers, Sequences

HeaderLength == 28

(* A slice stops at the end of what it is taken from.                      *)
AtMost(n, most) == IF n < most THEN n ELSE most
Slice(array, from, to) ==
    LET start == AtMost(from, array.size)
        end == AtMost(to, array.size)
    IN  [at |-> array.at + start, size |-> IF start < end THEN end - start ELSE 0]
Array(at, size) == [at |-> at, size |-> size]
After(array, size) == Array(array.at + array.size, size)

Padded(n) == n + ((8 - (n % 8)) % 8)

-----------------------------------------------------------------------------
(* The feature table of a .pnts: [points, position, color, normal].        *)
Positions == {"POSITION", "POSITION_QUANTIZED"}
Colors == {"NONE", "RGB", "RGBA", "RGB565"}
Normals == {"NONE", "NORMAL", "NORMAL_OCT16P"}
Features == [points : Nat, position : Positions, color : Colors, normal : Normals]

ItemSize(semantic) ==
    CASE semantic = "NONE" -> 0
      [] semantic = "POSITION" -> 12
      [] semantic = "POSITION_QUANTIZED" -> 6
      [] semantic = "RGB" -> 3
      [] semantic = "RGBA" -> 4
      [] semantic = "RGB565" -> 2
      [] semantic = "NORMAL" -> 12
      [] semantic = "NORMAL_OCT16P" -> 2
SizeOf(semantic, points) == ItemSize(semantic) * points

(* A header: the features and where each array begins in the body.         *)
Headers ==
    [features : Features, positions_offset : Nat, colors_offset : Nat, normal_offset : Nat]

(* from_semantic: the offset of the normals is noted as that of the colors.*)
FromSemantic(f) ==
    [features |-> f, positions_offset |-> 0,
     colors_offset |->
        IF f.normal # "NONE"
        THEN SizeOf(f.position, f.points) + SizeOf(f.color, f.points)
        ELSE IF f.color # "NONE" THEN SizeOf(f.position, f.points)
        ELSE 0,
     normal_offset |-> 0]

(* from_features looks for the normals among the semantics of positions:   *)
(* a header with normals is refused.                                       *)
AcceptsFeatures(h) == h.features.normal = "NONE"

(* to_json looks for the normals among the semantics of positions too, and *)
(* never writes them.                                                      *)
ToJson(h) == [h EXCEPT !.features.normal = "NONE", !.normal_offset = 0]

(* PntsFeatureTableHeader.from_array: each array has the offset the text   *)
(* gives it, and that of the colors is 0 without colors.                   *)
HeaderFromArray(json) ==
    [json EXCEPT !.colors_offset = IF json.features.color = "NONE" THEN 0 ELSE @]

(* to_array, on the arrays in the order they are written.                  *)
FeatureBodySize(f) ==
    SizeOf(f.position, f.points) + SizeOf(f.color, f.points) + SizeOf(f.normal, f.points)
WrittenPositions(body, f) == Array(body.at, SizeOf(f.position, f.points))
WrittenColors(body, f) == After(WrittenPositions(body, f), SizeOf(f.color, f.points))
WrittenNormals(body, f) == After(WrittenColors(body, f), SizeOf(f.normal, f.points))

(* PntsFeatureTableBody.from_array: the normals are looked for at the      *)
(* offset of the colors.                                                   *)
FetchSemantic(body, semantic, offset, points) ==
    Slice(body, offset, offset + SizeOf(semantic, points))
FetchedPositions(body, h) ==
    FetchSemantic(body, h.features.position, h.positions_offset, h.features.points)
FetchedColors(body, h) ==
    FetchSemantic(body, h.features.color, h.colors_offset, h.features.points)
FetchedNormals(body, h) ==
    FetchSemantic(body, h.features.normal, h.colors_offset, h.features.points)

-----------------------------------------------------------------------------
(* A batch table: the binary properties its header describes, [offset,     *)
(* item], the sizes of the arrays in its body, and their sum.              *)
EmptyBatchTable == [properties |-> <<>>, data |-> <<>>, nbytes |-> 0]
AddPropertyAsBinary(bt, item, count) ==
    [properties |-> Append(bt.properties, [offset |-> bt.nbytes, item |-> item]),
     data |-> Append(bt.data, item * count),
     nbytes |-> bt.nbytes + item * count]

(* BatchTableBody.to_array: the padding stays in the body.                 *)
ToArray(bt) ==
    IF bt.nbytes % 8 = 0 THEN bt
    ELSE [bt EXCEPT !.data = Append(@, Padded(bt.nbytes) - bt.nbytes),
                    !.nbytes = Padded(bt.nbytes)]

GetBinaryProperty(bt, k) == bt.data[k]

(* BatchTable.from_array: each property must begin where the last one of a *)
(* table of batch_len items ends.                                          *)
PropertyEnd(bt, k, batch_len) == bt.properties[k].offset + bt.properties[k].item * batch_len
Accepted(bt, batch_len) ==
    \A k \in 1..Len(bt.properties) :
        bt.properties[k].offset = IF k = 1 THEN 0 ELSE PropertyEnd(bt, k - 1, batch_len)
FetchedProperty(body, bt, k, batch_len) ==
    Slice(body, bt.properties[k].offset, PropertyEnd(bt, k, batch_len))

-----------------------------------------------------------------------------
(* A tile: [features, ft_json, bt_json, batch_table] for a .pnts, where    *)
(* ft_json and bt_json are the lengths of the texts without their padding. *)
(* Only that of the feature table is padded for its place in the file.     *)
FtJsonLength(t) == Padded(t.ft_json + HeaderLength) - HeaderLength
FtBinLength(t) == Padded(FeatureBodySize(t.features))
BtJsonLength(t) == Padded(t.bt_json)
BtBinLength(t) == ToArray(t.batch_table).nbytes

(* Pnts.to_array                                                           *)
FtJson(t) == Array(HeaderLength, FtJsonLength(t))
FtBody(t) == After(FtJson(t), FtBinLength(t))
BtJson(t) == After(FtBody(t), BtJsonLength(t))
BtBody(t) == After(BtJson(t), BtBinLength(t))

(* Pnts.sync *)
TileByteLength(t) ==
    HeaderLength + FtJsonLength(t) + FtBinLength(t) + BtJsonLength(t) + BtBinLength(t)

(* Pnts.from_array, on the lengths in the header.                          *)
BodyArray(t) ==
    Slice(Array(0, TileByteLength(t)), HeaderLength,
          HeaderLength + (FtJsonLength(t) + FtBinLength(t) + BtJsonLength(t) + BtBinLength(t)))
FeatureTableArray(t) == Slice(BodyArray(t), 0, FtJsonLength(t) + FtBinLength(t))
BatchTableArray(t) ==
    Slice(BodyArray(t), FtJsonLength(t) + FtBinLength(t),
          FtJsonLength(t) + FtBinLength(t) + (BtJsonLength(t) + BtBinLength(t)))
ReadFtJson(t) == Slice(FeatureTableArray(t), 0, FtJsonLength(t))
ReadFtBody(t) == Slice(FeatureTableArray(t), FtJsonLength(t), FtJsonLength(t) + FtBinLength(t))
ReadBtJson(t) == Slice(BatchTableArray(t), 0, BtJsonLength(t))
ReadBtBody(t) == Slice(BatchTableArray(t), BtJsonLength(t), BatchTableArray(t).size)

-----------------------------------------------------------------------------
(* Pnts.from_points: an array of count points, all their positions, then   *)
(* their colors, classifications and intensities.                          *)
PointSize(rgb, classification, intensity) ==
    12 + (IF rgb THEN 3 ELSE 0) + (IF classification THEN 1 ELSE 0) + (IF intensity THEN 1 ELSE 0)
PointsFeatures(count, rgb) ==
    [points |-> count, position |-> "POSITION",
     color |-> IF rgb THEN "RGB" ELSE "NONE", normal |-> "NONE"]
PointsColors(points, count, rgb) ==
    FetchedColors(points, FromSemantic(PointsFeatures(count, rgb)))
PointsClassification(points, count, rgb) ==
    LET offset == count * (12 + IF rgb THEN 3 ELSE 0)
    IN  Slice(points, offset, offset + count)
PointsIntensity(points, count, rgb, classification) ==
    LET offset == count * (12 + (IF rgb THEN 3 ELSE 0) + (IF classification THEN 1 ELSE 0))
    IN  Slice(points, offset, offset + count)

-----------------------------------------------------------------------------
(* A .b3dm: [ft_json, ft_bin, bt_json, bt_bin, gltf], lengths without the  *)
(* padding of the tables.  An empty text takes no place, and the header    *)
(* counts a table as if it were its text alone.                            *)
B3dmFeatureTable(t) ==
    Array(HeaderLength,
          (IF t.ft_json = 0 THEN 0 ELSE FtJsonLength(t)) + Padded(t.ft_bin))
B3dmBatchTable(t) == After(B3dmFeatureTable(t), Padded(t.bt_json) + Padded(t.bt_bin))
B3dmGltf(t) == After(B3dmBatchTable(t), t.gltf)

B3dmFtJsonByteLength(t) == B3dmFeatureTable(t).size
B3dmBtJsonByteLength(t) == B3dmBatchTable(t).size
B3dmTileByteLength(t) ==
    t.gltf + HeaderLength + B3dmFtJsonByteLength(t) + B3dmBtJsonByteLength(t)

(* B3dm.from_array and BatchTable.from_array: the text of the batch table. *)
B3dmBodyArray(t) ==
    Slice(Array(0, B3dmTileByteLength(t)), HeaderLength, B3dmTileByteLength(t))
ReadB3dmGltf(t) ==
    LET tables == B3dmFtJsonByteLength(t) + B3dmBtJsonByteLength(t)
        gltf_len == B3dmTileByteLength(t) - tables - HeaderLength
    IN  Slice(B3dmBodyArray(t), tables, tables + gltf_len)
ReadB3dmBtJson(t) ==
    LET ft_len == B3dmFtJsonByteLength(t)
        bt_len == B3dmBtJsonByteLength(t)
    IN  Slice(Slice(B3dmBodyArray(t), ft_len, ft_len + bt_len), 0, bt_len)
B3dmBtText(t) == Array(B3dmBatchTable(t).at, Padded(t.bt_json))
=============================================================================
