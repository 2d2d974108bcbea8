----------------------------- MODULE PointsGrid -----------------------------
(***************************************************************************)
(* src/py3dtiles/tilers/point/node: in which cell of the grid of a node a  *)
(* point is put (Grid, xyz_to_key), how the cells are made again when the  *)
(* grid is balanced, and in which child a pending point falls              *)
(* (_get_pending_points) against the box the child gets (split_aabb).      *)
(*                                                                         *)
(* Abstracted: coordinates are integers, relative to the corner of the box *)
(* for a grid, and half sizes of boxes too, so that centres are exact; a   *)
(* row is a record with its coordinates in at; which rows are too close is *)
(* a set of pairs.                                                         *)
(***************************************************************************)
EXTENDS Integers

Axis == 1..3

(* int.bit_length, and the powers of two of the shifts.                    *)
BitLength(n) ==
    CASE n = 0 -> 0
      [] n = 1 -> 1
      [] n \in 2..3 -> 2
      [] n \in 4..7 -> 3
      [] n \in 8..15 -> 4
Power(k) == <<1, 2, 4, 8, 16, 32, 64, 128, 256, 512, 1024, 2048, 4096>>[k + 1]

-----------------------------------------------------------------------------
(* A grid: [cell_count, size, cells], size that of the node's box.         *)
MaxKeyValue(cell_count) == Power(2 * BitLength(cell_count[1]) + BitLength(cell_count[3]))
Keys(cell_count) == 0..(MaxKeyValue(cell_count) - 1)
Shift(cell_count) == BitLength(cell_count[1] - 1)

Clamped(a, count) == IF a < 0 THEN 0 ELSE IF a < count THEN a ELSE count - 1
CellAt(g, p) ==
    [a \in Axis |-> Clamped((g.cell_count[a] * p.at[a]) \div g.size[a], g.cell_count[a])]
XyzToKey(g, p) ==
    LET a == CellAt(g, p)
        shift == Shift(g.cell_count)
    IN  a[1] + a[2] * Power(shift) + a[3] * Power(2 * shift)

NewGrid(size) ==
    LET cell_count == [a \in Axis |-> 3]
    IN  [cell_count |-> cell_count, size |-> size, cells |-> [k \in Keys(cell_count) |-> {}]]

(* _insert, on one row of its loop.                                        *)
IsPointFarEnough(cell, p, close) == \A q \in cell : <<q, p>> \notin close
KeepsRow(g, p, close) ==
    \/ g.cells[XyzToKey(g, p)] = {}
    \/ IsPointFarEnough(g.cells[XyzToKey(g, p)], p, close)
Insert(g, p, close) ==
    IF KeepsRow(g, p, close) THEN [g EXCEPT !.cells[XyzToKey(g, p)] = @ \cup {p}] ELSE g

(* balance: one more cell along each axis, but for the height of a flat    *)
(* box, and every row forced into its new cell.                            *)
RowsOf(g) == UNION {g.cells[k] : k \in DOMAIN g.cells}
OneMoreCell(g, quadtree) ==
    [g EXCEPT !.cell_count = [a \in Axis |-> IF a = 3 /\ quadtree THEN g.cell_count[a]
                                             ELSE g.cell_count[a] + 1]]
BalanceGrid(g, quadtree) ==
    LET more == OneMoreCell(g, quadtree)
    IN  [more EXCEPT !.cells = [k \in Keys(more.cell_count) |->
                                  {p \in RowsOf(g) : XyzToKey(more, p) = k}]]

-----------------------------------------------------------------------------
(* A box: [min, half], its corner and the half of its size.                *)
Least(x, y) == IF x < y THEN x ELSE y
AtLeast(x, least) == IF x < least THEN least ELSE x
Holds(box, at) ==
    \A a \in Axis : box.min[a] <= at[a] /\ at[a] <= box.min[a] + 2 * box.half[a]

(* aabb_size_to_subdivision_type, QUADTREE if true.                        *)
IsQuadtree(size) == 2 * size[3] < Least(size[1], size[2])
AabbSize(box, min_point_size) == [a \in Axis |-> AtLeast(2 * box.half[a], min_point_size)]

(* The centre a node compares its pending points with: in a flat box none  *)
(* is above it but on its top.                                             *)
Centre(box, min_point_size) ==
    [a \in Axis |-> IF a = 3 /\ IsQuadtree(AabbSize(box, min_point_size))
                    THEN box.min[a] + 2 * box.half[a] ELSE box.min[a] + box.half[a]]
Bit(test, value) == IF test THEN value ELSE 0
XyzToChildIndex(at, centre) ==
    Bit(at[1] >= centre[1], 4) + Bit(at[2] >= centre[2], 2) + Bit(at[3] >= centre[3], 1)

(* split_aabb: the box of a child, on twice the coordinates, so that the   *)
(* half of its size is an integer too.                                     *)
HasBit(index, value) == (index \div value) % 2 = 1
SplitAabb(box, index) ==
    LET low(a) == 2 * box.min[a]
        half(a) == 2 * box.half[a]
        quadtree == IsQuadtree(box.half)
        value == <<4, 2, 1>>
        upper(a) == HasBit(index, value[a]) /\ ~ (a = 3 /\ quadtree)
    IN  [min |-> [a \in Axis |-> low(a) + (IF upper(a) THEN half(a) ELSE 0)],
         half |-> [a \in Axis |-> IF a = 3 /\ quadtree THEN half(a) ELSE box.half[a]]]
Twice(at) == [a \in Axis |-> 2 * at[a]]
=============================================================================
