------------------------------- MODULE AoiGrid -------------------------------
(***************************************************************************)
(* The nine-grid geometry of AoiGrid and AoiConfig::viewRadiusCells: which *)
(* cell a position falls in and which cells an observer there watches.     *)
(* Positions are pairs <<x, y>> from 0 (Map has its origin at 0).          *)
(***************************************************************************)
EXTENDS Integers

CONSTANTS
    Cols, Rows,     \* Map::getCols, getRows
    CellSize,       \* AoiConfig::cellSize
    ViewRange       \* AoiConfig::viewRange, in map units

ASSUME GridAssumption == {Cols, Rows, CellSize} \subseteq Nat \ {0} /\ ViewRange \in Nat

Cells == 0..(Cols * Rows - 1)

\* viewRadiusCells: the range in cells, rounded up.
Radius == ViewRange \div CellSize + IF ViewRange % CellSize # 0 THEN 1 ELSE 0

\* TryCellOf, inside the map.
CellOf(pos) == (pos[2] \div CellSize) * Cols + pos[1] \div CellSize

\* getWatchCellIdx: the square of the radius around the cell, clipped to the grid.
WatchCells(pos) ==
    LET col == CellOf(pos) % Cols
        row == CellOf(pos) \div Cols
        From(c) == IF c - Radius < 0 THEN 0 ELSE c - Radius
        To(c, n) == IF c + Radius >= n THEN n - 1 ELSE c + Radius
    IN {j * Cols + i : i \in From(col)..To(col, Cols), j \in From(row)..To(row, Rows)}

Distance(a, b) == IF a > b THEN a - b ELSE b - a

\* AoiGrid::visible: two cells within the radius of each other.
Visible(a, b) ==
    /\ Distance(a % Cols, b % Cols) <= Radius
    /\ Distance(a \div Cols, b \div Cols) <= Radius
=============================================================================
