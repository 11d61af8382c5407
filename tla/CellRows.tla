------------------------------ MODULE CellRows ------------------------------
(***************************************************************************)
(* Placement of mapped cells in a region, and their legalization to rows   *)
(* and sites (mapper/placer_loop.rs and mapper/row_legalizer.rs).          *)
(*                                                                         *)
(* Lengths are in picometres; division truncates toward zero, as Rust's.   *)
(***************************************************************************)
EXTENDS Integers, SequencesExt

\* The catalog's cells that the mapper chooses, and the row and site it asks
\* for.
CellWidth == [nand2 |-> 920000, aoi21 |-> 1380000, dff |-> 2760000]
CellHeight == 2720000
RowHeight == 2720000
SiteWidth == 460000

Quotient(a, b) == IF a < 0 THEN -((-a) \div b) ELSE a \div b
AtLeast1(n) == IF n < 1 THEN 1 ELSE n
Distance(a, b) == IF a < b THEN b - a ELSE a - b

\* The least number of columns whose square holds n cells.
Columns(n) == CHOOSE c \in 0 .. n : c * c >= n /\ \A d \in 0 .. c - 1 : d * d < n

\* i64::clamp panics when the bounds cross.
CanClamp(lo, hi) == lo <= hi
Clamped(v, lo, hi) == IF v < lo THEN lo ELSE IF v > hi THEN hi ELSE v

\* The place of the i-th of n cells on the initial grid.
GridPoint(i, n, r) ==
  LET cols == AtLeast1(Columns(n))
  IN  [x |-> r.x + ((i - 1) % cols) * Quotient(r.w, cols),
       y |-> r.y + ((i - 1) \div cols) * Quotient(r.h, n \div cols + 1)]

\* The sum of the values there are for 1 .. n.
Total(values, n) ==
  LET sum[i \in 0 .. n] ==
        IF i = 0 THEN 0 ELSE sum[i-1] + (IF i \in DOMAIN values THEN values[i] ELSE 0)
  IN  sum[n]

\* Half way between the grid point and the centre of those of the n inputs that
\* are placed.
Target(grid, n, inputs) ==
  LET k == Total([i \in DOMAIN inputs |-> 1], n)
      cx == Quotient(Total([i \in DOMAIN inputs |-> inputs[i].x], n), k)
      cy == Quotient(Total([i \in DOMAIN inputs |-> inputs[i].y], n), k)
  IN  IF k > 0 THEN [x |-> Quotient(grid.x + cx, 2), y |-> Quotient(grid.y + cy, 2)]
      ELSE grid

Fits(cell, r) ==
  /\ CanClamp(r.x, r.x + r.w - CellWidth[cell])
  /\ CanClamp(r.y, r.y + r.h - CellHeight)

ClampedTo(cell, r, t) ==
  [x |-> Clamped(t.x, r.x, r.x + r.w - CellWidth[cell]),
   y |-> Clamped(t.y, r.y, r.y + r.h - CellHeight)]

-----------------------------------------------------------------------------
\* generate_rows: as many rows as fit, from the global row the region's lower
\* edge is in; every second row of the global grid is flipped.
Rows(r) ==
  LET first == Quotient(r.y, RowHeight)
  IN  [i \in 1 .. AtLeast1(Quotient(r.h, RowHeight)) |->
         [y |-> (first + i - 1) * RowHeight,
          flipped |-> (first + i - 1) % 2 # 0]]

\* min_by_key: the first of the nearest rows.
NearestRow(rows, y) ==
  CHOOSE i \in DOMAIN rows :
     /\ \A j \in DOMAIN rows : Distance(rows[i].y, y) <= Distance(rows[j].y, y)
     /\ \A j \in 1 .. i - 1 : Distance(rows[i].y, y) < Distance(rows[j].y, y)

\* The order of a row: sort_by_key is stable, so that cells at one x stay in the
\* order of the netlist.
LeftOf(cells, i, j) ==
  \/ cells[i].x < cells[j].x
  \/ cells[i].x = cells[j].x /\ i < j

\* The cells of a row before one of them, and the last of those.
Earlier(cells, row, i) == {j \in row : LeftOf(cells, j, i)}
Previous(cells, row, i) ==
  CHOOSE j \in Earlier(cells, row, i) :
    \A k \in Earlier(cells, row, i) : k = j \/ LeftOf(cells, k, j)

\* Each cell on a site, or at the end of the previous one if that is further right.
Pushed(x, end) ==
  LET site == Quotient(x, SiteWidth) * SiteWidth
  IN  IF site < end THEN end ELSE site

\* Mutant: the end of the row is not carried past the cell.
StartsLoose(cells, row) ==
  LET start[i \in row] ==
        Pushed(cells[i].x, IF Earlier(cells, row, i) = {} THEN 0
                           ELSE start[Previous(cells, row, i)])
  IN  start
Starts(cells, row) ==
  LET start[i \in row] ==
        LET p == Previous(cells, row, i)
        IN  Pushed(cells[i].x, IF Earlier(cells, row, i) = {} THEN 0
                               ELSE start[p] + CellWidth[cells[p].cell])
  IN  start

\* The cells by their place in the netlist; the code lists them row by row.
LegalizeToRows(cells, r) ==
  LET rows == Rows(r)
      RowOf(i) == NearestRow(rows, cells[i].y)
      In(k) == {i \in DOMAIN cells : RowOf(i) = k}
  IN  [i \in DOMAIN cells |->
         [cell |-> cells[i].cell, x |-> Starts(cells, In(RowOf(i)))[i],
          y |-> rows[RowOf(i)].y, flipped |-> rows[RowOf(i)].flipped]]
=============================================================================
