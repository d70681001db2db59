----------------------------- MODULE OverlapFilters -----------------------------
(***************************************************************************)
(* Where the inverse overlap filters of JPEG XR reach, on the host and on  *)
(* the devices.                                                            *)
(*                                                                         *)
(* A filter is an item [op, cells]: it reads the samples of its cells and  *)
(* puts what the operator makes of them back into the first of these, as   *)
(* many as it yields.  The host applies the items of a region one after    *)
(* the other; a device gets them as work lists and applies the items of a  *)
(* list in parallel.  What an operator computes is left open: the results  *)
(* agree when the same operators meet the same samples.                    *)
(***************************************************************************)
EXTENDS Integers, SequencesExt

CONSTANT Filter(_, _)  \* Filter(op, values): the values an operator yields

Item(op, cells) == [op |-> op, cells |-> cells]

\* A corner residual changes the corner only.
Writes(item) ==
    IF item.op \in {"minus", "plus"} THEN {item.cells[1]} ELSE ToSet(item.cells)

Loaded(samples, item) == [i \in DOMAIN item.cells |-> samples[item.cells[i]]]

Stored(samples, item, values) ==
    [c \in {item.cells[i] : i \in DOMAIN values} |->
        values[CHOOSE i \in DOMAIN values : item.cells[i] = c]] @@ samples

Applied(samples, item) == Stored(samples, item, Filter(item.op, Loaded(samples, item)))

Filtered(samples, items) ==
    LET after[n \in 0..Len(items)] ==
            IF n = 0 THEN samples ELSE Applied(after[n - 1], items[n])
    IN  after[Len(items)]

(***************************************************************************)
(* A region of a plane is filtered as if nothing lay beyond its edges: it  *)
(* is the whole plane, or a tile when the boundaries of tiles are hard.    *)
(***************************************************************************)
Region(left, right, top, bottom) ==
    [left |-> left, right |-> right, top |-> top, bottom |-> bottom]

\* The boundaries of tiles of the given sizes inside a window, scale samples
\* to a macroblock, counted from the window's first sample.
Boundaries(sizes, origin, extent, scale) ==
    LET ends == [i \in DOMAIN sizes |-> FoldLeft(+, 0, SubSeq(sizes, 1, i))]
        inside == SelectSeq(ends, LAMBDA e : origin < e /\ e < origin + extent)
        all == <<0>> \o [i \in DOMAIN inside |-> inside[i] - origin] \o <<extent>>
    IN  [i \in DOMAIN all |-> scale * all[i]]

Regions(columns, rows, hard) ==
    IF hard
    THEN FlattenSeq([j \in 1..Len(rows) - 1 |->
             [i \in 1..Len(columns) - 1 |->
                 Region(columns[i], columns[i + 1], rows[j], rows[j + 1])]])
    ELSE <<Region(0, Last(columns), 0, Last(rows))>>

\* from + 2, from + 6, ... while four samples fit before the two at the end.
Fours(from, to) == [k \in 1..(to - from - 1) \div 4 |-> from + 4 * k - 2]
\* from + 2, from + 4, ... below to.
Twos(from, to) == [k \in 1..(to - from - 1) \div 2 |-> from + 2 * k]

\* Row by row.
OnGrid(xs, ys, Make(_, _)) == [j \in DOMAIN ys |-> [i \in DOMAIN xs |-> Make(xs[i], ys[j])]]

Cell(stride, x, y) == x + y * stride

Window(stride, x, y) ==
    Item("window", [i \in 1..16 |-> Cell(stride, x + ((i - 1) % 4), y + ((i - 1) \div 4))])
Column(stride, x, y) == Item("four", [i \in 1..4 |-> Cell(stride, x, y + i - 1)])
Row(stride, x, y) == Item("four", [i \in 1..4 |-> Cell(stride, x + i - 1, y)])
Corner(stride, x, y) ==
    Item("four", <<Cell(stride, x, y), Cell(stride, x + 1, y),
                   Cell(stride, x, y + 1), Cell(stride, x + 1, y + 1)>>)
Square(stride, x, y) == [Corner(stride, x - 1, y - 1) EXCEPT !.op = "square"]
ColumnPair(stride, x, y) == Item("pair", <<Cell(stride, x, y - 1), Cell(stride, x, y)>>)
RowPair(stride, x, y) == Item("pair", <<Cell(stride, x - 1, y), Cell(stride, x, y)>>)

(***************************************************************************)
(* The host.                                                               *)
(***************************************************************************)
Interior(stride, r) ==
    OnGrid(Fours(r.left, r.right), Fours(r.top, r.bottom), LAMBDA x, y : Window(stride, x, y))

VerticalEdges(stride, r) ==
    OnGrid(<<r.left, r.left + 1, r.right - 2, r.right - 1>>, Fours(r.top, r.bottom),
           LAMBDA x, y : Column(stride, x, y))

HorizontalEdges(stride, r) ==
    OnGrid(<<r.top, r.top + 1, r.bottom - 2, r.bottom - 1>>, Fours(r.left, r.right),
           LAMBDA y, x : Row(stride, x, y))

Corners_Bug(stride, r) ==
    OnGrid(<<r.left, r.right - 1>>, <<r.top, r.bottom - 1>>,
           LAMBDA x, y : Corner(stride, x, y))
Corners(stride, r) ==
    OnGrid(<<r.left, r.right - 2>>, <<r.top, r.bottom - 2>>,
           LAMBDA x, y : Corner(stride, x, y))

\* The loops over each region in turn, as lists of items.
HostFull(stride, regions) ==
    FlattenSeq([i \in DOMAIN regions |->
        Interior(stride, regions[i]) \o VerticalEdges(stride, regions[i])
        \o HorizontalEdges(stride, regions[i]) \o Corners(stride, regions[i])])

\* The left corner takes its right neighbour, then the right corner its left one.
Residuals(stride, r, op) ==
    OnGrid(<<r.left, r.right - 1>>, <<r.top, r.bottom - 1>>,
           LAMBDA x, y : Item(op, <<Cell(stride, x, y),
                                    Cell(stride, IF x = r.left THEN x + 1 ELSE x - 1, y)>>))

SubsampledFilters(stride, r) ==
    OnGrid(Twos(r.left, r.right), Twos(r.top, r.bottom), LAMBDA x, y : Square(stride, x, y))
    \o OnGrid(<<r.left, r.right - 1>>, Twos(r.top, r.bottom),
              LAMBDA x, y : ColumnPair(stride, x, y))
    \o OnGrid(<<r.top, r.bottom - 1>>, Twos(r.left, r.right),
              LAMBDA y, x : RowPair(stride, x, y))

HostSubsampled(stride, regions) ==
    FlattenSeq([i \in DOMAIN regions |->
        Residuals(stride, regions[i], "minus") \o SubsampledFilters(stride, regions[i])
        \o Residuals(stride, regions[i], "plus")])

(***************************************************************************)
(* The devices: work lists of three phases.                                *)
(***************************************************************************)
DeviceFull(stride, regions) ==
    [prefix |-> <<>>, filters |-> FlattenSeq(HostFull(stride, regions)), suffix |-> <<>>]

DeviceSubsampled_Bug(stride, regions) ==
    LET each(Of(_)) == FlattenSeq(FlattenSeq([i \in DOMAIN regions |-> Of(regions[i])]))
    IN  [prefix  |-> <<>>,
         filters |-> each(LAMBDA r : Residuals(stride, r, "minus")
                                     \o SubsampledFilters(stride, r)),
         suffix  |-> each(LAMBDA r : Residuals(stride, r, "plus"))]
DeviceSubsampled(stride, regions) ==
    LET each(Of(_)) == FlattenSeq(FlattenSeq([i \in DOMAIN regions |-> Of(regions[i])]))
    IN  [prefix  |-> each(LAMBDA r : Residuals(stride, r, "minus")),
         filters |-> each(LAMBDA r : SubsampledFilters(stride, r)),
         suffix  |-> each(LAMBDA r : Residuals(stride, r, "plus"))]
=================================================================================
