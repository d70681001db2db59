------------------------------ MODULE RegionDecode ------------------------------
(***************************************************************************)
(* Decoding a region of an image, on the host, against decoding all of it. *)
(*                                                                         *)
(* A region selects the tiles that meet its macroblocks and, when filters  *)
(* or the interpolation of chroma reach beyond these, the macroblocks next *)
(* to them.  The tiles give a window of macroblocks, reconstructed as a    *)
(* plane of its own: nothing outside the window is there for the filters   *)
(* to read.  The output is cut from that plane.                            *)
(*                                                                         *)
(* One component is modelled.  Macroblocks of a tile do not depend on      *)
(* other tiles before the overlap filters, so Coefficient and Detail give  *)
(* what the transforms leave by the place in the whole image only.         *)
(***************************************************************************)
EXTENDS OverlapFilters

CONSTANTS Pictures,             \* records of the fields below
          RegionsAsked(_, _), \* regions asked of an image at a scale
          Coefficient(_, _),  \* low-pass samples, by place
          Detail(_, _, _)     \* samples, by low-pass sample and place

(***************************************************************************)
(* An image:                                                               *)
(* [columns, rows, hard]   tile partition in macroblocks                   *)
(* [overlap]               0, 1 or 2 passes                                *)
(* [blocks]                blocks of the component in a macroblock         *)
(* [planar]                output keeps subsampled chroma                  *)
(* [centering]             of the chroma grid, across and down: 0..4       *)
(* [margins]               left and top                                    *)
(* [size]                  width and height without margins                *)
(* [scales]                the denominators it is asked at: 1, 4, 16       *)
(***************************************************************************)
VARIABLES image, scale,
          region,  \* the region being decoded
          stage,   \* the stage of the pipeline that comes next
          lists,   \* lists of overlap items that this stage has applied
          window,  \* the macroblocks of the required tiles
          plane,   \* what the stages so far made of them
          whole    \* the whole image decoded, None before it is

vars == <<image, scale, region, stage, lists, window, plane, whole>>

None == [x |-> 0, y |-> 0, width |-> 0, height |-> 0, samples |-> <<>>]
Failed == [None EXCEPT !.samples = <<"CropOutsidePlane">>]

FullRegion(img) == [x |-> 0, y |-> 0, w |-> img.size[1], h |-> img.size[2]]

DivCeil(a, b) == (a + b - 1) \div b
Min2(a, b) == IF a < b THEN a ELSE b
Max2(a, b) == IF a < b THEN b ELSE a
Sum(sizes) == FoldLeft(+, 0, sizes)

(***************************************************************************)
(* The plan.                                                               *)
(***************************************************************************)
\* The region in output samples.
NativeOutputRegion(r, d) ==
    LET x == r.x \div d
        y == r.y \div d
    IN  [x |-> x, y |-> y, w |-> DivCeil(r.x + r.w, d) - x, h |-> DivCeil(r.y + r.h, d) - y]

Subsampled(img) == img.blocks # <<4, 4>>

Halo_Bug(img) == IF img.overlap # 0 THEN 1 ELSE 0
Halo(img) == IF img.overlap # 0 \/ (Subsampled(img) /\ ~img.planar) THEN 1 ELSE 0

\* Macroblocks the samples from..to - 1 of an axis need, end excluded.
Bounds(from, to, halo, macroblocks) ==
    <<Max2((from \div 16) - halo, 0), Min2(DivCeil(to, 16) + halo, macroblocks)>>

\* The required tiles of an axis, as the interval of macroblocks they cover.
Required_Bug(sizes, bounds) ==
    LET end(i) == Sum(SubSeq(sizes, 1, i))
        tiles == {i \in DOMAIN sizes : end(i - 1) < bounds[2] /\ end(i) > bounds[1]}
    IN  <<end(Min(tiles) - 1), end(Max(tiles)) + 1>>
Required(sizes, bounds) ==
    LET end(i) == Sum(SubSeq(sizes, 1, i))
        tiles == {i \in DOMAIN sizes : end(i - 1) < bounds[2] /\ end(i) > bounds[1]}
    IN  <<end(Min(tiles) - 1), end(Max(tiles))>>

WindowOf(img, r) ==
    LET left == img.margins[1] + r.x
        top == img.margins[2] + r.y
        across == Required(img.columns, Bounds(left, left + r.w, Halo(img), Sum(img.columns)))
        down == Required(img.rows, Bounds(top, top + r.h, Halo(img), Sum(img.rows)))
    IN  [x |-> across[1], y |-> down[1],
         w |-> across[2] - across[1], h |-> down[2] - down[1]]

\* Where the output begins in the extended plane.
OutputCrop_Bug(img, r, d) == [NativeOutputRegion(r, d) EXCEPT !.x = @ + img.margins[1]]
OutputCrop(img, r, d) ==
    LET decoded == NativeOutputRegion(r, d)
    IN  [decoded EXCEPT !.x = (img.margins[1] + r.x) \div d, !.y = (img.margins[2] + r.y) \div d]

(***************************************************************************)
(* Planes: origin and extent in samples, and the samples row by row.       *)
(***************************************************************************)
Plane(x, y, width, height, samples) ==
    [x |-> x, y |-> y, width |-> width, height |-> height, samples |-> samples]

Build(x, y, width, height, Sample(_, _)) ==
    Plane(x, y, width, height,
          [i \in 0..(width * height) - 1 |-> Sample(x + (i % width), y + (i \div width))])

At(p, x, y) == p.samples[(x - p.x) + (y - p.y) * p.width]

LowPlane ==
    LET bx == image.blocks[1]
        by == image.blocks[2]
    IN  Build(bx * window.x, by * window.y, bx * window.w, by * window.h, Coefficient)

DcPlane == Build(window.x, window.y, window.w, window.h, Coefficient)

RegionsOf(across, down) ==
    Regions(Boundaries(image.columns, window.x, window.w, across),
            Boundaries(image.rows, window.y, window.h, down), image.hard)

FirstFilters ==
    LET regions == RegionsOf(image.blocks[1], image.blocks[2])
    IN  IF Subsampled(image) THEN HostSubsampled(plane.width, regions)
                             ELSE HostFull(plane.width, regions)
SecondFilters ==
    HostFull(plane.width, RegionsOf(4 * image.blocks[1], 4 * image.blocks[2]))

\* Every sample comes from the low-pass sample of its block.
SecondTransform ==
    Build(4 * plane.x, 4 * plane.y, 4 * plane.width, 4 * plane.height,
          LAMBDA x, y : Detail(At(plane, x \div 4, y \div 4), x, y))

\* Of the two samples that replace current, the even or the odd one.
UpsampleChroma(previous, current, next, centering, odd) ==
    LET h == <<<<4, 4, 0, 8>>, <<5, 3, 1, 7>>, <<6, 2, 2, 6>>, <<7, 1, 3, 5>>,
               <<8, 0, 4, 4>>>>[centering + 1]
    IN  (IF odd = 0 THEN previous * h[3] + current * h[4] + 4
                    ELSE current * h[1] + next * h[2] + 4) \div 8

\* Neighbours beyond the plane's edges are the edge itself.
UpsampleVertical ==
    Build(plane.x, 2 * plane.y, plane.width, 2 * plane.height,
          LAMBDA x, y :
              LET row == y \div 2
              IN  UpsampleChroma(At(plane, x, Max2(row - 1, plane.y)), At(plane, x, row),
                                 At(plane, x, Min2(row + 1, plane.y + plane.height - 1)),
                                 image.centering[2], y % 2))
UpsampleHorizontal ==
    Build(2 * plane.x, plane.y, 2 * plane.width, plane.height,
          LAMBDA x, y :
              LET column == x \div 2
              IN  UpsampleChroma(At(plane, Max2(column - 1, plane.x), y), At(plane, column, y),
                                 At(plane, Min2(column + 1, plane.x + plane.width - 1), y),
                                 image.centering[1], x % 2))

\* Planar output cuts the chroma planes at half the coordinates.
ChromaCrop(crop) ==
    LET half(n, axis) == IF image.blocks[axis] = 2 THEN n \div 2 ELSE n
    IN  IF image.planar
        THEN [x |-> half(crop.x, 1), y |-> half(crop.y, 2),
              w |-> half(crop.w, 1), h |-> half(crop.h, 2)]
        ELSE crop

Within(crop) ==
    /\ plane.x <= crop.x /\ crop.x + crop.w <= plane.x + plane.width
    /\ plane.y <= crop.y /\ crop.y + crop.h <= plane.y + plane.height

Cut ==
    LET crop == ChromaCrop(OutputCrop(image, region, scale))
    IN  IF Within(crop)
        THEN Build(0, 0, crop.w, crop.h, LAMBDA x, y : At(plane, crop.x + x, crop.y + y))
        ELSE Failed

(***************************************************************************)
(* Behaviours: the whole image is decoded, then regions of it.             *)
(***************************************************************************)
Init ==
    /\ image \in Pictures
    /\ scale \in image.scales
    /\ region = FullRegion(image)
    /\ stage = "plan"
    /\ lists = 0
    /\ window = [x |-> 0, y |-> 0, w |-> 0, h |-> 0]
    /\ plane = None
    /\ whole = None

Step(from, to) == stage = from /\ stage' = to /\ UNCHANGED <<image, scale, region, lists>>

Plan ==
    /\ Step("plan", IF scale = 1 THEN "first" ELSE "low")
    /\ window' = WindowOf(image, region)
    /\ UNCHANGED <<plane, whole>>

\* Reduced scales stop at the low-pass or the DC samples, without overlap.
Reduced ==
    /\ Step("low", IF scale = 16 THEN "cut" ELSE "upsample")
    /\ plane' = IF scale = 16 THEN DcPlane ELSE LowPlane
    /\ UNCHANGED <<window, whole>>

FirstLevel ==
    /\ Step("first", IF image.overlap = 2 THEN "first overlap" ELSE "second")
    /\ plane' = LowPlane
    /\ UNCHANGED <<window, whole>>

\* The next list of a pass; to follows the last one.
Overlap(from, to, filters) ==
    /\ stage = from
    /\ plane' = [plane EXCEPT !.samples = Filtered(@, filters[lists + 1])]
    /\ IF lists + 1 = Len(filters)
       THEN lists' = 0 /\ stage' = to
       ELSE lists' = lists + 1 /\ UNCHANGED stage
    /\ UNCHANGED <<image, scale, region, window, whole>>

FirstOverlap == Overlap("first overlap", "second", FirstFilters)

SecondLevel ==
    /\ Step("second", IF image.overlap # 0 THEN "second overlap" ELSE "upsample")
    /\ plane' = SecondTransform
    /\ UNCHANGED <<window, whole>>

SecondOverlap == Overlap("second overlap", "upsample", SecondFilters)

\* 4:2:0 chroma down and then across, 4:2:2 across; other planes are complete.
Upsample ==
    \/ /\ Step("upsample", "upsample across")
       /\ Subsampled(image) /\ ~image.planar
       /\ plane' = IF image.blocks[2] = 2 THEN UpsampleVertical ELSE plane
       /\ UNCHANGED <<window, whole>>
    \/ /\ Step("upsample", "cut")
       /\ ~Subsampled(image) \/ image.planar
       /\ UNCHANGED <<window, plane, whole>>
    \/ /\ Step("upsample across", "cut")
       /\ plane' = UpsampleHorizontal
       /\ UNCHANGED <<window, whole>>

Output ==
    /\ Step("cut", "done")
    /\ IF whole = None
       THEN whole' = Cut /\ plane' = None
       ELSE plane' = Cut /\ UNCHANGED whole
    /\ UNCHANGED window

DecodeRegion(r) ==
    /\ stage = "done"
    /\ region' = r
    /\ stage' = "plan"
    /\ plane' = None
    /\ UNCHANGED <<image, scale, lists, window, whole>>

Next ==
    \/ Plan \/ Reduced \/ FirstLevel \/ FirstOverlap \/ SecondLevel \/ SecondOverlap
    \/ Upsample \/ Output
    \/ \E r \in RegionsAsked(image, scale) : DecodeRegion(r)

Spec == Init /\ [][Next]_vars

-----------------------------------------------------------------------------
(***************************************************************************)
(* Properties.                                                             *)
(***************************************************************************)
PartDecoded == stage = "done" /\ plane # None

\* The planes have all their samples, and lie inside the image's tiles.
TypeOK ==
    /\ image \in Pictures /\ scale \in image.scales
    /\ plane \notin {None, Failed} => DOMAIN plane.samples = 0..(plane.width * plane.height) - 1
    /\ window.x + window.w <= Sum(image.columns)
    /\ window.y + window.h <= Sum(image.rows)

\* A region inside the image never falls outside the plane its tiles give
\* (CropOutsidePlane is reported as an internal invariant), and its samples are
\* those the whole image has at the same place: filters and interpolation that
\* stop at the window's edges do not reach the output.
RegionIsCrop ==
    PartDecoded =>
        LET at == ChromaCrop(NativeOutputRegion(region, scale))
        IN  /\ Failed \notin {plane, whole}
            /\ <<plane.width, plane.height>> = <<at.w, at.h>>
            /\ at.x + at.w <= whole.width /\ at.y + at.h <= whole.height
            /\ \A i \in DOMAIN plane.samples :
                  plane.samples[i] = At(whole, at.x + (i % at.w), at.y + (i \div at.w))
=================================================================================
