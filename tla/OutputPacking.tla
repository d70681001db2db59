--------------------------- MODULE OutputPacking ---------------------------
(***************************************************************************)
(* How the host makes the samples of an image: the checks on a request,    *)
(* the interpolation of subsampled chroma, the packers that return storage *)
(* of their own and those that fill the caller's, the interleaved and the  *)
(* vector fast paths, planar YUV and premultiplied alpha.                  *)
(*                                                                         *)
(* A job has the coded and the output colours, a depth, the storage and    *)
(* the order of its channels, and reconstructed planes of one window each: *)
(* [x, y, width, height, samples].  Alpha is a plane, or none (<<>>), with *)
(* a depth of its own.  A packer has the elements as its outcome.          *)
(***************************************************************************)
EXTENDS SampleScaling

CONSTANTS
  SafeMagnitude,   \* SAFE_MAGNITUDE, of a word of WordBits
  MinVector        \* MIN_VECTOR_SAMPLES

-----------------------------------------------------------------------------
(***************************************************************************)
(* Requests (validate.rs).                                                 *)
(***************************************************************************)
AlphaLayouts == {"lumaAlpha", "yuva", "rgba", "bgra", "cmyka", "nAlpha"}
RgbLayouts == {"rgb", "rgbx", "rgba", "bgr", "bgrx", "bgra"}
PackedDepths == {"Rgb555", "Rgb565", "Rgb101010"}
Subsampled == {"yuv420", "yuv422"}

HasAlpha(job) == job.alpha # <<>>

AlphaMatches(job) ==
  /\ HasAlpha(job) <=> job.layout \in AlphaLayouts
  /\ job.premultiply => HasAlpha(job) /\ job.output \notin Subsampled \cup {"yuv444"}

DepthStorage(job) ==
  CASE job.depth.kind \in {"Bit1White", "Bit1Black"} -> job.storage = "BitPacked" /\ job.layout = "luma"
    [] job.depth.kind = "U8" -> job.storage \in {"U8", "Rgbe"}
    [] job.depth.kind \in {"U10", "U16"} -> job.storage = "U16"
    [] OTHER -> job.storage = job.depth.kind

ColorLayout(job) ==
  CASE job.output = "luma" -> job.layout \in {"luma", "lumaAlpha"}
    [] job.output = "rgb" -> job.layout \in RgbLayouts
    [] job.output \in Subsampled \cup {"yuv444"} -> job.layout \in {"yuv", "yuva"}
    [] job.output \in {"cmyk", "cmykdirect"} -> job.layout \in {"cmyk", "cmyka"}
    [] job.output = "rgbe" -> job.storage = "Rgbe"
    [] job.output = "n" -> job.layout \in {"n", "nAlpha"}

\* A colour stays as it is, but for these conversions.
IsDirect(internal, output) ==
  internal = output /\ internal \in Subsampled \cup {"luma", "yuv444", "n"}
Conversion(job) ==
  \/ IsDirect(job.internal, job.output)
  \/ job.internal = "luma" /\ job.output = "rgb" /\ job.depth.kind \notin {"F16", "F32"}
  \/ job.internal = "yuv444" /\ job.output \in {"rgb", "rgbe"}
  \/ job.internal = "yuvk" /\ job.output \in {"cmyk", "cmykdirect"}

NormativeDepth(job) ==
  CASE job.output = "luma" -> job.depth.kind \notin PackedDepths
    [] job.output = "rgb" -> TRUE
    [] job.output \in Subsampled \cup {"yuv444"} -> job.depth.kind \in {"U8", "U10", "U16", "I16"}
    [] job.output = "rgbe" -> job.depth.kind = "U8"
    [] OTHER -> job.depth.kind \in {"U8", "U16"}

Matrix(job) ==
  AlphaMatches(job) /\ DepthStorage(job) /\ ColorLayout(job) /\ Conversion(job) /\ NormativeDepth(job)

PlaneHolds(plane, crop) ==
  /\ plane.x <= crop.x /\ crop.x + crop.width <= plane.x + plane.width
  /\ plane.y <= crop.y /\ crop.y + crop.height <= plane.y + plane.height
  /\ Len(plane.samples) >= plane.width * plane.height

ComponentsOf ==
  [luma |-> {1}, yuv420 |-> {3}, yuv422 |-> {3}, yuv444 |-> {3}, yuvk |-> {4}, n |-> 1..16]

ValidRequest(job) ==
  /\ Len(job.planes) \in ComponentsOf[job.internal] /\ Matrix(job)
  /\ \A p \in DOMAIN job.planes :
        /\ PlaneHolds(job.planes[p], job.crop)
        /\ \A field \in {"x", "y", "width", "height"} : job.planes[p][field] = job.planes[1][field]
  /\ \A p \in DOMAIN job.alpha : PlaneHolds(job.alpha[p], job.crop)

-----------------------------------------------------------------------------
(***************************************************************************)
(* Interpolated chroma (sampling.rs, chroma.rs).                           *)
(***************************************************************************)
Weights(centering) == <<4 + centering, 4 - centering, centering, 8 - centering>>

WeightedPair(first, weight, second, other) ==
  LET products == <<first * weight, second * other>>
      sum == products[1] + products[2]
  IN  Exact({products[1], products[2], sum, sum + 4}, Shr(sum + 4, 3))

UpsamplePair(previous, current, next, centering) ==
  LET h == Weights(centering)
  IN  <<WeightedPair(previous, h[3], current, h[4]), WeightedPair(current, h[1], next, h[2])>>

UpsampleHorizontal(plane, centering) ==
  LET width == 2 * plane.width
      At(x, y) == plane.samples[y * plane.width + Clamp(x, 0, plane.width - 1) + 1]
      samples == Whole([k \in 1..(width * plane.height) |->
        LET x == ((k - 1) % width) \div 2
            y == (k - 1) \div width
        IN  UpsamplePair(At(x - 1, y), At(x, y), At(x + 1, y), centering)[((k - 1) % 2) + 1]])
  IN  IF samples = <<>> THEN <<>>
      ELSE <<[plane EXCEPT !.x = 2 * @, !.width = width, !.samples = samples[1]]>>

UpsampleVertical(plane, centering) ==
  LET At(x, y) == plane.samples[Clamp(y, 0, plane.height - 1) * plane.width + x + 1]
      samples == Whole([k \in 1..(2 * plane.width * plane.height) |->
        LET x == (k - 1) % plane.width
            row == (k - 1) \div plane.width
            y == row \div 2
        IN  UpsamplePair(At(x, y - 1), At(x, y), At(x, y + 1), centering)[(row % 2) + 1]])
  IN  IF samples = <<>> THEN <<>>
      ELSE <<[plane EXCEPT !.y = 2 * @, !.height = 2 * plane.height, !.samples = samples[1]]>>

ReconstructPlane(plane, internal, centering) ==
  IF internal = "yuv422" THEN UpsampleHorizontal(plane, centering[1])
  ELSE LET vertical == UpsampleVertical(plane, centering[2])
       IN  IF vertical = <<>> THEN <<>> ELSE UpsampleHorizontal(vertical[1], centering[1])

\* The colour of the planes after chroma is interpolated.
ReconstructedColor(internal, output) ==
  IF internal \in Subsampled /\ internal # output THEN "yuv444" ELSE internal

\* A policy is of the reconstructed colour.
PreparedOutput(job) == Matrix([job EXCEPT !.internal = ReconstructedColor(@, job.output)])

\* The job with chroma as its output wants it; its filter may be unknown.
Reconstructed(job) ==
  IF ~PreparedOutput(job) THEN <<>>
  ELSE IF ReconstructedColor(job.internal, job.output) = job.internal THEN <<job>>
  ELSE IF \E c \in 1..2 : job.centering[c] > 4 THEN <<>>
  ELSE LET chroma == Whole([c \in 1..2 |-> ReconstructPlane(job.planes[c + 1], job.internal, job.centering)])
       IN  IF chroma = <<>> THEN <<>>
           ELSE <<[job EXCEPT !.internal = "yuv444", !.planes = <<@[1]>> \o chroma[1]]>>

-----------------------------------------------------------------------------
(***************************************************************************)
(* The pixels of a crop and their channels.                                *)
(***************************************************************************)
SampleAt(plane, at) == plane.samples[(at[2] - plane.y) * plane.width + at[1] - plane.x + 1]

Raster(window) ==
  [k \in 1..(window.width * window.height) |->
     <<window.x + ((k - 1) % window.width), window.y + ((k - 1) \div window.width)>>]

ColorComponentsAt(job, at) ==
  LET input == [c \in 1..4 |-> IF c > Len(job.planes) THEN 0 ELSE SampleAt(job.planes[c], at)]
  IN  IF IsDirect(job.internal, job.output) THEN <<input>>
      ELSE Convert(job.internal, job.output, input, job.depth.kind \in PackedDepths, job.kept)

\* Colours of every pixel, in raster order.
ForEachColor(job) ==
  LET pixels == Raster(job.crop) IN [k \in DOMAIN pixels |-> ColorComponentsAt(job, pixels[k])]

Reversed(layout) == layout \in {"bgr", "bgrx", "bgra"}

PrimaryCount(job) ==
  CASE job.layout \in {"luma", "lumaAlpha"} -> 1
    [] job.layout \in {"yuv", "yuva", "rgb", "bgr", "rgba", "bgra"} -> 3
    [] job.layout \in {"rgbx", "bgrx", "cmyk", "cmyka"} -> 4
    [] OTHER -> Len(job.planes)
ChannelCount(job) == PrimaryCount(job) + Len(job.alpha)

OrderedComponentsAt(job, at) ==
  LET color == ColorComponentsAt(job, at)
  IN  IF color = <<>> THEN <<>>
      ELSE LET c == color[1]
               primary == IF Reversed(job.layout) THEN <<c[3], c[2], c[1], 0>> ELSE c
           IN  <<SubSeq(primary, 1, PrimaryCount(job)) \o [a \in DOMAIN job.alpha |-> SampleAt(job.alpha[a], at)]>>

\* The channels of a pixel of any number of components need no conversion.
NComponentsAt(job, at) ==
  [c \in 1..Len(job.planes) |-> SampleAt(job.planes[c], at)]
    \o [a \in DOMAIN job.alpha |-> SampleAt(job.alpha[a], at)]

\* The samples of a crop in the order of its storage, each with its channel.
ForEachOrdered(job) ==
  LET pixels == Raster(job.crop)
      ordered == Whole([k \in DOMAIN pixels |->
        IF job.output = "n" THEN <<NComponentsAt(job, pixels[k])>> ELSE OrderedComponentsAt(job, pixels[k])])
      n == ChannelCount(job)
  IN  IF ordered = <<>> THEN <<>>
      ELSE <<[k \in 1..(n * Len(pixels)) |->
               [sample |-> ordered[1][((k - 1) \div n) + 1][((k - 1) % n) + 1], channel |-> (k - 1) % n,
                alpha |-> HasAlpha(job) /\ k % n = 0]]>>

IsPadding(job, channel, alpha) == ~alpha /\ job.layout \in {"rgbx", "bgrx"} /\ channel = 3

\* Depth and scaling of alpha are its own.
FormatOf(job, alpha) ==
  IF alpha THEN [color |-> "luma", depth |-> job.alphaDepth, scaled |-> job.alphaScaled]
  ELSE [color |-> job.output, depth |-> job.depth, scaled |-> job.scaled]

ChannelScaled(job, visit) ==
  LET format == FormatOf(job, visit.alpha)
  IN  IF IsPadding(job, visit.channel, visit.alpha) THEN <<0>>
      ELSE ScaleInteger(visit.sample, visit.channel, format.color, format.depth, format.scaled)

\* A sample as an element of its storage.
Ranges(kind) ==
  CASE kind = "U8" -> <<0, 255>> [] kind = "U10" -> <<0, 1023>> [] kind = "U16" -> <<0, 65535>>
    [] kind = "I16" -> <<-32768, 32767>> [] kind = "I32" -> <<-WordMax - 1, WordMax>>
IntegerElement(job, visit) ==
  LET scaled == ChannelScaled(job, visit)
      range == Ranges(job.depth.kind)
  IN  IF scaled = <<>> THEN <<>> ELSE <<Clamp(scaled[1], range[1], range[2])>>

F16Element(job, visit) ==
  LET format == FormatOf(job, visit.alpha)
  IN  IF IsPadding(job, visit.channel, visit.alpha) THEN <<0>>
      ELSE Float16Bits(visit.sample, format.depth, format.scaled)

F32Element(job, visit) ==
  LET format == FormatOf(job, visit.alpha)
  IN  IF IsPadding(job, visit.channel, visit.alpha) THEN <<<<0, 0, 0>>>>
      ELSE IF format.depth.mantissa > 23 THEN <<>>
      ELSE Float32Bits(visit.sample, format.depth, format.scaled)

Element(job, visit) ==
  CASE job.storage = "F16" -> F16Element(job, visit)
    [] job.storage = "F32" -> F32Element(job, visit)
    [] OTHER -> IntegerElement(job, visit)

\* The checked packer: every element through its channel's scale.
Ordered(job) ==
  LET visits == ForEachOrdered(job)
  IN  IF visits = <<>> THEN <<>>
      ELSE Whole([k \in DOMAIN visits[1] |-> Element(job, visits[1][k])])

\* Bytes of an element, and of a row.
ElementBytes(storage) ==
  CASE storage \in {"BitPacked", "U8"} -> 1
    [] storage \in {"U16", "I16", "F16", "Rgb555", "Rgb565"} -> 2
    [] OTHER -> 4
RowBytes(storage, width, channels) ==
  CASE storage = "BitPacked" -> (width * channels + 7) \div 8
    [] storage \in PackedDepths \cup {"Rgbe"} -> width * ElementBytes(storage)
    [] OTHER -> width * channels * ElementBytes(storage)

-----------------------------------------------------------------------------
(***************************************************************************)
(* Words of several channels and bits (packed_color.rs, packing.rs).       *)
(***************************************************************************)
\* Bytes of eight pixels, rows apart.
PackBits(job) ==
  LET width == job.crop.width
      pixels == Raster(job.crop)
      scaled == Whole([k \in DOMAIN pixels |->
        LET c == ColorComponentsAt(job, pixels[k])
        IN  IF c = <<>> THEN <<>> ELSE ScaleInteger(c[1][1], 0, "luma", job.depth, job.scaled)])
      Bit(x, y) ==
        LET clipped == Clamp(scaled[1][y * width + x + 1], 0, 1)
        IN  IF x >= width THEN 0 ELSE IF job.depth.kind = "Bit1White" THEN clipped ELSE 1 - clipped
      rowBytes == (width + 7) \div 8
  IN  IF scaled = <<>> THEN <<>>
      ELSE <<[k \in 1..(rowBytes * job.crop.height) |->
               LET x == 8 * ((k - 1) % rowBytes)
                   y == (k - 1) \div rowBytes
               IN  128 * Bit(x, y) + 64 * Bit(x + 1, y) + 32 * Bit(x + 2, y) + 16 * Bit(x + 3, y)
                     + 8 * Bit(x + 4, y) + 4 * Bit(x + 5, y) + 2 * Bit(x + 6, y) + Bit(x + 7, y)]>>

PackedMaximum(kind, component) ==
  CASE kind = "Rgb101010" -> 1023
    [] kind = "Rgb565" /\ component = 1 -> 63
    [] OTHER -> 31

ScaleRgb(job, color) ==
  LET scaled == Whole([c \in 1..3 |-> ScaleInteger(color[c], c - 1, "rgb", job.depth, job.scaled)])
  IN  IF scaled = <<>> THEN <<>>
      ELSE <<[c \in 1..3 |-> Clamp(scaled[1][c], 0, PackedMaximum(job.depth.kind, c - 1))]>>

\* A word of the three parts, the blue one lowest.
PackRgb(job) ==
  LET colors == ForEachColor(job)
      green == CASE job.depth.kind = "Rgb101010" -> 10 [] OTHER -> 5
      red == CASE job.depth.kind = "Rgb101010" -> 20 [] job.depth.kind = "Rgb565" -> 11 [] OTHER -> 10
  IN  Whole([k \in DOMAIN colors |->
        LET values == IF colors[k] = <<>> THEN <<>> ELSE ScaleRgb(job, colors[k][1])
        IN  IF values = <<>> THEN <<>>
            ELSE <<values[1][3] + values[1][2] * 2^green + values[1][1] * 2^red>>])

PackRgbe(job) ==
  LET colors == ForEachColor(job)
  IN  Whole([k \in DOMAIN colors |->
        LET scaled == IF colors[k] = <<>> THEN <<>>
                      ELSE Whole([c \in 1..3 |-> ScaleInteger(colors[k][1][c], c - 1, "rgbe", job.depth, job.scaled)])
        IN  IF scaled = <<>> THEN <<>> ELSE <<PostscaleRgbe(scaled[1])>>])

-----------------------------------------------------------------------------
(***************************************************************************)
(* The interleaved stores (interleave.rs), in wrapping arithmetic.         *)
(***************************************************************************)
Wrap(n) == ((n + WordMax + 1) % (2 * (WordMax + 1))) - WordMax - 1

\* IntegerScale::resolve: a scale that no admitted sample overflows.
IntegerScale(scale) ==
  LET addition == scale.bias + scale.rounding
      largest == SafeMagnitude * 4 + 2 + Magnitude(addition)
  IN  IF (Shr(largest, scale.shift) + 1) * 2^scale.post <= WordMax
      THEN <<[addition |-> addition, shift |-> scale.shift, post |-> scale.post]>> ELSE <<>>

ApplyInteger(scale, maximum, sample) ==
  Clamp(Shr(Wrap(sample + scale.addition), scale.shift) * 2^scale.post, 0, maximum)

\* The scale of each channel, where there is a kernel for the request.
InterleavePlan(job) ==
  LET kernel ==
        /\ job.depth.kind \in {"U8", "U10", "U16"} /\ job.storage # "Rgbe"
        /\ \/ job.internal = "luma" /\ job.output = "luma"
           \/ job.internal \in {"luma", "yuv444"} /\ job.output = "rgb"
      Scale(alpha) ==
        LET format == FormatOf(job, alpha)
        IN  IntegerScale(ChannelScale(IF alpha THEN PrimaryCount(job) ELSE 0,
                                      format.color, format.depth, format.scaled))
  IN  IF ~kernel \/ Scale(FALSE) = <<>> \/ (HasAlpha(job) /\ Scale(TRUE) = <<>>) THEN <<>>
      ELSE <<[alpha \in {FALSE, TRUE} |-> IF alpha /\ HasAlpha(job) THEN Scale(TRUE)[1] ELSE Scale(FALSE)[1]]>>

WrappedYuv(y, u, v) ==
  LET temporary == Wrap(-u)
      green == Wrap(y - Shr(temporary, 1))
      red == Wrap(Wrap(temporary + green) - (Shr(v, 1) + (v % 2)))
  IN  <<red, green, Wrap(v + red)>>

StoreLuma(job, at) == <<SampleAt(job.planes[1], at)>>

\* Converted and reordered; the padding is a zero of the storage.
StoreRgb(job, at) ==
  LET y == SampleAt(job.planes[1], at)
      rgb == IF job.internal = "luma" THEN <<y, y, y>>
             ELSE WrappedYuv(y, SampleAt(job.planes[2], at), SampleAt(job.planes[3], at))
  IN  IF Reversed(job.layout) THEN <<rgb[3], rgb[2], rgb[1]>> ELSE rgb

StoreRow(job, plan, at) ==
  LET color == IF job.output = "luma" THEN StoreLuma(job, at) ELSE StoreRgb(job, at)
      maximum == Ranges(job.depth.kind)[2]
  IN  [c \in DOMAIN color |-> ApplyInteger(plan[FALSE], maximum, color[c])]
        \o (IF job.layout \in {"rgbx", "bgrx"} THEN <<0>> ELSE <<>>)
        \o [a \in DOMAIN job.alpha |-> ApplyInteger(plan[TRUE], maximum, SampleAt(job.alpha[a], at))]

\* Mutant: whatever the samples, the kernel's result stands.
Admitted_Bug(samples) == TRUE
\* No sample reaches the magnitude from which wrapped steps may differ.
Admitted(samples) == \A n \in samples : Magnitude(n) < SafeMagnitude

TryStore(job) ==
  LET plan == InterleavePlan(job)
      pixels == Raster(job.crop)
      read == {SampleAt((job.planes \o job.alpha)[p], pixels[k]) : p \in 1..(Len(job.planes \o job.alpha)), k \in DOMAIN pixels}
  IN  IF plan = <<>> \/ ~Admitted(read) THEN <<>>
      ELSE <<FlattenSeq([k \in DOMAIN pixels |-> StoreRow(job, plan[1], pixels[k])])>>

Interleaved(job) == LET stored == TryStore(job) IN IF stored = <<>> THEN Ordered(job) ELSE stored

-----------------------------------------------------------------------------
(***************************************************************************)
(* The vector store of eight-bit planes (simd_pack.rs): whole vectors wrap,*)
(* a tail saturates, and the largest sample decides.                       *)
(***************************************************************************)
PackBias(scaled) == IF scaled THEN [addition |-> 1027, shift |-> 3] ELSE [addition |-> 128, shift |-> 0]

PackSaturated(bias, sample) == Clamp(Shr(Lesser(sample + bias.addition, WordMax), bias.shift), 0, 255)
PackVector(bias, sample) == Clamp(Shr(Wrap(sample + bias.addition), bias.shift), 0, 255)

\* Samples of each row that whole vectors hold.
VectorWidth(lanes, window) ==
  IF lanes = 0 \/ window.width * window.height < MinVector \/ window.width < lanes THEN 0
  ELSE (window.width \div lanes) * lanes

PackRow(bias, row, vectors) ==
  [k \in DOMAIN row |-> IF k <= vectors THEN PackVector(bias, row[k]) ELSE PackSaturated(bias, row[k])]

PackU8Into(plane, window, lanes, scaled) ==
  LET bias == PackBias(scaled)
      Row(y) == [k \in 1..window.width |-> SampleAt(plane, <<window.x + k - 1, y>>)]
      rows == [k \in 1..window.height |-> Row(window.y + k - 1)]
      samples == FlattenSeq(rows)
  IN  IF \E k \in DOMAIN samples : samples[k] > WordMax - bias.addition THEN <<>>
      ELSE <<FlattenSeq([k \in DOMAIN rows |-> PackRow(bias, rows[k], VectorWidth(lanes, window))])>>

LumaPlane(job) == job.internal = "luma" /\ job.output = "luma" /\ job.layout = "luma"

-----------------------------------------------------------------------------
(***************************************************************************)
(* Premultiplied pixels (premultiply.rs): each by its last channel.        *)
(***************************************************************************)
PremultiplyOutput(job, elements) ==
  LET n == ChannelCount(job)
  IN  [k \in DOMAIN elements |->
         IF k % n = 0 THEN elements[k]
         ELSE Premultiplied(job.storage, elements[k], elements[((k + n - 1) \div n) * n])]

-----------------------------------------------------------------------------
(***************************************************************************)
(* Storage of its own (packing.rs: format_components).                     *)
(***************************************************************************)
PackU8(job) == IF LumaPlane(job) THEN PackU8Into(job.planes[1], job.crop, job.lanes, job.scaled) ELSE Interleaved(job)
PackU16(job) == Interleaved(job)
PackI16(job) == Ordered(job)
PackI32(job) == Ordered(job)
PackF16(job) == Ordered(job)
PackF32(job) == Ordered(job)

FormatComponents(job) ==
  LET elements == CASE job.storage = "Rgbe" -> PackRgbe(job)
                    [] job.storage = "BitPacked" -> PackBits(job)
                    [] job.storage = "U8" -> PackU8(job)
                    [] job.storage = "U16" -> PackU16(job)
                    [] job.storage = "I16" -> PackI16(job)
                    [] job.storage = "I32" -> PackI32(job)
                    [] job.storage = "F16" -> PackF16(job)
                    [] job.storage = "F32" -> PackF32(job)
                    [] OTHER -> PackRgb(job)
  IN  IF ~ValidRequest(job) \/ elements = <<>> THEN <<>>
      ELSE IF job.premultiply THEN <<PremultiplyOutput(job, elements[1])>> ELSE elements

-----------------------------------------------------------------------------
(***************************************************************************)
(* The caller's storage (packing.rs: format_components_into), whose eight- *)
(* bit store premultiplies by itself.                                      *)
(***************************************************************************)
FillU8(job) ==
  LET elements == IF LumaPlane(job) THEN PackU8Into(job.planes[1], job.crop, job.lanes, job.scaled)
                  ELSE Interleaved(job)
  IN  IF elements # <<>> /\ job.premultiply THEN <<PremultiplyOutput(job, elements[1])>> ELSE elements
FillU16(job) == Interleaved(job)
FillI16(job) == Ordered(job)
FillF16(job) == Ordered(job)
FillF32(job) == Ordered(job)
FillBits(job) == PackBits(job)

FillDirectDestination(job) ==
  CASE job.storage = "Rgbe" -> PackRgbe(job)
    [] job.storage = "BitPacked" -> FillBits(job)
    [] job.storage = "U8" -> FillU8(job)
    [] job.storage = "U16" -> FillU16(job)
    [] job.storage = "I16" -> FillI16(job)
    [] job.storage = "I32" -> Ordered(job)
    [] job.storage = "F16" -> FillF16(job)
    [] job.storage = "F32" -> FillF32(job)
    [] OTHER -> PackRgb(job)

FormatComponentsInto(job) ==
  LET elements == FillDirectDestination(job)
  IN  IF ~ValidRequest(job) \/ elements = <<>> THEN <<>>
      ELSE IF job.premultiply THEN <<PremultiplyOutput(job, elements[1])>> ELSE elements

-----------------------------------------------------------------------------
(***************************************************************************)
(* Planar YUV (planar.rs): the windows of the planes, one after another.   *)
(***************************************************************************)
ValidatedWindows(job) ==
  LET rows == IF job.output = "yuv420" THEN 2 ELSE 1
      chroma == [x |-> job.crop.x \div 2, y |-> job.crop.y \div rows,
                 width |-> job.crop.width \div 2, height |-> job.crop.height \div rows]
      windows == [p \in 1..3 |-> [plane |-> job.planes[p], crop |-> IF p = 1 THEN job.crop ELSE chroma,
                                  component |-> p - 1, alpha |-> FALSE]]
                   \o [a \in DOMAIN job.alpha |-> [plane |-> job.alpha[a], crop |-> job.crop,
                                                   component |-> 0, alpha |-> TRUE]]
  IN  IF Len(job.planes) = 3 /\ Matrix(job) /\ \A w \in DOMAIN windows : PlaneHolds(windows[w].plane, windows[w].crop)
      THEN <<windows>> ELSE <<>>

\* The plane of each window: the byte it starts at, its row's bytes, its extent.
Descriptors(windows, storage) ==
  LET Area(w) == windows[w].crop.width * windows[w].crop.height
      start[w \in 1..Len(windows)] == IF w = 1 THEN 0 ELSE start[w - 1] + Area(w - 1)
  IN  [w \in DOMAIN windows |->
         [offset |-> start[w] * ElementBytes(storage), stride |-> windows[w].crop.width * ElementBytes(storage),
          width |-> windows[w].crop.width, height |-> windows[w].crop.height, channels |-> 1]]

WindowElements(job, w) ==
  LET format == FormatOf(job, w.alpha)
      pixels == Raster(w.crop)
      range == Ranges(job.depth.kind)
  IN  Whole([k \in DOMAIN pixels |->
        LET scaled == ScaleInteger(SampleAt(w.plane, pixels[k]), w.component, format.color, format.depth, format.scaled)
        IN  IF scaled = <<>> THEN <<>> ELSE <<Clamp(scaled[1], range[1], range[2])>>])

Joined(elements, windows, storage) ==
  IF elements = <<>> THEN <<>>
  ELSE <<[samples |-> FlattenSeq(elements[1]), planes |-> Descriptors(windows, storage)]>>

PackU8Windows(job, windows) ==
  Joined(Whole([w \in DOMAIN windows |->
           PackU8Into(windows[w].plane, windows[w].crop, job.lanes, FormatOf(job, windows[w].alpha).scaled)]), windows, "U8")
PackWindows(job, windows) ==
  Joined(Whole([w \in DOMAIN windows |-> WindowElements(job, windows[w])]), windows, job.storage)

\* Each window into its range of the caller's storage.
FillWindows(job, windows) ==
  LET planes == Descriptors(windows, job.storage)
      bytes == ElementBytes(job.storage)
      values == Whole([w \in DOMAIN windows |-> WindowElements(job, windows[w])])
      End(w) == planes[w].offset \div bytes + planes[w].width * planes[w].height
      Holder(k) == CHOOSE w \in DOMAIN planes : planes[w].offset < k * bytes /\ k <= End(w)
  IN  IF values = <<>> THEN <<>>
      ELSE <<[samples |-> [k \in 1..End(Len(planes)) |-> values[1][Holder(k)][k - planes[Holder(k)].offset \div bytes]], planes |-> planes]>>

FormatPlanarYuv(job) ==
  LET windows == ValidatedWindows(job)
  IN  IF windows = <<>> THEN <<>>
      ELSE IF job.storage = "U8" THEN PackU8Windows(job, windows[1]) ELSE PackWindows(job, windows[1])
FormatPlanarYuvInto(job) ==
  LET windows == ValidatedWindows(job) IN IF windows = <<>> THEN <<>> ELSE FillWindows(job, windows[1])

-----------------------------------------------------------------------------
(***************************************************************************)
(* An image (decode/output.rs): planar where the output is subsampled.     *)
(***************************************************************************)
OnePlane(job, elements) ==
  IF elements = <<>> THEN <<>>
  ELSE <<[samples |-> elements[1],
          planes |-> <<[offset |-> 0, stride |-> RowBytes(job.storage, job.crop.width, ChannelCount(job)),
                        width |-> job.crop.width, height |-> job.crop.height, channels |-> ChannelCount(job)]>>]>>

DescriptorHolds(storage, plane, available) ==
  LET row == RowBytes(storage, plane.width, plane.channels)
  IN  row <= plane.stride /\ plane.offset + plane.stride * (plane.height - 1) + row <= available

FormatImage(job) ==
  LET prepared == Reconstructed(job)
      image == IF prepared = <<>> THEN <<>>
               ELSE IF job.output \in Subsampled THEN FormatPlanarYuv(prepared[1])
               ELSE OnePlane(job, FormatComponents(prepared[1]))
      available == Len(image[1].samples) * ElementBytes(job.storage)
  IN  IF image # <<>> /\ \A p \in DOMAIN image[1].planes : DescriptorHolds(job.storage, image[1].planes[p], available)
      THEN image ELSE <<>>

FormatImageInto(job) ==
  LET prepared == Reconstructed(job)
  IN  IF prepared = <<>> THEN <<>>
      ELSE IF job.output \in Subsampled THEN FormatPlanarYuvInto(prepared[1])
      ELSE OnePlane(job, FormatComponentsInto(prepared[1]))
===============================================================================
