---------------------------- MODULE DeviceStores ----------------------------
(***************************************************************************)
(* The output stores of the devices beside those of the host: the layout   *)
(* of a surface, the parameters of a dispatch, the CUDA and the Metal      *)
(* kernels that turn reconstructed planes into the bytes of an image, and  *)
(* the Metal pipelines compiled for one format and kept.                   *)
(*                                                                         *)
(* A request is a job of OutputPacking, made by the host's two paths and   *)
(* by the two devices.  What a store wrote is a set of <<first byte,       *)
(* element>>, with the planes of the surface; an error is <<>>.            *)
(***************************************************************************)
EXTENDS OutputPacking, FiniteSets

CONSTANT Retained      \* RETAINED_OUTPUT_SPECIALIZATIONS

-----------------------------------------------------------------------------
(***************************************************************************)
(* Surfaces (surface.rs).                                                  *)
(***************************************************************************)
AlignUp(n, alignment) == ((n + alignment - 1) \div alignment) * alignment

PlaneExtent(surface, plane) ==
  <<plane.offset, plane.offset + plane.stride * (plane.height - 1)
                    + RowBytes(surface.storage, plane.width, plane.channels)>>

PlaneValid(surface, plane) ==
  /\ plane.width <= surface.width /\ plane.height <= surface.height
  /\ plane.offset % surface.alignment = 0
  /\ RowBytes(surface.storage, plane.width, plane.channels) <= plane.stride
  /\ PlaneExtent(surface, plane)[2] <= surface.length

SurfaceValid(surface) ==
  /\ surface.width > 0 /\ surface.height > 0 /\ surface.planes # <<>>
  /\ \A p \in DOMAIN surface.planes : PlaneValid(surface, surface.planes[p])
  /\ \A p, q \in DOMAIN surface.planes :
        LET first == PlaneExtent(surface, surface.planes[p])
            second == PlaneExtent(surface, surface.planes[q])
        IN  p < q => ~(first[1] < second[2] /\ second[1] < first[2])

SurfaceOf(job, planes, length, alignment) ==
  LET surface == [width |-> job.crop.width, height |-> job.crop.height, storage |-> job.storage,
                  planes |-> planes, length |-> length, alignment |-> alignment]
  IN  IF SurfaceValid(surface) THEN <<surface>> ELSE <<>>

TightlyPacked(job, alignment) ==
  LET stride == RowBytes(job.storage, job.crop.width, ChannelCount(job))
  IN  SurfaceOf(job, <<[offset |-> 0, stride |-> stride, width |-> job.crop.width,
                        height |-> job.crop.height, channels |-> ChannelCount(job)]>>,
                stride * job.crop.height, alignment)

\* A plane for each component of subsampled output, each at an aligned byte.
ForOutput(job, alignment) ==
  LET full == <<job.crop.width, job.crop.height>>
      chroma == <<job.crop.width \div 2, job.crop.height \div (IF job.output = "yuv420" THEN 2 ELSE 1)>>
      extents == <<full, chroma, chroma>> \o (IF job.layout = "yuva" THEN <<full>> ELSE <<>>)
      Bytes(p) == RowBytes(job.storage, extents[p][1], 1) * extents[p][2]
      start[p \in 1..5] == IF p = 1 THEN 0 ELSE AlignUp(start[p - 1] + Bytes(p - 1), alignment)
      last == Len(extents)
  IN  IF job.output \notin Subsampled THEN TightlyPacked(job, alignment)
      ELSE SurfaceOf(job, [p \in 1..last |->
                            [offset |-> start[p], stride |-> RowBytes(job.storage, extents[p][1], 1),
                             width |-> extents[p][1], height |-> extents[p][2], channels |-> 1]],
                     start[last] + Bytes(last), alignment)

-----------------------------------------------------------------------------
(***************************************************************************)
(* The parameters of a dispatch (device_plan/output.rs).  Fields that      *)
(* alpha has of its own are functions of "is it alpha".                    *)
(***************************************************************************)
ReconstructedPlanes(job) == job.planes \o job.alpha

SampleDescriptors(job) ==
  LET planes == ReconstructedPlanes(job)
      start[p \in 1..Len(planes)] == IF p = 1 THEN 0 ELSE start[p - 1] + Len(planes[p - 1].samples)
  IN  [p \in DOMAIN planes |->
         [offset |-> start[p], x |-> planes[p].x, y |-> planes[p].y,
          width |-> planes[p].width, height |-> planes[p].height, alpha |-> p > Len(job.planes)]]

\* The first alpha plane where the layout has one; 0 is none.
AlphaPlane(job, samples) ==
  LET found == {p \in DOMAIN samples : samples[p].alpha}
  IN  IF job.layout \notin AlphaLayouts THEN <<0>>
      ELSE IF found = {} THEN <<>> ELSE <<CHOOSE p \in found : \A q \in found : p <= q>>

MathPolicy(job) ==
  /\ (job.internal \in Subsampled /\ job.output \notin Subsampled \cup {"yuv444"})
        => job.centering[1] <= 4 /\ job.centering[2] <= 4
  /\ job.depth.kind = "F32" => job.depth.mantissa <= 23
  /\ job.alphaDepth.kind = "F32" => job.alphaDepth.mantissa <= 23

DepthFields(depth) ==
  [shift |-> IF depth.kind \in {"U16", "I16", "I32"} THEN depth.shift ELSE 0,
   mantissa |-> IF depth.kind = "F32" THEN depth.mantissa ELSE 0,
   exponent |-> IF depth.kind = "F32" THEN depth.exponent ELSE 0]

ColorCode(color) ==
  IF color \in Subsampled \cup {"yuv444"} THEN <<"yuv", color>> ELSE <<color, "none">>

StorePipeline(storage) ==
  CASE storage \in {"Rgb555", "Rgb565"} -> "Packed16"
    [] storage \in {"Rgb101010", "Rgbe"} -> "Packed32"
    [] OTHER -> storage

OutputParameters(job, surface, samples) ==
  LET alpha == AlphaPlane(job, samples)
      Of(primary, own) == [isAlpha \in BOOLEAN |-> IF isAlpha THEN own ELSE primary]
      fields == Of(DepthFields(job.depth), DepthFields(job.alphaDepth))
  IN  IF alpha = <<>> \/ ~MathPolicy(job) THEN <<>>
      ELSE <<[width |-> surface.width, height |-> surface.height, x |-> job.crop.x, y |-> job.crop.y,
              components |-> Len(job.planes), alpha |-> alpha[1],
              internal |-> ColorCode(job.internal)[1], output |-> ColorCode(job.output)[1],
              sampling |-> ColorCode(job.internal)[2], centering |-> job.centering,
              depth |-> job.depth.kind, layout |-> job.layout, channels |-> ChannelCount(job),
              scaled |-> Of(job.scaled, job.alphaScaled), premultiply |-> job.premultiply,
              kept |-> job.kept, fields |-> fields, plane |-> 1, planes |-> Len(surface.planes)]>>

\* With the samples of the planes one after another.
OutputDispatch(job) ==
  LET surface == ForOutput(job, 1)
      samples == SampleDescriptors(job)
      params == IF surface = <<>> THEN <<>> ELSE OutputParameters(job, surface[1], samples)
      planes == ReconstructedPlanes(job)
  IN  IF params = <<>> \/ ~PreparedOutput(job) THEN <<>>
      ELSE <<[arena |-> FlattenSeq([p \in DOMAIN planes |-> planes[p].samples]),
              samples |-> samples, surfaces |-> surface[1].planes, params |-> params[1],
              pipeline |-> StorePipeline(job.storage), planar |-> job.output \in Subsampled]>>

\* What the kernels of a dispatch wrote, or the error one of them left in status.
Dispatched(dispatch, stores) ==
  IF <<>> \in stores THEN <<>>
  ELSE <<[bytes |-> UNION {store[1] : store \in stores}, planes |-> dispatch.surfaces]>>

PlaneCount(dispatch) == IF dispatch.planar THEN Len(dispatch.surfaces) ELSE 1

\* Threads of a plane: one for a pixel, or for a byte of bits.
Grid(dispatch, surface) ==
  (0..((IF dispatch.pipeline = "BitPacked" THEN (surface.width + 7) \div 8 ELSE surface.width) - 1))
    \X (0..(surface.height - 1))

ElementOf(pipeline) ==
  CASE pipeline \in {"U8", "BitPacked"} -> 1
    [] pipeline \in {"I32", "F32", "Packed32"} -> 4
    [] OTHER -> 2

OutputIndex(surface, x, y, channel, bytes) ==
  surface.offset + y * surface.stride + (x * surface.channels + channel) * bytes

-----------------------------------------------------------------------------
(***************************************************************************)
(* The CUDA kernels (kernels/output.rs): exact wide products, and an error *)
(* from the first step that leaves the word.  d is a dispatch whose        *)
(* params are those of one plane.                                          *)
(***************************************************************************)
CudaRead(d, i, x, y) ==
  LET plane == d.samples[i] IN d.arena[plane.offset + (y - plane.y) * plane.width + x - plane.x + 1]

CudaClamped(d, i, x, y) ==
  LET plane == d.samples[i]
  IN  d.arena[plane.offset + Clamp(y - plane.y, 0, plane.height - 1) * plane.width
                + Clamp(x - plane.x, 0, plane.width - 1) + 1]

CudaUpsample(previous, current, next, centering) ==
  LET w == CASE centering = 0 -> <<4, 4, 0, 8>> [] centering = 1 -> <<5, 3, 1, 7>>
             [] centering = 2 -> <<6, 2, 2, 6>> [] centering = 3 -> <<7, 1, 3, 5>>
             [] OTHER -> <<8, 0, 4, 4>>
  IN  <<Shr(previous * w[3] + current * w[4] + 4, 3), Shr(current * w[1] + next * w[2] + 4, 3)>>

CudaChroma(d, i, x, y) ==
  LET p == d.params
      column == x \div 2
      Vertical(c) ==
        CudaUpsample(CudaClamped(d, i, c, (y \div 2) - 1), CudaClamped(d, i, c, y \div 2),
                     CudaClamped(d, i, c, (y \div 2) + 1), p.centering[2])[(y % 2) + 1]
      At(c) == IF p.sampling = "yuv422" THEN CudaClamped(d, i, c, y) ELSE Vertical(c)
  IN  IF p.sampling = "yuv444" THEN CudaRead(d, i, x, y)
      ELSE CudaUpsample(At(column - 1), At(column), At(column + 1), p.centering[1])[(x % 2) + 1]

CudaConverted(d, x, y) ==
  LET p == d.params
      in == [c \in 1..4 |->
              IF c > p.components THEN 0
              ELSE IF c > 1 /\ p.internal = "yuv" THEN CudaChroma(d, c, x, y) ELSE CudaRead(d, c, x, y)]
      green == in[1] - Shr(-in[2], 1)
      red == green - in[2] - (Shr(in[3], 1) + (in[3] % 2))
      rgb == IF p.depth \in PackedDepths /\ ~p.kept THEN <<in[3] + red, green, red, in[4]>>
             ELSE <<red, green, in[3] + red, in[4]>>
      black == in[4] + Shr(in[1], 1)
      magenta == black - in[1] - Shr(in[2], 1)
      cyan == in[2] + magenta + Shr(in[3], 1)
  IN  CASE p.internal = "luma" /\ p.output = "rgb" -> <<<<in[1], in[1], in[1], in[4]>>>>
        [] p.internal = "yuv" /\ p.output \in {"rgb", "rgbe"} ->
             Exact({-in[2], green, green - in[2], red, in[3] + red}, rgb)
        [] p.internal = "yuvk" /\ p.output = "cmyk" ->
             Exact({black, black - in[1], magenta, in[2] + magenta, cyan, cyan - in[3]},
                   <<cyan, magenta, cyan - in[3], black>>)
        [] p.internal = "yuvk" /\ p.output = "cmykdirect" -> <<<<in[2], in[3], in[4], in[1]>>>>
        [] OTHER -> <<in>>

CudaScale(p, sample, component, alpha) ==
  LET base == CASE p.depth = "U8" -> 128 [] p.depth \in {"U10", "Rgb101010"} -> 512
                [] p.depth = "U16" -> Shr(32768, p.fields[alpha].shift)
                [] p.depth = "Rgb555" -> 16 [] p.depth = "Rgb565" -> 32 [] OTHER -> 0
      bias == CASE alpha -> base
                [] p.output = "cmyk" -> IF component < 3 THEN Shr(base, 1) ELSE -Shr(base, 1)
                [] p.output = "rgbe" -> 0
                [] OTHER -> base
      down == IF p.scaled[alpha] THEN 3 ELSE 0
      biased == sample + bias * 2^down
      rounded == biased + (IF down = 0 THEN 0 ELSE IF p.depth \in {"Bit1White", "Bit1Black", "U16"} THEN 4 ELSE 3)
      downscaled == Shr(rounded, down + (IF p.depth = "Rgb565" /\ component # 1 THEN 1 ELSE 0))
      result == IF p.depth \in {"U16", "I16", "I32"} THEN downscaled * 2^p.fields[alpha].shift ELSE downscaled
  IN  Exact({bias * 2^down, biased, rounded, result}, result)

CudaFloat16(p, sample, alpha) ==
  LET scaled == CudaScale(p, sample, 0, alpha)
  IN  IF scaled = <<>> THEN <<>>
      ELSE <<(IF scaled[1] < 0 THEN 32768 ELSE 0) + Lesser(Magnitude(scaled[1]), 32767)>>

CudaFloat32(p, sample, alpha) ==
  LET scaled == CudaScale(p, sample, 0, alpha)
  IN  IF scaled = <<>> THEN <<>> ELSE FloatFields(scaled[1], p.fields[alpha].mantissa, p.fields[alpha].exponent)

CudaIsAlpha(p, channel) == p.alpha # 0 /\ channel = p.channels - 1

CudaComponent(d, channel, x, y) ==
  LET p == d.params
      source == IF Reversed(p.layout) /\ channel < 3 THEN 2 - channel ELSE channel
      color == CudaConverted(d, x, y)
  IN  CASE CudaIsAlpha(p, channel) -> <<CudaRead(d, p.alpha, x, y)>>
        [] p.output = "n" -> <<CudaRead(d, channel + 1, x, y)>>
        [] OTHER -> IF color = <<>> THEN <<>> ELSE <<color[1][source + 1]>>

CudaPadding(p, channel) == p.layout \in {"rgbx", "bgrx"} /\ channel = 3

\* A value and the opacity of its pixel, for each depth that multiplies them.
CudaPremultiplied(depth, value, opacity) ==
  CASE depth = "U8" -> PremultiplyUnsigned(Clamp(value, 0, 255), Clamp(opacity, 0, 255), 255)
    [] depth \in {"U10", "U16"} -> PremultiplyUnsigned(Clamp(value, 0, 65535), Clamp(opacity, 0, 65535), 65535)
    [] depth = "I16" -> PremultiplySigned(value, opacity, 32767)
    [] depth = "I32" -> PremultiplySigned(value, opacity, WordMax)

CudaFormatted(d, channel, x, y) ==
  LET p == d.params
      alpha == CudaIsAlpha(p, channel)
      sample == CudaComponent(d, channel, x, y)
      value == IF sample = <<>> THEN <<>> ELSE CudaScale(p, sample[1], channel, alpha)
      opacity == CudaScale(p, CudaRead(d, p.alpha, x, y), 0, TRUE)
  IN  IF CudaPadding(p, channel) THEN <<0>>
      ELSE IF value = <<>> \/ ~p.premultiply \/ alpha \/ p.alpha = 0 THEN value
      ELSE IF opacity = <<>> THEN <<>> ELSE <<CudaPremultiplied(p.depth, value[1], opacity[1])>>

\* Planes of subsampled output are read at a sample of their own.
CudaIntegerValue(d, channel, x, y) ==
  LET p == d.params
      chroma == p.plane \in {2, 3}
      source == IF p.plane <= 3 THEN p.plane ELSE p.alpha
      down == IF chroma THEN 2 ELSE 1
      rows == IF chroma /\ p.sampling = "yuv420" THEN 2 ELSE 1
  IN  IF p.planes = 1 THEN CudaFormatted(d, channel, p.x + x, p.y + y)
      ELSE CudaScale(p, CudaRead(d, source, (p.x \div down) + x, (p.y \div rows) + y), p.plane - 1, p.plane > 3)

CudaBits(d, surface, x, y) ==
  LET p == d.params
      pixels == {k \in 0..7 : x * 8 + k < surface.width}
      scaled == [k \in pixels |-> CudaScale(p, CudaRead(d, 1, p.x + x * 8 + k, p.y + y), 0, FALSE)]
      Bit(k) == LET clipped == Clamp(scaled[k][1], 0, 1)
                IN  2^(7 - k) * (IF p.depth = "Bit1Black" THEN 1 - clipped ELSE clipped)
      byte[k \in 0..8] == IF k = 0 THEN 0 ELSE byte[k - 1] + (IF k - 1 \in pixels THEN Bit(k - 1) ELSE 0)
  IN  IF \E k \in pixels : scaled[k] = <<>> THEN <<>>
      ELSE <<{<<surface.offset + y * surface.stride + x, byte[8]>>}>>

CudaIntegers(d, surface, x, y) ==
  LET p == d.params
      range == Ranges(p.depth)
      values == [c \in 1..(IF p.planes > 1 THEN 1 ELSE surface.channels) |-> CudaIntegerValue(d, c - 1, x, y)]
      Index(c) == OutputIndex(surface, x, y, c - 1, ElementOf(d.pipeline))
  IN  IF \E c \in DOMAIN values : values[c] = <<>> THEN <<>>
      ELSE <<{<<Index(c), Clamp(values[c][1], range[1], range[2])>> : c \in DOMAIN values}>>

CudaFloats(d, surface, x, y) ==
  LET p == d.params
      half == d.pipeline = "F16"
      Bits(sample, alpha) == IF half THEN CudaFloat16(p, sample, alpha) ELSE CudaFloat32(p, sample, alpha)
      opacity == IF p.alpha = 0 THEN <<0>> ELSE Bits(CudaRead(d, p.alpha, p.x + x, p.y + y), TRUE)
      Value(channel) ==
        LET alpha == CudaIsAlpha(p, channel)
            sample == CudaComponent(d, channel, p.x + x, p.y + y)
            bits == IF sample = <<>> THEN <<>> ELSE Bits(sample[1], alpha)
        IN  CASE CudaPadding(p, channel) -> <<IF half THEN 0 ELSE <<0, 0, 0>>>>
              [] bits = <<>> -> <<>>
              [] p.premultiply /\ ~alpha ->
                   <<IF half THEN PremultiplyMagnitude15(bits[1], opacity[1]) ELSE PremultiplyF32(bits[1], opacity[1])>>
              [] OTHER -> bits
      values == IF opacity = <<>> THEN <<<<>>>> ELSE [c \in 1..p.channels |-> Value(c - 1)]
  IN  IF \E c \in DOMAIN values : values[c] = <<>> THEN <<>>
      ELSE <<{<<OutputIndex(surface, x, y, c - 1, ElementOf(d.pipeline)), values[c][1]>> : c \in DOMAIN values}>>

CudaRgbe(rgb) ==
  LET Exponent(v) == IF v <= 0 THEN 0 ELSE IF Shr(v, 7) > 1 THEN Shr(v, 7) ELSE 1
      Mantissa(v) == IF v <= 0 THEN 0 ELSE IF Shr(v, 7) > 1 THEN (v % 128) + 128 ELSE v
      exponent == Greatest({Exponent(rgb[c]) : c \in 1..3})
      Aligned(v) ==
        LET difference == exponent - Exponent(v)
        IN  IF difference = 0 THEN Mantissa(v)
            ELSE IF difference >= 28 THEN 0 ELSE Shr(2 * Mantissa(v) + 1, difference + 1)
  IN  [c \in 1..3 |-> Lesser(Aligned(rgb[c]), 255)] \o <<Lesser(exponent, 255)>>

CudaPacked(d, surface, x, y) ==
  LET p == d.params
      color == CudaConverted(d, p.x + x, p.y + y)
      values == IF color = <<>> THEN <<>> ELSE Whole([c \in 1..3 |-> CudaScale(p, color[1][c], c - 1, FALSE)])
      shifts == CASE d.pipeline = "Packed32" -> <<20, 10, 0>> [] p.depth = "Rgb565" -> <<11, 5, 0>>
                  [] OTHER -> <<10, 5, 0>>
      Part(c) == LET most == CASE d.pipeline = "Packed32" -> 1023
                               [] p.depth = "Rgb565" /\ c = 2 -> 63 [] OTHER -> 31
                 IN  Clamp(values[1][c], 0, most) * 2^shifts[c]
      index == surface.offset + y * surface.stride + x * ElementOf(d.pipeline)
  IN  IF values = <<>> THEN <<>>
      ELSE IF d.pipeline = "Packed32" /\ p.output = "rgbe" THEN <<{<<index, CudaRgbe(values[1])>>}>>
      ELSE <<{<<index, Part(1) + Part(2) + Part(3)>>}>>

\* One thread of output::write.
CudaWrite(d, surface, x, y) ==
  CASE d.pipeline = "BitPacked" -> CudaBits(d, surface, x, y)
    [] d.pipeline \in {"U8", "U16", "I16", "I32"} -> CudaIntegers(d, surface, x, y)
    [] d.pipeline \in {"F16", "F32"} -> CudaFloats(d, surface, x, y)
    [] OTHER -> CudaPacked(d, surface, x, y)

\* output_store: a thread outside the surface, or after a failure, writes nothing.
CudaStore(d, x, y) ==
  LET surface == d.surfaces[d.params.plane]
  IN  IF <<x, y>> \in Grid(d, surface) THEN CudaWrite(d, surface, x, y) ELSE <<{}>>

\* launch_output: blocks of 16 by 16 threads over each plane.
LaunchOutput(dispatch) ==
  LET Blocks(n) == ((n + 15) \div 16) * 16
      Threads(plane) ==
        LET width == Greatest({t[1] + 1 : t \in Grid(dispatch, dispatch.surfaces[plane])} \cup {0})
        IN  (0..(Blocks(width) - 1)) \X (0..(Blocks(dispatch.surfaces[plane].height) - 1))
      Store(plane) ==
        LET d == [dispatch EXCEPT !.params.plane = plane]
        IN  {CudaStore(d, thread[1], thread[2]) : thread \in Threads(plane)}
  IN  Dispatched(dispatch, UNION {Store(plane) : plane \in 1..PlaneCount(dispatch)})

-----------------------------------------------------------------------------
(***************************************************************************)
(* The Metal kernels (output.metal): wrapping words and a flag for those   *)
(* that overflowed, [value, overflow]; a thread stores and then fails.     *)
(***************************************************************************)
Word(n) == [value |-> Wrap(n), overflow |-> ~InWord(n)]

MetalRead(d, i, x, y) ==
  LET plane == d.samples[i] IN d.arena[plane.offset + (y - plane.y) * plane.width + x - plane.x + 1]

MetalCentering(code) ==
  CASE code = 0 -> <<4, 4, 0, 8>> [] code = 1 -> <<5, 3, 1, 7>> [] code = 2 -> <<6, 2, 2, 6>>
    [] code = 3 -> <<7, 1, 3, 5>> [] OTHER -> <<8, 0, 4, 4>>

\* In eighths and their rests, so that no product leaves the word.
MetalWeighted(first, weight, second, other) ==
  weight * Shr(first, 3) + other * Shr(second, 3)
    + Shr(weight * (first % 8) + other * (second % 8) + 4, 3)

MetalUpsamplePair(previous, current, next, centering) ==
  LET h == MetalCentering(centering)
  IN  <<MetalWeighted(previous, h[3], current, h[4]), MetalWeighted(current, h[1], next, h[2])>>

MetalClamped(d, i, x, y) ==
  LET plane == d.samples[i]
      column == Clamp(x - plane.x, 0, plane.width - 1)
      row == Clamp(y - plane.y, 0, plane.height - 1)
  IN  d.arena[plane.offset + row * plane.width + column + 1]

MetalChroma(d, i, x, y) ==
  LET p == d.params
      cx == x \div 2
      cy == y \div 2
      vertical == [k \in 1..3 |->
        MetalUpsamplePair(MetalClamped(d, i, cx + k - 2, cy - 1), MetalClamped(d, i, cx + k - 2, cy),
                          MetalClamped(d, i, cx + k - 2, cy + 1), p.centering[2])[(y % 2) + 1]]
      row == IF p.sampling = "yuv422" THEN [k \in 1..3 |-> MetalClamped(d, i, cx + k - 2, y)] ELSE vertical
  IN  IF p.sampling = "yuv444" THEN MetalRead(d, i, x, y)
      ELSE MetalUpsamplePair(row[1], row[2], row[3], p.centering[1])[(x % 2) + 1]

MetalPrimary(d, x, y) ==
  [c \in 1..4 |-> IF c > d.params.components THEN 0
                  ELSE IF c > 1 /\ d.params.internal = "yuv" THEN MetalChroma(d, c, x, y)
                  ELSE MetalRead(d, c, x, y)]

\* Whether one of the words of some steps overflowed.
Overflows(words) == \E w \in words : w.overflow

MetalConverted(d, x, y) ==
  LET p == d.params
      in == MetalPrimary(d, x, y)
      Done(values, words) == [value |-> values, overflow |-> Overflows(words)]
      temporary == Word(-in[2])
      green == Word(in[1] - Shr(temporary.value, 1))
      sum == Word(temporary.value + green.value)
      red == Word(sum.value - (Shr(in[3], 1) + (in[3] % 2)))
      blue == Word(in[3] + red.value)
      black == Word(in[4] + Shr(in[1], 1))
      paler == Word(black.value - in[1])
      magenta == Word(paler.value - Shr(in[2], 1))
      half == Word(in[2] + magenta.value)
      cyan == Word(half.value + Shr(in[3], 1))
      yellow == Word(cyan.value - in[3])
  IN  CASE p.internal = "luma" /\ p.output = "rgb" -> Done(<<in[1], in[1], in[1], in[4]>>, {})
        [] p.internal = "yuv" /\ p.output \in {"rgb", "rgbe"} ->
             Done(IF p.depth \in PackedDepths /\ ~p.kept THEN <<blue.value, green.value, red.value, in[4]>>
                  ELSE <<red.value, green.value, blue.value, in[4]>>, {temporary, green, sum, red, blue})
        [] p.internal = "yuvk" /\ p.output = "cmyk" ->
             Done(<<cyan.value, magenta.value, yellow.value, black.value>>,
                  {black, paler, magenta, half, cyan, yellow})
        [] p.internal = "yuvk" /\ p.output = "cmykdirect" -> Done(<<in[2], in[3], in[4], in[1]>>, {})
        [] OTHER -> Done(in, {})

\* jxr_load_pixel: pixels of any number of components are not converted.
MetalPixel(d, x, y) ==
  IF d.params.output = "n" THEN [value |-> <<0, 0, 0, 0>>, overflow |-> FALSE] ELSE MetalConverted(d, x, y)

MetalBias(depth, shift) ==
  CASE depth = "U8" -> 128 [] depth \in {"U10", "Rgb101010"} -> 512 [] depth = "U16" -> Shr(32768, shift)
    [] depth = "Rgb555" -> 16 [] depth = "Rgb565" -> 32 [] OTHER -> 0

\* The word shifted back must be the value.
MetalShl(value, bits) ==
  LET shifted == Wrap(value * 2^bits) IN [value |-> shifted, overflow |-> Shr(shifted, bits) # value]

MetalScale(p, sample, component, alpha) ==
  LET base == MetalBias(p.depth, p.fields[alpha].shift)
      bias == IF alpha THEN base
              ELSE CASE p.output = "cmyk" -> IF component < 3 THEN Shr(base, 1) ELSE -Shr(base, 1)
                     [] p.output = "rgbe" -> 0
                     [] OTHER -> base
      scale == IF p.scaled[alpha] THEN 3 ELSE 0
      biased == Word(sample + bias * 2^scale)
      rounding == IF scale = 0 THEN 0 ELSE IF p.depth \in {"Bit1White", "Bit1Black", "U16"} THEN 4 ELSE 3
      rounded == Word(biased.value + rounding)
      down == Shr(rounded.value, IF p.depth = "Rgb565" /\ component # 1 THEN scale + 1 ELSE scale)
      result == IF p.depth \in {"U16", "I16", "I32"} THEN MetalShl(down, p.fields[alpha].shift)
                ELSE [value |-> down, overflow |-> FALSE]
  IN  [value |-> result.value, overflow |-> Overflows({biased, rounded, result})]

MetalFloat16(p, sample, alpha) ==
  LET scaled == MetalScale(p, sample, 0, alpha)
  IN  [scaled EXCEPT !.value = (IF @ < 0 THEN 32768 ELSE 0) + Lesser(Magnitude(@), 32767)]

MetalFloat32(p, sample, alpha) ==
  LET scaled == MetalScale(p, sample, 0, alpha)
      bits == FloatFields(scaled.value, p.fields[alpha].mantissa, p.fields[alpha].exponent)
  IN  IF bits = <<>> THEN [value |-> <<0, 0, 0>>, overflow |-> TRUE]
      ELSE [value |-> bits[1], overflow |-> scaled.overflow]

\* Multiplied in a word where the maximum is below 2^16, and in a wide one.
MetalUnsignedPremultiply(value, opacity, maximum) ==
  NearestProduct(Lesser(value, maximum), Lesser(opacity, maximum), maximum)
MetalSignedPremultiply(value, opacity, maximum) ==
  LET product == NearestProduct(Magnitude(value), Clamp(opacity, 0, maximum), maximum)
  IN  Wrap(IF value < 0 THEN -product ELSE product)

MetalPadding(p, channel) == channel = 3 /\ p.layout \in {"rgbx", "bgrx"}

\* The sample of a channel, and whether it is alpha.
MetalChannel(d, channel, x, y, color) ==
  LET p == d.params
      alpha == p.alpha # 0 /\ channel = p.channels - 1
      source == IF p.layout \in {"bgr", "bgra", "bgrx"} /\ channel < 3 THEN 2 - channel ELSE channel
  IN  [alpha |-> alpha,
       sample |-> CASE alpha -> MetalRead(d, p.alpha, x, y)
                    [] p.output = "n" -> MetalRead(d, channel + 1, x, y)
                    [] MetalPadding(p, channel) -> 0
                    [] OTHER -> color[source + 1]]

\* The scaled alpha of a pixel, where its colours are multiplied.
MetalOpacity(d, x, y) ==
  IF ~d.params.premultiply \/ d.params.alpha = 0 THEN [value |-> 0, overflow |-> FALSE]
  ELSE MetalScale(d.params, MetalRead(d, d.params.alpha, x, y), 0, TRUE)

MetalFormatted(d, channel, x, y, color, opacity) ==
  LET p == d.params
      read == MetalChannel(d, channel, x, y, color)
      scaled == MetalScale(p, read.sample, channel, read.alpha)
      value == scaled.value
  IN  IF MetalPadding(p, channel) THEN [value |-> 0, overflow |-> FALSE]
      ELSE IF ~p.premultiply \/ read.alpha \/ p.alpha = 0 THEN scaled
      ELSE [scaled EXCEPT !.value =
              CASE p.depth = "U8" -> MetalUnsignedPremultiply(Clamp(value, 0, 255), Clamp(opacity, 0, 255), 255)
                [] p.depth \in {"U10", "U16"} ->
                     MetalUnsignedPremultiply(Clamp(value, 0, 65535), Clamp(opacity, 0, 65535), 65535)
                [] p.depth = "I16" -> MetalSignedPremultiply(value, opacity, 32767)
                [] p.depth = "I32" -> MetalSignedPremultiply(value, opacity, WordMax)
                [] OTHER -> value]

MetalPlanar(d, x, y) ==
  LET p == d.params
      chroma == p.plane \in {2, 3}
      column == (p.x \div (IF chroma THEN 2 ELSE 1)) + x
      row == (p.y \div (IF chroma /\ p.sampling = "yuv420" THEN 2 ELSE 1)) + y
  IN  MetalScale(p, MetalRead(d, IF p.plane <= 3 THEN p.plane ELSE p.alpha, column, row), p.plane - 1, p.plane > 3)

\* What the words at some places are, unless one of them overflowed.
Stores(surface, x, y, bytes, words, overflow) ==
  IF overflow \/ \E c \in DOMAIN words : words[c].overflow THEN <<>>
  ELSE <<{<<OutputIndex(surface, x, y, c - 1, bytes), words[c].value>> : c \in DOMAIN words}>>

\* JXR_INTEGER_STORE, and jxr_output_u8 with the range of its own.
MetalIntegers(d, surface, x, y, range) ==
  LET p == d.params
      bytes == ElementOf(d.pipeline)
      at == <<p.x + x, p.y + y>>
      color == MetalPixel(d, at[1], at[2])
      opacity == MetalOpacity(d, at[1], at[2])
      Clamped(word) == [word EXCEPT !.value = Clamp(@, range[1], range[2])]
  IN  IF p.planes > 1 THEN Stores(surface, x, y, bytes, <<Clamped(MetalPlanar(d, x, y))>>, FALSE)
      ELSE Stores(surface, x, y, bytes,
                  [c \in 1..surface.channels |->
                     Clamped(MetalFormatted(d, c - 1, at[1], at[2], color.value, opacity.value))],
                  color.overflow \/ opacity.overflow)
MetalU8(d, surface, x, y) == MetalIntegers(d, surface, x, y, <<0, 255>>)
MetalWide(d, surface, x, y) ==
  MetalIntegers(d, surface, x, y, CASE d.pipeline = "U16" -> <<0, IF d.params.depth = "U10" THEN 1023 ELSE 65535>>
                                    [] d.pipeline = "I16" -> <<-32768, 32767>>
                                    [] d.pipeline = "I32" -> <<-WordMax - 1, WordMax>>)

MetalF16(d, surface, x, y) ==
  LET p == d.params
      at == <<p.x + x, p.y + y>>
      opacity == IF p.alpha = 0 THEN Word(0) ELSE MetalFloat16(p, MetalRead(d, p.alpha, at[1], at[2]), TRUE)
      color == MetalPixel(d, at[1], at[2])
      Value(channel) ==
        LET read == MetalChannel(d, channel, at[1], at[2], color.value)
            bits == MetalFloat16(p, read.sample, read.alpha)
        IN  IF MetalPadding(p, channel) THEN Word(0)
            ELSE IF ~p.premultiply \/ read.alpha THEN bits
            ELSE [bits EXCEPT !.value =
                   (@ \div 32768) * 32768 + MetalUnsignedPremultiply(
                     @ % 32768, IF opacity.value < 32768 THEN opacity.value ELSE 0, 32767)]
  IN  Stores(surface, x, y, 2, [c \in 1..p.channels |-> Value(c - 1)], color.overflow \/ opacity.overflow)

MetalF32(d, surface, x, y) ==
  LET p == d.params
      at == <<p.x + x, p.y + y>>
      opacity == IF p.alpha = 0 THEN [value |-> <<0, 0, 0>>, overflow |-> FALSE]
                 ELSE MetalFloat32(p, MetalRead(d, p.alpha, at[1], at[2]), TRUE)
      color == MetalPixel(d, at[1], at[2])
      Value(channel) ==
        LET read == MetalChannel(d, channel, at[1], at[2], color.value)
            bits == MetalFloat32(p, read.sample, read.alpha)
        IN  IF MetalPadding(p, channel) THEN [value |-> <<0, 0, 0>>, overflow |-> FALSE]
            ELSE IF ~p.premultiply \/ read.alpha THEN bits
            ELSE [bits EXCEPT !.value = PremultiplyF32(@, opacity.value)]
  IN  Stores(surface, x, y, 4, [c \in 1..p.channels |-> Value(c - 1)], color.overflow \/ opacity.overflow)

MetalBits(d, surface, x, y) ==
  LET p == d.params
      pixels == {k \in 0..7 : x * 8 + k < surface.width}
      scaled == [k \in pixels |-> MetalScale(p, MetalRead(d, 1, p.x + x * 8 + k, p.y + y), 0, FALSE)]
      Bit(k) == LET clipped == Clamp(scaled[k].value, 0, 1)
                IN  IF p.depth = "Bit1Black" THEN 1 - clipped ELSE clipped
      byte[k \in 0..8] == IF k = 0 THEN 0 ELSE 2 * byte[k - 1] + (IF k - 1 \in pixels THEN Bit(k - 1) ELSE 0)
  IN  IF \E k \in pixels : scaled[k].overflow THEN <<>>
      ELSE <<{<<surface.offset + y * surface.stride + x, byte[8]>>}>>

\* The three scaled colours of a pixel.
MetalScaled(d, x, y) ==
  LET color == MetalConverted(d, d.params.x + x, d.params.y + y)
      words == [c \in 1..3 |-> MetalScale(d.params, color.value[c], c - 1, FALSE)]
  IN  IF color.overflow \/ \E c \in 1..3 : words[c].overflow THEN <<>> ELSE <<[c \in 1..3 |-> words[c].value]>>

MetalPacked16(d, surface, x, y) ==
  LET scaled == MetalScaled(d, x, y)
      wide == d.params.depth = "Rgb565"
      packed == Clamp(scaled[1][1], 0, 31) * (IF wide THEN 2048 ELSE 1024)
                  + Clamp(scaled[1][2], 0, IF wide THEN 63 ELSE 31) * 32 + Clamp(scaled[1][3], 0, 31)
  IN  IF scaled = <<>> THEN <<>> ELSE <<{<<surface.offset + y * surface.stride + x * 2, packed>>}>>

MetalPacked32(d, surface, x, y) ==
  LET scaled == MetalScaled(d, x, y)
      encoded == [c \in 1..3 |->
        LET v == scaled[1][c]
        IN  IF v <= 0 THEN <<0, 0>> ELSE IF Shr(v, 7) > 1 THEN <<(v % 128) + 128, Shr(v, 7)>> ELSE <<v, 1>>]
      exponent == Greatest({encoded[c][2] : c \in 1..3})
      Mantissa(c) ==
        LET difference == exponent - encoded[c][2]
        IN  IF difference = 0 THEN encoded[c][1]
            ELSE IF difference >= 28 THEN 0 ELSE Shr(2 * encoded[c][1] + 1, difference + 1)
      rgbe == [c \in 1..3 |-> Lesser(Mantissa(c), 255)] \o <<Lesser(exponent, 255)>>
      tens == [c \in 1..3 |-> Clamp(scaled[1][c], 0, 1023)]
      index == surface.offset + y * surface.stride + x * 4
  IN  IF scaled = <<>> THEN <<>>
      ELSE IF d.params.output = "rgbe" THEN <<{<<index, rgbe>>}>>
      ELSE <<{<<index, tens[1] * 1048576 + tens[2] * 1024 + tens[3]>>}>>

MetalStore(d, x, y) ==
  LET surface == d.surfaces[d.params.plane]
  IN  CASE d.pipeline = "BitPacked" -> MetalBits(d, surface, x, y)
        [] d.pipeline = "U8" -> MetalU8(d, surface, x, y)
        [] d.pipeline \in {"U16", "I16", "I32"} -> MetalWide(d, surface, x, y)
        [] d.pipeline = "F16" -> MetalF16(d, surface, x, y)
        [] d.pipeline = "F32" -> MetalF32(d, surface, x, y)
        [] d.pipeline = "Packed16" -> MetalPacked16(d, surface, x, y)
        [] OTHER -> MetalPacked32(d, surface, x, y)

-----------------------------------------------------------------------------
(***************************************************************************)
(* Metal pipelines (runtime.rs): one for each kind of store and the words  *)
(* compiled into it; the oldest goes when they are too many.               *)
(***************************************************************************)
\* The words that stay dynamic: geometry, crop, and the plane of this launch.
Dynamic == {"width", "height", "x", "y", "plane"}

\* Mutant: a word that is compiled in is left out of the key.
SpecializationKey_Bug(pipeline, params) ==
  [pipeline |-> pipeline, words |-> [f \in DOMAIN params \ (Dynamic \cup {"scaled"}) |-> params[f]]]
SpecializationKey(pipeline, params) ==
  [pipeline |-> pipeline, words |-> [f \in DOMAIN params \ Dynamic |-> params[f]]]

\* The constants of the pipeline a request gets, and those kept after it.
OutputPipeline(cache, pipeline, params) ==
  LET key == SpecializationKey(pipeline, params)
      found == {k \in DOMAIN cache : cache[k].key = key}
      kept == IF Len(cache) = Retained THEN Tail(cache) ELSE cache
      compiled == [key |-> key, constants |-> params]
  IN  IF found # {} THEN [constants |-> cache[CHOOSE k \in found : \A j \in found : k <= j].constants, cache |-> cache]
      ELSE [constants |-> params, cache |-> Append(kept, compiled)]

\* jxr_output_params: the words at run time, but for those compiled in.
MetalParameters(runtime, constants) ==
  [f \in DOMAIN runtime |-> IF f \in Dynamic THEN runtime[f] ELSE constants[f]]

\* encode_output_at.
EncodeOutput(dispatch, constants) ==
  LET Store(plane) ==
        LET d == [dispatch EXCEPT !.params = MetalParameters([@ EXCEPT !.plane = plane], constants)]
        IN  {MetalStore(d, thread[1], thread[2]) : thread \in Grid(dispatch, dispatch.surfaces[plane])}
  IN  Dispatched(dispatch, UNION {Store(plane) : plane \in 1..PlaneCount(dispatch)})

-----------------------------------------------------------------------------
(***************************************************************************)
(* A request made in each of the four ways, and by the packer that checks  *)
(* every step of every sample.                                             *)
(***************************************************************************)
Elements(job, made) ==
  IF made = <<>> THEN <<>>
  ELSE <<[bytes |-> {<<(k - 1) * ElementBytes(job.storage), made[1].samples[k]>> : k \in DOMAIN made[1].samples},
          planes |-> made[1].planes]>>

MadeOwned(job) == Elements(job, FormatImage(job))
MadeInto(job) == Elements(job, FormatImageInto(job))

MadeOnCuda(job) ==
  LET dispatch == OutputDispatch(job) IN IF dispatch = <<>> THEN <<>> ELSE LaunchOutput(dispatch[1])

\* What is stored, and the pipelines kept after it.
MadeOnMetal(job, pipelines) ==
  LET dispatch == OutputDispatch(job)
      used == OutputPipeline(pipelines, dispatch[1].pipeline, dispatch[1].params)
  IN  IF dispatch = <<>> THEN [stored |-> <<>>, pipelines |-> pipelines]
      ELSE [stored |-> EncodeOutput(dispatch[1], used.constants), pipelines |-> used.cache]

CheckedImage(job) ==
  LET prepared == Reconstructed(job)
      ready == prepared[1]
      checked == IF job.storage \in {"U8", "U16"} THEN Ordered(ready) ELSE FormatComponents([ready EXCEPT !.premultiply = FALSE])
      windows == ValidatedWindows(ready)
  IN  IF prepared = <<>> THEN <<>>
      ELSE IF job.output \in Subsampled THEN (IF windows = <<>> THEN <<>> ELSE PackWindows(ready, windows[1]))
      ELSE OnePlane(job, IF ~ValidRequest(ready) \/ checked = <<>> THEN <<>>
                         ELSE IF job.premultiply THEN <<PremultiplyOutput(ready, checked[1])>> ELSE checked)
MadeChecked(job) == Elements(job, CheckedImage(job))

\* The devices multiply I16 and U10 samples by alpha before they clamp them.
ClampedAfter(job) ==
  LET ready == Reconstructed(job)[1]
      visits == ForEachOrdered(ready)[1]
      range == Ranges(job.depth.kind)
  IN  /\ job.premultiply /\ job.depth.kind \in {"I16", "U10"}
      /\ \E k \in DOMAIN visits :
            LET scaled == ChannelScaled(ready, visits[k])[1] IN scaled < range[1] \/ scaled > range[2]
=============================================================================
