------------------------------ MODULE MCDecoding ------------------------------
(***************************************************************************)
(* Small instances of components that share no state: the CPU batch        *)
(* decoder, the two traversals of a tile of one component and of a tile of *)
(* several, decoding a region on the host, the overlap passes of the       *)
(* devices, the stores of host and devices, and the Metal session.  A      *)
(* behaviour is a behaviour of one of them, chosen in the first state,     *)
(* while the variables of the others stand still.                          *)
(***************************************************************************)
EXTENDS CpuBatch, MetalSession, OutputSessions, TLC

CONSTANTS
  Components,          \* those explored: "batch", "tile", "channels", "region", "device", "outputs", "metal"
  RegionImages,        \* of RegionDecode
  RegionsAsked(_, _),
  DeviceCommands,      \* of OverlapDevice
  HostOutput(_), DirectOutput(_), CudaOutput(_), MetalOutput(_, _), CheckedOutput(_), Reordered(_),
  Lanes, c1, c2

VARIABLES
  component,                                                        \* the one that runs
  packets, spatial, frequency,                                      \* TileBands, TileChannels, OutputRequests
  image, scale, region, stage, lists, window, plane, whole,         \* RegionDecode
  command, uses, samples, place, waiting, lanes, schedules          \* OverlapDevice

tileVars   == <<packets, spatial, frequency>>
regionVars == <<image, scale, region, stage, lists, window, plane, whole>>
deviceVars == <<command, uses, samples, place, waiting, lanes, schedules>>

-----------------------------------------------------------------------------
(***************************************************************************)
(* CpuBatch.  One caller decodes a batch of two interleaved groups and a   *)
(* prepared error, or is refused one with an input or an image too many.   *)
(* The other decodes a group into storage of its own, or of the wrong      *)
(* length.                                                                 *)
(***************************************************************************)
Batch3 == [layout |-> "nchw", indices |-> <<1, 3, 4>>, tiled |-> {1, 3}]
Batch1 == [layout |-> "nhwc", indices |-> <<2>>, tiled |-> {}]
Group2 == [layout |-> "nchw", indices |-> <<0, 1>>, tiled |-> {0}]

SmallCalls ==
  c1 :> {[kind |-> "decode", groups |-> <<Batch3, Batch1>>, errors |-> <<0>>],
         [kind |-> "decode", groups |-> <<Batch3, Batch1>>, errors |-> <<0, 5>>],
         [kind |-> "decode", groups |-> <<Batch3, [Batch1 EXCEPT !.indices = <<0, 2>>]>>, errors |-> <<>>]}
  @@ c2 :> {[kind |-> "into", groups |-> <<Group2>>, errors |-> <<>>, length |-> 2],
            [kind |-> "into", groups |-> <<Group2>>, errors |-> <<>>, length |-> 1]}

SomeCall == CHOOSE q \in [Callers -> AllCalls] : \A c \in Callers : q[c] \in Calls[c]

-----------------------------------------------------------------------------
(***************************************************************************)
(* TileBands.  A coder whose contexts are their whole history, so that any *)
(* difference between two contexts shows, on a tile wider than one reset   *)
(* period.                                                                 *)
(***************************************************************************)
FreshContext(band) == <<band>>
TotalsReset(c) == Append(c, "reset")
Adapted(c) == Append(c, "adapt")
AfterSymbol(c, s, mode, p) == Append(c, <<s, mode>>)
ModelBits(c) == Len(c) % 3
DcLevelOf(c, s) == s * 2^ModelBits(c)
LpLevelsOf(c, s) ==
  [k \in 1..15 |-> IF k \in {1, 5} THEN s * ModelBits(c)
                   ELSE IF k = 4 THEN 5 - s ELSE 0]
HpLevelOf(c, s, mode, p) == IF mode = "FromTop" THEN s ELSE -s

SmallBlocks ==
  {[lpIndex |-> 0, hpIndex |-> 1, dc |-> -2, lp |-> 0, hp |-> 0, flex |-> 3],
   [lpIndex |-> 1, hpIndex |-> 0, dc |-> 9, lp |-> 4, hp |-> 2, flex |-> 1]}

SmallHeaders ==
  {[dc |-> 3, lp |-> <<5, 6>>, hp |-> <<>>],
   [dc |-> 3, lp |-> <<>>, hp |-> <<7, 8>>]}

SmallFaults ==
  {{}} \cup {{<<<<1, 1>>, band>>} : band \in {"dc", "lp", "hp", "flex"}}

Tile == INSTANCE TileBands WITH
  content <- packets,
  Width <- 3, Height <- 2, Columns <- 2, Trims <- {1},
  Blocks <- SmallBlocks, Headers <- SmallHeaders, Faults <- SmallFaults,
  Fresh <- FreshContext, ResetTotals <- TotalsReset, Adapt <- Adapted, After <- AfterSymbol,
  Bits <- ModelBits, DcLevel <- DcLevelOf, LpLevels <- LpLevelsOf, HpLevel <- HpLevelOf

-----------------------------------------------------------------------------
(***************************************************************************)
(* TileChannels.  The same coder with a class for chroma; planes of every  *)
(* format, alone and with alpha of every selection of bands, at every      *)
(* scale, with escaped flexbits and with packets that cannot be read.      *)
(***************************************************************************)
BitsOfClass(c, class) == (Len(c) + (IF class = "luma" THEN 0 ELSE 1)) % 3
DcResidualOf(c, s, class) == s * 2^BitsOfClass(c, class)
LpBlockOf(c, s, class) ==
  [k \in 1..15 |-> IF k \in {1, 5} THEN s + BitsOfClass(c, class)
                   ELSE IF k \in {2, 4, 6} THEN 2 - s ELSE 0]
JointBlockOf(c, s) == [i \in 1..14 |-> ((s * i + Len(c)) % 5) - 2]

Vary(seed, p, c, n) == (seed * 7 + p[1] * 5 + p[2] * 3 + c * (seed + 2)) % n
ChannelBlock(seed, p, n) ==
  [lpIndex |-> Vary(seed, p, 0, 2), hpIndex |-> Vary(seed, p, 1, 2),
   lpCode |-> Vary(seed, p, 2, 8), refine |-> seed,
   dc |-> [c \in 0..n |-> Vary(seed, p, c, 11) - 5], lp |-> [c \in 0..n |-> Vary(seed, p, c, 5) - 2],
   hp |-> [c \in 0..n |-> Vary(seed, p, c, 3) - 1], flex |-> [c \in 0..n |-> Vary(seed, p, c, 4)]]

ChannelTables(inherits, n) ==
  LET Set(first) == [c \in 1..n |-> first + c]
  IN  IF inherits THEN [dc |-> Set(3), lp |-> <<Set(5), Set(6)>>, hp |-> <<>>]
      ELSE [dc |-> Set(3), lp |-> <<>>, hp |-> <<Set(7), Set(8)>>]

ChannelPlane(format, n, present, seed) ==
  [format |-> format, components |-> n, bands |-> present, header |-> ChannelTables(seed % 2 = 0, n),
   blocks |-> [p \in (0..2) \X (0..1) |-> ChannelBlock(seed, p, n - 1)]]
FormatSize == "luma" :> 1 @@ "yuv420" :> 3 @@ "yuv422" :> 3 @@ "yuv444" :> 3
                @@ "yuvk" :> 4 @@ "components" :> 2

Primary(format, present, seed) == ("primary" :> ChannelPlane(format, FormatSize[format], present, seed))
WithAlpha(format, present, alpha, seed) ==
  Primary(format, present, seed) @@ ("alpha" :> ChannelPlane("luma", 1, alpha, seed + 1))
ChannelTile(planes, reduced, escapes, unread) ==
  [planes |-> planes, scale |-> reduced, trim |-> 1, escaped |-> escapes, faults |-> unread]

Colours == DOMAIN FormatSize \ {"luma"}
SmallTiles ==
  LET bands == Tile!BandPresence
      all == Tile!AllBands
      broken == {{<<<<1, 1>>, band>>} : band \in all}
  IN  {ChannelTile(Primary(f, b, s), 1, FALSE, {}) : f \in Colours, b \in bands, s \in 1..3}
      \cup {ChannelTile(Primary(f, all, 2), d, e, {}) : f \in Colours, d \in {1, 4, 16}, e \in BOOLEAN}
      \cup {ChannelTile(Primary(f, all, 1), d, FALSE, u) :
               f \in {"yuv420", "yuvk"}, d \in {1, 4}, u \in broken}
      \cup {ChannelTile(WithAlpha(f, b, a, 1), 1, FALSE, {}) :
               f \in DOMAIN FormatSize, b \in bands, a \in bands}
      \cup {ChannelTile(WithAlpha(f, all, a, 2), d, e, {}) :
               f \in {"luma", "yuv422", "yuvk"}, a \in {all, Tile!NoFlexbits}, d \in {1, 4, 16}, e \in BOOLEAN}
      \cup {ChannelTile(WithAlpha("yuv444", all, all, 3), 1, FALSE, u) : u \in broken}

Channels == INSTANCE TileChannels WITH
  content <- packets,
  Width <- 3, Height <- 2, Columns <- 2, Trims <- {1},
  Blocks <- SmallBlocks, Headers <- SmallHeaders, Faults <- SmallFaults,
  Fresh <- FreshContext, ResetTotals <- TotalsReset, Adapt <- Adapted, After <- AfterSymbol,
  Bits <- ModelBits, DcLevel <- DcLevelOf, LpLevels <- LpLevelsOf, HpLevel <- HpLevelOf,
  Tiles <- SmallTiles, ClassBits <- BitsOfClass, DcResidual <- DcResidualOf,
  LpBlock <- LpBlockOf, JointBlock <- JointBlockOf

-----------------------------------------------------------------------------
(***************************************************************************)
(* RegionDecode.  An operator that sees which sample stands where; filters *)
(* and interpolation that reach over the window's edges on every side,     *)
(* tiles wider than a macroblock, margins inside a macroblock, every       *)
(* scale.                                                                  *)
(***************************************************************************)
Mixed(op, values) ==
  LET code == CASE op = "window" -> 1 [] op = "four" -> 2 [] op = "square" -> 3
                [] op = "pair" -> 4 [] op = "minus" -> 5 [] op = "plus" -> 6
      n[k \in 0..Len(values)] ==
        IF k = 0 THEN code ELSE (values[k] + 3 * n[k - 1]) % 9973
      mixed == n[Len(values)]
  IN  [i \in 1..(IF code > 4 THEN 1 ELSE Len(values)) |-> (i * mixed + values[i]) % 9973]

LowPass(x, y) == (37 * x + 101 * y + x * y * 13 + 11) % 9973
Detailed(low, x, y) == (low * 5 + 3 * x + 7 * y) % 9973

RegionImage(columns, rows, hard, overlap, blocks, planar, margins, size, scales) ==
  [columns |-> columns, rows |-> rows, hard |-> hard, overlap |-> overlap,
   blocks |-> blocks, planar |-> planar, centering |-> <<1, 2>>, margins |-> margins,
   size |-> size, scales |-> scales]

Three == <<1, 1, 1>>
Five == <<1, 1, 1, 1, 1>>
Y == <<4, 4>>
C420 == <<2, 2>>
C422 == <<2, 4>>

SmallImages ==
  {RegionImage(Five, <<1>>, FALSE, 2, Y, FALSE, <<5, 3>>, <<70, 10>>, {1}),
   RegionImage(<<1, 2, 2>>, <<1>>, TRUE, 2, Y, FALSE, <<0, 0>>, <<77, 15>>, {1, 4, 16}),
   RegionImage(Five, <<1>>, FALSE, 2, C420, FALSE, <<0, 0>>, <<80, 16>>, {1, 4, 16}),
   RegionImage(Five, <<1>>, FALSE, 0, C420, FALSE, <<5, 3>>, <<70, 13>>, {1}),
   RegionImage(<<1>>, Five, FALSE, 2, C420, FALSE, <<0, 0>>, <<16, 79>>, {1}),
   RegionImage(Five, <<1>>, TRUE, 1, C422, FALSE, <<4, 0>>, <<74, 16>>, {1, 4}),
   RegionImage(Five, <<1>>, FALSE, 2, C420, TRUE, <<0, 0>>, <<80, 16>>, {1, 4}),
   RegionImage(Three, Three, FALSE, 2, C420, FALSE, <<1, 2>>, <<40, 41>>, {1}),
   RegionImage(Three, <<2, 1>>, TRUE, 2, C420, FALSE, <<0, 16>>, <<48, 32>>, {1, 4, 16})}

\* Left or top edge, and extent, of regions of wide, tall and square images.
Cuts == {<<33, 14>>, <<31, 2>>, <<0, 16>>, <<47, 17>>, <<64, 6>>, <<15, 1>>, <<16, 32>>, <<11, 16>>}
Inner == {<<0, 10>>, <<14, 3>>, <<31, 9>>}
Across(cut) == [x |-> cut[1], y |-> 3, w |-> cut[2], h |-> 5]
Down(cut) == [x |-> 3, y |-> cut[1], w |-> 5, h |-> cut[2]]
Box(cut, down) ==
  [x |-> cut[1], y |-> down[1], w |-> cut[2],
   h |-> IF down[1] + down[2] > 32 THEN 32 - down[1] ELSE down[2]]
\* Planar output is asked for at even samples.
Even(cut, d) == [x |-> (cut[1] \div (2 * d)) * 2 * d, y |-> 0, w |-> 2 * d, h |-> 16]

SmallRegions(img, d) ==
  CASE img.planar -> {Even(cut, d) : cut \in Cuts}
    [] Len(img.rows) > 3 -> {Down(cut) : cut \in Cuts}
    [] Len(img.rows) = 1 -> {Across(cut) : cut \in Cuts}
    [] OTHER -> {Box(cut, down) : cut \in Inner, down \in Inner}

\* A left margin that no reduced sample ends with.
WindowedImages == {RegionImage(<<1>>, <<1>>, FALSE, 0, Y, FALSE, <<3, 0>>, <<13, 16>>, {4})}
WindowedRegions(img, d) == {[x |-> 5, y |-> 0, w |-> 4, h |-> 16]}

Region == INSTANCE RegionDecode WITH
  Pictures <- RegionImages, Coefficient <- LowPass, Detail <- Detailed, Filter <- Mixed

-----------------------------------------------------------------------------
(***************************************************************************)
(* OverlapDevice.  A batch of two 4:2:0 images of two macroblocks; windows *)
(* of one partition at two origins; hard tiles of a 4:2:0 plane; 4:2:2     *)
(* planes; a second pass.                                                  *)
(***************************************************************************)
LaneSymmetry == Permutations(Lanes)

Transformed(i) == (37 * i + 11) % 9973

DevicePlane(pass, blocks, x, width, hard, columns, base) ==
  [pass |-> pass, blocks |-> blocks, x |-> x, y |-> 0, width |-> width, height |-> 1,
   hard |-> hard, columns |-> columns, rows |-> <<1>>, base |-> base]
Luma(x, width, hard, base) == DevicePlane("first", Y, x, width, hard, <<1, 2, 2>>, base)
Chroma(blocks, width, hard, columns, base) ==
  DevicePlane("first", blocks, 0, width, hard, columns, base)

SmallCommands ==
  {[mode |-> "batch",
    planes |-> <<Luma(0, 2, FALSE, 0), Chroma(C420, 2, FALSE, <<2>>, 32),
                 Luma(0, 2, FALSE, 40), Chroma(C420, 2, FALSE, <<2>>, 72)>>],
   [mode |-> "single", planes |-> <<Luma(0, 3, TRUE, 0)>>],
   [mode |-> "single", planes |-> <<Luma(1, 3, TRUE, 0)>>],
   [mode |-> "single", planes |-> <<Chroma(C420, 4, TRUE, <<2, 2>>, 0)>>],
   [mode |-> "cuda",
    planes |-> <<Chroma(C422, 2, FALSE, <<2>>, 0), Chroma(C422, 2, FALSE, <<2>>, 16)>>],
   [mode |-> "single", planes |-> <<DevicePlane("second", C420, 0, 1, FALSE, <<1>>, 0)>>]}

\* A 4:2:0 plane of one macroblock: two samples wide.
NarrowCommands == {[mode |-> "cuda", planes |-> <<Chroma(C420, 1, FALSE, <<1>>, 0)>>]}

Device == INSTANCE OverlapDevice WITH
  Lookahead <- 3, RetainedSchedules <- 1, Commands <- DeviceCommands,
  Initial <- Transformed, Filter <- Mixed, step <- place

-----------------------------------------------------------------------------
\* OutputRequests, with the stores of DeviceStores: a runtime that keeps one pipeline.
Stores == INSTANCE DeviceStores WITH
  WordBits <- Words, SafeMagnitude <- SafeBound, MinVector <- 6, Retained <- 1

OwnedStore(request) == Stores!MadeOwned(request)
IntoStore(request) == Stores!MadeInto(request)
CheckedStore(request) == Stores!MadeChecked(request)
CudaStored(request) == Stores!MadeOnCuda(request)
MetalStored(request, kept) == Stores!MadeOnMetal(request, kept)
ClampedLater(request) == Stores!ClampedAfter(request)

Outputs == INSTANCE OutputRequests WITH
  requests <- packets, stored <- spatial, pipelines <- frequency, Sessions <- SmallSessions

OutputsDone == packets = <<>> /\ UNCHANGED tileVars

-----------------------------------------------------------------------------
(***************************************************************************)
(* MetalSession.  Plans of one arena, which are concatenated, one of two,  *)
(* and one over the budget and the pools; requests of two commands and of  *)
(* two groups; pools and a cache that the buffers of one call overflow; an *)
(* arena replaced by another.                                              *)
(***************************************************************************)
MetalPlan(sources, low, count, visible) ==
  [arenas |-> sources, low |-> low, samples |-> count, output |-> visible]

SmallPlans ==
  "p" :> MetalPlan(<<"A">>, 1, 2, 2) @@ "q" :> MetalPlan(<<"B">>, 1, 1, 1)
    @@ "r" :> MetalPlan(<<"A", "B">>, 1, 1, 1) @@ "h" :> MetalPlan(<<"A">>, 5, 6, 1)

MetalRequest(kind, plans) == [kind |-> kind, plans |-> plans]

SmallRequests ==
  {MetalRequest("batch", <<"r", "q", "p">>), MetalRequest("dense", <<"q", "p", "q">>),
   MetalRequest("dense", <<"h">>), MetalRequest("shared", <<"q", "p", "q", "q">>)}

SmallUploads  == "A" :> 1 @@ "B" :> 2
SmallVersions == "A" :> 1 @@ "B" :> 2

ASSUME Tile!TileAssumption /\ Device!DeviceAssumption /\ MetalAssumption

-----------------------------------------------------------------------------
\* A component that does not run has its variables at zero; those of CpuBatch and
\* MetalSession stand still in one of their initial states.
NoTile == packets = 0 /\ spatial = 0 /\ frequency = 0
NoRegion ==
  /\ image = 0 /\ scale = 0 /\ region = 0 /\ stage = 0
  /\ lists = 0 /\ window = 0 /\ plane = 0 /\ whole = 0
NoDevice ==
  /\ command = 0 /\ uses = 0 /\ samples = 0 /\ place = 0
  /\ waiting = 0 /\ lanes = 0 /\ schedules = 0
NoMetal == SessionInit
NoBatch == Init /\ call = SomeCall

InitDecoding ==
  /\ component \in Components
  /\ \/ component = "batch"  /\ Init        /\ NoTile /\ NoRegion /\ NoDevice /\ NoMetal
     \/ component = "tile"   /\ Tile!Init   /\ NoBatch /\ NoRegion /\ NoDevice /\ NoMetal
     \/ component = "channels" /\ Channels!ChannelInit /\ NoBatch /\ NoRegion /\ NoDevice /\ NoMetal
     \/ component = "outputs" /\ Outputs!OutputInit /\ NoBatch /\ NoRegion /\ NoDevice /\ NoMetal
     \/ component = "region" /\ Region!Init /\ NoBatch /\ NoTile /\ NoDevice /\ NoMetal
     \/ component = "device" /\ Device!Init /\ NoBatch /\ NoTile /\ NoRegion /\ NoMetal
     \/ component = "metal"  /\ SessionInit  /\ NoBatch /\ NoTile /\ NoRegion /\ NoDevice

NextDecoding ==
  /\ UNCHANGED component
  /\ \/ component = "batch"  /\ Next        /\ UNCHANGED <<tileVars, regionVars, deviceVars, sessionVars>>
     \/ component = "tile"   /\ Tile!Next   /\ UNCHANGED <<vars, regionVars, deviceVars, sessionVars>>
     \/ component = "channels" /\ Channels!ChannelNext
          /\ UNCHANGED <<vars, regionVars, deviceVars, sessionVars>>
     \/ component = "outputs" /\ (Outputs!OutputNext \/ OutputsDone)
          /\ UNCHANGED <<vars, regionVars, deviceVars, sessionVars>>
     \/ component = "region" /\ Region!Next /\ UNCHANGED <<vars, tileVars, deviceVars, sessionVars>>
     \/ component = "device" /\ Device!Next /\ UNCHANGED <<vars, tileVars, regionVars, sessionVars>>
     \/ component = "metal"  /\ SessionNext  /\ UNCHANGED <<vars, tileVars, regionVars, deviceVars>>

decodingVars == <<component, vars, tileVars, regionVars, deviceVars, sessionVars>>

SpecDecoding == InitDecoding /\ [][NextDecoding]_decodingVars

-----------------------------------------------------------------------------
(***************************************************************************)
(* The properties of the components; those of CpuBatch and MetalSession    *)
(* hold of their standing variables too and are checked under their own    *)
(* names.                                                                  *)
(***************************************************************************)
\* Types of the component that runs.
DecodingTypeOK ==
  /\ TypeOK /\ SessionTypeOK
  /\ component = "tile" => Tile!TypeOK
  /\ component = "region" => Region!TypeOK
  /\ component = "device" => Device!TypeOK

\* decode_tile (frequency) and decode_spatial_packet read a symbol in the same
\* context, accept the same tiles, and store the same coefficients and steps.
TileSameMacroblocks ==
  /\ component = "tile" => Tile!SameContexts /\ Tile!SameMacroblocks
  /\ component = "channels" => Channels!ChannelsAlike /\ Channels!JointChromaPlaced

\* "Select the one macroblock HP direction shared by all YUV components" (high_pass.rs).
HighPassDirectionShared == component = "channels" => Channels!HighPassDirectionShared

\* Host packers, their fast paths, the caller's storage and both devices write the
\* same elements at the same bytes, and refuse the same requests; but for the two
\* differences that OutputRequests names.
OutputsAlike == component = "outputs" => Outputs!OutputsAlike

\* "direct_typed_destinations_match_owned_component_packing" (output_format/tests.rs).
DirectStoresMatch == component = "outputs" => Outputs!DirectStoresMatch

\* A region inside the image decodes, and is the same part of the decoded image.
RegionIsCrop == component = "region" => Region!RegionIsCrop

\* No two overlap items in flight on a device meet in a sample.
DeviceLanesApart == component = "device" => Device!LanesApart

\* The devices' parallel overlap passes give what the host's loops give.
DeviceMatchesHost == component = "device" => Device!MatchesHost
===============================================================================
