------------------------------ MODULE TileChannels ------------------------------
(***************************************************************************)
(* The traversals of tiles with several components: YUV planes of every    *)
(* sampling, YUVK and N-component planes, and any of them, or a luma plane, *)
(* with an alpha plane in the same packets.  As in TileBands, the same     *)
(* content is traversed in spatial and then in frequency order.  Each kind *)
(* of plane has code of its own for each order, and a plane with alpha has *)
(* another in frequency order.  A frequency tile may be decoded at a       *)
(* reduced scale, which leaves the packets of the finer bands alone.       *)
(***************************************************************************)
EXTENDS TileBands, FiniteSetsExt

CONSTANTS
    Tiles,              \* what the packets of a tile may hold
    ClassBits(_, _),    \* the model bits of a context for "luma" or "chroma"
    DcResidual(_, _, _),  \* DcResidual(context, symbol, class)
    LpBlock(_, _, _),   \* LpBlock(context, symbol, class): levels 1..15 of a block
    JointBlock(_, _)    \* JointBlock(context, symbol): the levels of joint chroma

(***************************************************************************)
(* A plane of the tile: its colour format, its number of components, the   *)
(* bands its packets hold, its quantizer tables and its macroblocks.       *)
(***************************************************************************)
Planes == DOMAIN content.planes
HasAlpha == "alpha" \in Planes
Yuv == {"yuv420", "yuv422", "yuv444"}
Multi == {"yuvk", "components"}
ChannelsOf(plane) == 0..plane.components - 1
Class(c) == IF c = 0 THEN "luma" ELSE "chroma"

(* retained_bands: a scale of 4 stops after the LP band, one of 16 after DC. *)
Retained(bands) ==
    IF content.scale = 1 THEN bands
    ELSE IF content.scale = 4 /\ "lp" \in bands THEN NoHighPass ELSE DcOnly

FullTables(plane) ==
    WithHighPass(WithLowPass(DcTables(plane.header), plane.header, plane.bands),
                 plane.header, plane.bands)

StepsFor(tables, c, lpIndex, hpIndex) ==
    LET steps == ReconstructionSteps(tables, lpIndex, hpIndex)
    IN  [dc |-> steps.dc[c + 1], lp |-> steps.lp[c + 1], hp |-> steps.hp[c + 1]]

--------------------------------------------------------------------------------
(***************************************************************************)
(* DC.  One direction for all components: YUV weighs luma by the samples   *)
(* it has for each of chroma's, YUVK by two, N components go by the first. *)
(***************************************************************************)
Difference(mbs, p, neighbour, weights) ==
    MapThenSumSet(LAMBDA c : weights[c]
                      * Magnitude(mbs[c][Corner(p)].low[0] - mbs[c][neighbour].low[0]),
                  DOMAIN weights)

Direction(mbs, p, weights) ==
    IF p[1] = 0 THEN IF p[2] = 0 THEN "None" ELSE "FromTop"
    ELSE IF p[2] = 0 THEN "FromLeft"
    ELSE LET horizontal == Difference(mbs, p, Left(p), weights)
             vertical == Difference(mbs, p, Top(p), weights)
         IN  IF horizontal * 4 < vertical THEN "FromTop"
             ELSE IF vertical * 4 < horizontal THEN "FromLeft"
             ELSE "FromTopLeft"

YuvWeights(format) ==
    [c \in 0..2 |-> IF c # 0 THEN 1
                    ELSE CASE format = "yuv420" -> 8 [] format = "yuv422" -> 4 [] OTHER -> 2]

MultiWeights(format) ==
    IF format = "yuvk" THEN [c \in 0..2 |-> IF c = 0 THEN 2 ELSE 1] ELSE [c \in {0} |-> 1]

(* The average of two neighbours rounds up for subsampled chroma.           *)
Predicted(residual, mbs, p, mode, rounding) ==
    IF mode = "FromTopLeft"
    THEN residual + (mbs[Left(p)].low[0] + mbs[Top(p)].low[0] + rounding) \div 2
    ELSE PredictedDc(residual, mbs, p, mode)

LumaDc(context, block, mbs, p) ==
    LET mode == DcMode(mbs[0], p)
    IN  [mode |-> mode,
         value |-> [c \in {0} |->
             PredictedDc(DcResidual(context, block.dc[0], "luma"), mbs[0], p, mode)]]

YuvDc(format, context, block, mbs, p) ==
    LET mode == Direction(mbs, p, YuvWeights(format))
    IN  [mode |-> mode,
         value |-> [c \in 0..2 |->
             Predicted(DcResidual(context, block.dc[c], Class(c)), mbs[c], p, mode,
                       IF c # 0 /\ format # "yuv444" THEN 1 ELSE 0)]]

(* The levels of all components are read with the luma code.                *)
MultiDc(format, context, block, mbs, p) ==
    LET mode == Direction(mbs, p, MultiWeights(format))
    IN  [mode |-> mode,
         value |-> [c \in DOMAIN mbs |->
             Predicted(DcResidual(context, block.dc[c], "luma"), mbs[c], p, mode, 0)]]

OnlyDcs(dc) == [c \in DOMAIN dc.value |-> OnlyDc(dc.value[c])]

--------------------------------------------------------------------------------
(***************************************************************************)
(* LP.  CbplpState counts how often a pattern was empty or full; a prefix  *)
(* code, inverted if full ones prevail, is used when either was common.    *)
(***************************************************************************)
NewPattern == [zero |-> 1, maximum |-> 1]
FullPattern(format) == IF format = "yuv444" THEN 7 ELSE 3

CodedPattern(state, format, code) ==
    IF (state.zero <= 0 \/ state.maximum < 0) /\ state.maximum < state.zero
    THEN FullPattern(format) - code ELSE code

Counted(state, format, pattern) ==
    LET Count(n, hit) == LET m == n + 1 - (IF hit THEN 4 ELSE 0)
                         IN  IF m < -8 THEN -8 ELSE IF m > 7 THEN 7 ELSE m
    IN  [zero |-> Count(state.zero, pattern = 0),
         maximum |-> Count(state.maximum, pattern = FullPattern(format))]

Coded(pattern, k) == (pattern \div 2^k) % 2 = 1

(* decode_lp_refinement: the low bits of a coefficient.                     *)
Refined(level, bits, refinement) ==
    level * 2^bits + (IF level < 0 THEN -1 ELSE 1) * (refinement % 2^bits)

(* One component: a block if it is coded, its refinement, its prediction.   *)
LpComponent(context, block, c, coded, dc, mbs, p, lpIndex) ==
    LET levels == LpBlock(context, block.lp[c], Class(c))
        bits == ClassBits(context, Class(c))
    IN  PredictLowPass(dc.value[c],
                       [k \in 1..15 |->
                           Refined(IF coded THEN levels[k] ELSE 0, bits, block.refine + k)],
                       mbs[c], p, dc.mode, lpIndex)

LumaLowPass(context, block, dc, mbs, p, lpIndex) ==
    [c \in {0} |-> LpComponent(context, block, 0, Coded(block.lpCode, 0), dc, mbs, p, lpIndex)]

Yuv444LowPass(context, block, pattern, dc, mbs, p, lpIndex) ==
    [c \in 0..2 |-> LpComponent(context, block, c, Coded(pattern, c), dc, mbs, p, lpIndex)]

MultiLowPass(context, block, dc, mbs, p, lpIndex) ==
    [c \in DOMAIN mbs |->
        LpComponent(context, block, c, Coded(block.lpCode, c), dc, mbs, p, lpIndex)]

(* Subsampled chroma is one block, U and V in turn.                         *)
JointPositions(format) == IF format = "yuv420" THEN 3 ELSE 7
JointPlace(format, i) ==
    LET remapped == <<4, 1, 2, 3, 5, 6, 7>>[(i \div 2) + (IF format = "yuv420" THEN 1 ELSE 0) + 1]
        position == IF format = "yuv420" THEN <<0, 2, 1, 3>>[remapped + 1]
                    ELSE <<0, 2, 1, 3, 4, 6, 5, 7>>[remapped + 1]
    IN  <<1 + (i % 2), position>>

(* The joint levels are refined position by position, U before V.           *)
RefinementOrder(format) ==
    IF format = "yuv420" THEN <<2, 1, 3>> ELSE <<2, 1, 3, 4, 6, 5, 7>>

JointLevel(format, levels, c, position) ==
    LET i == CHOOSE i \in 0..(2 * JointPositions(format)) - 1 :
                 JointPlace(format, i) = <<c, position>>
    IN  levels[i + 1]

JointRefinement(format, block, c, position) ==
    LET k == CHOOSE k \in 1..JointPositions(format) : RefinementOrder(format)[k] = position
    IN  block.refine + 15 + 2 * k + c

JointChroma(format, context, block, pattern, c, dc) ==
    [k \in 0..15 |->
        IF k = 0 THEN dc.value[c]
        ELSE IF k > JointPositions(format) THEN 0
        ELSE Refined(IF Coded(pattern, 1)
                     THEN JointLevel(format, JointBlock(context, block.lp[1]), c, k) ELSE 0,
                     ClassBits(context, "chroma"),
                     JointRefinement(format, block, c, k))]

(* In 4:2:2 a plane is two blocks high: from above, the lower block's row   *)
(* is predicted from the upper one's.                                       *)
PredictSubsampled(format, low, mbs, p, mode, lpIndex) ==
    LET from == LowPassMode(mbs, p, mode, lpIndex)
        left == mbs[Left(p)].low
        top == mbs[Top(p)].low
        upper == IF from = "FromTop" THEN low[1] + top[5] ELSE low[1]
    IN  CASE format = "yuv420" /\ from = "FromLeft" -> [low EXCEPT ![2] = @ + left[2]]
          [] format = "yuv420" /\ from = "FromTop"  -> [low EXCEPT ![1] = @ + top[1]]
          [] format = "yuv422" /\ from = "FromLeft" ->
                [k \in 0..15 |-> IF k \in {2, 4, 6} THEN low[k] + left[k] ELSE low[k]]
          [] format = "yuv422" /\ from = "FromTop" ->
                [low EXCEPT ![4] = @ + top[4], ![1] = upper, ![5] = @ + upper]
          [] format = "yuv422" /\ from = "None" /\ mode = "FromTop" ->
                [low EXCEPT ![5] = @ + low[1]]
          [] OTHER -> low

SubsampledLowPass(format, context, block, pattern, dc, mbs, p, lpIndex) ==
    [c \in 0..2 |->
        IF c = 0 THEN LpComponent(context, block, 0, Coded(pattern, 0), dc, mbs, p, lpIndex)
        ELSE PredictSubsampled(format, JointChroma(format, context, block, pattern, c, dc),
                               mbs[c], p, dc.mode, lpIndex)]

YuvLowPass(format, context, block, state, dc, mbs, p, lpIndex) ==
    LET pattern == CodedPattern(state, format, block.lpCode % (FullPattern(format) + 1))
    IN  [low |-> IF format = "yuv444"
                 THEN Yuv444LowPass(context, block, pattern, dc, mbs, p, lpIndex)
                 ELSE SubsampledLowPass(format, context, block, pattern, dc, mbs, p, lpIndex),
         state |-> Counted(state, format, pattern)]

--------------------------------------------------------------------------------
(***************************************************************************)
(* HP.  One direction for the components of a plane.                       *)
(***************************************************************************)
SumAt(low, places) == MapThenSumSet(LAMBDA q : Magnitude(low[q[1]][q[2]]), places)

SelectPrediction(low, across, down) ==
    LET horizontal == SumAt(low, across)
        vertical == SumAt(low, down)
    IN  IF horizontal * 4 < vertical THEN "FromLeft"
        ELSE IF vertical * 4 < horizontal THEN "FromTop"
        ELSE "None"

YuvHighPassMode(format, low) ==
    SelectPrediction(low,
        ({0} \X (1..3)) \cup ({1, 2} \X (IF format = "yuv422" THEN {1, 5} ELSE {1})),
        ({0} \X {4, 8, 12})
            \cup ({1, 2} \X (CASE format = "yuv420" -> {2} [] format = "yuv422" -> {2, 6}
                              [] OTHER -> {4})))

MultiHighPassMode(format, low) ==
    IF format = "yuvk" THEN YuvHighPassMode("yuv444", low) ELSE HighPassMode(low[0])

(* decode_yuv_into and decode_components: the bits each class has before    *)
(* the levels of the macroblock count.                                      *)
ClassModelBits(context) == [luma |-> ClassBits(context, "luma"), chroma |-> ClassBits(context, "chroma")]
YuvHigh(context, block, mode, p) == [c \in 0..2 |-> HpLevel(context, block.hp[c], mode, p)]
MultiHigh(context, block, components, mode, p) ==
    [c \in components |-> HpLevel(context, block.hp[c], mode, p)]

FlexOf(block, c) == IF content.escaped THEN 0 ELSE block.flex[c]

(* A spatial packet holds the flexbits of a block behind its levels.        *)
CombinedHigh(plane, high, bits, block) ==
    [c \in DOMAIN high |->
        IF "flex" \in plane.bands
        THEN Combined(high[c], bits[Class(c)], FlexOf(block, c), content.trim)
        ELSE high[c] * 2^bits[Class(c)]]

NoHigh(low) == [c \in DOMAIN low |-> 0]

AfterBands(plane, entropy, block, mode, p) ==
    [dc |-> After(entropy.dc, block.dc, "None", p),
     lp |-> IF "lp" \in plane.bands THEN After(entropy.lp, block.lp, "None", p) ELSE entropy.lp,
     hp |-> IF "hp" \in plane.bands THEN After(entropy.hp, block.hp, mode, p) ELSE entropy.hp]

--------------------------------------------------------------------------------
(***************************************************************************)
(* The spatial decoders: of a luma or alpha plane, of a YUV plane, of a    *)
(* plane of N components.                                                  *)
(***************************************************************************)
NewDecoder(plane) ==
    [entropy |-> NewEntropy, pattern |-> NewPattern,
     mbs |-> [c \in ChannelsOf(plane) |-> [p \in Macroblocks |-> NoMacroblock]]]

Stored(d, plane, p, entropy, index, mode, low, hpMode, high) ==
    [d EXCEPT
        !.entropy = AdaptAtBoundary(AfterBands(plane, entropy, plane.blocks[p], hpMode, p), p),
        !.mbs = [c \in DOMAIN @ |->
            [@[c] EXCEPT ![p] =
                [low |-> low[c], high |-> high[c], mode |-> mode, hpMode |-> hpMode,
                 lpIndex |-> index.lp,
                 steps |-> StepsFor(FullTables(plane), c, index.lp, index.hp)]]]]

Indices(plane, block) ==
    LET lp == LowPassIndex(FullTables(plane), block)
    IN  [lp |-> lp, hp |-> HighPassIndex(FullTables(plane), block, lp)]

PlaneMacroblock(d, plane, p) ==
    LET block == plane.blocks[p]
        entropy == ResetScanTotals(d.entropy, p)
        index == Indices(plane, block)
        dc == LumaDc(entropy.dc, block, d.mbs, p)
        low == IF "lp" \in plane.bands
               THEN LumaLowPass(entropy.lp, block, dc, d.mbs, p, index.lp) ELSE OnlyDcs(dc)
        hpMode == HighPassMode(low[0])
        high == IF "hp" \notin plane.bands THEN NoHigh(low)
                ELSE CombinedHigh(plane, MultiHigh(entropy.hp, block, {0}, hpMode, p),
                                  ClassModelBits(entropy.hp), block)
    IN  Stored(d, plane, p, entropy, index, dc.mode, low,
               IF "hp" \in plane.bands THEN hpMode ELSE "None", high)

YuvMacroblock(d, plane, p) ==
    LET block == plane.blocks[p]
        entropy == ResetScanTotals(d.entropy, p)
        index == Indices(plane, block)
        dc == YuvDc(plane.format, entropy.dc, block, d.mbs, p)
        lp == IF "lp" \in plane.bands
              THEN YuvLowPass(plane.format, entropy.lp, block, d.pattern, dc, d.mbs, p, index.lp)
              ELSE [low |-> OnlyDcs(dc), state |-> d.pattern]
        hpMode == YuvHighPassMode(plane.format, lp.low)
        high == IF "hp" \notin plane.bands THEN NoHigh(lp.low)
                ELSE CombinedHigh(plane, YuvHigh(entropy.hp, block, hpMode, p),
                                  ClassModelBits(entropy.hp), block)
    IN  Stored([d EXCEPT !.pattern = lp.state], plane, p, entropy, index, dc.mode,
               lp.low, hpMode, high)

MultiMacroblock(d, plane, p) ==
    LET block == plane.blocks[p]
        entropy == ResetScanTotals(d.entropy, p)
        index == Indices(plane, block)
        dc == MultiDc(plane.format, entropy.dc, block, d.mbs, p)
        low == IF "lp" \in plane.bands
               THEN MultiLowPass(entropy.lp, block, dc, d.mbs, p, index.lp) ELSE OnlyDcs(dc)
        hpMode == MultiHighPassMode(plane.format, low)
        high == IF "hp" \notin plane.bands THEN NoHigh(low)
                ELSE CombinedHigh(plane,
                                  MultiHigh(entropy.hp, block, ChannelsOf(plane), hpMode, p),
                                  ClassModelBits(entropy.hp), block)
    IN  Stored(d, plane, p, entropy, index, dc.mode, low, hpMode, high)

DecodedMacroblock(d, plane, p) ==
    CASE plane.format = "luma" -> PlaneMacroblock(d, plane, p)
      [] plane.format \in Yuv -> YuvMacroblock(d, plane, p)
      [] OTHER -> MultiMacroblock(d, plane, p)

(* decode_spatial: a macroblock of the primary plane, then one of alpha.    *)
ChannelSpatialStep ==
    /\ spatial.state = "decoding" /\ ~Visited(spatial.at)
    /\ LET p == spatial.at
       IN  spatial' =
               IF \E n \in Planes : \E band \in content.planes[n].bands : Unreadable(p, band)
               THEN [spatial EXCEPT !.state = "failed"]
               ELSE [spatial EXCEPT
                        !.at = Following(p),
                        !.planes = [n \in Planes |->
                                       DecodedMacroblock(@[n], content.planes[n], p)]]
    /\ UNCHANGED <<content, frequency>>

ChannelSpatialEnd == SpatialEnd

--------------------------------------------------------------------------------
(***************************************************************************)
(* The frequency traversal of a plane: what a macroblock of each packet    *)
(* adds to the arrays the passes share.                                    *)
(***************************************************************************)
NewPlane(plane) ==
    [mbs |-> [c \in ChannelsOf(plane) |-> [p \in Macroblocks |-> NoMacroblock]],
     tables |-> DcTables(plane.header), entropy |-> NewEntropy, pattern |-> NewPattern,
     lpIndices |-> NoIndices, hpIndices |-> NoIndices,
     modelBits |-> [p \in Macroblocks |-> [luma |-> 0, chroma |-> 0]]]

PushedDc(s, block, dc, p) ==
    [s EXCEPT
        !.mbs = [c \in DOMAIN @ |->
            [@[c] EXCEPT ![p] = [NoMacroblock EXCEPT !.low = OnlyDc(dc.value[c]),
                                                     !.mode = dc.mode]]],
        !.entropy = AdaptBand([@ EXCEPT !.dc = After(@, block.dc, "None", p)], "dc", p)]

(* What LP decoding reads: the DC values and the mode of the DC pass.       *)
StoredDc(s, p) ==
    [mode |-> s.mbs[0][p].mode, value |-> [c \in DOMAIN s.mbs |-> s.mbs[c][p].low[0]]]

StoredLow(s, p) == [c \in DOMAIN s.mbs |-> s.mbs[c][p].low]

StoreLow(s, block, low, lpIndex, p) ==
    [s EXCEPT
        !.mbs = [c \in DOMAIN @ |->
            [@[c] EXCEPT ![p].low = low[c], ![p].lpIndex = lpIndex]],
        !.lpIndices[p] = lpIndex,
        !.entropy = AdaptBand([@ EXCEPT !.lp = After(@, block.lp, "None", p)], "lp", p)]

StoreHigh(s, block, high, mode, modes, p) ==
    [s EXCEPT
        !.mbs = [c \in DOMAIN @ |-> [@[c] EXCEPT ![p].high = high[c], ![p].hpMode = modes[c]]],
        !.hpIndices[p] = HighPassIndex(s.tables, block, s.lpIndices[p]),
        !.modelBits[p] = ClassModelBits(s.entropy.hp),
        !.entropy = AdaptBand([@ EXCEPT !.hp = After(@, block.hp, mode, p)], "hp", p)]

CombineFlex(s, block, p) ==
    [s EXCEPT !.mbs = [c \in DOMAIN @ |->
        [@[c] EXCEPT ![p].high = Combined(@, s.modelBits[p][Class(c)], block.flex[c],
                                          content.trim)]]]

ScaleHigh(s) ==
    [s EXCEPT !.mbs = [c \in DOMAIN @ |-> [p \in Macroblocks |->
        [@[c][p] EXCEPT !.high = @ * 2^s.modelBits[p][Class(c)]]]]]

AssignSteps(s, lpIndices, hpIndices) ==
    [s EXCEPT !.mbs = [c \in DOMAIN @ |-> [p \in Macroblocks |->
        [@[c][p] EXCEPT !.steps = StepsFor(s.tables, c, lpIndices[p], hpIndices[p])]]]]

SameMode(s, mode) == [c \in DOMAIN s.mbs |-> mode]

(* YUV planes: yuv/frequency.rs.                                            *)
YuvDcPacket(s, plane, p) ==
    PushedDc(s, plane.blocks[p], YuvDc(plane.format, s.entropy.dc, plane.blocks[p], s.mbs, p), p)

YuvLpPacket(t, plane, p) ==
    LET s == [t EXCEPT !.entropy = ResetScanTotals(@, p)]
        block == plane.blocks[p]
        lpIndex == LowPassIndex(s.tables, block)
        lp == YuvLowPass(plane.format, s.entropy.lp, block, s.pattern, StoredDc(s, p),
                         s.mbs, p, lpIndex)
    IN  StoreLow([s EXCEPT !.pattern = lp.state], block, lp.low, lpIndex, p)

YuvHpPacket(t, plane, p) ==
    LET s == [t EXCEPT !.entropy = ResetScanTotals(@, p)]
        block == plane.blocks[p]
        mode == YuvHighPassMode(plane.format, StoredLow(s, p))
    IN  StoreHigh(s, block, YuvHigh(s.entropy.hp, block, mode, p), mode, SameMode(s, mode), p)

YuvFlexPacket(s, plane, p) == CombineFlex(s, plane.blocks[p], p)

YuvWithoutFlex(s) == ScaleHigh(s)

YuvAssigned(s) == AssignSteps(s, s.lpIndices, s.hpIndices)

(* YUVK and N components: multicomponent_frequency.rs.                      *)
MultiDcPacket(s, plane, p) ==
    PushedDc(s, plane.blocks[p],
             MultiDc(plane.format, s.entropy.dc, plane.blocks[p], s.mbs, p), p)

MultiLpPacket(t, plane, p) ==
    LET s == [t EXCEPT !.entropy = ResetScanTotals(@, p)]
        block == plane.blocks[p]
        lpIndex == LowPassIndex(s.tables, block)
    IN  StoreLow(s, block,
                 MultiLowPass(s.entropy.lp, block, StoredDc(s, p), s.mbs, p, lpIndex),
                 lpIndex, p)

MultiHpPacket(t, plane, p) ==
    LET s == [t EXCEPT !.entropy = ResetScanTotals(@, p)]
        block == plane.blocks[p]
        mode == MultiHighPassMode(plane.format, StoredLow(s, p))
    IN  StoreHigh(s, block, MultiHigh(s.entropy.hp, block, ChannelsOf(plane), mode, p),
                  mode, SameMode(s, mode), p)

MultiFlexPacket(s, plane, p) == CombineFlex(s, plane.blocks[p], p)

MultiWithoutFlex(s) == ScaleHigh(s)

MultiAssigned(s) == AssignSteps(s, s.lpIndices, s.hpIndices)

(* Any plane in packets it shares with alpha, or alpha:                     *)
(* integrated_alpha_frequency.  A plane without a band is passed over.      *)
AlphaDcPacket(s, plane, p) ==
    LET context == s.entropy.dc
        block == plane.blocks[p]
    IN  PushedDc(s, block,
                 CASE plane.format = "luma" -> LumaDc(context, block, s.mbs, p)
                   [] plane.format \in Yuv  -> YuvDc(plane.format, context, block, s.mbs, p)
                   [] OTHER -> MultiDc(plane.format, context, block, s.mbs, p),
                 p)

AlphaLumaLow(s, block, p, lpIndex) ==
    StoreLow(s, block, LumaLowPass(s.entropy.lp, block, StoredDc(s, p), s.mbs, p, lpIndex),
             lpIndex, p)

AlphaYuvLow(s, plane, block, p, lpIndex) ==
    LET lp == YuvLowPass(plane.format, s.entropy.lp, block, s.pattern, StoredDc(s, p),
                         s.mbs, p, lpIndex)
    IN  StoreLow([s EXCEPT !.pattern = lp.state], block, lp.low, lpIndex, p)

AlphaMultiLow(s, block, p, lpIndex) ==
    StoreLow(s, block, MultiLowPass(s.entropy.lp, block, StoredDc(s, p), s.mbs, p, lpIndex),
             lpIndex, p)

(* Mutant: the plane's scan totals are not reset.                           *)
AlphaLpPacket_Bug(t, plane, p) ==
    LET s == t
        block == plane.blocks[p]
        lpIndex == LowPassIndex(s.tables, block)
    IN  CASE "lp" \notin Retained(plane.bands) -> t
          [] plane.format = "luma" -> AlphaLumaLow(s, block, p, lpIndex)
          [] plane.format \in Yuv -> AlphaYuvLow(s, plane, block, p, lpIndex)
          [] OTHER -> AlphaMultiLow(s, block, p, lpIndex)

AlphaLpPacket(t, plane, p) ==
    LET s == [t EXCEPT !.entropy = ResetScanTotals(@, p)]
        block == plane.blocks[p]
        lpIndex == LowPassIndex(s.tables, block)
    IN  CASE "lp" \notin Retained(plane.bands) -> t
          [] plane.format = "luma" -> AlphaLumaLow(s, block, p, lpIndex)
          [] plane.format \in Yuv -> AlphaYuvLow(s, plane, block, p, lpIndex)
          [] OTHER -> AlphaMultiLow(s, block, p, lpIndex)

AlphaHighPassMode(s, plane, p) ==
    CASE plane.format \in {"luma", "components"} -> HighPassMode(s.mbs[0][p].low)
      [] plane.format \in Yuv -> YuvHighPassMode(plane.format, StoredLow(s, p))
      [] OTHER -> MultiHighPassMode(plane.format, StoredLow(s, p))

(* Chroma that has fewer samples than luma is given no direction.           *)
AlphaYuvModes(s, plane, mode) ==
    [c \in DOMAIN s.mbs |-> IF c = 0 \/ plane.format = "yuv444" THEN mode ELSE "None"]

AlphaHpPacket(t, plane, p) ==
    LET s == [t EXCEPT !.entropy = ResetScanTotals(@, p)]
        block == plane.blocks[p]
        mode == AlphaHighPassMode(s, plane, p)
    IN  IF "hp" \notin Retained(plane.bands) THEN t
        ELSE StoreHigh(s, block, MultiHigh(s.entropy.hp, block, DOMAIN s.mbs, mode, p), mode,
                       IF plane.format \in Yuv THEN AlphaYuvModes(s, plane, mode)
                       ELSE SameMode(s, mode), p)

AlphaFlexPacket(s, plane, p) ==
    IF "flex" \in Retained(plane.bands) THEN CombineFlex(s, plane.blocks[p], p) ELSE s

FlexPacket == "flex" \in content.planes.primary.bands /\ ~content.escaped

AlphaWithoutFlex(s, plane) ==
    LET bands == Retained(plane.bands)
        escaped == "flex" \in Retained(content.planes.primary.bands) /\ ~FlexPacket
    IN  IF "hp" \notin bands \/ ("flex" \in bands /\ ~escaped) THEN s ELSE ScaleHigh(s)

AlphaAssigned(s, plane) ==
    LET bands == Retained(plane.bands)
    IN  AssignSteps(s, IF bands = DcOnly THEN NoIndices ELSE s.lpIndices,
                    IF "hp" \in bands THEN s.hpIndices ELSE NoIndices)

(* validate_band_subset: alpha's bands are in packets the primary plane has. *)
BandSubset == \A n \in Planes :
    Retained(content.planes[n].bands) \subseteq Retained(content.planes.primary.bands)

--------------------------------------------------------------------------------
(***************************************************************************)
(* Passes over the tile.                                                   *)
(***************************************************************************)
Kind == IF HasAlpha THEN "alpha"
        ELSE IF content.planes.primary.format \in Yuv THEN "yuv" ELSE "multi"

PacketStep(band, s, plane, p) ==
    CASE Kind = "yuv" ->
            (CASE band = "dc" -> YuvDcPacket(s, plane, p) [] band = "lp" -> YuvLpPacket(s, plane, p)
               [] band = "hp" -> YuvHpPacket(s, plane, p) [] OTHER -> YuvFlexPacket(s, plane, p))
      [] Kind = "multi" ->
            (CASE band = "dc" -> MultiDcPacket(s, plane, p)
               [] band = "lp" -> MultiLpPacket(s, plane, p)
               [] band = "hp" -> MultiHpPacket(s, plane, p)
               [] OTHER -> MultiFlexPacket(s, plane, p))
      [] OTHER ->
            (CASE band = "dc" -> AlphaDcPacket(s, plane, p)
               [] band = "lp" -> AlphaLpPacket(s, plane, p)
               [] band = "hp" -> AlphaHpPacket(s, plane, p)
               [] OTHER -> AlphaFlexPacket(s, plane, p))

YuvFollowing(pass) ==
    LET bands == Retained(content.planes.primary.bands)
    IN  CASE pass = "dc" /\ bands # DcOnly -> "lp"
          [] pass = "lp" /\ bands # NoHighPass -> "hp"
          [] pass = "hp" /\ FlexPacket -> "flex"
          [] OTHER -> "done"

MultiFollowing(pass) == YuvFollowing(pass)

(* The flexbits packet is opened whenever there is one: at a reduced scale  *)
(* it has no macroblock.                                                    *)
AlphaFollowing(pass) ==
    LET bands == Retained(content.planes.primary.bands)
    IN  CASE pass = "dc" /\ "lp" \in bands -> "lp"
          [] pass = "lp" /\ "hp" \in bands -> "hp"
          [] pass # "flex" /\ FlexPacket -> "flex"
          [] OTHER -> "done"

FollowingPass(pass) ==
    CASE Kind = "yuv" -> YuvFollowing(pass)
      [] Kind = "multi" -> MultiFollowing(pass)
      [] OTHER -> AlphaFollowing(pass)

(* A pass starts with fresh entropy state and the band's quantizer header.  *)
StartedPass(pass, s, plane) ==
    LET tables == CASE pass = "lp" -> WithLowPass(s.tables, plane.header, plane.bands)
                    [] pass = "hp" -> WithHighPass(s.tables, plane.header, plane.bands)
                    [] OTHER -> s.tables
    IN  [s EXCEPT !.entropy = NewEntropy, !.pattern = NewPattern,
                  !.tables = IF pass \in Retained(plane.bands) THEN tables ELSE @]

EndedPlane(s, plane) ==
    LET unscaled == "hp" \in Retained(plane.bands) /\ ~FlexPacket
    IN  CASE Kind = "yuv" -> YuvAssigned(IF unscaled THEN YuvWithoutFlex(s) ELSE s)
          [] Kind = "multi" -> MultiAssigned(IF unscaled THEN MultiWithoutFlex(s) ELSE s)
          [] OTHER -> AlphaAssigned(AlphaWithoutFlex(s, plane), plane)

Running(bands) == spatial.state # "decoding" /\ frequency.state = "decoding" /\ frequency.pass \in bands

Refuse ==
    /\ Running(AllBands) /\ HasAlpha /\ ~BandSubset
    /\ frequency' = [frequency EXCEPT !.state = "failed"]
    /\ UNCHANGED <<content, spatial>>

HasMacroblocks == frequency.pass \in Retained(content.planes.primary.bands)

ChannelPassStep ==
    /\ Running(AllBands) /\ BandSubset
    /\ HasMacroblocks /\ ~Visited(frequency.at)
    /\ frequency' =
           IF Unreadable(frequency.at, frequency.pass)
           THEN [frequency EXCEPT !.state = "failed"]
           ELSE [frequency EXCEPT
                    !.at = Following(@),
                    !.planes = [n \in Planes |->
                        PacketStep(frequency.pass, @[n], content.planes[n], frequency.at)]]
    /\ UNCHANGED <<content, spatial>>

ChannelPassEnd ==
    /\ Running(AllBands) /\ BandSubset
    /\ ~HasMacroblocks \/ Visited(frequency.at)
    /\ LET pass == FollowingPass(frequency.pass)
       IN  frequency' =
               IF pass = "done"
               THEN [frequency EXCEPT
                        !.state = "decoded",
                        !.planes = [n \in Planes |-> EndedPlane(@[n], content.planes[n])]]
               ELSE [frequency EXCEPT
                        !.pass = pass, !.at = First,
                        !.planes = [n \in Planes |-> StartedPass(pass, @[n], content.planes[n])]]
    /\ UNCHANGED <<content, spatial>>

ChannelsFinished ==
    /\ spatial.state # "decoding" /\ frequency.state # "decoding"
    /\ UNCHANGED vars

ChannelInit ==
    /\ content \in Tiles
    /\ spatial = [state |-> "decoding", at |-> First,
                  planes |-> [n \in Planes |-> NewDecoder(content.planes[n])]]
    /\ frequency = [state |-> "decoding", pass |-> "dc", at |-> First,
                    planes |-> [n \in Planes |-> NewPlane(content.planes[n])]]

ChannelNext ==
    \/ ChannelSpatialStep \/ ChannelSpatialEnd
    \/ Refuse \/ ChannelPassStep \/ ChannelPassEnd
    \/ ChannelsFinished

ChannelSpec == ChannelInit /\ [][ChannelNext]_vars

--------------------------------------------------------------------------------
(* The coefficients, prediction modes and quantizer steps of the bands      *)
(* decoded.  Subsampled chroma beside alpha has another direction in        *)
(* frequency order, see HighPassDirectionShared.                            *)
AlikeIn(bands, directed, a, b) ==
    /\ a.mode = b.mode /\ a.low[0] = b.low[0] /\ a.steps.dc = b.steps.dc
    /\ "lp" \in bands => a.low = b.low /\ a.steps.lp = b.steps.lp
    /\ "hp" \in bands => /\ a.high = b.high /\ a.steps.hp = b.steps.hp
                         /\ directed => a.hpMode = b.hpMode

PlanesAlike(n) ==
    LET plane == content.planes[n]
    IN  \A c \in ChannelsOf(plane), p \in Macroblocks :
            AlikeIn(Retained(plane.bands),
                    ~(HasAlpha /\ c # 0 /\ plane.format \in {"yuv420", "yuv422"}),
                    frequency.planes[n].mbs[c][p], spatial.planes[n].mbs[c][p])

(* Whatever decodes in spatial order decodes in frequency order, unless     *)
(* alpha has bands of its own, at every scale, to the same macroblocks; at  *)
(* full scale nothing else does.                                            *)
ChannelsAlike ==
    spatial.state # "decoding" /\ frequency.state # "decoding"
        => /\ spatial.state = "decoded" /\ BandSubset
                => frequency.state = "decoded" /\ \A n \in Planes : PlanesAlike(n)
           /\ frequency.state = "decoded" /\ content.scale = 1 => spatial.state = "decoded"

(* Every level of a joint chroma block, and every refinement, has a place   *)
(* of its own in U or V.                                                    *)
JointChromaPlaced ==
    \A format \in {"yuv420", "yuv422"} :
        LET count == JointPositions(format)
        IN  /\ {JointPlace(format, i) : i \in 0..(2 * count) - 1} = {1, 2} \X (1..count)
            /\ {RefinementOrder(format)[k] : k \in 1..count} = 1..count

(* high_pass.rs: the one macroblock HP direction shared by all YUV          *)
(* components.                                                              *)
HighPassDirectionShared ==
    LET plane == content.planes.primary
    IN  frequency.state = "decoded" /\ plane.format \in Yuv /\ "hp" \in Retained(plane.bands)
            => \A c \in ChannelsOf(plane), p \in Macroblocks :
                   LET mbs == frequency.planes.primary.mbs
                   IN  mbs[c][p].hpMode = mbs[0][p].hpMode

================================================================================
