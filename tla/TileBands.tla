------------------------------- MODULE TileBands -------------------------------
(***************************************************************************)
(* The two traversals of a luma tile.  A spatial packet holds, macroblock  *)
(* by macroblock, the symbols of every band; in frequency order each band  *)
(* has a packet of its own, decoded in a pass of its own over the whole    *)
(* tile, with fresh entropy state, and what one pass leaves for the next   *)
(* (DC values, quantizer indices, model bits) is carried in arrays.  Both  *)
(* traversals are run here on the same content, the spatial one first.     *)
(*                                                                         *)
(* The entropy coder is a parameter: a band's context is what its adaptive *)
(* codes, scans, coefficient model and coded-block prediction remember,    *)
(* and the same bits mean the same symbol only in the same context.  One   *)
(* integer stands for the 256 high-pass coefficients of a macroblock.      *)
(***************************************************************************)
EXTENDS Integers, Sequences

CONSTANTS
    Width, Height,      \* of the tile, in macroblocks
    Columns,            \* macroblocks between two resets along a row: 16
    Blocks,             \* what the packets may hold for one macroblock
    Headers,            \* the quantizer tables a tile may announce
    Trims,              \* low flexbits left out of the packet
    Faults,             \* sets of <<macroblock, band>> that cannot be read
    Fresh(_),           \* a band's context at the start of a tile
    ResetTotals(_),     \* ... when the totals of its scans are reset
    Adapt(_),           \* ... when its codes adapt at a boundary
    After(_, _, _, _),  \* After(context, symbol, mode, macroblock)
    Bits(_),            \* the coefficient model's bits of a context
    DcLevel(_, _),      \* DcLevel(context, symbol)
    LpLevels(_, _),     \* the fifteen low-pass coefficients
    HpLevel(_, _, _, _) \* HpLevel(context, symbol, mode, macroblock)

TileAssumption ==
    Width \in Nat \ {0} /\ Height \in Nat \ {0} /\ Columns \in Nat \ {0}

VARIABLES
    content,    \* what the packets of the tile hold, in either order
    spatial,    \* the spatial traversal
    frequency   \* the frequency traversal

vars == <<content, spatial, frequency>>

(***************************************************************************)
(* Macroblocks <<x, y>>, visited row by row.                               *)
(***************************************************************************)
Macroblocks == (0..Width - 1) \X (0..Height - 1)
First == <<0, 0>>
Following_Bug(p) == <<p[1] + 1, p[2]>>
Following(p) == IF p[1] + 1 = Width THEN <<0, p[2] + 1>> ELSE <<p[1] + 1, p[2]>>
Visited(p) == p[2] = Height
Before(p, q) == p[2] < q[2] \/ (p[2] = q[2] /\ p[1] < q[1])
Left(p) == <<p[1] - 1, p[2]>>
Top(p) == <<p[1], p[2] - 1>>
Corner(p) == <<p[1] - 1, p[2] - 1>>

(***************************************************************************)
(* BandPresence, as the set of bands present.                              *)
(***************************************************************************)
DcOnly     == {"dc"}
NoHighPass == {"dc", "lp"}
NoFlexbits == {"dc", "lp", "hp"}
AllBands   == {"dc", "lp", "hp", "flex"}
BandPresence == {DcOnly, NoHighPass, NoFlexbits, AllBands}

(***************************************************************************)
(* The entropy state of one tile, or of one pass over it.                  *)
(***************************************************************************)
NewEntropy == [dc |-> Fresh("dc"), lp |-> Fresh("lp"), hp |-> Fresh("hp")]

ResetScanTotals(entropy, p) ==
    IF p[1] % Columns = 0
    THEN [entropy EXCEPT !.lp = ResetTotals(@), !.hp = ResetTotals(@)]
    ELSE entropy

Boundary(p) == p[1] + 1 = Width \/ p[1] % Columns = 0

AdaptAtBoundary(entropy, p) ==
    IF Boundary(p)
    THEN [dc |-> Adapt(entropy.dc), lp |-> Adapt(entropy.lp), hp |-> Adapt(entropy.hp)]
    ELSE entropy

AdaptBand_Bug(entropy, band, p) ==
    IF p[1] + 1 = Width THEN [entropy EXCEPT ![band] = Adapt(@)] ELSE entropy

AdaptBand(entropy, band, p) ==
    IF Boundary(p) THEN [entropy EXCEPT ![band] = Adapt(@)] ELSE entropy

(***************************************************************************)
(* The quantizer tables, as the packets announce them: a table is absent   *)
(* (it inherits) or lists the sets a macroblock chooses from.              *)
(***************************************************************************)
Inherits == <<>>

DcTables(header) ==
    [dc |-> header.dc, lp |-> <<header.dc>>, hp |-> <<header.dc>>,
     lpInherits |-> TRUE, hpInherits |-> TRUE]

WithLowPass(tables, header, bands) ==
    IF bands = DcOnly \/ header.lp = Inherits
    THEN [tables EXCEPT !.lp = <<tables.dc>>, !.lpInherits = TRUE]
    ELSE [tables EXCEPT !.lp = header.lp, !.lpInherits = FALSE]

WithHighPass(tables, header, bands) ==
    IF "hp" \notin bands \/ header.hp = Inherits
    THEN [tables EXCEPT !.hp = tables.lp, !.hpInherits = TRUE]
    ELSE [tables EXCEPT !.hp = header.hp, !.hpInherits = FALSE]

LowPassIndex(tables, block) ==
    IF tables.lpInherits \/ Len(tables.lp) = 1 THEN 0 ELSE block.lpIndex

HighPassIndex(tables, block, lpIndex) ==
    IF tables.hpInherits THEN lpIndex
    ELSE IF Len(tables.hp) = 1 THEN 0 ELSE block.hpIndex

ReconstructionSteps(tables, lpIndex, hpIndex) ==
    [dc |-> tables.dc, lp |-> tables.lp[lpIndex + 1], hp |-> tables.hp[hpIndex + 1]]

(***************************************************************************)
(* DC and LP prediction from the macroblocks decoded before.               *)
(***************************************************************************)
Magnitude(n) == IF n < 0 THEN -n ELSE n

DcMode(mbs, p) ==
    IF p[1] = 0 THEN IF p[2] = 0 THEN "None" ELSE "FromTop"
    ELSE IF p[2] = 0 THEN "FromLeft"
    ELSE LET corner == mbs[Corner(p)].low[0]
             horizontal == Magnitude(corner - mbs[Left(p)].low[0])
             vertical == Magnitude(corner - mbs[Top(p)].low[0])
         IN  IF horizontal * 4 < vertical THEN "FromTop"
             ELSE IF vertical * 4 < horizontal THEN "FromLeft"
             ELSE "FromTopLeft"

PredictedDc(level, mbs, p, mode) ==
    CASE mode = "None"     -> level
      [] mode = "FromLeft" -> level + mbs[Left(p)].low[0]
      [] mode = "FromTop"  -> level + mbs[Top(p)].low[0]
      [] OTHER -> level + (mbs[Left(p)].low[0] + mbs[Top(p)].low[0]) \div 2

LowPassMode(mbs, p, mode, lpIndex) ==
    IF \/ mode = "FromLeft" /\ mbs[Left(p)].lpIndex = lpIndex
       \/ mode = "FromTop" /\ mbs[Top(p)].lpIndex = lpIndex
    THEN mode ELSE "None"

(* The DC value of low is kept; the first column is predicted from the left *)
(* neighbour, the first row from the one above.                             *)
PredictLowPass(dc, levels, mbs, p, mode, lpIndex) ==
    LET from == LowPassMode(mbs, p, mode, lpIndex)
    IN  [k \in 0..15 |->
            IF k = 0 THEN dc
            ELSE IF from = "FromLeft" /\ k \in {4, 8, 12}
                 THEN levels[k] + mbs[Left(p)].low[k]
            ELSE IF from = "FromTop" /\ k \in 1..3
                 THEN levels[k] + mbs[Top(p)].low[k]
            ELSE levels[k]]

OnlyDc(dc) == [k \in 0..15 |-> IF k = 0 THEN dc ELSE 0]

HighPassMode(low) ==
    LET horizontal == Magnitude(low[1]) + Magnitude(low[2]) + Magnitude(low[3])
        vertical == Magnitude(low[4]) + Magnitude(low[8]) + Magnitude(low[12])
    IN  IF horizontal * 4 < vertical THEN "FromLeft"
        ELSE IF vertical * 4 < horizontal THEN "FromTop"
        ELSE "None"

(***************************************************************************)
(* Flexbits: the low bits of a coefficient, below those its code carried.  *)
(***************************************************************************)
FlexValue(flex, vlc, bits, trim) ==
    IF bits <= trim THEN 0
    ELSE LET value == (flex % 2^(bits - trim)) * 2^trim
         IN  IF vlc < 0 THEN -value ELSE value

Combined(vlc, bits, flex, trim) == vlc * 2^bits + FlexValue(flex, vlc, bits, trim)

(* An escaped tile has no flexbits packet; in spatial order its flexbits    *)
(* are there, and zero.                                                     *)
Flexbits(p) == IF content.escaped THEN 0 ELSE content.block[p].flex

Unreadable(p, band) == <<p, band>> \in content.faults

--------------------------------------------------------------------------------
(***************************************************************************)
(* The spatial traversal.                                                  *)
(***************************************************************************)
NoMacroblock ==
    [low |-> OnlyDc(0), high |-> 0, mode |-> "None", hpMode |-> "None",
     lpIndex |-> 0, steps |-> [dc |-> 1, lp |-> 1, hp |-> 1]]

SpatialTables ==
    WithHighPass(WithLowPass(DcTables(content.header), content.header, content.bands),
                 content.header, content.bands)

SpatialMacroblock(p, entropy, mbs) ==
    LET block == content.block[p]
        lpIndex == LowPassIndex(SpatialTables, block)
        hpIndex == HighPassIndex(SpatialTables, block, lpIndex)
        mode == DcMode(mbs, p)
        dc == PredictedDc(DcLevel(entropy.dc, block.dc), mbs, p, mode)
        low == IF "lp" \in content.bands
               THEN PredictLowPass(dc, LpLevels(entropy.lp, block.lp), mbs, p, mode, lpIndex)
               ELSE OnlyDc(dc)
        hpMode == HighPassMode(low)
        vlc == HpLevel(entropy.hp, block.hp, hpMode, p)
        bits == Bits(entropy.hp)
    IN  [low |-> low,
         high |-> IF "hp" \notin content.bands THEN 0
                  ELSE IF "flex" \in content.bands
                       THEN Combined(vlc, bits, Flexbits(p), content.trim)
                       ELSE vlc * 2^bits,
         mode |-> mode,
         hpMode |-> hpMode,
         lpIndex |-> lpIndex,
         steps |-> ReconstructionSteps(SpatialTables, lpIndex, hpIndex)]

SpatialEntropy(p, entropy, hpMode) ==
    LET block == content.block[p]
    IN  [dc |-> After(entropy.dc, block.dc, "None", p),
         lp |-> IF "lp" \in content.bands THEN After(entropy.lp, block.lp, "None", p)
                ELSE entropy.lp,
         hp |-> IF "hp" \in content.bands THEN After(entropy.hp, block.hp, hpMode, p)
                ELSE entropy.hp]

(* One macroblock: indices, DC, LP, HP with its flexbits, then the boundary. *)
SpatialStep ==
    /\ spatial.state = "decoding" /\ ~Visited(spatial.at)
    /\ LET p == spatial.at
           entropy == ResetScanTotals(spatial.entropy, p)
           macroblock == SpatialMacroblock(p, entropy, spatial.mbs)
       IN  IF \E band \in content.bands : Unreadable(p, band)
           THEN spatial' = [spatial EXCEPT !.state = "failed"]
           ELSE spatial' =
                    [spatial EXCEPT
                        !.at = Following(p),
                        !.mbs[p] = macroblock,
                        !.read[p] = entropy,
                        !.entropy = AdaptAtBoundary(
                            SpatialEntropy(p, entropy, macroblock.hpMode), p)]
    /\ UNCHANGED <<content, frequency>>

SpatialEnd ==
    /\ spatial.state = "decoding" /\ Visited(spatial.at)
    /\ spatial' = [spatial EXCEPT !.state = "decoded"]
    /\ UNCHANGED <<content, frequency>>

--------------------------------------------------------------------------------
(***************************************************************************)
(* The frequency traversal: one pass per packet, once the other is done.   *)
(***************************************************************************)
Passing(pass) ==
    /\ spatial.state # "decoding"
    /\ frequency.state = "decoding" /\ frequency.pass = pass

FailPass(band) ==
    /\ ~Visited(frequency.at) /\ Unreadable(frequency.at, band)
    /\ frequency' = [frequency EXCEPT !.state = "failed"]

Readable(band) == ~Visited(frequency.at) /\ ~Unreadable(frequency.at, band)

NextPass(pass, tables) ==
    [frequency EXCEPT !.pass = pass, !.at = First, !.entropy = NewEntropy,
                      !.tables = tables]

Assigned(mbs, tables, lpIndices, hpIndices) ==
    [p \in Macroblocks |->
        [mbs[p] EXCEPT !.steps = ReconstructionSteps(tables, lpIndices[p], hpIndices[p])]]

NoIndices == [p \in Macroblocks |-> 0]

DcStep ==
    /\ Readable("dc")
    /\ LET p == frequency.at
           entropy == frequency.entropy
           mode == DcMode(frequency.mbs, p)
           level == DcLevel(entropy.dc, content.block[p].dc)
           dc == PredictedDc(level, frequency.mbs, p, mode)
           after == [entropy EXCEPT
                        !.dc = After(@, content.block[p].dc, "None", p)]
       IN  frequency' =
               [frequency EXCEPT
                   !.at = Following(p),
                   !.mbs[p] = [NoMacroblock EXCEPT !.low = OnlyDc(dc), !.mode = mode],
                   !.read.dc[p] = entropy.dc,
                   !.entropy = AdaptBand(after, "dc", p)]

DcEnd_Bug ==
    /\ Visited(frequency.at)
    /\ frequency' =
           IF "hp" \notin content.bands
           THEN [frequency EXCEPT
                    !.mbs = Assigned(@, frequency.tables, NoIndices, NoIndices),
                    !.state = "decoded"]
           ELSE NextPass("lp", WithLowPass(frequency.tables, content.header, content.bands))

DcEnd ==
    /\ Visited(frequency.at)
    /\ frequency' =
           IF content.bands = DcOnly
           THEN [frequency EXCEPT
                    !.mbs = Assigned(@, frequency.tables, NoIndices, NoIndices),
                    !.state = "decoded"]
           ELSE NextPass("lp", WithLowPass(frequency.tables, content.header, content.bands))

LpStep ==
    /\ Readable("lp")
    /\ LET p == frequency.at
           entropy == ResetScanTotals(frequency.entropy, p)
           block == content.block[p]
           lpIndex == LowPassIndex(frequency.tables, block)
           macroblock == frequency.mbs[p]
           low == PredictLowPass(macroblock.low[0], LpLevels(entropy.lp, block.lp),
                                 frequency.mbs, p, macroblock.mode, lpIndex)
           after == [entropy EXCEPT !.lp = After(@, block.lp, "None", p)]
       IN  frequency' =
               [frequency EXCEPT
                   !.at = Following(p),
                   !.mbs[p] = [macroblock EXCEPT !.low = low, !.lpIndex = lpIndex],
                   !.lpIndices[p] = lpIndex,
                   !.read.lp[p] = entropy.lp,
                   !.entropy = AdaptBand(after, "lp", p)]

LpEnd_Bug ==
    /\ Visited(frequency.at)
    /\ frequency' =
           IF content.bands = NoHighPass
           THEN [frequency EXCEPT
                    !.mbs = Assigned(@, frequency.tables, frequency.lpIndices, NoIndices),
                    !.state = "decoded"]
           ELSE NextPass("hp", frequency.tables)

LpEnd ==
    /\ Visited(frequency.at)
    /\ frequency' =
           IF content.bands = NoHighPass
           THEN [frequency EXCEPT
                    !.mbs = Assigned(@, frequency.tables, frequency.lpIndices, NoIndices),
                    !.state = "decoded"]
           ELSE NextPass("hp", WithHighPass(frequency.tables, content.header, content.bands))

HpStep ==
    /\ Readable("hp")
    /\ LET p == frequency.at
           entropy == ResetScanTotals(frequency.entropy, p)
           block == content.block[p]
           hpMode == HighPassMode(frequency.mbs[p].low)
           after == [entropy EXCEPT !.hp = After(@, block.hp, hpMode, p)]
       IN  frequency' =
               [frequency EXCEPT
                   !.at = Following(p),
                   !.mbs[p].high = HpLevel(entropy.hp, block.hp, hpMode, p),
                   !.mbs[p].hpMode = hpMode,
                   !.hpIndices[p] =
                       HighPassIndex(frequency.tables, block, frequency.lpIndices[p]),
                   !.modelBits[p] = Bits(entropy.hp),
                   !.read.hp[p] = entropy.hp,
                   !.entropy = AdaptBand(after, "hp", p)]

(* Without a flexbits packet the coefficients are only scaled. *)
HpEnd ==
    /\ Visited(frequency.at)
    /\ frequency' =
           IF "flex" \in content.bands /\ ~content.escaped
           THEN NextPass("flex", frequency.tables)
           ELSE [frequency EXCEPT
                    !.mbs = Assigned([p \in Macroblocks |->
                                         [@[p] EXCEPT !.high = @ * 2^frequency.modelBits[p]]],
                                     frequency.tables, frequency.lpIndices,
                                     frequency.hpIndices),
                    !.state = "decoded"]

FlexStep ==
    /\ Readable("flex")
    /\ LET p == frequency.at
       IN  frequency' =
               [frequency EXCEPT
                   !.at = Following(p),
                   !.mbs[p].high = Combined(@, frequency.modelBits[p],
                                            content.block[p].flex, content.trim)]

FlexEnd ==
    /\ Visited(frequency.at)
    /\ frequency' =
           [frequency EXCEPT
               !.mbs = Assigned(@, frequency.tables, frequency.lpIndices, frequency.hpIndices),
               !.state = "decoded"]

DcPass == Passing("dc") /\ (FailPass("dc") \/ DcStep \/ DcEnd) /\ UNCHANGED <<content, spatial>>
LpPass == Passing("lp") /\ (FailPass("lp") \/ LpStep \/ LpEnd) /\ UNCHANGED <<content, spatial>>
HpPass == Passing("hp") /\ (FailPass("hp") \/ HpStep \/ HpEnd) /\ UNCHANGED <<content, spatial>>
FlexPass ==
    Passing("flex") /\ (FailPass("flex") \/ FlexStep \/ FlexEnd) /\ UNCHANGED <<content, spatial>>

Finished ==
    /\ spatial.state # "decoding" /\ frequency.state # "decoding"
    /\ UNCHANGED vars

Contents ==
    [bands : BandPresence, header : Headers, trim : Trims, escaped : BOOLEAN,
     block : [Macroblocks -> Blocks], faults : Faults]

(* Only a tile with all bands can escape its flexbits, and an escaped       *)
(* packet has nothing to fail on.                                           *)
Init ==
    /\ content \in {c \in Contents :
            c.escaped => /\ c.bands = AllBands
                         /\ \A fault \in c.faults : fault[2] # "flex"}
    /\ spatial = [state |-> "decoding", at |-> First, entropy |-> NewEntropy,
                  mbs |-> [p \in Macroblocks |-> NoMacroblock],
                  read |-> [p \in Macroblocks |-> NewEntropy]]
    /\ frequency = [state |-> "decoding", pass |-> "dc", at |-> First,
                    entropy |-> NewEntropy, tables |-> DcTables(content.header),
                    mbs |-> [p \in Macroblocks |-> NoMacroblock],
                    lpIndices |-> NoIndices, hpIndices |-> NoIndices,
                    modelBits |-> [p \in Macroblocks |-> 0],
                    read |-> [band \in {"dc", "lp", "hp"} |->
                                 [p \in Macroblocks |-> NewEntropy[band]]]]

Next == SpatialStep \/ SpatialEnd \/ DcPass \/ LpPass \/ HpPass \/ FlexPass \/ Finished

Spec == Init /\ [][Next]_vars

--------------------------------------------------------------------------------
Macroblock ==
    [low : [0..15 -> Int], high : Int,
     mode : {"None", "FromLeft", "FromTop", "FromTopLeft"},
     hpMode : {"None", "FromLeft", "FromTop"}, lpIndex : 0..15,
     steps : [dc : Nat, lp : Nat, hp : Nat]]

Positions == Macroblocks \cup {<<0, Height>>}

(* Type correctness of both traversals: positions, records and the arrays   *)
(* passes leave for one another.                                            *)
TypeOK ==
    /\ content.bands \in BandPresence
    /\ spatial.state \in {"decoding", "decoded", "failed"}
    /\ spatial.at \in Positions
    /\ spatial.mbs \in [Macroblocks -> Macroblock]
    /\ frequency.state \in {"decoding", "decoded", "failed"}
    /\ frequency.pass \in AllBands
    /\ frequency.at \in Positions
    /\ frequency.mbs \in [Macroblocks -> Macroblock]
    /\ frequency.lpIndices \in [Macroblocks -> 0..15]
    /\ frequency.hpIndices \in [Macroblocks -> 0..15]
    /\ frequency.modelBits \in [Macroblocks -> 0..15]

(* The bits of a macroblock are read in the same context in both orders:     *)
(* the passes reset, update and adapt the state of their own band exactly    *)
(* where the spatial traversal does (frequency/low_pass.rs, high_pass.rs).   *)
ReadSoFar(band) ==
    {p \in Macroblocks :
        \/ frequency.pass = band /\ Before(p, frequency.at)
        \/ band = "dc" /\ frequency.pass # "dc"
        \/ band = "lp" /\ frequency.pass \in {"hp", "flex"}
        \/ band = "hp" /\ frequency.pass = "flex"}

SameContexts ==
    \A band \in {"dc", "lp", "hp"} : \A p \in ReadSoFar(band) :
        Before(p, spatial.at) => frequency.read[band][p] = spatial.read[p][band]

(* Coefficients, prediction modes and the quantizer steps of the bands that  *)
(* are present.                                                              *)
Alike(a, b) ==
    /\ a.low = b.low /\ a.high = b.high /\ a.mode = b.mode
    /\ a.steps.dc = b.steps.dc
    /\ "lp" \in content.bands => a.steps.lp = b.steps.lp
    /\ "hp" \in content.bands => a.steps.hp = b.steps.hp /\ a.hpMode = b.hpMode

(* A tile decodes in one order exactly when it decodes in the other (no pass *)
(* reads a packet the spatial order does not, or overlooks a failure), and   *)
(* then both orders store the same macroblocks.                              *)
SameMacroblocks ==
    spatial.state # "decoding" /\ frequency.state # "decoding"
        => /\ frequency.state = spatial.state
           /\ spatial.state = "decoded"
                => \A p \in Macroblocks : Alike(frequency.mbs[p], spatial.mbs[p])

================================================================================
