------------------------ MODULE MCPreparationCache ------------------------
(***************************************************************************)
(* Small instances of what happens to an image before its samples: the     *)
(* preparation of batches, and the components that read a packet.  They    *)
(* share no state; a behaviour is a behaviour of one of them, chosen in    *)
(* the first state.  PreparationCache, BlockCoefficients and AdaptiveCodes   *)
(* are extended, and their variables stand still while another runs; v1 to *)
(* v6 are those of the instance that runs.                                 *)
(***************************************************************************)
EXTENDS PreparationCache, BlockCoefficients, AdaptiveCodes, PrefixCodes, TLC

CONSTANTS
  Components,  \* those explored: "cache", "packets", "bits", "levels", "codes", "patterns"
  x, y, z, bad

VARIABLES component, v1, v2, v3, v4, v5, v6

own == <<v1, v2, v3, v4, v5, v6>>
ZeroFrom5 == v5 = 0 /\ v6 = 0
ZeroFrom4 == v4 = 0 /\ ZeroFrom5
ZeroFrom1 == v1 = 0 /\ v2 = 0 /\ v3 = 0 /\ ZeroFrom4

-----------------------------------------------------------------------------
(***************************************************************************)
(* PreparationCache.                                                       *)
(***************************************************************************)
\* x and z have the same output contract, y another; bad does not parse.
SurfaceOf == x :> "rgb8" @@ y :> "rgb565" @@ z :> "rgb8" @@ bad :> "rgb8"

\* Batches of duplicates; and with a duplicate around another surface, failed
\* inputs, no input, too many.
Repeated == {<<x, x>>, <<y>>}
Mixed == {<<x, y, x>>, <<y, bad, x, bad>>, <<z, y, x>>, <<z>>, <<>>, <<x, x, x, x, x>>}

Symmetry == Permutations(Callers)

-----------------------------------------------------------------------------
(***************************************************************************)
(* PacketRanges.  Tiles of every number of bands; an encoder puts off two  *)
(* packets of the index at a time.                                         *)
(***************************************************************************)
Shape(mode, tiles, bands, sizes) ==
  [mode |-> mode, tiles |-> tiles, bands |-> bands, sizes |-> sizes]
SmallShapes ==
  {Shape("spatial", 1, 1, {1}), Shape("spatial", 3, 1, {1, 2}), Shape("frequency", 3, 1, {1, 2}),
   Shape("frequency", 2, 2, {1}), Shape("frequency", 1, 4, {1, 2}), Shape("frequency", 2, 4, {1})}

Packets == INSTANCE PacketRanges WITH
  Shapes <- SmallShapes, Ahead <- 1, Gap <- 1, Base <- 3,
  file <- v1, written <- v2, index <- v3, located <- v4

-----------------------------------------------------------------------------
(***************************************************************************)
(* PacketBitReader.  Words of three bytes; packets of up to nine bytes that *)
(* end on and inside a byte, with bytes behind them, and one that is all   *)
(* zeroes, whose codes are the longest.                                    *)
(***************************************************************************)
Bytes(list) == [i \in 1..(8 * Len(list)) |-> BitsOf(list[((i - 1) \div 8) + 1], 8)[((i - 1) % 8) + 1]]
Packet(list, limit) == [bytes |-> Bytes(list), limit |-> limit]
SmallPayloads ==
  {Packet(<<172, 60, 15, 197, 9, 231, 64, 3, 255>>, 71), Packet(<<8, 1, 130, 68>>, 30),
   Packet(<<255, 254>>, 9), Packet(<<0, 0, 0>>, 24), Packet(<<>>, 0), Packet(<<1>>, 9)}

Bits(n) == [kind |-> "bits", width |-> n]
SymbolOf(t) == [kind |-> "symbol", table |-> t]
RunOf(n) == [kind |-> "run", longest |-> n]
LevelOf(t) == [kind |-> "level", table |-> <<"ABS_LEVEL", t>>]
SmallElements ==
  {Bits(n) : n \in {0, 1, 3, 8, 17, 18, 24, 25}}
    \cup {SymbolOf(t) : t \in {<<"FIRST_INDEX", 4>>, <<"INDEX_A", 0>>, <<"INDEX_B", 0>>}}
    \cup {RunOf(n) : n \in {0, 1, 2, 4, 5, 9, 14}} \cup {LevelOf(t) : t \in {0, 1}}
    \cup {[kind |-> "dc", width |-> 3, coded |-> c, table |-> <<"ABS_LEVEL", 0>>] : c \in BOOLEAN}
    \cup {[kind |-> "lp", coefficients |-> <<0, 2, -1>>, width |-> 2],
          [kind |-> "flex", coefficients |-> <<0, -3, 1>>, width |-> 3, trim |-> 1],
          [kind |-> "flex", coefficients |-> <<0, 5>>, width |-> 2, trim |-> 2]}

BitReader == INSTANCE PacketBitReader WITH
  Payloads <- SmallPayloads, Tables <- PrefixTables, Elements <- SmallElements, WordBytes <- 3,
  payload <- v1, reader <- v2, result <- v3

-----------------------------------------------------------------------------
(***************************************************************************)
(* BlockCoefficients.  Totals so close that scans reorder at once; runs    *)
(* that stay, that fill the block and that leave it.                       *)
(***************************************************************************)
ScanOrders ==
  LET Order(list) == [i \in 0..15 |-> list[i + 1]]
  IN  [horizontal |-> Order(<<0, 4, 1, 5, 8, 2, 9, 6, 12, 3, 10, 13, 7, 14, 11, 15>>),
       vertical |-> Order(<<0, 1, 2, 5, 4, 3, 6, 9, 8, 7, 12, 15, 13, 10, 11, 14>>)]
CloseTotals == [i \in 0..15 |-> <<0, 3, 3, 2, 2, 2, 1, 1, 1, 1, 0, 0, 0, 0, 0, 0>>[i + 1]]
SomeRuns(n) ==
  IF n = 0 THEN {} ELSE IF n <= 4 THEN {1, n} ELSE IF n <= 6 THEN {1, 6}
  ELSE IF n <= 10 THEN {2, n, 10} ELSE {1, 7, n, 14}

ASSUME ScanAssumption

-----------------------------------------------------------------------------
(***************************************************************************)
(* AdaptiveCodes.  Every selector; models of every band and colour; means  *)
(* that pull a model down, hold it and push it up.                         *)
(***************************************************************************)
SmallModels ==
  [luma |-> [band |-> 1, colour |-> "luma", components |-> 1],
   four |-> [band |-> 3, colour |-> "other", components |-> 4],
   subsampled |-> [band |-> 2, colour |-> "yuv420", components |-> 3]]

ASSUME AdaptationAssumption

-----------------------------------------------------------------------------
(***************************************************************************)
(* CodedBlocks.  Two rows of three macroblocks whose patterns fill, empty  *)
(* and cross quadrants.                                                    *)
(***************************************************************************)
\* A quadrant of luma pattern LumaOf(value, increment) and chroma patterns u and v.
Joint(value, increment, u, v) ==
  LET mask == {k \in {1, 2} : <<u, v>>[k] # {}}
  IN  [joint |-> [count |-> IF mask = {} THEN value - 1 ELSE IF value < 3 THEN value + 5 ELSE 8,
                  mask |-> mask,
                  more |-> IF mask = {} \/ value < 3 THEN 0 ELSE value - 3,
                  increment |-> increment],
       chroma |-> <<u, v>>]
Plane(value, increment) == [value |-> value, increment |-> increment]
Nothing3 == <<<<>>, <<>>, <<>>>>

SmallHeld ==
  "444" :> {<<>>, 0 :> Joint(4, 1, {1}, {}) @@ 3 :> Joint(3, 2, {0, 3}, {0, 1, 2, 3}),
            1 :> Joint(0, 0, {}, {2}) @@ 2 :> Joint(5, 0, {}, {})}
  @@ "422" :> {<<>>, 0 :> Joint(1, 3, {0, 2}, {}) @@ 2 :> Joint(2, 1, {2}, {0}),
               1 :> Joint(5, 0, {0}, {0, 2}) @@ 3 :> Joint(1, 0, {}, {})}
  @@ "420" :> {<<>>, 0 :> Joint(3, 1, {}, {0}) @@ 3 :> Joint(0, 0, {0}, {}),
               1 :> Joint(5, 0, {0}, {0}) @@ 2 :> Joint(2, 0, {}, {})}
  @@ "planes" :> {Nothing3, <<0 :> Plane(5, 0) @@ 3 :> Plane(1, 3), <<>>, 2 :> Plane(2, 1)>>,
                  <<1 :> Plane(4, 2), 0 :> Plane(3, 0), <<>>>>}

Patterns == INSTANCE CodedBlocks WITH
  Width <- 3, Height <- 2, Samplings <- {"444", "422", "420", "planes"}, Held <- SmallHeld,
  sampling <- v1, at <- v2, previous <- v3, prediction <- v4, residuals <- v5, decoded <- v6

-----------------------------------------------------------------------------
others == <<vars, scanVars, adaptVars>>

InitReading ==
  /\ component \in Components
  /\ Init /\ ScanInit /\ AdaptInit
  /\ component # "codes" => kind = "index"
  /\ \/ component \in {"cache", "levels", "codes"} /\ ZeroFrom1
     \/ component = "packets"  /\ Packets!Init /\ ZeroFrom5
     \/ component = "bits"     /\ BitReader!Init /\ ZeroFrom4
     \/ component = "patterns" /\ Patterns!Init

\* Packets are found, blocks and tiles end.
Ended ==
  /\ \/ component = "packets" /\ v4 # Packets!None
     \/ component = "levels" /\ (failed \/ blocks = MaxBlocks)
     \/ component = "patterns" /\ v2[2] = 2
  /\ UNCHANGED <<own, others>>

NextReading ==
  /\ UNCHANGED component
  /\ \/ component = "cache"  /\ Next      /\ UNCHANGED <<own, scanVars, adaptVars>>
     \/ component = "levels" /\ ScanNext  /\ UNCHANGED <<own, vars, adaptVars>>
     \/ component = "codes"  /\ AdaptNext /\ UNCHANGED <<own, vars, scanVars>>
     \/ /\ UNCHANGED others
        /\ \/ component = "packets"  /\ Packets!Next   /\ UNCHANGED <<v5, v6>>
           \/ component = "bits"     /\ BitReader!Next /\ UNCHANGED <<v4, v5, v6>>
           \/ component = "patterns" /\ Patterns!Next
     \/ Ended

readingVars == <<component, own, others>>

SpecReading == InitReading /\ [][NextReading]_readingVars

-----------------------------------------------------------------------------
(***************************************************************************)
(* The properties of the instances; those of the extended modules hold of   *)
(* standing variables too and are checked under their own names.           *)
(***************************************************************************)
\* Packets are found where they were written, and never overlap.
PacketsTrue == component = "packets" => Packets!PacketsTrue

\* The cached window of a packet reader is the packet's next bits.
PacketWindowTrue == component = "bits" => BitReader!WindowTrue

\* Every element has the value, length and error a reader of single bits gives it.
PacketsReadSerially ==
  [][component = "bits" =>
       \/ BitReader!Serial!Next \/ UNCHANGED BitReader!Serial!vars]_readingVars

\* Patterns are predicted from the blocks beside them, every pattern of a quadrant has
\* one code, and whatever a packet holds is one symbol of each table.
PatternsTrue ==
  component = "patterns" =>
    /\ Patterns!PredictedByNeighbours
    /\ v6 = <<>> => EveryByteDecodes /\ Patterns!OneCodeEach
===============================================================================
