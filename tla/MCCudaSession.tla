--------------------------- MODULE MCCudaSession ---------------------------
(***************************************************************************)
(* Small instances of the stations of an arena's life: the decoding of     *)
(* tiles into an arena, and a CUDA session with two streams that uploads   *)
(* and reads it.  A behaviour is a behaviour of one of them, chosen in the *)
(* first state; the session stands still while an arena is filled.         *)
(***************************************************************************)
EXTENDS CudaSession

CONSTANTS
  Explored,  \* those explored: "session", "arena"
  BlockSize, Threads, MaxDecodes    \* of CoefficientArena

VARIABLES
  component,
  plan, step, arena, capacity, writers, tile, metadata, planes, outcome, decodes

arenaVars == <<plan, step, arena, capacity, writers, tile, metadata, planes, outcome, decodes>>

-----------------------------------------------------------------------------
\* p reads one arena, r reads two and needs more scratch; two of r together are
\* over the budget.
SmallArenas  == [p |-> <<"A">>, r |-> <<"B", "A">>]
SmallScratch == [p |-> <<1, 2>>, r |-> <<2, 4>>]
SmallBytes   == [A |-> 1, B |-> 3]

\* One caller spreads a batch over the streams; the other is refused one over the
\* budget and repeats a plan.
Batches == [t1 |-> <<[dense |-> FALSE, plans |-> <<"p", "r">>]>>,
            t2 |-> <<[dense |-> TRUE, plans |-> <<"r", "r">>], [dense |-> TRUE, plans |-> <<"p">>]>>]

-----------------------------------------------------------------------------
Tile(n, r) == [macroblocks |-> n, required |-> r]
Layout(n, b) == [blocks |-> n, bands |-> b]

\* Three tiles of two components, of which one tile is not selected; a plan of
\* subsampled components whose alpha has fewer bands; a single tile.
SmallPlans == {
  [tiles |-> <<Tile(2, TRUE), Tile(1, FALSE), Tile(1, TRUE)>>,
   layouts |-> <<Layout(2, "hp"), Layout(1, "hp")>>, order |-> "spatial"],
  [tiles |-> <<Tile(1, TRUE), Tile(2, TRUE)>>,
   layouts |-> <<Layout(2, "lp"), Layout(1, "lp"), Layout(2, "dc")>>, order |-> "spatial"],
  [tiles |-> <<Tile(1, TRUE), Tile(1, TRUE), Tile(1, TRUE)>>,
   layouts |-> <<Layout(1, "hp"), Layout(1, "dc")>>, order |-> "frequency"],
  [tiles |-> <<Tile(1, TRUE)>>, layouts |-> <<Layout(2, "lp")>>, order |-> "spatial"] }

Arena == INSTANCE CoefficientArena WITH Plans <- SmallPlans

ASSUME Arena!PlanAssumption

-----------------------------------------------------------------------------

NoArena ==
  /\ plan = 0 /\ step = "none" /\ arena = 0 /\ capacity = 0 /\ writers = 0
  /\ tile = 0 /\ metadata = 0 /\ planes = 0 /\ outcome = 0 /\ decodes = 0

-----------------------------------------------------------------------------
coefficientVars == <<component, vars, arenaVars>>

InitCoefficients ==
  /\ component \in Explored
  /\ Init
  /\ \/ component = "session" /\ NoArena
     \/ component = "arena" /\ Arena!Init

NextCoefficients ==
  /\ UNCHANGED component
  /\ \/ component = "session" /\ Next /\ UNCHANGED arenaVars
     \/ component = "arena" /\ Arena!Next /\ UNCHANGED vars

\* The fairness of CudaSession, and of CoefficientArena for the tiles that run.
TileGoesOn(i) ==
  /\ component = "arena" /\ i \in DOMAIN tile
  /\ Arena!Push(i) \/ Arena!FinishTile(i) \/ (Arena!StartTile(i) /\ Arena!Failed = {})
  /\ UNCHANGED <<component, vars>>
DecodeGoesOn ==
  /\ component = "arena"
  /\ Arena!Describe \/ Arena!Abandon
  /\ UNCHANGED <<component, vars>>

SpecCoefficients ==
  /\ InitCoefficients /\ [][NextCoefficients]_coefficientVars
  /\ \A t \in Callers : WF_vars(Encode(t)) /\ WF_vars(Settle(t))
  /\ \A s \in StreamIds : WF_vars(Device(s))
  /\ \A i \in 1..3 : WF_coefficientVars(TileGoesOn(i))
  /\ WF_coefficientVars(DecodeGoesOn)

-----------------------------------------------------------------------------
\* Types of the session and of the arena.
CoefficientsTypeOK == TypeOK /\ (component = "arena" => Arena!TypeOK)

\* Tiles decoded in parallel leave what a sequential decode leaves.
ArenaMatchesSequential == component = "arena" => Arena!MatchesSequential

\* Metadata and plane descriptors address the values of their own plane.
ArenaMetadataAddresses == component = "arena" => Arena!MetadataAddresses

\* Calls of the session, and decodes into the arena, end whatever fails.
EveryCallReturns ==
  /\ CallsReturn
  /\ (component = "arena" /\ step = "tiles") ~> (step = "idle")
=============================================================================
