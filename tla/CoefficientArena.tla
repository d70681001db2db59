--------------------------- MODULE CoefficientArena ---------------------------
(***************************************************************************)
(* Tile entropy decoded in parallel into one coefficient arena.            *)
(*                                                                         *)
(* decode_planes splits the storage into one window per component and      *)
(* selected tile, decodes the tiles as a parallel iterator, each into its  *)
(* own windows, and then appends the macroblock metadata, whose offsets    *)
(* are counted again from the records.  The storage is reused without      *)
(* being cleared: by the next decode of a workspace, or as an external     *)
(* slice of recycled staging.                                              *)
(***************************************************************************)
EXTENDS Integers, Sequences, FiniteSets, FiniteSetsExt, Functions, SequencesExt

CONSTANTS
  Plans,       \* plans decoded into the arena: tiles, layouts and packet order
  BlockSize,   \* coefficients of a block, 16 in the code
  Threads,     \* bound: tiles decoded at one time
  MaxDecodes   \* bound: decodes into the arena

\* A plan has tiles [macroblocks, required], component layouts [blocks, bands] and
\* an order: "spatial" packets store each macroblock as it is decoded,
\* "frequency" packets store the whole tile once every band was decoded.
PlanAssumption ==
  /\ {BlockSize, Threads} \subseteq Nat \ {0}
  /\ \A p \in Plans :
       /\ p.order \in {"spatial", "frequency"}
       /\ \E t \in DOMAIN p.tiles : p.tiles[t].required
       /\ \A t \in DOMAIN p.tiles : p.tiles[t].macroblocks \in Nat \ {0}
       /\ \A c \in DOMAIN p.layouts : p.layouts[c].bands \in {"dc", "lp", "hp"}

VARIABLES
  plan,       \* the plan of the last decode
  step,       \* "idle" or "tiles"
  arena,      \* the coefficients
  capacity,   \* capacity of their allocation
  writers,    \* per selected tile and component, its PlaneWriter
  tile,       \* per selected tile, how its packet stands
  metadata,   \* MacroblockMetadata, one record per macroblock
  planes,     \* plane descriptors
  outcome,    \* how the last decode ended
  decodes     \* number of decodes begun

storage == <<arena, capacity>>
vars == <<plan, step, storage, writers, tile, metadata, planes, outcome, decodes>>

-----------------------------------------------------------------------------
(***************************************************************************)
(* Geometry of a plan.                                                     *)
(***************************************************************************)
Components(p) == DOMAIN p.layouts

Required(p) == {t \in DOMAIN p.tiles : p.tiles[t].required}
\* Selected tiles, in plan order; a tile is named by its position among them.
Selected(p) == SetToSortSeq(Required(p), <)
Positions(p) == DOMAIN Selected(p)
Macroblocks(p, i) == p.tiles[Selected(p)[i]].macroblocks

\* coefficients_per_macroblock
PerMacroblock(layout) ==
  CASE layout.bands = "dc" -> 1
    [] layout.bands = "lp" -> layout.blocks
    [] layout.bands = "hp" -> layout.blocks * BlockSize

\* Mutant: tiles that are not reconstructed are counted.
Capacity_Bug(p) ==
  MapThenSumSet(LAMBDA t : p.tiles[t].macroblocks, DOMAIN p.tiles)
    * MapThenSumSet(LAMBDA c : PerMacroblock(p.layouts[c]), Components(p))
\* arena_capacity multiplies the macroblocks of a plane by those of all components.
Capacity(p) ==
  MapThenSumSet(LAMBDA t : p.tiles[t].macroblocks, Required(p))
    * MapThenSumSet(LAMBDA c : PerMacroblock(p.layouts[c]), Components(p))

Length(p, i, c) == Macroblocks(p, i) * PerMacroblock(p.layouts[c])

\* Mutant: the windows of a tile follow each other.
Before_Bug(i, c, j, d) == j < i \/ (j = i /\ d < c)
\* Window (j, d) is split off before window (i, c): planes first, then tiles.
Before(i, c, j, d) == d < c \/ (d = c /\ j < i)

Base(p, i, c) ==
  MapThenSumSet(LAMBDA w : Length(p, w[1], w[2]),
                {w \in Positions(p) \X Components(p) : Before(i, c, w[1], w[2])})

\* split_planes finds a window for every writer and leaves nothing over.
Splits(p, n) ==
  n = MapThenSumSet(LAMBDA w : Length(p, w[1], w[2]), Positions(p) \X Components(p))

NewWriter(p, i, c) == [base |-> Base(p, i, c), written |-> 0, records |-> 0]

Init ==
  /\ plan \in Plans
  /\ step     = "idle"
  /\ arena    = <<>>
  /\ capacity = 0
  /\ writers  = <<>>
  /\ tile     = <<>>
  /\ metadata = <<>>
  /\ planes   = <<>>
  /\ outcome  = "none"
  /\ decodes  = 0

-----------------------------------------------------------------------------
(***************************************************************************)
(* Storage.                                                                *)
(***************************************************************************)
Zero == [decode |-> 0]
Zeros(n) == [k \in 1..n |-> Zero]

\* Mutant: storage that is large enough is not resized.
Resized_Bug(n) == IF capacity < n THEN Zeros(n) ELSE arena
\* A larger arena is a new allocation, otherwise retained values stay.
Resized(n) ==
  IF capacity < n THEN Zeros(n) ELSE [k \in 1..n |-> IF k <= Len(arena) THEN arena[k] ELSE Zero]

\* Mutant: the metadata of the last decode is kept until new metadata is appended.
Cleared_Bug(m) == m
Cleared(m) == <<>>

\* The writers are consumed when the parallel iterator is.
Return == step' = "idle" /\ writers' = <<>> /\ tile' = <<>>

\* decode_tiles_reusing into a retained arena; decode_tiles_into is the same on
\* external storage, and decode_tiles the case of a new one.
Begin(p) ==
  /\ step = "idle"
  /\ decodes < MaxDecodes
  /\ decodes'  = decodes + 1
  /\ plan'     = p
  /\ arena'    = Resized(Capacity(p))
  /\ capacity' = IF capacity < Capacity(p) THEN Capacity(p) ELSE capacity
  /\ metadata' = Cleared(metadata)
  /\ planes'   = <<>>
  /\ IF Splits(p, Capacity(p))
     THEN /\ step'    = "tiles"
          /\ writers' = [i \in Positions(p) |-> [c \in Components(p) |-> NewWriter(p, i, c)]]
          /\ tile'    = [i \in Positions(p) |-> "waiting"]
          /\ outcome' = "none"
     ELSE /\ outcome' = "invalid_plan"
          /\ Return

-----------------------------------------------------------------------------
(***************************************************************************)
(* Tiles.                                                                  *)
(***************************************************************************)
Running == {i \in DOMAIN tile : tile[i] = "running"}
Errors  == {"corrupt", "invalid_plan"}
Failed  == {i \in DOMAIN tile : tile[i] \in Errors}

StartTile(i) ==
  /\ step = "tiles"
  /\ tile[i] = "waiting"
  /\ Cardinality(Running) < Threads
  /\ tile' = [tile EXCEPT ![i] = "running"]
  /\ UNCHANGED <<plan, step, storage, writers, metadata, planes, outcome, decodes>>

Unstored(i) == {c \in Components(plan) : writers[i][c].records < Macroblocks(plan, i)}

\* The component that is stored next: all of a macroblock before the next one
\* in spatial order, all of a plane before the next one in frequency order.
NextComponent(i) ==
  CHOOSE c \in Unstored(i) : \A d \in Unstored(i) :
    IF plan.order = "spatial"
    THEN \/ writers[i][c].records < writers[i][d].records
         \/ writers[i][c].records = writers[i][d].records /\ c <= d
    ELSE c <= d

Value(d, i, c, m, k) == [decode |-> d, tile |-> i, component |-> c, macroblock |-> m, index |-> k]

\* PlaneWriter::push
Push(i) ==
  /\ step = "tiles"
  /\ tile[i] = "running"
  /\ Unstored(i) # {}
  /\ LET c     == NextComponent(i)
         w     == writers[i][c]
         count == PerMacroblock(plan.layouts[c])
     IN  IF w.written + count > Length(plan, i, c)
         THEN /\ tile' = [tile EXCEPT ![i] = "invalid_plan"]
              /\ UNCHANGED <<arena, writers>>
         ELSE /\ arena' = [k \in DOMAIN arena |->
                   IF k - w.base - w.written \in 1..count
                   THEN Value(decodes, i, c, w.records + 1, k - w.base - w.written)
                   ELSE arena[k]]
              /\ writers' = [writers EXCEPT ![i][c].written = @ + count, ![i][c].records = @ + 1]
              /\ UNCHANGED tile
  /\ UNCHANGED <<plan, step, capacity, metadata, planes, outcome, decodes>>

\* The packet turns out to be corrupt, in frequency order before anything is stored.
FailPacket(i) ==
  /\ step = "tiles"
  /\ tile[i] = "running"
  /\ plan.order = "frequency" => \A c \in Components(plan) : writers[i][c].records = 0
  /\ tile' = [tile EXCEPT ![i] = "corrupt"]
  /\ UNCHANGED <<plan, step, storage, writers, metadata, planes, outcome, decodes>>

\* PlaneWriter::finish, for every window of the tile.
FinishTile(i) ==
  /\ step = "tiles"
  /\ tile[i] = "running"
  /\ Unstored(i) = {}
  /\ tile' = [tile EXCEPT ![i] =
       IF \A c \in Components(plan) : writers[i][c].written = Length(plan, i, c)
       THEN "finished" ELSE "invalid_plan"]
  /\ UNCHANGED <<plan, step, storage, writers, metadata, planes, outcome, decodes>>

-----------------------------------------------------------------------------
(***************************************************************************)
(* Metadata.                                                               *)
(***************************************************************************)
RecordsOf(i, c) ==
  [m \in 1..writers[i][c].records |->
     [tile |-> i, component |-> c, macroblock |-> m, count |-> PerMacroblock(plan.layouts[c])]]

PlaneRecords(c) == FlattenSeq([i \in Positions(plan) |-> RecordsOf(i, c)])
AllRecords == FlattenSeq([c \in Components(plan) |-> PlaneRecords(c)])
Counted(records) == FoldFunction(LAMBDA r, n : r.count + n, 0, records)

\* append_metadata: offsets are running totals of what the records count.
Metadata ==
  [r \in DOMAIN AllRecords |->
     [record |-> AllRecords[r], offset |-> Counted(SubSeq(AllRecords, 1, r - 1))]]

Earlier(c) == FlattenSeq([d \in 1..c - 1 |-> PlaneRecords(d)])

\* Mutant: the count of a plane runs from the start of the arena.
PlaneCount_Bug(c) == Counted(Earlier(c)) + Counted(PlaneRecords(c))
PlaneCount(c) == Counted(PlaneRecords(c))

Plane(c) ==
  [offset  |-> Counted(Earlier(c)),
   count   |-> PlaneCount(c),
   first   |-> Len(Earlier(c)),
   records |-> Len(PlaneRecords(c))]

Describe ==
  /\ step = "tiles"
  /\ \A i \in DOMAIN tile : tile[i] = "finished"
  /\ metadata' = metadata \o Metadata
  /\ planes'   = [c \in Components(plan) |-> Plane(c)]
  /\ outcome'  = IF Counted(AllRecords) = Len(arena) THEN "ok" ELSE "invalid_plan"
  /\ Return
  /\ UNCHANGED <<plan, storage, decodes>>

\* Mutant: tiles that were never started are waited for.
Settled_Bug == \A i \in DOMAIN tile : tile[i] \notin {"waiting", "running"}
\* After a failure tiles that were not started may be skipped.
Settled == Running = {}

\* The parallel collect returns one of the errors.
Abandon ==
  /\ step = "tiles"
  /\ Failed # {}
  /\ Settled
  /\ \E i \in Failed : outcome' = tile[i]
  /\ Return
  /\ UNCHANGED <<plan, storage, metadata, planes, decodes>>

-----------------------------------------------------------------------------
TileStep(i) == StartTile(i) \/ Push(i) \/ FailPacket(i) \/ FinishTile(i)

Over == step = "idle" /\ decodes = MaxDecodes /\ UNCHANGED vars

Next ==
  \/ \E p \in Plans : Begin(p)
  \/ \E i \in DOMAIN tile : TileStep(i)
  \/ Describe
  \/ Abandon
  \/ Over

Spec == Init /\ [][Next]_vars

\* Workers go on with the tiles they run.  After a failure nothing obliges them
\* to start another one.
FairSpec ==
  /\ Spec
  /\ \A i \in 1..Max({Cardinality(Required(p)) : p \in Plans}) :
       WF_vars(i \in DOMAIN tile /\ (Push(i) \/ FinishTile(i) \/ (StartTile(i) /\ Failed = {})))
  /\ WF_vars(Describe \/ Abandon)

-----------------------------------------------------------------------------
(***************************************************************************)
(* Properties.                                                             *)
(***************************************************************************)

\* Types; the storage never exceeds its allocation.
TypeOK ==
  /\ plan \in Plans
  /\ step \in {"idle", "tiles"}
  /\ Len(arena) <= capacity
  /\ outcome \in {"none", "ok"} \cup Errors
  /\ decodes \in 0..MaxDecodes
  /\ step = "tiles" =>
       /\ Len(arena) = Capacity(plan)
       /\ DOMAIN writers = Positions(plan)
       /\ tile \in [Positions(plan) -> {"waiting", "running", "finished"} \cup Errors]
       /\ Cardinality(Running) <= Threads

\* What a sequential decode of the plan leaves: planes in component order, in a
\* plane the tiles in plan order, in a tile the macroblocks in raster order.
Sequential ==
  LET Macroblock(i, c, m) == [k \in 1..PerMacroblock(plan.layouts[c]) |-> Value(decodes, i, c, m, k)]
      Window(i, c) == FlattenSeq([m \in 1..Macroblocks(plan, i) |-> Macroblock(i, c, m)])
  IN  FlattenSeq([c \in Components(plan) |-> FlattenSeq([i \in Positions(plan) |-> Window(i, c)])])

\* A decode that succeeds leaves what the sequential one would, in whatever order
\* its tiles were decoded: no value of an earlier decode survives in reused
\* storage (mod.rs: "Tile decoders overwrite every element").  It fails only on a
\* corrupt packet: storage, windows and records agree, so that the internal errors
\* are unreachable.
MatchesSequential ==
  /\ outcome = "ok" => arena = Sequential
  /\ outcome # "invalid_plan"
  /\ \A i \in DOMAIN tile : tile[i] # "invalid_plan"

\* Metadata, whenever there is any, addresses the values of its own macroblock,
\* also after a later decode into the arena failed.
RecordsAddress ==
  \A r \in DOMAIN metadata :
    LET e == metadata[r]
    IN  \A k \in 1..e.record.count :
          /\ e.offset + k <= Len(arena)
          /\ arena[e.offset + k] =
               Value(decodes, e.record.tile, e.record.component, e.record.macroblock, k)

\* Records address what they describe, and the plane descriptors partition the
\* coefficients and the macroblocks.
MetadataAddresses ==
  /\ RecordsAddress
  /\ outcome = "ok" =>
    /\ \A c \in DOMAIN planes :
         /\ planes[c].offset = IF c = 1 THEN 0 ELSE planes[c - 1].offset + planes[c - 1].count
         /\ planes[c].first  = IF c = 1 THEN 0 ELSE planes[c - 1].first + planes[c - 1].records
    /\ Last(planes).offset + Last(planes).count = Len(arena)
    /\ Last(planes).first + Last(planes).records = Len(metadata)

\* A decode that was begun ends, whichever tile fails.
DecodeEnds == step = "tiles" ~> step = "idle"
=============================================================================
