------------------------- MODULE CoefficientProofs -------------------------
(***************************************************************************)
(* Proofs about how coefficients come about: AdaptiveCodes and             *)
(* BlockCoefficients, the two components of entropy decoding, each for any *)
(* input and however often it comes, and ReconstructionCache, which has    *)
(* the coefficients of a contract decoded once, for any pool, any number   *)
(* of callers and any sharing of contracts.                                *)
(***************************************************************************)
EXTENDS AdaptiveCodes, BlockCoefficients, ReconstructionCache, SequenceLemmas, SequenceTheorems, TLAPS

-----------------------------------------------------------------------------
(***************************************************************************)
(* AdaptiveCodes, for any symbols and any coded magnitudes: tables, rows   *)
(* of deltas and model bits stay in range.  What a selector's rows are     *)
(* follows from its table, what a model's state may be follows from one    *)
(* update.                                                                 *)
(***************************************************************************)
\* A model weighs what it is given with an integer.
LEMMA WeightedIsInteger ==
  ASSUME AdaptationAssumption, kind \in DOMAIN Models, NEW mean \in Nat, NEW chroma \in BOOLEAN
  PROVE  Weighted(mean, chroma) \in Int
<1> DEFINE model == Models[kind]
<1>1. model.band \in 1..3 /\ model.colour \in Colours /\ model.components \in 1..16
  BY DEF AdaptationAssumption
<1>2. LUMA_WEIGHT[model.band] \in Nat
  BY <1>1 DEF LUMA_WEIGHT
<1>3. OTHER_WEIGHT[model.band][model.components] \in Nat
  <2>1. \A c \in 1..16 : OTHER_WEIGHT[1][c] \in Nat
    BY DEF OTHER_WEIGHT
  <2>2. \A c \in 1..16 : OTHER_WEIGHT[2][c] \in Nat
    BY DEF OTHER_WEIGHT
  <2>3. \A c \in 1..16 : OTHER_WEIGHT[3][c] \in Nat
    BY DEF OTHER_WEIGHT
  <2> QED BY <1>1, <2>1, <2>2, <2>3
<1>4. ASSUME model.colour \in DOMAIN SUBSAMPLED_WEIGHT
      PROVE  SUBSAMPLED_WEIGHT[model.colour][model.band] \in Nat
  BY <1>1, <1>4 DEF SUBSAMPLED_WEIGHT
<1> HIDE DEF model
<1>5. \A w \in Nat : mean * w \in Int /\ (mean * w) \div 1 \in Int /\ (mean * w) \div 16 \in Int
  OBVIOUS
<1> QED BY <1>2, <1>3, <1>4, <1>5 DEF Weighted, model

\* One update keeps bits and state within their bounds.
LEMMA UpdateBounded ==
  ASSUME NEW b \in 0..15, NEW s \in -8..8, NEW mean \in Int
  PROVE  Next1(b, s, mean)[1] \in 0..15 /\ Next1(b, s, mean)[2] \in -8..8
<1> DEFINE raw == (mean - 70) \div 4
           sum == s + (IF raw <= -8 THEN Largest(raw + 4, -16)
                       ELSE IF raw >= 8 THEN Least(raw - 4, 15) ELSE 0)
<1>1. raw \in Int
  OBVIOUS
<1>2. sum \in Int
  BY <1>1 DEF Largest, Least
<1>3. Next1(b, s, mean) = IF sum < -8 THEN IF b = 0 THEN <<0, -8>> ELSE <<b - 1, 0>>
                          ELSE IF sum > 8 THEN IF b >= 15 THEN <<15, 8>> ELSE <<b + 1, 0>>
                          ELSE <<b, sum>>
  BY DEF Next1
<1> HIDE DEF sum
<1> QED BY <1>2, <1>3

-----------------------------------------------------------------------------
\* Neighbouring rows of a table further down or up are rows there are.
LEMMA NeighbourRows ==
  ASSUME NEW last \in Nat \ {0}, NEW t \in 0..last
  PROVE  \A k \in 1..2 : DeltaRows(t, last)[k] = Clamp(t + k - 2, 0, last - 1)
BY DEF DeltaRows, Clamp, Largest, Least

\* A selector with two counts has a row for each of its neighbouring tables.
LEMMA RowsOfSelectors ==
  ASSUME kind \in SelectorNames
  PROVE  /\ TableCount[kind] \in 2..5
         /\ Up = IF TableCount[kind] = 2 THEN 1 ELSE 2
         /\ Len(Rows[kind]) = TableCount[kind] - 1
<1>1. CASE kind = "first"
  <2>1. TableCount[kind] = 5
    BY <1>1 DEF TableCount
  <2>2. Rows[kind] = FIRST_INDEX_DELTA
    BY <1>1 DEF Rows
  <2>3. Len(FIRST_INDEX_DELTA) = 4
    BY DEF FIRST_INDEX_DELTA
  <2> QED BY <2>1, <2>2, <2>3 DEF Up
<1>2. CASE kind = "index"
  <2>1. TableCount[kind] = 4
    BY <1>2 DEF TableCount
  <2>2. Rows[kind] = INDEX_DELTA
    BY <1>2 DEF Rows
  <2>3. Len(INDEX_DELTA) = 3
    BY DEF INDEX_DELTA
  <2> QED BY <2>1, <2>2, <2>3 DEF Up
<1>3. CASE kind \in {"level", "groups", "blocks"}
  <2>1. TableCount[kind] = 2
    BY <1>3 DEF TableCount
  <2>2. Rows[kind] \in {<<ABS_LEVEL_DELTA>>, <<DELTA>>, <<DELTA_YUV>>}
    BY <1>3 DEF Rows
  <2> HIDE DEF ABS_LEVEL_DELTA, DELTA, DELTA_YUV
  <2>3. Len(Rows[kind]) = 1
    BY <2>2
  <2> QED BY <2>1, <2>3 DEF Up
<1> QED BY <1>1, <1>2, <1>3 DEF SelectorNames

\* A selector that observes symbols names a table and rows that exist.
LEMMA ObservationsKeepRange ==
  ASSUME AdaptationAssumption, SelectorsInRange, Select
  PROVE  SelectorsInRange'
<1> DEFINE last == TableCount[kind] - 1
<1>1. kind \in SelectorNames /\ kind' = kind /\ kind \in Selectors
  BY DEF Select, AdaptationAssumption
<1>2. /\ TableCount[kind] \in 2..5 /\ last \in Nat \ {0} /\ Up \in 1..2 /\ (Up = 2 <=> last # 1)
      /\ Len(Rows[kind]) = last
  BY <1>1, RowsOfSelectors
<1>3. PICK moved \in {-1, 0, 1} :
        /\ table' = table + moved
        /\ moved = -1 => table # 0
        /\ moved = 1 => table # last
        /\ delta' = IF moved # 0 /\ Up = 2 THEN DeltaRows(table + moved, last) ELSE delta
  BY DEF Select, Adapt
<1>4. table \in 0..last /\ \A k \in 1..Up :
        delta[k] \in 0..(last - 1) /\ (Up = 2 => delta[k] = Clamp(table + k - 2, 0, last - 1))
  BY <1>1, <1>2 DEF SelectorsInRange
<1>5. table' \in 0..last
  BY <1>2, <1>3, <1>4
<1>6. ASSUME NEW k \in 1..Up
      PROVE  delta'[k] \in 0..(last - 1) /\ (Up = 2 => delta'[k] = Clamp(table' + k - 2, 0, last - 1))
  <2>1. CASE moved # 0 /\ Up = 2
    <3>1. delta'[k] = Clamp(table' + k - 2, 0, last - 1)
      BY <1>2, <1>3, <1>5, <2>1, NeighbourRows
    <3>2. \A n \in Int, top \in Nat : Clamp(n, 0, top) \in 0..top
      BY DEF Clamp, Largest, Least
    <3>3. table' + k - 2 \in Int /\ last - 1 \in Nat
      BY <1>2, <1>5
    <3> QED BY <3>1, <3>2, <3>3
  <2>2. CASE moved = 0
    BY <1>2, <1>3, <1>4, <2>2
  <2>3. CASE Up # 2
    BY <1>2, <1>3, <1>4, <2>3
  <2> QED BY <2>1, <2>2, <2>3
<1>7. Up' = Up /\ TableCount[kind]' = TableCount[kind] /\ Rows[kind]' = Rows[kind]
  BY <1>1 DEF Up
<1>8. table' \in 0..(TableCount[kind'] - 1)
  BY <1>1, <1>5
<1>9. \A k \in 1..Up' :
        /\ delta'[k] \in 0..(Len(Rows[kind']) - 1)
        /\ Up' = 2 => delta'[k] = Clamp(table' + k - 2, 0, TableCount[kind'] - 2)
  <2>1. Len(Rows[kind']) - 1 = last - 1 /\ TableCount[kind'] - 2 = last - 1 /\ last - 1 \in Nat
    BY <1>1, <1>2
  <2> HIDE DEF last
  <2> QED BY <2>1, <1>6, <1>7
<1> QED BY <1>8, <1>9 DEF SelectorsInRange

\* No run of symbols takes a selector to a table, or to a row of deltas, that is
\* not there: AdaptiveVlc indexes its arrays without a check of its own.
THEOREM SelectorsStayInRange ==
  ASSUME AdaptationAssumption
  PROVE  AdaptSpec => []SelectorsInRange
<1>1. AdaptInit => SelectorsInRange
  <2> SUFFICES ASSUME AdaptInit, kind \in Selectors PROVE SelectorsInRange
    BY DEF SelectorsInRange
  <2>1. kind \in SelectorNames /\ table = Up - 1 /\ delta = IF Up = 1 THEN <<0>> ELSE <<0, 1>>
    BY DEF AdaptInit, AdaptationAssumption
  <2> QED BY <2>1, RowsOfSelectors DEF SelectorsInRange, Clamp, Largest, Least
<1>2. SelectorsInRange /\ [AdaptNext]_adaptVars => SelectorsInRange'
  <2> SUFFICES ASSUME SelectorsInRange, [AdaptNext]_adaptVars PROVE SelectorsInRange'
    OBVIOUS
  <2>1. CASE Select
    BY <2>1, ObservationsKeepRange
  <2>2. CASE Update
    BY <2>2 DEF Update, SelectorsInRange, Up, AdaptationAssumption
  <2>3. CASE UNCHANGED adaptVars
    BY <2>3 DEF adaptVars, SelectorsInRange, Up
  <2> QED BY <2>1, <2>2, <2>3 DEF AdaptNext
<1> QED BY <1>1, <1>2, PTL DEF AdaptSpec

-----------------------------------------------------------------------------
\* A model's fields are those of one update, or what they were.
LEMMA UpdatesKeepBounds ==
  ASSUME AdaptationAssumption, ModelsBounded, Update
  PROVE  ModelsBounded'
<1>1. kind \in DOMAIN Models /\ kind' = kind
  BY DEF Update
<1>2. PICK mean \in [{1, 2} -> Means] :
        LET next == [k \in {1, 2} |-> IF k \in Updated
                                       THEN Next1(bits[k], state[k], Weighted(mean[k], k = 2))
                                       ELSE <<bits[k], state[k]>>]
        IN  bits' = [k \in {1, 2} |-> next[k][1]] /\ state' = [k \in {1, 2} |-> next[k][2]]
  BY DEF Update
<1>3. ASSUME NEW k \in {1, 2}
      PROVE  bits'[k] \in 0..15 /\ state'[k] \in -8..8
  <2>1. bits[k] \in 0..15 /\ state[k] \in -8..8
    BY <1>1 DEF ModelsBounded
  <2>2. CASE k \in Updated
    <3>1. mean[k] \in Nat
      BY DEF AdaptationAssumption
    <3>2. Weighted(mean[k], k = 2) \in Int
      BY <1>1, <3>1, WeightedIsInteger
    <3>3. /\ bits'[k] = Next1(bits[k], state[k], Weighted(mean[k], k = 2))[1]
          /\ state'[k] = Next1(bits[k], state[k], Weighted(mean[k], k = 2))[2]
      BY <1>2, <2>2
    <3> QED BY <2>1, <3>2, <3>3, UpdateBounded
  <2>3. CASE k \notin Updated
    BY <1>2, <2>1, <2>3
  <2> QED BY <2>2, <2>3
<1> QED BY <1>1, <1>3 DEF ModelsBounded

\* No run of macroblocks, whatever their coefficients, takes a model's bits past the
\* 15 a coefficient may be shifted by, nor its state out of what a counter holds.
THEOREM ModelsStayBounded ==
  ASSUME AdaptationAssumption
  PROVE  AdaptSpec => []ModelsBounded
<1>1. AdaptInit => ModelsBounded
  <2> SUFFICES ASSUME AdaptInit, kind \in DOMAIN Models PROVE ModelsBounded
    BY DEF ModelsBounded
  <2>1. /\ bits = [k \in {1, 2} |-> InitialBits[Models[kind].band]]
        /\ state = [k \in {1, 2} |-> 0]
    BY DEF AdaptInit, AdaptationAssumption
  <2>2. Models[kind].band \in 1..3
    BY DEF AdaptationAssumption
  <2>3. InitialBits[Models[kind].band] \in 0..15
    BY <2>2 DEF InitialBits
  <2> QED BY <2>1, <2>3 DEF ModelsBounded
<1>2. ModelsBounded /\ [AdaptNext]_adaptVars => ModelsBounded'
  <2> SUFFICES ASSUME ModelsBounded, [AdaptNext]_adaptVars PROVE ModelsBounded'
    OBVIOUS
  <2>1. CASE Select
    BY <2>1 DEF Select, ModelsBounded, AdaptationAssumption
  <2>2. CASE Update
    BY <2>2, UpdatesKeepBounds
  <2>3. CASE UNCHANGED adaptVars
    BY <2>3 DEF adaptVars, ModelsBounded
  <2> QED BY <2>1, <2>2, <2>3 DEF AdaptNext
<1> QED BY <1>1, <1>2, PTL DEF AdaptSpec

\* Both, as the runs check them.
THEOREM AdaptationStaysBounded ==
  ASSUME AdaptationAssumption
  PROVE  AdaptSpec => []AdaptationBounded
<1>1. SelectorsInRange /\ ModelsBounded => AdaptationBounded
  BY DEF AdaptationBounded
<1> QED BY <1>1, SelectorsStayInRange, ModelsStayBounded, PTL

-----------------------------------------------------------------------------
(***************************************************************************)
(* BlockCoefficients, for any orders and totals of the scans and any runs: *)
(* levels of a block never meet, and the two forms of a block end alike.   *)
(*                                                                         *)
(* A scan swaps an entry with the one before it while a block is decoded,  *)
(* so the places of levels the block has passed change under it.  What     *)
(* stays is the set of places passed: a swap at an index moves nothing     *)
(* past that index, and a level further along finds a place outside it.    *)
(***************************************************************************)
Passed(order, index) == {order[i] : i \in 1..index}

ScanOK(scan) ==
  /\ scan = [order |-> scan.order, totals |-> scan.totals]
  /\ Permutes(scan.order)
  /\ scan.totals \in [0..15 -> Int]

LevelsOK == output \in [0..15 -> Nat] /\ coded \in Seq([run : Nat, level : Nat \ {0}])

\* A block has levels only in places it has passed, and every level has one.
BlockOK ==
  IF block = None
  THEN coded = <<>> /\ output = NoLevels
  ELSE /\ block.direction \in DOMAIN Orders
       /\ block.location \in 1..16
       /\ \A p \in 0..15 :
            output[p] # 0 => p \in Passed(scans[block.direction].order, block.location - 1)
       /\ \A k \in 1..Len(coded) : \E p \in 1..15 : output[p] = coded[k].level

IInv ==
  /\ scans = [d \in DOMAIN Orders |-> scans[d]]
  /\ \A d \in DOMAIN Orders : ScanOK(scans[d])
  /\ LevelsOK
  /\ BlockOK

-----------------------------------------------------------------------------
\* An order with two neighbours swapped is one, with the same places passed there
\* and later.
LEMMA SwapKeepsPassed ==
  ASSUME NEW order, Permutes(order), NEW index \in 2..15
  PROVE  LET swapped == [order EXCEPT ![index] = order[index - 1], ![index - 1] = order[index]]
         IN  Permutes(swapped) /\ Passed(swapped, index) = Passed(order, index)
<1> DEFINE swapped == [order EXCEPT ![index] = order[index - 1], ![index - 1] = order[index]]
           from(i) == IF i = index THEN index - 1 ELSE IF i = index - 1 THEN index ELSE i
<1>1. order \in [0..15 -> 0..15] /\ index - 1 \in 1..14 /\ index \in 2..15
  BY DEF Permutes
<1>2. \A i \in 0..15 : from(i) \in 0..15 /\ from(from(i)) = i
  BY <1>1
<1>3. swapped \in [0..15 -> 0..15] /\ \A i \in 0..15 : swapped[i] = order[from(i)]
  BY <1>1
<1>4. \A i \in 1..15 : from(i) \in 1..15
  BY <1>1
<1>5. \A i \in 1..index : from(i) \in 1..index
  BY <1>1
<1>6. \A i \in 1..index : i \in 0..15
  BY <1>1
<1>7. from(0) = 0
  BY <1>1
<1> HIDE DEF swapped, from
<1>8. {swapped[i] : i \in 1..15} = {order[i] : i \in 1..15}
  <2>1. ASSUME NEW i \in 1..15 PROVE swapped[i] \in {order[j] : j \in 1..15}
    <3>1. from(i) \in 1..15 /\ swapped[i] = order[from(i)]
      BY <1>3, <1>4
    <3> QED BY <3>1
  <2>2. ASSUME NEW i \in 1..15 PROVE order[i] \in {swapped[j] : j \in 1..15}
    <3>1. from(i) \in 1..15 /\ swapped[from(i)] = order[i]
      BY <1>2, <1>3, <1>4
    <3> QED BY <3>1
  <2> QED BY <2>1, <2>2
<1>9. Passed(swapped, index) = Passed(order, index)
  <2>1. ASSUME NEW i \in 1..index PROVE swapped[i] \in Passed(order, index)
    BY <1>3, <1>5, <1>6 DEF Passed
  <2>2. ASSUME NEW i \in 1..index PROVE order[i] \in Passed(swapped, index)
    <3>1. from(i) \in 1..index /\ swapped[from(i)] = order[i]
      BY <1>2, <1>3, <1>5, <1>6
    <3> QED BY <3>1 DEF Passed
  <2> QED BY <2>1, <2>2 DEF Passed
<1>10. \A i, j \in 0..15 : swapped[i] = swapped[j] => i = j
  <2> SUFFICES ASSUME NEW i \in 0..15, NEW j \in 0..15, swapped[i] = swapped[j] PROVE i = j
    OBVIOUS
  <2>1. order[from(i)] = order[from(j)] /\ from(i) \in 0..15 /\ from(j) \in 0..15
    BY <1>2, <1>3
  <2>2. from(i) = from(j)
    BY <2>1 DEF Permutes
  <2> QED BY <1>2, <2>2
<1>11. Permutes(swapped)
  <2>1. swapped[0] = 0
    BY <1>3, <1>7 DEF Permutes
  <2>2. {swapped[i] : i \in 1..15} = 1..15
    BY <1>8, Zenon DEF Permutes
  <2> QED BY <1>3, <1>10, <2>1, <2>2, Zenon DEF Permutes
<1> QED BY <1>9, <1>11 DEF swapped

\* A level is put at its index's place, and the scan stays one.
Placed(scan, out, index, level, placed) ==
  /\ ScanOK(placed.scan)
  /\ Passed(placed.scan.order, index) = Passed(scan.order, index)
  /\ placed.out = [out EXCEPT ![scan.order[index]] = level]

\* Placing a level leaves a scan that still has every place once.
LEMMA PlaceKeepsScan ==
  ASSUME NEW scan, ScanOK(scan), NEW out \in [0..15 -> Nat], NEW index \in 1..15, NEW level \in Nat
  PROVE  Placed(scan, out, index, level, Place(scan, out, index, level))
<1> DEFINE placed == Place(scan, out, index, level)
           seen == [scan.totals EXCEPT ![index] = @ + 1]
           Swapped(f) == [f EXCEPT ![index] = f[index - 1], ![index - 1] = f[index]]
<1>1. seen \in [0..15 -> Int]
  BY DEF ScanOK
<1>2. CASE index > 1 /\ seen[index] > seen[index - 1]
  <2>1. placed = [scan |-> [order |-> Swapped(scan.order), totals |-> Swapped(seen)],
                  out |-> [out EXCEPT ![scan.order[index]] = level]]
    BY <1>2 DEF Place
  <2>2. Swapped(seen) \in [0..15 -> Int]
    BY <1>1, <1>2
  <2>3. Permutes(Swapped(scan.order)) /\ Passed(Swapped(scan.order), index) = Passed(scan.order, index)
    <3>1. Permutes(scan.order) /\ index \in 2..15
      BY <1>2 DEF ScanOK
    <3> QED BY <3>1, SwapKeepsPassed, Zenon
  <2> HIDE DEF Swapped, placed
  <2> QED BY <2>1, <2>2, <2>3 DEF ScanOK, Placed, placed
<1>3. CASE ~(index > 1 /\ seen[index] > seen[index - 1])
  <2>1. placed = [scan |-> [order |-> scan.order, totals |-> seen],
                  out |-> [out EXCEPT ![scan.order[index]] = level]]
    BY <1>3 DEF Place
  <2> HIDE DEF placed, seen
  <2> QED BY <1>1, <2>1 DEF ScanOK, Placed, placed
<1> QED BY <1>2, <1>3

-----------------------------------------------------------------------------
\* A coefficient that stays in the block has an index past those before it.
LEMMA IndexGoesOn ==
  ASSUME NEW location \in 1..16, NEW run \in Nat, Fits(location + run + 1)
  PROVE  LET next == location + run + 1
         IN  /\ next \in 2..16 /\ next - 1 \in 0..15 /\ next - 1 \in 1..15 /\ next - 1 \in 1..(next - 1)
             /\ \A i \in 1..(location - 1) : i \in 0..15 /\ i # next - 1 /\ i \in 1..(next - 1)
  BY DEF Fits

\* What a coefficient of a block at b does, b being a block under way or a new one.
LEMMA EmitKeepsApart ==
  ASSUME IInv,
         NEW STATE b, b.direction \in DOMAIN Orders, b.location \in 1..16,
         \A p \in 0..15 : output[p] # 0 => p \in Passed(scans[b.direction].order, b.location - 1),
         \A k \in 1..Len(coded) : \E p \in 1..15 : output[p] = coded[k].level,
         NEW run \in Nat, NEW more, Emit(b, run, more)
  PROVE  IInv'
<1> DEFINE next == b.location + run + 1
           value == Len(coded) + 1
           mine == scans[b.direction]
           placed == Place(mine, output, next - 1, value)
<1>1. CASE ~Fits(next)
  <2>1. UNCHANGED <<block, scans, output, coded>>
    BY <1>1 DEF Emit
  <2> QED BY <2>1 DEF IInv, LevelsOK, BlockOK
<1>2. CASE Fits(next)
  <2>1. coded' = Append(coded, [run |-> run, level |-> value])
    BY <1>2, Zenon DEF Emit
  <2>2. scans' = [scans EXCEPT ![b.direction] = placed.scan]
    BY <1>2, Zenon DEF Emit
  <2>3. output' = placed.out
    BY <1>2, Zenon DEF Emit
  <2>4. block' = Block(b.start, next, b.direction, more)
    BY <1>2, Zenon DEF Emit
  <2>5. value \in Nat \ {0}
    <3>1. coded \in Seq([run : Nat, level : Nat \ {0}])
      BY DEF IInv, LevelsOK
    <3>2. Len(coded) \in Nat
      BY <3>1
    <3> QED BY <3>2
  <2>6. /\ next \in 2..16 /\ next - 1 \in 0..15 /\ next - 1 \in 1..15 /\ next - 1 \in 1..(next - 1)
        /\ \A i \in 1..(b.location - 1) : i \in 0..15 /\ i # next - 1 /\ i \in 1..(next - 1)
    BY <1>2, IndexGoesOn
  <2>7. ScanOK(mine) /\ output \in [0..15 -> Nat]
    BY DEF IInv, LevelsOK
  <2>8. /\ ScanOK(placed.scan)
        /\ Passed(placed.scan.order, next - 1) = Passed(mine.order, next - 1)
        /\ placed.out = [output EXCEPT ![mine.order[next - 1]] = value]
    <3>1. next - 1 \in 1..15 /\ value \in Nat /\ ScanOK(mine) /\ output \in [0..15 -> Nat]
      BY <2>5, <2>6, <2>7
    <3>2. Placed(mine, output, next - 1, value, placed)
      <4> HIDE DEF next, value, mine
      <4> QED BY <3>1, PlaceKeepsScan DEF placed
    <3> QED BY <3>2 DEF Placed
  <2> DEFINE here == mine.order[next - 1]
  <2>9. here \in 1..15 /\ here \notin Passed(mine.order, b.location - 1)
    <3>1. here \in 1..15
      <4> HIDE DEF next, mine
      <4>1. {mine.order[i] : i \in 1..15} = 1..15
        BY <2>7 DEF ScanOK, Permutes
      <4> QED BY <2>6, <4>1
    <3>2. ASSUME NEW i \in 1..(b.location - 1) PROVE mine.order[i] # here
      <4> HIDE DEF next, mine
      <4>1. i \in 0..15 /\ next - 1 \in 0..15 /\ i # next - 1
        BY <2>6, Zenon
      <4> QED BY <2>7, <4>1 DEF ScanOK, Permutes
    <3> QED BY <3>1, <3>2 DEF Passed
  <2>10. /\ block'.direction = b.direction /\ block'.location = next /\ block' # None
    BY <2>4 DEF None, Block
  <2>11. output' = [output EXCEPT ![here] = value]
    BY <2>3, <2>8
  <2>13. scans' = [d \in DOMAIN Orders |-> scans'[d]] /\ scans'[b.direction] = placed.scan
    BY <2>2 DEF IInv
  <2>14. \A d \in DOMAIN Orders : ScanOK(scans'[d])
    <3>1. ASSUME NEW d \in DOMAIN Orders, d # b.direction PROVE scans'[d] = scans[d]
      BY <2>2, <3>1 DEF IInv
    <3> QED BY <2>8, <2>13, <3>1 DEF IInv
  <2> HIDE DEF next, value, placed, here
  <2>15. LevelsOK'
    <3>1. output' \in [0..15 -> Nat]
      BY <2>5, <2>7, <2>9, <2>11
    <3>2. coded' \in Seq([run : Nat, level : Nat \ {0}])
      BY <2>1, <2>5 DEF IInv, LevelsOK
    <3> QED BY <3>1, <3>2 DEF LevelsOK
  <2>16. ASSUME NEW p \in 0..15, output'[p] # 0
         PROVE  p \in Passed(scans'[b.direction].order, next - 1)
    <3>1. here \in Passed(mine.order, next - 1)
      BY <2>6 DEF here, Passed
    <3>2. CASE p = here
      BY <2>8, <2>13, <3>1, <3>2
    <3>3. CASE p # here
      <4>1. output[p] # 0
        BY <2>7, <2>11, <2>16, <3>3
      <4>2. p \in Passed(mine.order, b.location - 1)
        BY <4>1
      <4>3. p \in Passed(mine.order, next - 1)
        BY <2>6, <4>2 DEF Passed
      <4> QED BY <2>8, <2>13, <4>3
    <3> QED BY <3>2, <3>3
  <2>17. ASSUME NEW k \in 1..Len(coded')
         PROVE  \E p \in 1..15 : output'[p] = coded'[k].level
    <3>1. coded \in Seq([run : Nat, level : Nat \ {0}])
      BY DEF IInv, LevelsOK
    <3>2. CASE k = Len(coded) + 1
      <4>1. coded'[k].level = value
        BY <2>1, <3>1, <3>2
      <4>2. output'[here] = value
        BY <2>7, <2>9, <2>11
      <4> QED BY <2>9, <4>1, <4>2
    <3>3. CASE k \in 1..Len(coded)
      <4>1. PICK p \in 1..15 : output[p] = coded[k].level
        BY <3>3
      <4>2. coded'[k] = coded[k]
        BY <2>1, <3>1, <3>3
      <4>3. coded[k].level # 0
        <5>1. coded[k] \in [run : Nat, level : Nat \ {0}]
          BY <3>1, <3>3, ElementOfSeq
        <5> QED BY <5>1
      <4>4. p \in 0..15 /\ output[p] # 0
        BY <4>1, <4>3
      <4>5. p \in Passed(scans[b.direction].order, b.location - 1)
        BY <4>4
      <4>6. p # here
        BY <2>9, <4>5
      <4>7. output'[p] = output[p]
        BY <2>7, <2>11, <4>4, <4>6
      <4> QED BY <4>1, <4>2, <4>7
    <3> QED BY <2>1, <3>1, <3>2, <3>3
  <2>18. BlockOK'
    <3>1. next \in 1..16
      BY <2>6
    <3> QED BY <2>10, <2>16, <2>17, <3>1 DEF BlockOK
  <2> QED BY <2>13, <2>14, <2>15, <2>18 DEF IInv
<1> QED BY <1>1, <1>2

-----------------------------------------------------------------------------
\* The code of a run exists only for runs that are numbers.
LEMMA RunsAreNumbers ==
  ASSUME ScanAssumption, NEW STATE b, b.location \in 1..16, NEW zeroes
  PROVE  Runs(b, zeroes) \subseteq Nat
<1>1. (IF b.location < 15 THEN 15 - b.location ELSE 0) \in 0..14
  OBVIOUS
<1> QED BY <1>1 DEF Runs, ScanAssumption

\* Scans begin with no block and no levels.
LEMMA FirstStateApart == ASSUME ScanAssumption PROVE ScanInit => IInv
<1> SUFFICES ASSUME ScanInit PROVE IInv
  OBVIOUS
<1>1. scans = [d \in DOMAIN Orders |-> Fresh(d)] /\ DOMAIN scans = DOMAIN Orders
  BY DEF ScanInit
<1>2. \A d \in DOMAIN Orders : ScanOK(scans[d])
  BY <1>1 DEF Fresh, ScanOK, ScanAssumption
<1>3. LevelsOK
  BY DEF ScanInit, LevelsOK, NoLevels
<1>4. BlockOK
  BY DEF ScanInit, BlockOK
<1> QED BY <1>1, <1>2, <1>3, <1>4 DEF IInv

\* A level, a block that begins and one that ends keep places apart.
LEMMA StepKeepsApart == ASSUME ScanAssumption, IInv, [ScanNext]_scanVars PROVE IInv'
<1>1. CASE Begin
  <2>1. PICK start \in Firsts, direction \in DOMAIN Orders, adjacent \in BOOLEAN, more \in 0..2 :
          LET b == Block(start, start, direction, more)
          IN  \/ \E run \in Runs(b, ~adjacent) : Emit(b, run, more)
              \/ UNCHANGED <<block, scans, output, coded>>
    BY <1>1 DEF Begin
  <2> DEFINE b == Block(start, start, direction, more)
  <2>2. CASE UNCHANGED <<block, scans, output, coded>>
    BY <2>2 DEF IInv, LevelsOK, BlockOK
  <2>3. CASE \E run \in Runs(b, ~adjacent) : Emit(b, run, more)
    <3>1. b.direction \in DOMAIN Orders /\ b.location \in 1..16
      BY DEF ScanAssumption, Block
    <3>2. coded = <<>> /\ output = NoLevels
      BY <1>1 DEF Begin, IInv, BlockOK
    <3>3. \A p \in 0..15 : output[p] # 0 => p \in Passed(scans[b.direction].order, b.location - 1)
      BY <3>2 DEF NoLevels
    <3>4. \A k \in 1..Len(coded) : \E p \in 1..15 : output[p] = coded[k].level
      BY <3>2
    <3> HIDE DEF b
    <3>5. PICK run \in Runs(b, ~adjacent) : Emit(b, run, more)
      BY <2>3
    <3>6. run \in Nat
      BY <3>1, RunsAreNumbers
    <3> QED BY <3>1, <3>3, <3>4, <3>5, <3>6, EmitKeepsApart
  <2> QED BY <2>1, <2>2, <2>3
<1>2. CASE Continue
  <2>1. CASE UNCHANGED <<block, scans, output, coded>>
    BY <2>1 DEF IInv, LevelsOK, BlockOK
  <2>2. CASE \E run \in Runs(block, block.successors = 2) :
               \E more \in Following(block.location + run + 1) : Emit(block, run, more)
    <3>1. PICK run \in Runs(block, block.successors = 2) :
               \E more \in Following(block.location + run + 1) : Emit(block, run, more)
      BY <2>2
    <3>2. PICK more \in Following(block.location + run + 1) : Emit(block, run, more)
      BY <3>1
    <3>3. /\ block.direction \in DOMAIN Orders /\ block.location \in 1..16
          /\ \A p \in 0..15 :
               output[p] # 0 => p \in Passed(scans[block.direction].order, block.location - 1)
          /\ \A k \in 1..Len(coded) : \E p \in 1..15 : output[p] = coded[k].level
      BY <1>2 DEF Continue, IInv, BlockOK
    <3>4. run \in Nat
      BY <3>3, RunsAreNumbers
    <3> QED BY <3>2, <3>3, <3>4, EmitKeepsApart
  <2> QED BY <1>2, <2>1, <2>2 DEF Continue
<1>3. CASE End
  <2>1. block' = None /\ output' = NoLevels /\ coded' = <<>>
    BY <1>3 DEF End
  <2>2. scans' = [d \in DOMAIN Orders |-> scans'[d]] /\ \A d \in DOMAIN Orders : ScanOK(scans'[d])
    <3>1. CASE UNCHANGED scans
      BY <3>1 DEF IInv
    <3>2. CASE scans' = [d \in DOMAIN scans |-> [scans[d] EXCEPT !.totals = Totals]]
      <4>1. DOMAIN scans = DOMAIN Orders
        BY DEF IInv
      <4>2. ASSUME NEW d \in DOMAIN Orders PROVE ScanOK(scans'[d])
        <5>1. scans'[d] = [scans[d] EXCEPT !.totals = Totals]
          BY <3>2, <4>1
        <5>2. ScanOK(scans[d])
          BY DEF IInv
        <5>3. scans'[d] = [order |-> scans[d].order, totals |-> Totals]
          BY <5>1, <5>2 DEF ScanOK
        <5> QED BY <5>2, <5>3 DEF ScanOK, ScanAssumption
      <4> QED BY <3>2, <4>1, <4>2
    <3> QED BY <1>3, <3>1, <3>2 DEF End
  <2>3. LevelsOK' /\ BlockOK'
    BY <2>1 DEF LevelsOK, BlockOK, NoLevels
  <2> QED BY <2>2, <2>3 DEF IInv
<1>4. CASE UNCHANGED scanVars
  BY <1>4 DEF scanVars, IInv, LevelsOK, BlockOK
<1> QED BY <1>1, <1>2, <1>3, <1>4 DEF ScanNext

\* However the scans of a tile reorder themselves, a block puts each of its levels in a
\* place of its own, never in that of the DC or LP coefficient, and scans stay
\* permutations (BlockCoefficients' place_and_adapt).
THEOREM LevelsPlacedApart == ASSUME ScanAssumption PROVE ScanSpec => []PlacesApart
<1>1. ScanInit => IInv
  BY FirstStateApart
<1>2. IInv /\ [ScanNext]_scanVars => IInv'
  BY StepKeepsApart
<1>3. IInv => PlacesApart
  <2> SUFFICES ASSUME IInv PROVE PlacesApart
    OBVIOUS
  <2>1. \A d \in DOMAIN scans : {scans[d].order[i] : i \in 1..15} = 1..15 /\ scans[d].order[0] = 0
    BY DEF IInv, ScanOK, Permutes
  <2>2. block # None => \A k \in 1..Len(coded) : \E p \in 1..15 : output[p] = coded[k].level
    BY DEF IInv, BlockOK
  <2>3. output[0] = 0
    <3>1. CASE block = None
      BY <3>1 DEF IInv, BlockOK, NoLevels
    <3>2. CASE block # None
      <4>1. ScanOK(scans[block.direction]) /\ block.location - 1 \in 0..15
        BY <3>2 DEF IInv, BlockOK
      <4>2. 0 \notin Passed(scans[block.direction].order, block.location - 1)
        <5>1. PICK order, last : order = scans[block.direction].order /\ last = block.location - 1
          OBVIOUS
        <5>2. Permutes(order) /\ last \in 0..15
          BY <4>1, <5>1 DEF ScanOK
        <5>3. ASSUME NEW i \in 1..last PROVE order[i] # 0
          <6>1. i \in 0..15 /\ i # 0
            BY <5>2
          <6> QED BY <5>2, <6>1 DEF Permutes
        <5>4. 0 \notin Passed(order, last)
          BY <5>3 DEF Passed
        <5> QED BY <5>1, <5>4
      <4> QED BY <3>2, <4>2 DEF IInv, BlockOK
    <3> QED BY <3>1, <3>2
  <2> QED BY <2>1, <2>2, <2>3 DEF PlacesApart
<1> QED BY <1>1, <1>2, <1>3, PTL DEF ScanSpec

-----------------------------------------------------------------------------
(***************************************************************************)
(* The two forms of a block.  The indexes inverse_scan finds again from    *)
(* the runs and the scans it passes through grow with the runs, one entry  *)
(* for each, so what they are after n levels is what the decoder of the    *)
(* other form has after n levels.                                          *)
(***************************************************************************)
Indexed(f, decoded, start, n) ==
  f = [k \in 0..n |-> IF k = 0 THEN start - 1 ELSE f[k - 1] + decoded[k].run + 1]

Stepped(g, f, scan, decoded, n) ==
  g = [k \in 0..n |-> IF k = 0 THEN [scan |-> scan, out |-> NoLevels]
                      ELSE Place(g[k - 1].scan, g[k - 1].out, f[k], decoded[k].level)]

\* The n levels of a block lead inverse_scan to an index and a scan and its output.
Reaches(decoded, start, scan, n, index, reached) ==
  \E f, g : /\ Indexed(f, decoded, start, n) /\ f[n] = index
            /\ Stepped(g, f, scan, decoded, n) /\ g[n] = reached

\* After its levels so far a block's scan and output are those inverse_scan reaches
\* with these levels.
Direct ==
  block # None =>
    Reaches(coded, block.start, held[block.direction], Len(coded), block.location - 1,
            [scan |-> scans[block.direction], out |-> output])

\* The indexes of a block's runs exist.
LEMMA IndexesExist ==
  ASSUME NEW c, NEW start, NEW n \in Nat
  PROVE  \E f : Indexed(f, c, start, n)
<1> DEFINE Bad == {m \in Nat : ~ \E f : Indexed(f, c, start, m)}
<1>1. SUFFICES ASSUME Bad # {} PROVE FALSE
  OBVIOUS
<1>2. \E m \in Bad : \A k \in Bad : m <= k
  BY <1>1, LeastElement
<1>3. PICK m \in Bad : \A k \in Bad : m <= k
  BY <1>2
<1>4. m # 0
  <2>1. Indexed([k \in 0..0 |-> start - 1], c, start, 0)
    BY DEF Indexed
  <2> QED BY <2>1
<1>5. PICK f : Indexed(f, c, start, m - 1)
  BY <1>3, <1>4
<1>6. Indexed([k \in 0..m |-> IF k = m THEN f[m - 1] + c[m].run + 1 ELSE f[k]], c, start, m)
  BY <1>4, <1>5 DEF Indexed
<1> QED BY <1>6

\* So do the scans it passes through.
LEMMA StepsExist ==
  ASSUME NEW c, NEW f, NEW scan, NEW n \in Nat
  PROVE  \E g : Stepped(g, f, scan, c, n)
<1> DEFINE Bad == {m \in Nat : ~ \E g : Stepped(g, f, scan, c, m)}
<1>1. SUFFICES ASSUME Bad # {} PROVE FALSE
  OBVIOUS
<1>2. \E m \in Bad : \A k \in Bad : m <= k
  BY <1>1, LeastElement
<1>3. PICK m \in Bad : \A k \in Bad : m <= k
  BY <1>2
<1>4. m # 0
  <2>1. Stepped([k \in 0..0 |-> [scan |-> scan, out |-> NoLevels]], f, scan, c, 0)
    BY DEF Stepped
  <2> QED BY <2>1
<1>5. PICK g : Stepped(g, f, scan, c, m - 1)
  BY <1>3, <1>4
<1> DEFINE q == [k \in 0..m |-> IF k = m THEN Place(g[m - 1].scan, g[m - 1].out, f[m], c[m].level)
                                ELSE g[k]]
<1>6. ASSUME NEW k \in 0..m
      PROVE  q[k] = IF k = 0 THEN [scan |-> scan, out |-> NoLevels]
                    ELSE Place(q[k - 1].scan, q[k - 1].out, f[k], c[k].level)
  <2>1. CASE k = m
    BY <1>4, <2>1
  <2>2. CASE k # m
    <3>1. k \in 0..m - 1
      BY <2>2
    <3>2. g[k] = IF k = 0 THEN [scan |-> scan, out |-> NoLevels]
                 ELSE Place(g[k - 1].scan, g[k - 1].out, f[k], c[k].level)
      <4> HIDE DEF q
      <4> QED BY <1>5, <3>1 DEF Stepped
    <3>3. q[k] = g[k] /\ (k # 0 => q[k - 1] = g[k - 1])
      BY <2>2
    <3> HIDE DEF q
    <3> QED BY <3>2, <3>3
  <2> QED BY <2>1, <2>2
<1>7. q = [k \in 0..m |-> q[k]]
  OBVIOUS
<1> HIDE DEF q
<1>8. Stepped(q, f, scan, c, m)
  BY <1>6, <1>7 DEF Stepped
<1> QED BY <1>8

\* There is one way through a block.
LEMMA OneWay ==
  ASSUME NEW c, NEW start, NEW scan, NEW n \in Nat,
         NEW f, NEW g, Indexed(f, c, start, n), Stepped(g, f, scan, c, n),
         NEW h, NEW q, Indexed(h, c, start, n), Stepped(q, h, scan, c, n)
  PROVE  g[n] = q[n]
<1> DEFINE Bad == {m \in 0..n : f[m] # h[m] \/ g[m] # q[m]}
<1>1. SUFFICES ASSUME Bad # {} PROVE FALSE
  OBVIOUS
<1>2. Bad \subseteq Nat
  OBVIOUS
<1>3. \E m \in Bad : \A k \in Bad : m <= k
  BY <1>1, <1>2, LeastElement
<1>4. PICK m \in Bad : \A k \in Bad : m <= k
  BY <1>3
<1>5. /\ \A k \in 0..n : f[k] = IF k = 0 THEN start - 1 ELSE f[k - 1] + c[k].run + 1
      /\ \A k \in 0..n : h[k] = IF k = 0 THEN start - 1 ELSE h[k - 1] + c[k].run + 1
  BY DEF Indexed
<1>6. /\ \A k \in 0..n : g[k] = IF k = 0 THEN [scan |-> scan, out |-> NoLevels]
                                ELSE Place(g[k - 1].scan, g[k - 1].out, f[k], c[k].level)
      /\ \A k \in 0..n : q[k] = IF k = 0 THEN [scan |-> scan, out |-> NoLevels]
                                ELSE Place(q[k - 1].scan, q[k - 1].out, h[k], c[k].level)
  BY DEF Stepped
<1>7. m # 0
  BY <1>4, <1>5, <1>6
<1>8. m - 1 \in 0..n /\ m - 1 \notin Bad
  BY <1>4, <1>7
<1>9. f[m - 1] = h[m - 1] /\ g[m - 1] = q[m - 1]
  BY <1>8
<1>10. f[m] = h[m]
  BY <1>4, <1>5, <1>7, <1>9
<1>11. g[m] = q[m]
  BY <1>4, <1>6, <1>7, <1>9, <1>10
<1> QED BY <1>4, <1>10, <1>11

\* inverse_scan goes that way.
LEMMA InverseGoes ==
  ASSUME NEW scan, NEW c, Len(c) \in Nat, NEW start
  PROVE  \E f, g : /\ Indexed(f, c, start, Len(c)) /\ Stepped(g, f, scan, c, Len(c))
                   /\ InverseScan(scan, c, start) = g[Len(c)]
<1> DEFINE at == CHOOSE f : f = [k \in 0..Len(c) |-> IF k = 0 THEN start - 1
                                                     ELSE f[k - 1] + c[k].run + 1]
           step == CHOOSE g : g = [k \in 0..Len(c) |->
                     IF k = 0 THEN [scan |-> scan, out |-> NoLevels]
                     ELSE Place(g[k - 1].scan, g[k - 1].out, at[k], c[k].level)]
<1>1. Indexed(at, c, start, Len(c))
  <2>1. \E f : Indexed(f, c, start, Len(c))
    BY IndexesExist
  <2> QED BY <2>1, Zenon DEF Indexed
<1>2. InverseScan(scan, c, start) = step[Len(c)]
  BY Zenon DEF InverseScan
<1> HIDE DEF at
<1>3. Stepped(step, at, scan, c, Len(c))
  <2>1. \E g : Stepped(g, at, scan, c, Len(c))
    BY StepsExist
  <2> QED BY <2>1, Zenon DEF Stepped
<1> HIDE DEF step
<1> QED BY <1>1, <1>2, <1>3

\* A block with one level more.
Longer(d, c, n, x) == d[n + 1] = x /\ \A k \in 1..n : d[k] = c[k]

\* A level more makes a step more.
LEMMA StepMore ==
  ASSUME NEW c, NEW x, NEW start, NEW scan, NEW n \in Nat, NEW d, Longer(d, c, n, x),
         NEW index, NEW reached, Reaches(c, start, scan, n, index, reached),
         NEW next, next = index + x.run + 1
  PROVE  Reaches(d, start, scan, n + 1, next, Place(reached.scan, reached.out, next, x.level))
<1>1. PICK f, g : /\ Indexed(f, c, start, n) /\ f[n] = index
                  /\ Stepped(g, f, scan, c, n) /\ g[n] = reached
  BY DEF Reaches
<1>2. PICK last : last = Place(reached.scan, reached.out, next, x.level)
  OBVIOUS
<1> DEFINE h == [k \in 0..n + 1 |-> IF k = n + 1 THEN next ELSE f[k]]
           q == [k \in 0..n + 1 |-> IF k = n + 1 THEN last ELSE g[k]]
<1>3. /\ \A k \in 0..n : f[k] = IF k = 0 THEN start - 1 ELSE f[k - 1] + c[k].run + 1
      /\ \A k \in 0..n : g[k] = IF k = 0 THEN [scan |-> scan, out |-> NoLevels]
                                ELSE Place(g[k - 1].scan, g[k - 1].out, f[k], c[k].level)
  BY <1>1 DEF Indexed, Stepped
<1>4. ASSUME NEW k \in 0..n + 1
      PROVE  h[k] = IF k = 0 THEN start - 1 ELSE h[k - 1] + d[k].run + 1
  <2>1. CASE k = n + 1
    BY <1>1, <2>1 DEF Longer
  <2>2. CASE k # n + 1
    BY <1>3, <2>2 DEF Longer
  <2> QED BY <2>1, <2>2
<1>5. ASSUME NEW k \in 0..n + 1
      PROVE  q[k] = IF k = 0 THEN [scan |-> scan, out |-> NoLevels]
                    ELSE Place(q[k - 1].scan, q[k - 1].out, h[k], d[k].level)
  <2>1. CASE k = n + 1
    BY <1>1, <1>2, <2>1 DEF Longer
  <2>2. CASE k # n + 1
    BY <1>3, <2>2 DEF Longer
  <2> QED BY <2>1, <2>2
<1>6. h[n + 1] = next /\ q[n + 1] = last
  OBVIOUS
<1>7. h = [k \in 0..n + 1 |-> h[k]] /\ q = [k \in 0..n + 1 |-> q[k]]
  OBVIOUS
<1> HIDE DEF h, q
<1>8. Indexed(h, d, start, n + 1)
  BY <1>4, <1>7 DEF Indexed
<1>9. Stepped(q, h, scan, d, n + 1)
  BY <1>5, <1>7 DEF Stepped
<1> QED BY <1>2, <1>6, <1>8, <1>9 DEF Reaches

\* What a coefficient of a block at b does to both forms.
LEMMA EmitKeepsDirect ==
  ASSUME IInv, NEW STATE b, b.direction \in DOMAIN Orders, b.location \in 1..16,
         NEW run \in Nat, NEW more, Emit(b, run, more), coded' # coded,
         Reaches(coded, b.start, held'[b.direction], Len(coded), b.location - 1,
                 [scan |-> scans[b.direction], out |-> output])
  PROVE  Direct'
<1> DEFINE next == b.location + run + 1
           value == Len(coded) + 1
           x == [run |-> run, level |-> value]
           mine == [scan |-> scans[b.direction], out |-> output]
           placed == Place(mine.scan, mine.out, next - 1, value)
<1>1. /\ coded' = Append(coded, x)
      /\ scans' = [scans EXCEPT ![b.direction] = placed.scan]
      /\ output' = placed.out
      /\ block' = Block(b.start, next, b.direction, more)
  <2>1. mine.scan = scans[b.direction] /\ mine.out = output
    OBVIOUS
  <2> QED BY <2>1, Zenon DEF Emit
<1>2. block'.start = b.start /\ block'.location = next /\ block'.direction = b.direction
  BY <1>1 DEF Block
<1>3. coded \in Seq([run : Nat, level : Nat \ {0}])
  BY DEF IInv, LevelsOK
<1>4. scans'[b.direction] = placed.scan
  BY <1>1 DEF IInv
<1>5. placed = [scan |-> placed.scan, out |-> placed.out]
  BY DEF Place
<1>6. PICK n, index : n = Len(coded) /\ index = b.location - 1 /\ n \in Nat /\ index \in Int
  BY <1>3
<1>7. next - 1 = index + x.run + 1 /\ x.level = value
  <2>1. x.run = run /\ x.level = value
    OBVIOUS
  <2>2. b.location \in Int /\ next - 1 = b.location + run
    BY SMTT(30)
  <2>3. b.location = index + 1
    BY SMTT(30), <1>6
  <2> HIDE DEF next, x
  <2> QED BY <1>6, <2>1, <2>2, <2>3
<1> HIDE DEF value, x, mine, placed
<1>8. Len(coded') = n + 1 /\ Longer(coded', coded, n, x)
  BY <1>1, <1>3, <1>6 DEF Longer
<1>9. PICK d, c, y, s, start, reached, to :
        /\ d = coded' /\ c = coded /\ y = x /\ s = held'[b.direction] /\ start = b.start
        /\ reached = mine /\ to = next - 1
  OBVIOUS
<1> HIDE DEF next
<1>10. Longer(d, c, n, y) /\ Reaches(c, start, s, n, index, reached) /\ to = index + y.run + 1
  BY <1>6, <1>7, <1>8, <1>9 DEF mine
<1>11. Reaches(d, start, s, n + 1, to, Place(reached.scan, reached.out, to, y.level))
  BY <1>6, <1>10, StepMore
<1>12. Place(reached.scan, reached.out, to, y.level) = placed
  BY <1>7, <1>9 DEF placed
<1>13. placed = [scan |-> scans'[block'.direction], out |-> output']
  BY <1>1, <1>2, <1>4, <1>5
<1>14. Reaches(coded', block'.start, held'[block'.direction], Len(coded'), block'.location - 1,
               [scan |-> scans'[block'.direction], out |-> output'])
  BY <1>2, <1>8, <1>9, <1>11, <1>12, <1>13
<1> QED BY <1>14 DEF Direct, Reaches, Indexed, Stepped

\* A level, a block that begins and one that ends keep the two forms alike.
LEMMA StepKeepsDirect ==
  ASSUME ScanAssumption, IInv, Direct, [ScanNext]_scanVars
  PROVE  Direct'
<1>1. CASE UNCHANGED <<block, scans, output, coded>> /\ (block = None \/ held' = held)
  <2>1. CASE block' = None
    BY <2>1 DEF Direct
  <2>2. CASE block' # None
    <3>1. block' = block /\ scans' = scans /\ output' = output /\ coded' = coded /\ held' = held /\ block # None
      BY <1>1, <2>2
    <3>2. Reaches(coded, block.start, held[block.direction], Len(coded), block.location - 1,
                  [scan |-> scans[block.direction], out |-> output])
      BY <3>1, Zenon DEF Direct
    <3>3. Reaches(coded', block'.start, held'[block'.direction], Len(coded'), block'.location - 1,
                  [scan |-> scans'[block'.direction], out |-> output'])
      BY <3>1, <3>2, Zenon
    <3>4. QED
      BY <3>3, Zenon DEF Direct
  <2>3. QED
    BY <2>1, <2>2
<1>2. CASE Begin
  <2>1. block = None /\ coded = <<>> /\ output = NoLevels /\ held' = scans
    BY <1>2 DEF Begin, IInv, BlockOK
  <2>2. PICK start \in Firsts, direction \in DOMAIN Orders, adjacent \in BOOLEAN, more \in 0..2 :
          LET b == Block(start, start, direction, more)
          IN  \/ \E run \in Runs(b, ~adjacent) : Emit(b, run, more)
              \/ UNCHANGED <<block, scans, output, coded>>
    BY <1>2 DEF Begin
  <2> DEFINE b == Block(start, start, direction, more)
  <2>3. b.direction = direction /\ b.location = start /\ b.start = start /\ start \in 1..15
    BY DEF ScanAssumption, Block
  <2> HIDE DEF b
  <2>4. CASE UNCHANGED <<block, scans, output, coded>>
    BY <1>1, <2>1, <2>4
  <2>5. CASE coded' # coded /\ \E run \in Runs(b, ~adjacent) : Emit(b, run, more)
    <3>1. PICK run \in Runs(b, ~adjacent) : Emit(b, run, more)
      BY <2>5
    <3>2. run \in Nat
      BY <2>3, RunsAreNumbers
    <3>3. Reaches(coded, b.start, held'[b.direction], Len(coded), b.location - 1,
                  [scan |-> scans[b.direction], out |-> output])
      <4>1. PICK s : s = scans[b.direction]
        OBVIOUS
      <4> DEFINE f == [k \in 0..0 |-> start - 1]
                 g == [k \in 0..0 |-> [scan |-> s, out |-> NoLevels]]
      <4>2. Indexed(f, <<>>, start, 0) /\ f[0] = start - 1
        BY DEF Indexed
      <4>3. Stepped(g, f, s, <<>>, 0) /\ g[0] = [scan |-> s, out |-> NoLevels]
        BY DEF Stepped
      <4> HIDE DEF f, g
      <4>4. Reaches(<<>>, start, s, 0, start - 1, [scan |-> s, out |-> NoLevels])
        BY <4>2, <4>3 DEF Reaches
      <4> QED BY <2>1, <2>3, <4>1, <4>4
    <3>4. b.direction \in DOMAIN Orders /\ b.location \in 1..16
      BY <2>3
    <3> QED BY <2>5, <3>1, <3>2, <3>3, <3>4, EmitKeepsDirect
  <2>6. CASE coded' = coded /\ \E run \in Runs(b, ~adjacent) : Emit(b, run, more)
    <3>1. PICK run \in Runs(b, ~adjacent) : Emit(b, run, more)
      BY <2>6
    <3>2. CASE UNCHANGED <<block, scans, output, coded>>
      BY <1>1, <2>1, <3>2
    <3>3. CASE coded' = Append(coded, [run |-> run, level |-> Len(coded) + 1])
      BY <2>1, <2>6, <3>3
    <3> QED BY <3>1, <3>2, <3>3, Zenon DEF Emit
  <2> QED BY <2>2, <2>4, <2>5, <2>6 DEF b
<1>3. CASE Continue
  <2>1. block # None /\ held' = held
    BY <1>3 DEF Continue
  <2>2. CASE UNCHANGED <<block, scans, output, coded>>
    BY <1>1, <2>1, <2>2
  <2>3. CASE \E run \in Runs(block, block.successors = 2) :
               \E more \in Following(block.location + run + 1) : Emit(block, run, more)
    <3>1. PICK run \in Runs(block, block.successors = 2) :
               \E more \in Following(block.location + run + 1) : Emit(block, run, more)
      BY <2>3
    <3>2. PICK more \in Following(block.location + run + 1) : Emit(block, run, more)
      BY <3>1
    <3>3. block.direction \in DOMAIN Orders /\ block.location \in 1..16
      BY <2>1 DEF IInv, BlockOK
    <3>4. run \in Nat
      BY <3>3, RunsAreNumbers
    <3>5. Reaches(coded, block.start, held'[block.direction], Len(coded), block.location - 1,
                  [scan |-> scans[block.direction], out |-> output])
      BY <2>1 DEF Direct
    <3>6. CASE coded' = coded
      <4>1. coded \in Seq([run : Nat, level : Nat \ {0}])
        BY DEF IInv, LevelsOK
      <4>2. CASE coded' = Append(coded, [run |-> run, level |-> Len(coded) + 1])
        <5>1. Len(coded') = Len(coded) + 1 /\ Len(coded) \in Nat
          BY <4>1, <4>2
        <5> QED BY <3>6, <5>1
      <4>3. CASE UNCHANGED <<block, scans, output, coded>>
        BY <1>1, <2>1, <4>3
      <4> QED BY <3>2, <4>2, <4>3, Zenon DEF Emit
    <3>7. CASE coded' # coded
      BY <3>2, <3>3, <3>4, <3>5, <3>7, EmitKeepsDirect
    <3> QED BY <3>6, <3>7
  <2> QED BY <1>3, <2>2, <2>3 DEF Continue
<1>4. CASE End
  BY <1>4 DEF End, Direct
<1>5. CASE UNCHANGED scanVars
  BY <1>1, <1>5 DEF scanVars
<1> QED BY <1>2, <1>3, <1>4, <1>5 DEF ScanNext

\* A block decoded with its levels placed as they come and a block kept as runs and
\* levels and placed at the end by inverse_scan give the same coefficients and leave the
\* same scan, whatever the scan was and however it reorders itself on the way.
THEOREM DirectInverts == ASSUME ScanAssumption PROVE ScanSpec => []DirectIsInverse
<1>1. ScanInit => IInv /\ Direct
  BY FirstStateApart DEF ScanInit, Direct
<1>2. IInv /\ Direct /\ [ScanNext]_scanVars => (IInv /\ Direct)'
  BY StepKeepsApart, StepKeepsDirect
<1>3. IInv /\ Direct => DirectIsInverse
  <2> SUFFICES ASSUME IInv, Direct, block # None
               PROVE  InverseScan(held[block.direction], coded, block.start)
                        = [scan |-> scans[block.direction], out |-> output]
    BY DEF DirectIsInverse
  <2>1. Len(coded) \in Nat
    <3>1. coded \in Seq([run : Nat, level : Nat \ {0}])
      BY DEF IInv, LevelsOK
    <3> QED BY <3>1
  <2>2. PICK c, n, start, scan : c = coded /\ n = Len(coded) /\ start = block.start
                                 /\ scan = held[block.direction]
    OBVIOUS
  <2>3. PICK f, g : /\ Indexed(f, c, start, n) /\ Stepped(g, f, scan, c, n)
                    /\ g[n] = [scan |-> scans[block.direction], out |-> output]
    BY <2>2 DEF Direct, Reaches
  <2>4. PICK h, q : /\ Indexed(h, c, start, Len(c)) /\ Stepped(q, h, scan, c, Len(c))
                    /\ InverseScan(scan, c, start) = q[Len(c)]
    BY <2>1, <2>2, InverseGoes
  <2>5. g[n] = q[n]
    BY <2>1, <2>2, <2>3, <2>4, OneWay
  <2> QED BY <2>2, <2>3, <2>4, <2>5
<1> QED BY <1>1, <1>2, <1>3, PTL DEF ScanSpec
-----------------------------------------------------------------------------
(***************************************************************************)
(* ReconstructionCache: an initialiser runs at most once, the images of a  *)
(* contract agree on its outcome, and a call collects a result for each of *)
(* its images.                                                             *)
(*                                                                         *)
(* The invariant that carries the first two: a frame that is inside the    *)
(* initialiser of a contract keeps that contract's cell "running", and no  *)
(* two frames, of one worker or of two, are inside the initialiser of the  *)
(* same one.                                                               *)
(***************************************************************************)
\* A frame inside the initialiser of its image's contract.
Holding(f) ==
  \/ f.at = "decode"
  \/ f.at = "join" /\ IsImage(f.job)

Held(f) == ContractOf[f.job.lo]

\* A held cell is running.
HoldersRun ==
  \A w \in Workers : \A n \in DOMAIN stack[w] :
    Holding(stack[w][n]) => cell[Held(stack[w][n])] = "running"

\* A cell has one holder.
OneHolder ==
  \A w, v \in Workers : \A n \in DOMAIN stack[w] : \A m \in DOMAIN stack[v] :
    /\ Holding(stack[w][n])
    /\ Holding(stack[v][m])
    /\ Held(stack[w][n]) = Held(stack[v][m])
    => w = v /\ n = m

\* The cell remembers whether its initialiser was started.
DecodesMatch == \A c \in Contracts : decodes[c] = IF cell[c] = "empty" THEN 0 ELSE 1

\* A result is the outcome in the cell, or the rejection of the request.
ResultsMatch ==
  \A k \in Callers, i \in Images :
    result[k][i] # "none" =>
      IF ContractOf[i] \in Accepted
      THEN cell[ContractOf[i]] = result[k][i]
      ELSE result[k][i] = "err"

\* The cell of a rejected contract is never touched.
RejectedUntouched == \A c \in Contracts \ Accepted : cell[c] = "empty"

CacheInv ==
  /\ TypeOK
  /\ HoldersRun
  /\ OneHolder
  /\ DecodesMatch
  /\ ResultsMatch
  /\ RejectedUntouched

-----------------------------------------------------------------------------
\* The halves of a splittable job are jobs.
LEMMA HalvesAreJobs ==
  ASSUME NEW j \in Jobs, ~IsTiles(j)
  PROVE  LeftHalf(j) \in Jobs /\ RightHalf(j) \in Jobs
<1>1. CASE IsRange(j)
  <2>1. LastOfLeft(j) \in Images /\ LastOfLeft(j) + 1 \in Images
    BY <1>1, SizeAssumption DEF IsRange, LastOfLeft, Jobs, Images
  <2>2. QED
    BY <1>1, <2>1 DEF LeftHalf, RightHalf, Jobs
<1>2. CASE ~IsRange(j)
  BY <1>2 DEF LeftHalf, RightHalf, Jobs
<1>3. QED
  BY <1>1, <1>2

\* Pushing, popping and replacing the innermost frame keep stacks typed.
LEMMA StackOps ==
  ASSUME NEW s \in Seq(Frames), NEW f \in Frames, NEW g \in Frames
  PROVE  /\ <<f>> \o s \in Seq(Frames)
         /\ Len(<<f>> \o s) = Len(s) + 1
         /\ \A n \in 1..(Len(s) + 1) : (<<f>> \o s)[n] = IF n = 1 THEN f ELSE s[n - 1]
         /\ s # <<>> =>
              /\ Head(s) \in Frames
              /\ Head(s) = s[1]
              /\ 1 \in DOMAIN s
              /\ Tail(s) \in Seq(Frames)
              /\ Len(Tail(s)) = Len(s) - 1
              /\ \A n \in 1..(Len(s) - 1) : Tail(s)[n] = s[n + 1]
              /\ <<f>> \o Tail(s) \in Seq(Frames)
              /\ Len(<<f>> \o Tail(s)) = Len(s)
              /\ \A n \in 1..Len(s) : (<<f>> \o Tail(s))[n] = IF n = 1 THEN f ELSE s[n]
              /\ <<f, g>> \o Tail(s) \in Seq(Frames)
              /\ Len(<<f, g>> \o Tail(s)) = Len(s) + 1
              /\ \A n \in 1..(Len(s) + 1) :
                   (<<f, g>> \o Tail(s))[n] = IF n = 1 THEN f ELSE IF n = 2 THEN g ELSE s[n - 1]
  OBVIOUS

\* What TypeOK says of the stack of one worker.
LEMMA StackTyped ==
  ASSUME TypeOK, NEW w \in Workers
  PROVE  /\ stack[w] \in Seq(Frames)
         /\ DOMAIN stack[w] = 1..Len(stack[w])
         /\ Len(stack[w]) \in Nat
         /\ \A n \in DOMAIN stack[w] :
              /\ stack[w][n] \in Frames
              /\ stack[w][n].job \in Jobs
              /\ Held(stack[w][n]) \in Contracts
         /\ stack[w] # <<>> =>
              /\ 1 \in DOMAIN stack[w]
              /\ Head(stack[w]) = stack[w][1]
              /\ TopJob(w) \in Jobs
              /\ TopJob(w) = stack[w][1].job
              /\ TopJob(w).lo \in Images
              /\ ContractAt(w) \in Contracts
              /\ ContractAt(w) = Held(stack[w][1])
<1>1. stack[w] \in Seq(Frames)
  BY DEF TypeOK
<1>2. \A n \in DOMAIN stack[w] : stack[w][n] \in Frames
  BY <1>1
<1>3. \A f \in Frames : f.job \in Jobs /\ f.job.lo \in Images
  BY DEF Frames, Jobs
<1>4. \A f \in Frames : Held(f) \in Contracts
  BY <1>3, ContractAssumption DEF Held
<1>5. stack[w] # <<>> => 1 \in DOMAIN stack[w] /\ Head(stack[w]) = stack[w][1]
  BY <1>1
<1>6. QED
  BY <1>1, <1>2, <1>3, <1>4, <1>5 DEF TopJob, ContractAt, Held

\* Entering a job disturbs no holder.
LEMMA EnterKeepsHolders ==
  ASSUME TypeOK, HoldersRun, OneHolder, NEW w \in Workers, NEW j \in Jobs,
         Enter(w, j), cell' = cell
  PROVE  stack' \in [Workers -> Seq(Frames)] /\ HoldersRun' /\ OneHolder'
<1> DEFINE f == [job |-> j, at |-> "enter"]
<1>1. f \in Frames /\ ~Holding(f)
  BY DEF Frames, Holding
<1>2. /\ stack'[w] = <<f>> \o stack[w]
      /\ \A v \in Workers : v # w => stack'[v] = stack[v]
      /\ stack' = [stack EXCEPT ![w] = <<f>> \o stack[w]]
  BY DEF Enter, TypeOK
<1>3. /\ stack'[w] \in Seq(Frames)
      /\ Len(stack'[w]) = Len(stack[w]) + 1
      /\ \A n \in 1..(Len(stack[w]) + 1) : stack'[w][n] = IF n = 1 THEN f ELSE stack[w][n - 1]
  BY <1>1, <1>2, StackTyped, StackOps
<1>4. stack' \in [Workers -> Seq(Frames)]
  BY <1>2, <1>3 DEF TypeOK
<1>5. \A v \in Workers : \A n \in DOMAIN stack'[v] : Holding(stack'[v][n]) =>
        IF v = w THEN n - 1 \in DOMAIN stack[w] /\ stack'[v][n] = stack[w][n - 1]
                 ELSE n \in DOMAIN stack[v] /\ stack'[v][n] = stack[v][n]
  BY <1>1, <1>2, <1>3, StackTyped
<1>6. HoldersRun'
  BY <1>5 DEF HoldersRun, Holding, Held
<1>7. OneHolder'
  <2> SUFFICES ASSUME NEW u \in Workers, NEW v \in Workers,
                      NEW n \in DOMAIN stack'[u], NEW m \in DOMAIN stack'[v],
                      Holding(stack'[u][n]), Holding(stack'[v][m]),
                      Held(stack'[u][n]) = Held(stack'[v][m])
               PROVE  u = v /\ n = m
    BY DEF OneHolder, Holding, Held
  <2> DEFINE p == IF u = w THEN n - 1 ELSE n
             q == IF v = w THEN m - 1 ELSE m
  <2>1. /\ p \in DOMAIN stack[u] /\ stack'[u][n] = stack[u][p]
        /\ q \in DOMAIN stack[v] /\ stack'[v][m] = stack[v][q]
    BY <1>5
  <2>2. u = v /\ p = q
    BY <2>1 DEF OneHolder
  <2>3. n \in Int /\ m \in Int
    BY <1>4
  <2>4. QED
    BY <2>2, <2>3
<1>8. QED
  BY <1>4, <1>6, <1>7

\* Returning from the innermost job disturbs no remaining holder, and if the
\* job held a cell, nothing holds it any more.
LEMMA ReturnKeepsHolders ==
  ASSUME TypeOK, HoldersRun, OneHolder, NEW w \in Workers, stack[w] # <<>>, Return(w)
  PROVE  /\ stack' \in [Workers -> Seq(Frames)]
         /\ finished' \subseteq Jobs
         /\ OneHolder'
         /\ \A v \in Workers : \A n \in DOMAIN stack'[v] : Holding(stack'[v][n]) =>
              /\ cell[Held(stack'[v][n])] = "running"
              /\ Holding(stack[w][1]) => Held(stack'[v][n]) # Held(stack[w][1])
<1>1. /\ stack'[w] = Tail(stack[w])
      /\ \A v \in Workers : v # w => stack'[v] = stack[v]
      /\ stack' = [stack EXCEPT ![w] = Tail(stack[w])]
  BY DEF Return, TypeOK
<1>2. PICK f \in Frames : f = Head(stack[w])
  BY StackTyped
<1>3. /\ stack'[w] \in Seq(Frames)
      /\ Len(stack'[w]) = Len(stack[w]) - 1
      /\ \A n \in 1..(Len(stack[w]) - 1) : stack'[w][n] = stack[w][n + 1]
  BY <1>1, <1>2, StackTyped, StackOps
<1>4. stack' \in [Workers -> Seq(Frames)] /\ finished' \subseteq Jobs
  BY <1>1, <1>3, StackTyped DEF TypeOK, Return
<1>5. \A v \in Workers : \A n \in DOMAIN stack'[v] :
        IF v = w THEN n + 1 \in DOMAIN stack[w] /\ stack'[v][n] = stack[w][n + 1] /\ n + 1 # 1
                 ELSE n \in DOMAIN stack[v] /\ stack'[v][n] = stack[v][n]
  <2>1. ASSUME NEW n \in DOMAIN stack'[w]
        PROVE  n + 1 \in DOMAIN stack[w] /\ stack'[w][n] = stack[w][n + 1] /\ n + 1 # 1
    <3>1. Len(stack[w]) \in Nat /\ DOMAIN stack[w] = 1..Len(stack[w])
      BY StackTyped
    <3>2. n \in 1..(Len(stack[w]) - 1)
      BY <1>3, <3>1
    <3>3. QED
      BY <1>3, <3>1, <3>2
  <2>2. QED
    BY <1>1, <2>1
<1>6. OneHolder'
  <2> SUFFICES ASSUME NEW u \in Workers, NEW v \in Workers,
                      NEW n \in DOMAIN stack'[u], NEW m \in DOMAIN stack'[v],
                      Holding(stack'[u][n]), Holding(stack'[v][m]),
                      Held(stack'[u][n]) = Held(stack'[v][m])
               PROVE  u = v /\ n = m
    BY DEF OneHolder, Holding, Held
  <2> DEFINE p == IF u = w THEN n + 1 ELSE n
             q == IF v = w THEN m + 1 ELSE m
  <2>1. /\ p \in DOMAIN stack[u] /\ stack'[u][n] = stack[u][p]
        /\ q \in DOMAIN stack[v] /\ stack'[v][m] = stack[v][q]
    BY <1>5
  <2>2. u = v /\ p = q
    BY <2>1 DEF OneHolder
  <2>3. n \in Int /\ m \in Int
    BY <1>4
  <2>4. QED
    BY <2>2, <2>3
<1>7. ASSUME NEW v \in Workers, NEW n \in DOMAIN stack'[v], Holding(stack'[v][n])
      PROVE  /\ cell[Held(stack'[v][n])] = "running"
             /\ Holding(stack[w][1]) => Held(stack'[v][n]) # Held(stack[w][1])
  <2> DEFINE p == IF v = w THEN n + 1 ELSE n
  <2>1. p \in DOMAIN stack[v] /\ stack'[v][n] = stack[v][p] /\ (v = w => p # 1)
    BY <1>5
  <2>2. 1 \in DOMAIN stack[w]
    BY StackTyped
  <2>3. QED
    BY <1>7, <2>1, <2>2 DEF HoldersRun, OneHolder
<1>8. QED
  BY <1>4, <1>6, <1>7

\* Forking replaces the innermost frame by a joining frame under a new one.
LEMMA ForkShape ==
  ASSUME TypeOK, NEW w \in Workers, stack[w] # <<>>, ~IsTiles(TopJob(w)), ForkTop(w)
  PROVE  /\ stack' \in [Workers -> Seq(Frames)]
         /\ deque' \in [Workers -> Seq(Jobs)]
         /\ \A v \in Workers : v # w => stack'[v] = stack[v]
         /\ Len(stack'[w]) = Len(stack[w]) + 1
         /\ \A n \in DOMAIN stack'[w] :
              stack'[w][n] = IF n = 1 THEN [job |-> LeftHalf(TopJob(w)), at |-> "enter"]
                             ELSE IF n = 2 THEN [job |-> TopJob(w), at |-> "join"]
                             ELSE stack[w][n - 1]
<1> DEFINE f == [job |-> LeftHalf(TopJob(w)), at |-> "enter"]
           g == [job |-> TopJob(w), at |-> "join"]
<1>1. TopJob(w) \in Jobs /\ LeftHalf(TopJob(w)) \in Jobs /\ RightHalf(TopJob(w)) \in Jobs
  BY StackTyped, HalvesAreJobs
<1>2. f \in Frames /\ g \in Frames
  BY <1>1 DEF Frames
<1>3. stack' = [stack EXCEPT ![w] = <<f, g>> \o Tail(stack[w])]
  BY DEF ForkTop
<1>4. stack'[w] = <<f, g>> \o Tail(stack[w]) /\ \A v \in Workers : v # w => stack'[v] = stack[v]
  BY <1>3 DEF TypeOK
<1>5. /\ stack'[w] \in Seq(Frames)
      /\ Len(stack'[w]) = Len(stack[w]) + 1
      /\ \A n \in 1..(Len(stack[w]) + 1) :
           stack'[w][n] = IF n = 1 THEN f ELSE IF n = 2 THEN g ELSE stack[w][n - 1]
  BY <1>2, <1>4, StackTyped, StackOps
<1>6. deque' \in [Workers -> Seq(Jobs)]
  BY <1>1 DEF ForkTop, TypeOK
<1>7. stack' \in [Workers -> Seq(Frames)]
  BY <1>3, <1>5 DEF TypeOK
<1>8. QED
  BY <1>4, <1>5, <1>6, <1>7

\* A worker that starts to hold an empty cell is its only holder.
LEMMA StartDecodeKeepsHolders ==
  ASSUME TypeOK, HoldersRun, OneHolder, NEW w \in Workers, StartDecode(w)
  PROVE  /\ stack' \in [Workers -> Seq(Frames)]
         /\ deque' \in [Workers -> Seq(Jobs)]
         /\ HoldersRun'
         /\ OneHolder'
<1> DEFINE c == ContractAt(w)
<1>1. /\ stack[w] # <<>>
      /\ Head(stack[w]).at = "enter"
      /\ IsImage(TopJob(w)) /\ ~IsTiles(TopJob(w))
      /\ cell[c] = "empty"
      /\ cell' = [cell EXCEPT ![c] = "running"]
  BY DEF StartDecode, EntersImage, TopIs, MayInitialise, IsImage, IsTiles
<1>2. /\ c \in Contracts
      /\ c = Held(stack[w][1])
      /\ 1 \in DOMAIN stack[w]
      /\ stack[w][1].at = "enter"
      /\ TopJob(w) = stack[w][1].job
  BY <1>1, StackTyped
<1>3. \A v \in Workers : \A n \in DOMAIN stack[v] : Holding(stack[v][n]) =>
        Held(stack[v][n]) # c
  BY <1>1 DEF HoldersRun
\* The position of the new holder, and where every other holder came from.
<1> DEFINE at0 == IF c \in MultiTile THEN 2 ELSE 1
           from(v, n) == IF v = w /\ c \in MultiTile THEN n - 1 ELSE n
<1>4. /\ stack' \in [Workers -> Seq(Frames)]
      /\ deque' \in [Workers -> Seq(Jobs)]
      /\ \A v \in Workers : \A n \in DOMAIN stack'[v] : Holding(stack'[v][n]) =>
           IF v = w /\ n = at0
           THEN Held(stack'[v][n]) = c
           ELSE from(v, n) \in DOMAIN stack[v] /\ stack'[v][n] = stack[v][from(v, n)]
  <2>1. CASE c \in MultiTile
    <3>1. ForkTop(w)
      BY <2>1 DEF StartDecode
    <3>2. /\ Len(stack'[w]) = Len(stack[w]) + 1
          /\ \A v \in Workers : v # w => stack'[v] = stack[v]
          /\ \A n \in DOMAIN stack'[w] :
               stack'[w][n] = IF n = 1 THEN [job |-> LeftHalf(TopJob(w)), at |-> "enter"]
                              ELSE IF n = 2 THEN [job |-> TopJob(w), at |-> "join"]
                              ELSE stack[w][n - 1]
      BY <1>1, <3>1, ForkShape
    <3>3. /\ stack' \in [Workers -> Seq(Frames)]
          /\ deque' \in [Workers -> Seq(Jobs)]
      BY <1>1, <3>1, ForkShape
    <3>4. ASSUME NEW n \in DOMAIN stack'[w], Holding(stack'[w][n])
          PROVE  IF n = 2 THEN Held(stack'[w][n]) = c
                 ELSE n - 1 \in DOMAIN stack[w] /\ stack'[w][n] = stack[w][n - 1]
      <4>1. n # 1
        BY <3>2, <3>4 DEF Holding
      <4>2. CASE n = 2
        BY <1>2, <3>2, <4>2 DEF Held
      <4>3. CASE n # 2
        <5>1. n \in 1..(Len(stack[w]) + 1)
          BY <3>2, <3>3
        <5>2. n - 1 \in DOMAIN stack[w]
          BY <4>1, <5>1, StackTyped
        <5>3. QED
          BY <3>2, <4>1, <4>3, <5>2
      <4>4. QED
        BY <4>2, <4>3
    <3>5. QED
      BY <2>1, <3>2, <3>3, <3>4
  <2>2. CASE c \notin MultiTile
    <3> DEFINE g == [Head(stack[w]) EXCEPT !.at = "decode"]
    <3>1. stack' = [stack EXCEPT ![w] = <<g>> \o Tail(stack[w])] /\ deque' = deque
      BY <2>2 DEF StartDecode
    <3>2. Head(stack[w]) \in Frames /\ Head(stack[w]) = stack[w][1]
      BY <1>1, StackTyped
    <3>3. g \in Frames /\ Held(g) = c
      BY <1>2, <3>2 DEF Frames, Held
    <3>4. /\ stack'[w] \in Seq(Frames)
          /\ Len(stack'[w]) = Len(stack[w])
          /\ \A n \in 1..Len(stack[w]) : stack'[w][n] = IF n = 1 THEN g ELSE stack[w][n]
      <4>1. stack'[w] = <<g>> \o Tail(stack[w])
        BY <3>1 DEF TypeOK
      <4>2. stack[w] \in Seq(Frames)
        BY StackTyped
      <4>3. QED
        BY <1>1, <3>3, <4>1, <4>2, StackOps
    <3>5. \A v \in Workers : v # w => stack'[v] = stack[v]
      BY <3>1 DEF TypeOK
    <3>6. stack' \in [Workers -> Seq(Frames)] /\ deque' \in [Workers -> Seq(Jobs)]
      BY <3>1, <3>4 DEF TypeOK
    <3>7. \A n \in DOMAIN stack'[w] : n \in DOMAIN stack[w]
      BY <3>4, StackTyped
    <3>8. QED
      BY <2>2, <3>3, <3>4, <3>5, <3>6, <3>7, StackTyped
  <2>3. QED
    BY <2>1, <2>2
<1>5. HoldersRun'
  <2> SUFFICES ASSUME NEW v \in Workers, NEW n \in DOMAIN stack'[v], Holding(stack'[v][n])
               PROVE  cell'[Held(stack'[v][n])] = "running"
    BY DEF HoldersRun, Holding, Held
  <2>1. CASE v = w /\ n = at0
    BY <1>1, <1>2, <1>4, <2>1 DEF TypeOK
  <2>2. CASE ~(v = w /\ n = at0)
    <3>1. from(v, n) \in DOMAIN stack[v] /\ stack'[v][n] = stack[v][from(v, n)]
      BY <1>4, <2>2
    <3>2. cell[Held(stack'[v][n])] = "running" /\ Held(stack'[v][n]) # c
      BY <1>3, <3>1 DEF HoldersRun
    <3>3. Held(stack'[v][n]) \in Contracts
      BY <3>1, StackTyped
    <3>4. QED
      BY <1>1, <3>2, <3>3 DEF TypeOK
  <2>3. QED
    BY <2>1, <2>2
<1>6. OneHolder'
  <2> SUFFICES ASSUME NEW u \in Workers, NEW v \in Workers,
                      NEW n \in DOMAIN stack'[u], NEW m \in DOMAIN stack'[v],
                      Holding(stack'[u][n]), Holding(stack'[v][m]),
                      Held(stack'[u][n]) = Held(stack'[v][m])
               PROVE  u = v /\ n = m
    BY DEF OneHolder, Holding, Held
  <2>0. ASSUME NEW x \in Workers, NEW k \in DOMAIN stack'[x],
               Holding(stack'[x][k]), ~(x = w /\ k = at0)
        PROVE  Held(stack'[x][k]) # c
    <3>1. from(x, k) \in DOMAIN stack[x] /\ stack'[x][k] = stack[x][from(x, k)]
      BY <1>4, <2>0
    <3>2. Holding(stack[x][from(x, k)])
      BY <2>0, <3>1
    <3>3. Held(stack[x][from(x, k)]) # c
      BY <1>3, <3>1, <3>2
    <3>4. QED
      BY <3>1, <3>3
  <2>1. CASE u = w /\ n = at0
    <3>1. Held(stack'[u][n]) = c
      BY <1>4, <2>1
    <3>2. v = w /\ m = at0
      BY <2>0, <3>1
    <3>3. QED
      BY <2>1, <3>2
  <2>2. CASE v = w /\ m = at0
    <3>1. Held(stack'[v][m]) = c
      BY <1>4, <2>2
    <3>2. u = w /\ n = at0
      BY <2>0, <3>1
    <3>3. QED
      BY <2>2, <3>2
  <2>3. CASE ~(u = w /\ n = at0) /\ ~(v = w /\ m = at0)
    <3>1. /\ from(u, n) \in DOMAIN stack[u] /\ stack'[u][n] = stack[u][from(u, n)]
          /\ from(v, m) \in DOMAIN stack[v] /\ stack'[v][m] = stack[v][from(v, m)]
      BY <1>4, <2>3
    <3>2. u = v /\ from(u, n) = from(v, m)
      BY <3>1 DEF OneHolder
    <3>3. n \in Int /\ m \in Int
      BY <1>4
    <3>4. QED
      BY <3>2, <3>3
  <2>4. QED
    BY <2>1, <2>2, <2>3
<1>7. QED
  BY <1>4, <1>5, <1>6

\* Splitting an image range disturbs no holder.
LEMMA SplitKeepsHolders ==
  ASSUME TypeOK, HoldersRun, OneHolder, NEW w \in Workers, SplitImages(w)
  PROVE  /\ stack' \in [Workers -> Seq(Frames)]
         /\ deque' \in [Workers -> Seq(Jobs)]
         /\ HoldersRun'
         /\ OneHolder'
<1>1. stack[w] # <<>> /\ IsRange(TopJob(w)) /\ ~IsTiles(TopJob(w)) /\ ForkTop(w) /\ cell' = cell
  BY DEF SplitImages, TopIs, IsRange, IsTiles, cells
<1>2. /\ stack' \in [Workers -> Seq(Frames)]
      /\ deque' \in [Workers -> Seq(Jobs)]
      /\ \A v \in Workers : v # w => stack'[v] = stack[v]
      /\ Len(stack'[w]) = Len(stack[w]) + 1
      /\ \A n \in DOMAIN stack'[w] :
           stack'[w][n] = IF n = 1 THEN [job |-> LeftHalf(TopJob(w)), at |-> "enter"]
                          ELSE IF n = 2 THEN [job |-> TopJob(w), at |-> "join"]
                          ELSE stack[w][n - 1]
  BY <1>1, ForkShape
<1> DEFINE from(v, n) == IF v = w THEN n - 1 ELSE n
<1>3. ASSUME NEW v \in Workers, NEW n \in DOMAIN stack'[v], Holding(stack'[v][n])
      PROVE  from(v, n) \in DOMAIN stack[v] /\ stack'[v][n] = stack[v][from(v, n)]
  <2>1. CASE v = w
    <3>0. TopJob(w).lo \in Int /\ TopJob(w).hi \in Int
      BY <1>1, StackTyped DEF Jobs, Images
    <3>1. n # 1 /\ n # 2
      <4>1. CASE n = 1
        <5>1. stack'[w][n].at = "enter"
          BY <1>2, <2>1, <4>1
        <5>2. QED
          BY <1>3, <2>1, <5>1 DEF Holding
      <4>2. CASE n = 2
        <5>1. stack'[w][n].at = "join" /\ stack'[w][n].job = TopJob(w)
          BY <1>2, <2>1, <4>2
        <5>2. IsImage(TopJob(w))
          BY <1>3, <2>1, <5>1 DEF Holding
        <5>3. QED
          BY <1>1, <3>0, <5>2 DEF IsRange, IsImage
      <4>3. QED
        BY <4>1, <4>2
    <3>2. n \in 1..(Len(stack[w]) + 1)
      BY <1>2, <2>1
    <3>3. n - 1 \in DOMAIN stack[w]
      BY <3>1, <3>2, StackTyped
    <3>4. QED
      BY <1>2, <2>1, <3>1, <3>3
  <2>2. CASE v # w
    BY <1>2, <2>2
  <2>3. QED
    BY <2>1, <2>2
<1>4. HoldersRun'
  BY <1>1, <1>3 DEF HoldersRun, Holding, Held
<1>5. OneHolder'
  <2> SUFFICES ASSUME NEW u \in Workers, NEW v \in Workers,
                      NEW n \in DOMAIN stack'[u], NEW m \in DOMAIN stack'[v],
                      Holding(stack'[u][n]), Holding(stack'[v][m]),
                      Held(stack'[u][n]) = Held(stack'[v][m])
               PROVE  u = v /\ n = m
    BY DEF OneHolder, Holding, Held
  <2>1. /\ from(u, n) \in DOMAIN stack[u] /\ stack'[u][n] = stack[u][from(u, n)]
        /\ from(v, m) \in DOMAIN stack[v] /\ stack'[v][m] = stack[v][from(v, m)]
    BY <1>3
  <2>2. u = v /\ from(u, n) = from(v, m)
    BY <2>1 DEF OneHolder
  <2>3. n \in Int /\ m \in Int
    BY <1>2
  <2>4. QED
    BY <2>2, <2>3
<1>6. QED
  BY <1>2, <1>4, <1>5

\* Returning a result without touching a cell keeps the invariant.
LEMMA ReturnResultKeepsIInv ==
  ASSUME CacheInv, NEW w \in Workers, NEW r \in Outcomes,
         stack[w] # <<>>, ReturnResult(w, r),
         IF ContractAt(w) \in Accepted THEN cell[ContractAt(w)] = r ELSE r = "err",
         UNCHANGED <<deque, injector, cell, decodes, caller>>
  PROVE  CacheInv'
<1> USE DEF CacheInv
<1>1. TopJob(w) \in Jobs /\ TopJob(w).lo \in Images /\ TopJob(w).call \in Callers
  BY StackTyped DEF Jobs
<1>2. Return(w) /\ result' = [result EXCEPT ![TopJob(w).call][TopJob(w).lo] = r]
  BY DEF ReturnResult
<1>3. /\ stack' \in [Workers -> Seq(Frames)]
      /\ finished' \subseteq Jobs
      /\ OneHolder'
      /\ HoldersRun'
  BY <1>2, ReturnKeepsHolders DEF HoldersRun, Holding, Held
<1>4. TypeOK'
  BY <1>1, <1>2, <1>3 DEF TypeOK, Outcomes
<1>5. DecodesMatch'
  BY DEF DecodesMatch
<1>6. ResultsMatch'
  BY <1>1, <1>2 DEF ResultsMatch, TypeOK, ContractAt
<1>7. RejectedUntouched'
  BY DEF RejectedUntouched
<1>8. QED
  BY <1>3, <1>4, <1>5, <1>6, <1>7

\* Filling a held cell keeps the invariant.
LEMMA FillCellKeepsIInv ==
  ASSUME CacheInv, NEW w \in Workers, NEW r \in Outcomes,
         stack[w] # <<>>, Holding(Head(stack[w])), FillCell(w, r),
         UNCHANGED <<deque, injector, decodes, caller>>
  PROVE  CacheInv'
<1> USE DEF CacheInv
<1> DEFINE c == ContractAt(w)
<1>1. /\ TopJob(w) \in Jobs /\ TopJob(w).lo \in Images /\ TopJob(w).call \in Callers
      /\ c \in Contracts /\ c = Held(stack[w][1]) /\ Holding(stack[w][1])
      /\ 1 \in DOMAIN stack[w]
  BY StackTyped DEF Jobs
<1>2. /\ Return(w)
      /\ result' = [result EXCEPT ![TopJob(w).call][TopJob(w).lo] = r]
      /\ cell' = [cell EXCEPT ![c] = r]
  BY DEF FillCell, ReturnResult
<1>3. cell[c] = "running"
  BY <1>1 DEF HoldersRun
<1>4. /\ stack' \in [Workers -> Seq(Frames)]
      /\ finished' \subseteq Jobs
      /\ OneHolder'
      /\ \A v \in Workers : \A n \in DOMAIN stack'[v] : Holding(stack'[v][n]) =>
           /\ cell[Held(stack'[v][n])] = "running"
           /\ Held(stack'[v][n]) # c
  BY <1>1, <1>2, ReturnKeepsHolders
<1>5. TypeOK'
  BY <1>1, <1>2, <1>4 DEF TypeOK, Outcomes
<1>6. HoldersRun'
  <2> SUFFICES ASSUME NEW v \in Workers, NEW n \in DOMAIN stack'[v], Holding(stack'[v][n])
               PROVE  cell'[Held(stack'[v][n])] = "running"
    BY DEF HoldersRun, Holding, Held
  <2>1. Held(stack'[v][n]) \in Contracts
    <3>1. stack'[v][n] \in Frames
      BY <1>4
    <3>2. QED
      BY <3>1, ContractAssumption DEF Held, Frames, Jobs
  <2>2. QED
    BY <1>2, <1>4, <2>1 DEF TypeOK
<1>7. DecodesMatch'
  BY <1>1, <1>2, <1>3 DEF DecodesMatch, TypeOK, Outcomes
<1>8. ResultsMatch'
  <2> SUFFICES ASSUME NEW k \in Callers, NEW i \in Images, result'[k][i] # "none"
               PROVE  IF ContractOf[i] \in Accepted
                      THEN cell'[ContractOf[i]] = result'[k][i]
                      ELSE result'[k][i] = "err"
    BY DEF ResultsMatch
  <2>1. ContractOf[i] \in Contracts
    BY ContractAssumption
  <2>2. CASE k = TopJob(w).call /\ i = TopJob(w).lo
    <3>1. result'[k][i] = r /\ ContractOf[i] = c
      BY <1>1, <1>2, <2>2 DEF TypeOK, ContractAt
    <3>2. cell'[c] = r
      BY <1>1, <1>2 DEF TypeOK
    <3>3. c \in Accepted
      BY <1>1, <1>3 DEF RejectedUntouched
    <3>4. QED
      BY <3>1, <3>2, <3>3
  <2>3. CASE ~(k = TopJob(w).call /\ i = TopJob(w).lo)
    <3>1. result'[k][i] = result[k][i]
      BY <1>1, <1>2, <2>3 DEF TypeOK
    <3>2. ContractOf[i] # c
      <4>1. c \in Accepted
        BY <1>1, <1>3 DEF RejectedUntouched
      <4>2. result[k][i] \in Outcomes
        BY <3>1 DEF TypeOK
      <4>3. ContractOf[i] = c => cell[c] = result[k][i]
        BY <3>1, <4>1 DEF ResultsMatch
      <4>4. QED
        BY <1>3, <4>2, <4>3 DEF Outcomes
    <3>3. cell'[ContractOf[i]] = cell[ContractOf[i]]
      BY <1>2, <2>1, <3>2 DEF TypeOK
    <3>4. QED
      BY <3>1, <3>3 DEF ResultsMatch
  <2>4. QED
    BY <2>2, <2>3
<1>9. RejectedUntouched'
  BY <1>1, <1>2, <1>3 DEF RejectedUntouched, TypeOK
<1>10. QED
  BY <1>4, <1>5, <1>6, <1>7, <1>8, <1>9

\* Starting a decode keeps the invariant.
LEMMA StartDecodeKeepsIInv ==
  ASSUME CacheInv, NEW w \in Workers, StartDecode(w)
  PROVE  CacheInv'
<1> USE DEF CacheInv
<1> DEFINE c == ContractAt(w)
<1>1. /\ stack[w] # <<>>
      /\ c \in Accepted
      /\ cell[c] = "empty"
      /\ cell' = [cell EXCEPT ![c] = "running"]
      /\ decodes' = [decodes EXCEPT ![c] = @ + 1]
      /\ UNCHANGED <<injector, finished, result, caller>>
  BY DEF StartDecode, EntersImage, TopIs, MayInitialise
<1>2. c \in Contracts
  BY <1>1, StackTyped
<1>3. /\ stack' \in [Workers -> Seq(Frames)]
      /\ deque' \in [Workers -> Seq(Jobs)]
      /\ HoldersRun'
      /\ OneHolder'
  BY StartDecodeKeepsHolders
<1>4. TypeOK'
  BY <1>1, <1>2, <1>3 DEF TypeOK
<1>5. DecodesMatch'
  BY <1>1, <1>2 DEF DecodesMatch, TypeOK
<1>6. ResultsMatch'
  <2> SUFFICES ASSUME NEW k \in Callers, NEW i \in Images, result[k][i] # "none"
               PROVE  IF ContractOf[i] \in Accepted
                      THEN cell'[ContractOf[i]] = result[k][i]
                      ELSE result[k][i] = "err"
    BY <1>1 DEF ResultsMatch
  <2>1. result[k][i] \in Outcomes /\ ContractOf[i] \in Contracts
    BY ContractAssumption DEF TypeOK
  <2>2. CASE ContractOf[i] \in Accepted
    <3>1. cell[ContractOf[i]] = result[k][i]
      BY <2>2 DEF ResultsMatch
    <3>2. ContractOf[i] # c
      BY <1>1, <2>1, <3>1 DEF Outcomes
    <3>3. QED
      BY <1>1, <2>1, <2>2, <3>1, <3>2 DEF TypeOK
  <2>3. CASE ContractOf[i] \notin Accepted
    BY <2>3 DEF ResultsMatch
  <2>4. QED
    BY <2>2, <2>3
<1>7. RejectedUntouched'
  BY <1>1, <1>2 DEF RejectedUntouched, TypeOK
<1>8. QED
  BY <1>3, <1>4, <1>5, <1>6, <1>7

\* Steps that leave the cells and results alone keep the invariant if they
\* keep the pool typed and the holders apart.
LEMMA PoolStepKeepsIInv ==
  ASSUME CacheInv, UNCHANGED cells,
         stack' \in [Workers -> Seq(Frames)], deque' \in [Workers -> Seq(Jobs)],
         injector' \in Seq(Jobs), finished' \subseteq Jobs,
         caller' \in [Callers -> {"idle", "installed", "skipped", "submitted", "group_error"}],
         HoldersRun', OneHolder'
  PROVE  CacheInv'
BY DEF CacheInv, TypeOK, cells, DecodesMatch, ResultsMatch, RejectedUntouched

\* Returning from a job without a result keeps the invariant.
LEMMA ReturnKeepsIInv ==
  ASSUME CacheInv, NEW w \in Workers, stack[w] # <<>>, Return(w),
         UNCHANGED <<deque, injector, cells, caller>>
  PROVE  CacheInv'
<1>1. /\ stack' \in [Workers -> Seq(Frames)]
      /\ finished' \subseteq Jobs
      /\ OneHolder'
      /\ HoldersRun'
  BY ReturnKeepsHolders DEF CacheInv, HoldersRun, Holding, Held, cells
<1>2. QED
  BY <1>1, PoolStepKeepsIInv DEF CacheInv, TypeOK

\* Finding a job keeps the invariant.
LEMMA EnterKeepsIInv ==
  ASSUME CacheInv, NEW w \in Workers, NEW j \in Jobs, Enter(w, j),
         deque' \in [Workers -> Seq(Jobs)], injector' \in Seq(Jobs),
         UNCHANGED <<finished, cells, caller>>
  PROVE  CacheInv'
<1>1. stack' \in [Workers -> Seq(Frames)] /\ HoldersRun' /\ OneHolder'
  BY EnterKeepsHolders DEF CacheInv, cells
<1>2. QED
  BY <1>1, PoolStepKeepsIInv DEF CacheInv, TypeOK

\* Taking from either end of a queue.
LEMMA QueueOps ==
  ASSUME NEW q \in Seq(Jobs), q # <<>>
  PROVE  /\ Head(q) \in Jobs
         /\ Tail(q) \in Seq(Jobs)
         /\ q[Len(q)] \in Jobs
         /\ SubSeq(q, 1, Len(q) - 1) \in Seq(Jobs)
<1>1. Len(q) \in Nat /\ Len(q) # 0
  OBVIOUS
<1>2. Len(q) \in DOMAIN q
  BY <1>1
<1>3. SubSeq(q, 1, Len(q) - 1) \in Seq(Jobs)
  BY <1>1
<1>4. QED
  BY <1>2, <1>3

\* The root job of a caller is a job.
LEMMA RootIsJob ==
  ASSUME NEW k \in Callers
  PROVE  Root(k) \in Jobs
BY SizeAssumption DEF Root, Jobs, Images

\* An empty cache satisfies the invariant.
LEMMA InitEstablishesIInv == Init => CacheInv
BY SizeAssumption, ContractAssumption
   DEF Init, CacheInv, TypeOK, HoldersRun, OneHolder, DecodesMatch, ResultsMatch, RejectedUntouched

\* Every step of the cache keeps the invariant.
LEMMA StepKeepsIInv == CacheInv /\ [Next]_vars => CacheInv'
<1> SUFFICES ASSUME CacheInv, [Next]_vars PROVE CacheInv'
  OBVIOUS
<1>1. ASSUME NEW w \in Workers, SplitImages(w) PROVE CacheInv'
  <2>1. /\ stack' \in [Workers -> Seq(Frames)]
        /\ deque' \in [Workers -> Seq(Jobs)]
        /\ HoldersRun'
        /\ OneHolder'
    BY <1>1, SplitKeepsHolders DEF CacheInv
  <2>2. QED
    BY <1>1, <2>1, PoolStepKeepsIInv DEF SplitImages, CacheInv, TypeOK
<1>2. ASSUME NEW w \in Workers, RejectRequest(w) PROVE CacheInv'
  BY <1>2, ReturnResultKeepsIInv DEF RejectRequest, EntersImage, TopIs, Outcomes
<1>3. ASSUME NEW w \in Workers, ReadCell(w) PROVE CacheInv'
  BY <1>3, ReturnResultKeepsIInv DEF ReadCell, EntersImage, TopIs
<1>4. ASSUME NEW w \in Workers, StartDecode(w) PROVE CacheInv'
  BY <1>4, StartDecodeKeepsIInv
<1>5. ASSUME NEW w \in Workers, FinishDecode(w) PROVE CacheInv'
  BY <1>5, FillCellKeepsIInv DEF FinishDecode, TopIs, Holding
<1>6. ASSUME NEW w \in Workers, DecodeTiles(w) PROVE CacheInv'
  BY <1>6, ReturnKeepsIInv DEF DecodeTiles, TopIs
<1>7. ASSUME NEW w \in Workers, JoinImages(w) PROVE CacheInv'
  BY <1>7, ReturnKeepsIInv DEF JoinImages, TopIs
<1>8. ASSUME NEW w \in Workers, JoinTiles(w) PROVE CacheInv'
  <2>1. stack[w] # <<>> /\ Holding(Head(stack[w]))
    BY <1>8 DEF JoinTiles, TopIs, TopJob, Holding
  <2>2. QED
    BY <1>8, <2>1, FillCellKeepsIInv DEF JoinTiles
<1>9. ASSUME NEW w \in Workers, PopOwn(w) PROVE CacheInv'
  <2>1. deque[w] \in Seq(Jobs) /\ deque[w] # <<>>
    BY <1>9 DEF PopOwn, CacheInv, TypeOK
  <2>2. deque[w][Len(deque[w])] \in Jobs /\ SubSeq(deque[w], 1, Len(deque[w]) - 1) \in Seq(Jobs)
    BY <2>1, QueueOps
  <2>3. deque' \in [Workers -> Seq(Jobs)]
    BY <1>9, <2>2 DEF PopOwn, CacheInv, TypeOK
  <2>4. QED
    BY <1>9, <2>2, <2>3, EnterKeepsIInv DEF PopOwn, CacheInv, TypeOK
<1>10. ASSUME NEW w \in Workers, NEW v \in Workers, Steal(w, v) PROVE CacheInv'
  <2>1. deque[v] \in Seq(Jobs) /\ deque[v] # <<>>
    BY <1>10 DEF Steal, CacheInv, TypeOK
  <2>2. Head(deque[v]) \in Jobs /\ Tail(deque[v]) \in Seq(Jobs)
    BY <2>1, QueueOps
  <2>3. deque' \in [Workers -> Seq(Jobs)]
    BY <1>10, <2>2 DEF Steal, CacheInv, TypeOK
  <2>4. QED
    BY <1>10, <2>2, <2>3, EnterKeepsIInv DEF Steal, CacheInv, TypeOK
<1>11. ASSUME NEW w \in Workers, TakeInjected(w) PROVE CacheInv'
  <2>1. Head(injector) \in Jobs /\ Tail(injector) \in Seq(Jobs)
    BY <1>11, QueueOps DEF TakeInjected, CacheInv, TypeOK
  <2>2. QED
    BY <1>11, <2>1, EnterKeepsIInv DEF TakeInjected, CacheInv, TypeOK
<1>12. ASSUME NEW k \in Callers, Install(k) PROVE CacheInv'
  <2>1. injector' \in Seq(Jobs)
    BY <1>12, RootIsJob DEF Install, CacheInv, TypeOK
  <2>2. HoldersRun' /\ OneHolder'
    BY <1>12 DEF Install, CacheInv, HoldersRun, OneHolder, Holding, Held, cells
  <2>3. QED
    BY <1>12, <2>1, <2>2, PoolStepKeepsIInv DEF Install, CacheInv, TypeOK
<1>13. ASSUME NEW k \in Callers, SubmitGroup(k) PROVE CacheInv'
  <2>1. PICK o \in {"skipped", "submitted", "group_error"} : caller' = [caller EXCEPT ![k] = o]
    BY <1>13 DEF SubmitGroup
  <2>2. HoldersRun' /\ OneHolder'
    BY <1>13 DEF SubmitGroup, CacheInv, HoldersRun, OneHolder, Holding, Held, cells, pool
  <2>3. QED
    BY <1>13, <2>1, <2>2, PoolStepKeepsIInv DEF SubmitGroup, CacheInv, TypeOK, pool
<1>14. CASE UNCHANGED vars
  BY <1>14 DEF vars, CacheInv, TypeOK, HoldersRun, OneHolder, DecodesMatch, ResultsMatch,
               RejectedUntouched, Holding, Held
<1>15. QED
  BY <1>1, <1>2, <1>3, <1>4, <1>5, <1>6, <1>7, <1>8, <1>9, <1>10, <1>11, <1>12, <1>13, <1>14
     DEF Next, WorkerStep, Quiescent

-----------------------------------------------------------------------------
\* The pool, the cells and the callers keep their types.
THEOREM TypeCorrect == Spec => []TypeOK
<1>1. CacheInv => TypeOK
  BY DEF CacheInv
<1>2. QED
  BY <1>1, InitEstablishesIInv, StepKeepsIInv, PTL DEF Spec

\* No contract is decoded twice, however many workers and callers race for
\* its OnceLock and whatever jobs a joining worker steals meanwhile.
THEOREM EveryContractDecodedOnce == Spec => []DecodedOnce
<1>1. CacheInv => DecodedOnce
  <2> SUFFICES ASSUME CacheInv, NEW c \in Contracts PROVE decodes[c] <= 1
    BY DEF DecodedOnce
  <2>1. decodes[c] = 0 \/ decodes[c] = 1
    BY DEF CacheInv, DecodesMatch
  <2>2. QED
    BY <2>1
<1>2. QED
  BY <1>1, InitEstablishesIInv, StepKeepsIInv, PTL DEF Spec

\* The images of one contract report one outcome in every call.
THEOREM ImagesShareOutcome == Spec => []SharedOutcome
<1>1. CacheInv => SharedOutcome
  BY DEF CacheInv, ResultsMatch, SharedOutcome
<1>2. QED
  BY <1>1, InitEstablishesIInv, StepKeepsIInv, PTL DEF Spec

-----------------------------------------------------------------------------
(***************************************************************************)
(* The collected vector.  A finished job answered for every image of its   *)
(* range, because a worker that waits in a join ran the left half before:  *)
(* it is finished, or it is the job right above the waiting frame.  Other  *)
(* jobs above a waiting frame are stolen ones and answer for themselves.   *)
(***************************************************************************)
Covers(j, i) == j.half = 0 /\ j.lo <= i /\ i <= j.hi

\* A finished job has a result for every image of its range.
Answered ==
  \A j \in finished : \A i \in Images : Covers(j, i) => result[j.call][i] # "none"

\* The left half of a split range is finished or right above it.
LeftFirst ==
  \A w \in Workers : \A n \in DOMAIN stack[w] :
    stack[w][n].at = "join" /\ IsRange(stack[w][n].job) =>
      \/ LeftHalf(stack[w][n].job) \in finished
      \/ n > 1 /\ stack[w][n - 1].job = LeftHalf(stack[w][n].job)

\* Only the job of one image is inside the initialiser.
DecodesImage ==
  \A w \in Workers : \A n \in DOMAIN stack[w] :
    stack[w][n].at = "decode" => IsImage(stack[w][n].job)

CInv == Answered /\ LeftFirst /\ DecodesImage

\* The two halves of a range are the range.
LEMMA HalvesCover ==
  ASSUME NEW j \in Jobs, IsRange(j), NEW i \in Images, Covers(j, i)
  PROVE  /\ Covers(LeftHalf(j), i) \/ Covers(RightHalf(j), i)
         /\ LeftHalf(j).call = j.call /\ RightHalf(j).call = j.call
<1>1. j.lo \in Int /\ j.hi \in Int /\ i \in Int
  BY DEF Jobs, Images
<1>2. LastOfLeft(j) \in Int
  BY <1>1 DEF LastOfLeft
<1>3. /\ LeftHalf(j).lo = j.lo /\ LeftHalf(j).hi = LastOfLeft(j) /\ LeftHalf(j).half = j.half
      /\ RightHalf(j).lo = LastOfLeft(j) + 1 /\ RightHalf(j).hi = j.hi /\ RightHalf(j).half = j.half
      /\ LeftHalf(j).call = j.call /\ RightHalf(j).call = j.call
  BY DEF LeftHalf, RightHalf, Jobs
<1>4. QED
  BY <1>1, <1>2, <1>3 DEF Covers

\* A job found while waiting in a join parts no frame from its left half: the
\* left half of the innermost frame is finished.
LEMMA EnterKeepsLeft ==
  ASSUME TypeOK, LeftFirst, DecodesImage, NEW w \in Workers, NEW j \in Jobs,
         Enter(w, j), finished' = finished
  PROVE  LeftFirst' /\ DecodesImage'
<1> DEFINE f == [job |-> j, at |-> "enter"]
<1>1. f \in Frames
  BY DEF Frames
<1>2. stack'[w] = <<f>> \o stack[w] /\ \A v \in Workers : v # w => stack'[v] = stack[v]
  BY DEF Enter, TypeOK
<1>3. /\ DOMAIN stack'[w] = 1..Len(stack[w]) + 1
      /\ \A n \in 1..Len(stack[w]) + 1 : stack'[w][n] = IF n = 1 THEN f ELSE stack[w][n - 1]
  <2>1. stack[w] \in Seq(Frames)
    BY StackTyped
  <2>2. QED
    BY <1>1, <1>2, <2>1, StackOps
<1>4. ASSUME NEW n \in DOMAIN stack'[w], stack'[w][n].at # "enter"
      PROVE  /\ n - 1 \in DOMAIN stack[w] /\ stack'[w][n] = stack[w][n - 1]
             /\ n - 1 > 1 => stack'[w][n - 1] = stack[w][n - 2]
  <2>1. Len(stack[w]) \in Nat /\ DOMAIN stack[w] = 1..Len(stack[w])
    BY StackTyped
  <2>2. n # 1
    BY <1>3, <1>4
  <2>3. QED
    BY <1>3, <2>1, <2>2
<1>5. LeftFirst'
  <2> SUFFICES ASSUME NEW v \in Workers, NEW n \in DOMAIN stack'[v],
                      stack'[v][n].at = "join", IsRange(stack'[v][n].job)
               PROVE  \/ LeftHalf(stack'[v][n].job) \in finished
                      \/ n > 1 /\ stack'[v][n - 1].job = LeftHalf(stack'[v][n].job)
    BY DEF LeftFirst, LeftHalf, LastOfLeft, IsRange
  <2>1. CASE v # w
    BY <1>2, <2>1 DEF LeftFirst
  <2>2. CASE v = w
    <3>1. /\ n - 1 \in DOMAIN stack[w] /\ stack'[w][n] = stack[w][n - 1]
          /\ n - 1 > 1 => stack'[w][n - 1] = stack[w][n - 2]
      BY <1>4, <2>2
    <3>2. \/ LeftHalf(stack[w][n - 1].job) \in finished
          \/ n - 1 > 1 /\ stack[w][n - 1 - 1].job = LeftHalf(stack[w][n - 1].job)
      BY <2>2, <3>1 DEF LeftFirst
    <3>3. n \in Int /\ n - 1 - 1 = n - 2
      BY <1>3, <2>2, StackTyped
    <3>4. QED
      BY <2>2, <3>1, <3>2, <3>3
  <2>3. QED
    BY <2>1, <2>2
<1>6. DecodesImage'
  <2> SUFFICES ASSUME NEW v \in Workers, NEW n \in DOMAIN stack'[v], stack'[v][n].at = "decode"
               PROVE  IsImage(stack'[v][n].job)
    BY DEF DecodesImage, IsImage
  <2>1. QED
    BY <1>2, <1>4 DEF DecodesImage
<1>7. QED
  BY <1>5, <1>6

\* A returning job is finished, which is what the frame below may wait for.
LEMMA ReturnKeepsLeft ==
  ASSUME TypeOK, LeftFirst, DecodesImage, NEW w \in Workers, stack[w] # <<>>, Return(w)
  PROVE  LeftFirst' /\ DecodesImage'
<1>1. /\ stack'[w] = Tail(stack[w]) /\ \A v \in Workers : v # w => stack'[v] = stack[v]
      /\ finished' = finished \cup {stack[w][1].job}
  BY StackTyped DEF Return, TypeOK
<1>2. /\ Len(stack[w]) \in Nat \ {0} /\ DOMAIN stack[w] = 1..Len(stack[w])
      /\ DOMAIN stack'[w] = 1..Len(stack[w]) - 1
      /\ \A n \in 1..Len(stack[w]) - 1 : stack'[w][n] = stack[w][n + 1]
  <2>1. PICK f \in Frames : f = Head(stack[w])
    BY StackTyped
  <2>2. stack[w] \in Seq(Frames)
    BY StackTyped
  <2>3. QED
    BY <1>1, <2>1, <2>2, StackOps
<1>3. ASSUME NEW n \in DOMAIN stack'[w]
      PROVE  /\ n + 1 \in DOMAIN stack[w] /\ stack'[w][n] = stack[w][n + 1]
             /\ n > 1 => stack'[w][n - 1] = stack[w][n]
  BY <1>2, SMTT(30)
<1>4. LeftFirst'
  <2> SUFFICES ASSUME NEW v \in Workers, NEW n \in DOMAIN stack'[v],
                      stack'[v][n].at = "join", IsRange(stack'[v][n].job)
               PROVE  \/ LeftHalf(stack'[v][n].job) \in finished'
                      \/ n > 1 /\ stack'[v][n - 1].job = LeftHalf(stack'[v][n].job)
    BY DEF LeftFirst, LeftHalf, LastOfLeft, IsRange
  <2>1. CASE v # w
    BY <1>1, <2>1 DEF LeftFirst
  <2>2. CASE v = w
    <3>1. n + 1 \in DOMAIN stack[w] /\ stack'[w][n] = stack[w][n + 1] /\ n \in Nat \ {0}
      BY <1>2, <1>3, <2>2
    <3>2. \/ LeftHalf(stack[w][n + 1].job) \in finished
          \/ stack[w][n + 1 - 1].job = LeftHalf(stack[w][n + 1].job)
      BY <2>2, <3>1 DEF LeftFirst
    <3>3. n + 1 - 1 = n
      BY <3>1
    <3>4. CASE n = 1
      BY <1>1, <2>2, <3>1, <3>2, <3>3, <3>4
    <3>5. CASE n > 1
      BY <1>1, <1>3, <2>2, <3>1, <3>2, <3>3, <3>5
    <3>6. QED
      BY <3>1, <3>4, <3>5
  <2>3. QED
    BY <2>1, <2>2
<1>5. DecodesImage'
  <2> SUFFICES ASSUME NEW v \in Workers, NEW n \in DOMAIN stack'[v], stack'[v][n].at = "decode"
               PROVE  IsImage(stack'[v][n].job)
    BY DEF DecodesImage, IsImage
  <2>1. CASE v # w
    BY <1>1, <2>1 DEF DecodesImage
  <2>2. CASE v = w
    <3>1. n + 1 \in DOMAIN stack[w] /\ stack'[w][n] = stack[w][n + 1]
      BY <1>3, <2>2
    <3>2. QED
      BY <2>2, <3>1 DEF DecodesImage
  <2>3. QED
    BY <2>1, <2>2
<1>6. QED
  BY <1>4, <1>5

\* A fork puts the left half right above the frame that joins it.
LEMMA ForkKeepsLeft ==
  ASSUME TypeOK, LeftFirst, DecodesImage, NEW w \in Workers, stack[w] # <<>>,
         ~IsTiles(TopJob(w)), ForkTop(w), finished' = finished
  PROVE  LeftFirst' /\ DecodesImage'
<1> DEFINE f == [job |-> LeftHalf(TopJob(w)), at |-> "enter"]
           g == [job |-> TopJob(w), at |-> "join"]
<1>1. /\ \A v \in Workers : v # w => stack'[v] = stack[v]
      /\ Len(stack'[w]) = Len(stack[w]) + 1
      /\ stack'[w] \in Seq(Frames)
      /\ \A n \in DOMAIN stack'[w] :
           stack'[w][n] = IF n = 1 THEN f ELSE IF n = 2 THEN g ELSE stack[w][n - 1]
  BY ForkShape
<1>2. /\ Len(stack[w]) \in Nat \ {0} /\ DOMAIN stack[w] = 1..Len(stack[w])
      /\ DOMAIN stack'[w] = 1..Len(stack[w]) + 1 /\ TopJob(w) = stack[w][1].job
  <2>1. stack[w] \in Seq(Frames)
    BY StackTyped
  <2>2. QED
    BY <1>1, <2>1, StackTyped
<1>3. /\ stack'[w][1].job = LeftHalf(TopJob(w)) /\ stack'[w][1].at = "enter"
      /\ stack'[w][2].job = TopJob(w) /\ stack'[w][2].at = "join"
  BY <1>1, <1>2
<1>4. ASSUME NEW n \in DOMAIN stack'[w], n > 2
      PROVE  /\ n - 1 \in DOMAIN stack[w] /\ stack'[w][n] = stack[w][n - 1]
             /\ stack'[w][n - 1].job = stack[w][n - 2].job
  <2>1. n - 1 \in DOMAIN stack[w] /\ stack'[w][n] = stack[w][n - 1]
    BY <1>1, <1>2, <1>4
  <2>2. CASE n = 3
    BY <1>2, <1>3, <2>1, <2>2
  <2>3. CASE n > 3
    <3>1. n - 1 \in DOMAIN stack'[w] /\ n - 1 # 1 /\ n - 1 # 2 /\ n - 1 - 1 = n - 2
      BY <1>2, <2>3
    <3>2. stack'[w][n - 1] = stack[w][n - 2]
      BY <1>1, <3>1
    <3>3. QED
      BY <2>1, <3>2
  <2>4. n \in Int
    BY <1>2
  <2>5. QED
    BY <1>4, <2>1, <2>2, <2>3, <2>4
<1> HIDE DEF f, g
<1>5. LeftFirst'
  <2> SUFFICES ASSUME NEW v \in Workers, NEW n \in DOMAIN stack'[v],
                      stack'[v][n].at = "join", IsRange(stack'[v][n].job)
               PROVE  \/ LeftHalf(stack'[v][n].job) \in finished
                      \/ n > 1 /\ stack'[v][n - 1].job = LeftHalf(stack'[v][n].job)
    BY DEF LeftFirst, LeftHalf, LastOfLeft, IsRange
  <2>1. CASE v # w
    BY <1>1, <2>1 DEF LeftFirst
  <2>2. CASE v = w /\ n > 2
    <3>1. /\ n - 1 \in DOMAIN stack[w] /\ stack'[w][n] = stack[w][n - 1]
          /\ stack'[w][n - 1].job = stack[w][n - 2].job
      BY <1>4, <2>2
    <3>2. \/ LeftHalf(stack[w][n - 1].job) \in finished
          \/ stack[w][n - 1 - 1].job = LeftHalf(stack[w][n - 1].job)
      BY <2>2, <3>1 DEF LeftFirst
    <3>3. n \in Int /\ n - 1 - 1 = n - 2
      BY <1>2, <2>2
    <3>4. QED
      BY <2>2, <3>1, <3>2, <3>3
  <2>3. CASE v = w /\ n = 2
    BY <1>3, <2>3
  <2>4. v = w => n # 1 /\ n \in Nat \ {0}
    BY <1>2, <1>3
  <2>5. QED
    BY <2>1, <2>2, <2>3, <2>4
<1>6. DecodesImage'
  <2> SUFFICES ASSUME NEW v \in Workers, NEW n \in DOMAIN stack'[v], stack'[v][n].at = "decode"
               PROVE  IsImage(stack'[v][n].job)
    BY DEF DecodesImage, IsImage
  <2>1. CASE v # w
    BY <1>1, <2>1 DEF DecodesImage
  <2>2. CASE v = w
    <3>1. n > 2
      BY <1>2, <1>3, <2>2
    <3>2. QED
      BY <1>4, <2>2, <3>1 DEF DecodesImage
  <2>3. QED
    BY <2>1, <2>2
<1>7. QED
  BY <1>5, <1>6

\* Steps that move no job and start no join part no frame from its left half.
LEMMA SameJobs ==
  ASSUME TypeOK, LeftFirst, finished' = finished,
         \A v \in Workers :
           /\ DOMAIN stack'[v] = DOMAIN stack[v]
           /\ \A n \in DOMAIN stack[v] :
                /\ stack'[v][n].job = stack[v][n].job
                /\ stack'[v][n].at = "join" => stack[v][n].at = "join"
  PROVE  LeftFirst'
<1> SUFFICES ASSUME NEW v \in Workers, NEW n \in DOMAIN stack'[v],
                    stack'[v][n].at = "join", IsRange(stack'[v][n].job)
             PROVE  \/ LeftHalf(stack'[v][n].job) \in finished'
                    \/ n > 1 /\ stack'[v][n - 1].job = LeftHalf(stack'[v][n].job)
  BY DEF LeftFirst, LeftHalf, LastOfLeft, IsRange
<1>1. stack[v][n].at = "join" /\ n \in DOMAIN stack[v] /\ stack'[v][n].job = stack[v][n].job
  OBVIOUS
<1>2. \/ LeftHalf(stack[v][n].job) \in finished
      \/ n > 1 /\ stack[v][n - 1].job = LeftHalf(stack[v][n].job)
  BY <1>1 DEF LeftFirst
<1>3. n > 1 => n - 1 \in DOMAIN stack[v]
  BY <1>1, StackTyped
<1>4. QED
  BY <1>1, <1>2, <1>3

\* Starting to decode a single tile moves no job.
LEMMA DecodeKeepsLeft ==
  ASSUME TypeOK, LeftFirst, DecodesImage, NEW w \in Workers, stack[w] # <<>>,
         IsImage(TopJob(w)), TopIs(w, "enter"), finished' = finished,
         stack' = [stack EXCEPT ![w] = <<[Head(@) EXCEPT !.at = "decode"]>> \o Tail(@)]
  PROVE  LeftFirst' /\ DecodesImage'
<1>1. PICK g : g = [Head(stack[w]) EXCEPT !.at = "decode"]
  OBVIOUS
<1>2. Head(stack[w]) = stack[w][1] /\ stack[w][1] \in Frames /\ stack[w] \in Seq(Frames)
  BY StackTyped
<1>3. g \in Frames /\ g.at = "decode" /\ g.job = stack[w][1].job
  BY <1>1, <1>2 DEF Frames
<1>4. stack'[w] = <<g>> \o Tail(stack[w]) /\ \A v \in Workers : v # w => stack'[v] = stack[v]
  BY <1>1 DEF TypeOK
<1>5. /\ DOMAIN stack'[w] = DOMAIN stack[w] /\ DOMAIN stack[w] = 1..Len(stack[w])
      /\ \A n \in DOMAIN stack[w] : stack'[w][n] = IF n = 1 THEN g ELSE stack[w][n]
  BY <1>2, <1>3, <1>4, StackOps
<1>6. \A v \in Workers : DOMAIN stack'[v] = DOMAIN stack[v]
                         /\ \A n \in DOMAIN stack[v] : stack'[v][n].job = stack[v][n].job
  BY <1>3, <1>4, <1>5
<1>7. LeftFirst'
  BY <1>3, <1>4, <1>5, <1>6, SameJobs
<1>8. DecodesImage'
  <2> SUFFICES ASSUME NEW v \in Workers, NEW n \in DOMAIN stack'[v], stack'[v][n].at = "decode"
               PROVE  IsImage(stack'[v][n].job)
    BY DEF DecodesImage, IsImage
  <2>1. n \in DOMAIN stack[v] /\ stack'[v][n].job = stack[v][n].job
    BY <1>6
  <2>2. CASE v = w /\ n = 1
    BY <1>2, <2>1, <2>2 DEF TopJob
  <2>3. CASE ~(v = w /\ n = 1)
    BY <1>4, <1>5, <2>1, <2>3 DEF DecodesImage
  <2>4. QED
    BY <2>2, <2>3
<1>9. QED
  BY <1>7, <1>8

\* Steps that finish no job and forget no result keep what is collected.
LEMMA AnsweredKept ==
  ASSUME Answered, finished' = finished, result' = result
  PROVE  Answered'
BY DEF Answered, Covers

\* An image job that stores its result may finish.
LEMMA ResultAnswers ==
  ASSUME TypeOK, Answered, NEW w \in Workers, NEW r \in Outcomes,
         stack[w] # <<>>, IsImage(TopJob(w)), ReturnResult(w, r)
  PROVE  Answered'
<1>1. PICK j : j = TopJob(w)
  OBVIOUS
<1>2. j \in Jobs /\ j.call \in Callers /\ j.lo \in Images /\ j.lo \in Int /\ j.hi \in Int
  BY <1>1, StackTyped DEF Jobs, Images
<1>3. result' = [result EXCEPT ![j.call][j.lo] = r] /\ finished' = finished \cup {j}
  BY <1>1 DEF ReturnResult, Return
<1>4. r # "none"
  BY DEF Outcomes
<1>5. \A k \in Callers, i \in Images : result[k][i] # "none" => result'[k][i] # "none"
  BY <1>2, <1>3, <1>4 DEF TypeOK
<1>6. result'[j.call][j.lo] # "none"
  BY <1>2, <1>3, <1>4 DEF TypeOK
<1>7. ASSUME NEW i \in Images, Covers(j, i) PROVE i = j.lo
  BY <1>1, <1>2, <1>7 DEF Covers, IsImage, Images
<1>8. ASSUME NEW h \in finished', NEW i \in Images, Covers(h, i)
      PROVE  result'[h.call][i] # "none"
  <2>1. CASE h = j
    BY <1>6, <1>7, <1>8, <2>1
  <2>2. CASE h \in finished
    <3>1. h.call \in Callers
      BY <2>2 DEF TypeOK, Jobs
    <3>2. QED
      BY <1>5, <1>8, <2>2, <3>1 DEF Answered
  <2>3. QED
    BY <1>3, <2>1, <2>2
<1>9. QED
  BY <1>8 DEF Answered, Covers

\* A job may finish once every image of its range is answered for.
LEMMA ReturnAnswers ==
  ASSUME Answered, NEW w \in Workers, Return(w), result' = result,
         \A i \in Images : Covers(TopJob(w), i) => result[TopJob(w).call][i] # "none"
  PROVE  Answered'
<1>1. finished' = finished \cup {TopJob(w)}
  BY DEF Return
<1>2. ASSUME NEW h \in finished', NEW i \in Images, Covers(h, i)
      PROVE  result[h.call][i] # "none"
  BY <1>1, <1>2 DEF Answered
<1>3. QED
  BY <1>2 DEF Answered, Covers

\* Nothing is collected at the start.
LEMMA InitCollects == Init => CInv
BY DEF Init, CInv, Answered, LeftFirst, DecodesImage

\* Every step keeps what is collected.
LEMMA StepCollects == TypeOK /\ CInv /\ [Next]_vars => CInv'
<1> SUFFICES ASSUME TypeOK, CInv, [Next]_vars PROVE CInv'
  OBVIOUS
<1> USE DEF CInv
<1>1. ASSUME NEW w \in Workers, SplitImages(w) PROVE CInv'
  <2>1. /\ stack[w] # <<>> /\ ~IsTiles(TopJob(w)) /\ ForkTop(w)
        /\ finished' = finished /\ result' = result
    BY <1>1 DEF SplitImages, TopIs, IsRange, IsTiles, cells
  <2>2. QED
    BY <2>1, ForkKeepsLeft, AnsweredKept
<1>2. ASSUME NEW w \in Workers, NEW r \in Outcomes, stack[w] # <<>>, IsImage(TopJob(w)),
             ReturnResult(w, r)
      PROVE  CInv'
  BY <1>2, ResultAnswers, ReturnKeepsLeft DEF ReturnResult
<1>3. ASSUME NEW w \in Workers, RejectRequest(w) PROVE CInv'
  BY <1>2, <1>3 DEF RejectRequest, EntersImage, TopIs, Outcomes
<1>4. ASSUME NEW w \in Workers, ReadCell(w) PROVE CInv'
  BY <1>2, <1>4 DEF ReadCell, EntersImage, TopIs
<1>5. ASSUME NEW w \in Workers, StartDecode(w) PROVE CInv'
  <2>1. /\ stack[w] # <<>> /\ TopIs(w, "enter") /\ IsImage(TopJob(w)) /\ ~IsTiles(TopJob(w))
        /\ finished' = finished /\ result' = result
    BY <1>5 DEF StartDecode, EntersImage, TopIs, IsImage, IsTiles
  <2>2. CASE ContractAt(w) \in MultiTile
    <3>1. ForkTop(w)
      BY <1>5, <2>2 DEF StartDecode
    <3>2. QED
      BY <2>1, <3>1, ForkKeepsLeft, AnsweredKept
  <2>3. CASE ContractAt(w) \notin MultiTile
    <3>1. stack' = [stack EXCEPT ![w] = <<[Head(@) EXCEPT !.at = "decode"]>> \o Tail(@)]
      BY <1>5, <2>3 DEF StartDecode
    <3>2. QED
      BY <2>1, <3>1, DecodeKeepsLeft, AnsweredKept
  <2>4. QED
    BY <2>2, <2>3
<1>6. ASSUME NEW w \in Workers, FinishDecode(w) PROVE CInv'
  <2>1. PICK r \in Outcomes : FillCell(w, r)
    BY <1>6 DEF FinishDecode
  <2>2. stack[w] # <<>> /\ stack[w][1].at = "decode" /\ 1 \in DOMAIN stack[w]
        /\ TopJob(w) = stack[w][1].job
    BY <1>6, StackTyped DEF FinishDecode, TopIs
  <2>3. IsImage(TopJob(w))
    BY <2>2 DEF DecodesImage
  <2>4. QED
    BY <1>2, <2>1, <2>2, <2>3 DEF FillCell
<1>7. ASSUME NEW w \in Workers, DecodeTiles(w) PROVE CInv'
  <2>1. stack[w] # <<>> /\ IsTiles(TopJob(w)) /\ Return(w) /\ result' = result
    BY <1>7 DEF DecodeTiles, TopIs, cells
  <2>2. \A i \in Images : ~Covers(TopJob(w), i)
    BY <2>1 DEF IsTiles, Covers
  <2>3. QED
    BY <2>1, <2>2, ReturnKeepsLeft, ReturnAnswers
<1>8. ASSUME NEW w \in Workers, JoinImages(w) PROVE CInv'
  <2>1. /\ stack[w] # <<>> /\ stack[w][1].at = "join" /\ 1 \in DOMAIN stack[w]
        /\ TopJob(w) = stack[w][1].job /\ TopJob(w) \in Jobs
        /\ IsRange(TopJob(w)) /\ RightHalf(TopJob(w)) \in finished
        /\ Return(w) /\ result' = result
    BY <1>8, StackTyped DEF JoinImages, TopIs, RightFinished, cells
  <2>2. LeftHalf(TopJob(w)) \in finished
    BY <2>1 DEF LeftFirst
  <2>3. ASSUME NEW i \in Images, Covers(TopJob(w), i)
        PROVE  result[TopJob(w).call][i] # "none"
    <3>1. Covers(LeftHalf(TopJob(w)), i) \/ Covers(RightHalf(TopJob(w)), i)
      BY <2>1, <2>3, HalvesCover
    <3>2. /\ LeftHalf(TopJob(w)).call = TopJob(w).call
          /\ RightHalf(TopJob(w)).call = TopJob(w).call
      BY <2>1, <2>3, HalvesCover
    <3>3. QED
      BY <2>1, <2>2, <3>1, <3>2 DEF Answered
  <2>4. QED
    BY <2>1, <2>3, ReturnKeepsLeft, ReturnAnswers
<1>9. ASSUME NEW w \in Workers, JoinTiles(w) PROVE CInv'
  BY <1>2, <1>9 DEF JoinTiles, TopIs, FillCell
<1>10. ASSUME NEW w \in Workers, NEW j \in Jobs, Enter(w, j), finished' = finished, UNCHANGED cells
       PROVE  CInv'
  BY <1>10, EnterKeepsLeft, AnsweredKept DEF cells
<1>11. ASSUME NEW w \in Workers, PopOwn(w) PROVE CInv'
  <2>1. deque[w][Len(deque[w])] \in Jobs
    BY <1>11, QueueOps DEF PopOwn, TypeOK
  <2>2. QED
    BY <1>10, <1>11, <2>1 DEF PopOwn
<1>12. ASSUME NEW w \in Workers, NEW v \in Workers, Steal(w, v) PROVE CInv'
  <2>1. Head(deque[v]) \in Jobs
    BY <1>12, QueueOps DEF Steal, TypeOK
  <2>2. QED
    BY <1>10, <1>12, <2>1 DEF Steal
<1>13. ASSUME NEW w \in Workers, TakeInjected(w) PROVE CInv'
  <2>1. Head(injector) \in Jobs
    BY <1>13, QueueOps DEF TakeInjected, TypeOK
  <2>2. QED
    BY <1>10, <1>13, <2>1 DEF TakeInjected
<1>14. ASSUME UNCHANGED <<stack, finished, result>> PROVE CInv'
  BY <1>14 DEF Answered, LeftFirst, DecodesImage, Covers, LeftHalf, LastOfLeft, IsRange, IsImage
<1>15. ASSUME NEW k \in Callers, Install(k) PROVE CInv'
  BY <1>14, <1>15 DEF Install, cells
<1>16. ASSUME NEW k \in Callers, SubmitGroup(k) PROVE CInv'
  BY <1>14, <1>16 DEF SubmitGroup, cells, pool
<1>17. CASE UNCHANGED vars
  BY <1>14, <1>17 DEF vars
<1>18. QED
  BY <1>1, <1>3, <1>4, <1>5, <1>6, <1>7, <1>8, <1>9, <1>11, <1>12, <1>13, <1>15, <1>16, <1>17
     DEF Next, WorkerStep, Quiescent

\* The latch of a call's root is set only when every image of the group has a
\* result, whatever the workers stole from each other meanwhile: the vector
\* prepare_group collects has no hole.
THEOREM EveryImageCollected == Spec => []CollectsEveryImage
<1>1. CInv => CollectsEveryImage
  <2> SUFFICES ASSUME CInv, NEW k \in Callers, Root(k) \in finished, NEW i \in Images
               PROVE  result[k][i] # "none"
    BY DEF CollectsEveryImage
  <2>1. Covers(Root(k), i) /\ Root(k).call = k
    BY DEF Covers, Root, Images
  <2>2. QED
    BY <2>1 DEF CInv, Answered
<1>2. QED
  BY <1>1, TypeCorrect, InitCollects, StepCollects, PTL DEF Spec
=============================================================================
