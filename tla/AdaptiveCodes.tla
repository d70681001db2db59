---------------------------- MODULE AdaptiveCodes ----------------------------
(***************************************************************************)
(* The adaptation of jxr-native's entropy coder from macroblock to         *)
(* macroblock: the selectors that choose a prefix table from the symbols   *)
(* seen (adaptive.rs, and TwoTableState of cbphp.rs), and the models that  *)
(* choose how many low bits of a coefficient are sent as they are          *)
(* (model.rs).                                                             *)
(***************************************************************************)
EXTENDS Integers, Sequences

CONSTANTS
  Selectors,           \* those explored: "level", "first", "index", "groups", "blocks"
  Models,              \* models explored: name -> [band, colour, components]
  Repeats,             \* times a symbol comes in a macroblock
  Means                \* sums of coded magnitudes of a macroblock

VARIABLES
  kind,                \* what is explored: a selector or a model
  discrim, table, delta,    \* of an AdaptiveVlc; delta rows from 0
  bits, state               \* of a CoefficientModel: luma, chroma

adaptVars == <<kind, discrim, table, delta, bits, state>>

SelectorNames == {"level", "first", "index", "groups", "blocks"}
Colours == {"luma", "yuv420", "yuv422", "other"}

\* What a caller gives: bands dc, lp and hp by number, up to 16 components.
AdaptationAssumption ==
  /\ Selectors \subseteq SelectorNames /\ Repeats \subseteq Nat /\ Means \subseteq Nat
  /\ DOMAIN Models \cap SelectorNames = {}
  /\ \A m \in DOMAIN Models :
       Models[m].band \in 1..3 /\ Models[m].colour \in Colours /\ Models[m].components \in 1..16

Least(a, b) == IF a < b THEN a ELSE b
Largest(a, b) == IF a > b THEN a ELSE b
Clamp(n, low, high) == Largest(low, Least(high, n))

-----------------------------------------------------------------------------
ABS_LEVEL_DELTA == <<1, 0, -1, -1, -1, -1, -1>>
FIRST_INDEX_DELTA ==
  <<<<1, 1, 1, 1, 1, 0, 0, -1, 2, 1, 0, 0>>, <<2, 2, -1, -1, -1, 0, -2, -1, 0, 0, -2, -1>>,
    <<-1, 1, 0, 2, 0, 0, 0, 0, -2, 0, 1, 1>>, <<0, 1, 0, 1, -2, 0, -1, -1, -2, -1, -2, -2>>>>
INDEX_DELTA == <<<<-1, 1, 1, 1, 0, 1>>, <<-2, 0, 0, 2, 0, 0>>, <<-1, -1, 0, 1, -2, 0>>>>

DELTA == <<0, -1, 0, 1, 1>>
DELTA_YUV == <<2, 2, 1, 1, -1, -2, -2, -2, -3>>

\* Tables a selector chooses from, and what each symbol adds to its two counts.
TableCount == [level |-> 2, first |-> 5, index |-> 4, groups |-> 2, blocks |-> 2]
Rows ==
  [level |-> <<ABS_LEVEL_DELTA>>, first |-> FIRST_INDEX_DELTA, index |-> INDEX_DELTA,
   groups |-> <<DELTA>>, blocks |-> <<DELTA_YUV>>]

\* The count that speaks for a table further down, and the one for a table further up;
\* a selector of two tables has one count for both.
Up == IF TableCount[kind] = 2 THEN 1 ELSE 2

Observed(symbol, times) ==
  [k \in 1..Up |-> discrim[k] + times * Rows[kind][delta[k] + 1][symbol]]

\* Mutant: the last table like the ones before it.
DeltaRows_Bug(t, last) == IF t = 0 THEN <<0, 0>> ELSE <<t - 1, t>>
\* The rows that lead down and up from a table, those of its neighbours.
DeltaRows(t, last) ==
  IF t = last THEN <<t - 1, t - 1>> ELSE IF t = 0 THEN <<0, 0>> ELSE <<t - 1, t>>

Adapt(seen) ==
  LET last == TableCount[kind] - 1
      moved == IF seen[1] < -8 /\ table # 0 THEN -1
               ELSE IF seen[Up] > 8 /\ table # last THEN 1 ELSE 0
  IN  /\ table' = table + moved
      /\ discrim' = [k \in 1..Up |-> IF moved # 0 THEN 0 ELSE Clamp(seen[k], -64, 64)]
      /\ delta' = IF moved # 0 /\ Up = 2 THEN DeltaRows(table + moved, last) ELSE delta

\* A macroblock of one symbol, and the adaptation at its end.
Select ==
  /\ kind \in Selectors
  /\ \E symbol \in DOMAIN Rows[kind][1], times \in Repeats : Adapt(Observed(symbol, times))
  /\ UNCHANGED <<kind, bits, state>>

-----------------------------------------------------------------------------
\* Weights by band: dc, lp, hp.
LUMA_WEIGHT == <<240, 12, 1>>
OTHER_WEIGHT ==
  <<<<0, 240, 120, 80, 60, 48, 40, 34, 30, 27, 24, 22, 20, 18, 17, 16>>,
    <<0, 12, 6, 4, 3, 2, 2, 2, 2, 1, 1, 1, 1, 1, 1, 1>>,
    <<0, 16, 8, 5, 4, 3, 3, 2, 2, 2, 2, 1, 1, 1, 1, 1>>>>
SUBSAMPLED_WEIGHT == [yuv420 |-> <<120, 37, 2>>, yuv422 |-> <<120, 18, 1>>]
InitialBits == <<8, 4, 0>>

\* A model of luma alone leaves the other as it was.
Weighted(mean, chroma) ==
  IF ~chroma THEN mean * LUMA_WEIGHT[Models[kind].band]
  ELSE IF Models[kind].colour \in DOMAIN SUBSAMPLED_WEIGHT
       THEN mean * SUBSAMPLED_WEIGHT[Models[kind].colour][Models[kind].band]
       ELSE (mean * OTHER_WEIGHT[Models[kind].band][Models[kind].components]) \div (IF Models[kind].band = 3 THEN 16 ELSE 1)
Updated == IF Models[kind].colour = "luma" THEN {1} ELSE {1, 2}

\* update_one: the state gathers what it is given, and a bit more or less restarts it.
Next1(b, s, mean) ==
  LET raw == (mean - 70) \div 4
      sum == s + (IF raw <= -8 THEN Largest(raw + 4, -16) ELSE IF raw >= 8 THEN Least(raw - 4, 15) ELSE 0)
  IN  IF sum < -8 THEN IF b = 0 THEN <<0, -8>> ELSE <<b - 1, 0>>
      ELSE IF sum > 8 THEN IF b >= 15 THEN <<15, 8>> ELSE <<b + 1, 0>>
      ELSE <<b, sum>>

Update ==
  /\ kind \in DOMAIN Models
  /\ \E mean \in [{1, 2} -> Means] :
       LET next == [k \in {1, 2} |-> IF k \in Updated
                                      THEN Next1(bits[k], state[k], Weighted(mean[k], k = 2))
                                      ELSE <<bits[k], state[k]>>]
       IN  bits' = [k \in {1, 2} |-> next[k][1]] /\ state' = [k \in {1, 2} |-> next[k][2]]
  /\ UNCHANGED <<kind, discrim, table, delta>>

-----------------------------------------------------------------------------
AdaptInit ==
  \/ /\ kind \in Selectors
     /\ table = Up - 1
     /\ discrim = [k \in 1..Up |-> 0]
     /\ delta = IF Up = 1 THEN <<0>> ELSE <<0, 1>>
     /\ bits = 0 /\ state = 0
  \/ /\ kind \in DOMAIN Models
     /\ bits = [k \in {1, 2} |-> InitialBits[Models[kind].band]]
     /\ state = [k \in {1, 2} |-> 0]
     /\ table = 0 /\ discrim = 0 /\ delta = 0

AdaptNext == Select \/ Update

AdaptSpec == AdaptInit /\ [][AdaptNext]_adaptVars

-----------------------------------------------------------------------------
\* A selector always names a table there is and rows there are, which lead to its
\* table's neighbours: no run of symbols takes an index past an array.
SelectorsInRange ==
  kind \in Selectors =>
    /\ table \in 0..(TableCount[kind] - 1)
    /\ \A k \in 1..Up :
         /\ delta[k] \in 0..(Len(Rows[kind]) - 1)
         /\ Up = 2 => delta[k] = Clamp(table + k - 2, 0, TableCount[kind] - 2)

\* No run of macroblocks takes a model's bits past the 15 a coefficient may be shifted
\* by, nor its state to where one macroblock could not bring it back.
ModelsBounded ==
  kind \in DOMAIN Models => \A k \in {1, 2} : bits[k] \in 0..15 /\ state[k] \in -8..8

\* Every index of the coder's adaptation stays inside its array or its shift.
AdaptationBounded == SelectorsInRange /\ ModelsBounded
===============================================================================
