-------------------------- MODULE BlockCoefficients --------------------------
(***************************************************************************)
(* The coefficients of 4x4 blocks: decode_ac_coefficients of jxr-native's  *)
(* entropy module walks the runs and levels of a block, and the adaptive   *)
(* scans put each level in its place and reorder themselves.  LP and HP    *)
(* blocks place levels as they are decoded (decode_lp_block,               *)
(* decode_hp_block); a DecodedBlock keeps runs and levels, to be placed by *)
(* inverse_scan once the block is whole.  Both are modelled side by side.  *)
(***************************************************************************)
EXTENDS Integers, Sequences

CONSTANTS
  Firsts,              \* first locations of blocks: 1, and 2 or 10 of joint chroma
  LongRuns(_),          \* the runs the code of a longest run can give
  Orders,              \* the scans' orders at a tile's start, one per direction
  Totals,              \* the totals a scan starts from, and has again every 16 columns
  MaxBlocks

VARIABLES
  block,               \* the block being decoded, or none
  scans, output,       \* of levels placed as they are decoded
  coded,               \* of the DecodedBlock: runs and levels
  held,                \* the scans at the block's start
  blocks,              \* blocks begun
  failed               \* an error of the syntax: the tile is given up

scanVars == <<block, scans, output, coded, held, blocks, failed>>

\* An order keeps place 0, that of the DC or LP coefficient, out of the scan.
Permutes(order) ==
  /\ order \in [0..15 -> 0..15] /\ order[0] = 0
  /\ {order[i] : i \in 1..15} = 1..15
  /\ \A i, j \in 0..15 : order[i] = order[j] => i = j

ScanAssumption ==
  /\ Firsts \subseteq 1..15
  /\ \A n \in 0..14 : LongRuns(n) \subseteq Nat
  /\ \A d \in DOMAIN Orders : Permutes(Orders[d])
  /\ Totals \in [0..15 -> Int]

None == [kind |-> "none"]
Block(start, location, direction, more) ==
  [kind |-> "block", start |-> start, location |-> location, direction |-> direction, successors |-> more]
NoLevels == [p \in 0..15 |-> 0]
Fresh(d) == [order |-> Orders[d], totals |-> Totals]

-----------------------------------------------------------------------------
\* Mutant: the level moves up in the order over the one before it.
Place_Bug(scan, out, index, level) ==
  LET seen == [scan.totals EXCEPT ![index] = @ + 1]
      up == index > 1 /\ seen[index] > seen[index - 1]
  IN  [scan |-> [order |-> IF up THEN [scan.order EXCEPT ![index - 1] = scan.order[index]] ELSE scan.order,
                 totals |-> seen],
       out |-> [out EXCEPT ![scan.order[index]] = level]]

\* place_and_adapt: the level goes where the order says, and the place moves up by
\* one when it has been used more often than the one before it.
Place(scan, out, index, level) ==
  LET seen == [scan.totals EXCEPT ![index] = @ + 1]
      up == index > 1 /\ seen[index] > seen[index - 1]
      Swapped(f) == IF up THEN [f EXCEPT ![index] = f[index - 1], ![index - 1] = f[index]] ELSE f
  IN  [scan |-> [order |-> Swapped(scan.order), totals |-> Swapped(seen)],
       out |-> [out EXCEPT ![scan.order[index]] = level]]

\* Mutant: levels one after the other.
InverseScan_Bug(scan, decoded, start) ==
  LET at[k \in 0..Len(decoded)] ==
        IF k = 0 THEN start - 1 ELSE at[k - 1] + 1
      step[k \in 0..Len(decoded)] ==
        IF k = 0 THEN [scan |-> scan, out |-> NoLevels]
        ELSE Place(step[k - 1].scan, step[k - 1].out, at[k], decoded[k].level)
  IN  step[Len(decoded)]

\* DecodedBlock::scan_entries: the indexes again, from the runs.
InverseScan(scan, decoded, start) ==
  LET at[k \in 0..Len(decoded)] ==
        IF k = 0 THEN start - 1 ELSE at[k - 1] + decoded[k].run + 1
      step[k \in 0..Len(decoded)] ==
        IF k = 0 THEN [scan |-> scan, out |-> NoLevels]
        ELSE Place(step[k - 1].scan, step[k - 1].out, at[k], decoded[k].level)
  IN  step[Len(decoded)]

-----------------------------------------------------------------------------
\* advance_location refuses to leave the block.
Fits(location) == location <= 16

\* What a coefficient whose run is `run` does, `more` saying what follows it.
Emit(b, run, more) ==
  LET next == b.location + run + 1
      level == Len(coded) + 1
      placed == Place(scans[b.direction], output, next - 1, level)
  IN  IF Fits(next)
      THEN /\ coded' = Append(coded, [run |-> run, level |-> level])
           /\ scans' = [scans EXCEPT ![b.direction] = placed.scan]
           /\ output' = placed.out
           /\ block' = Block(b.start, next, b.direction, more)
           /\ UNCHANGED failed
      ELSE failed' = TRUE /\ UNCHANGED <<block, scans, output, coded>>

Runs(b, zeroes) ==
  IF ~zeroes THEN {0} ELSE LongRuns(IF b.location < 15 THEN 15 - b.location ELSE 0)

\* FIRST_INDEX: a zero run or not, then what follows, as the low bits of a symbol.
Begin ==
  /\ block = None /\ ~failed /\ blocks < MaxBlocks
  /\ \E start \in Firsts, direction \in DOMAIN Orders, adjacent \in BOOLEAN, more \in 0..2 :
       LET b == Block(start, start, direction, more)
       IN  \/ \E run \in Runs(b, ~adjacent) : Emit(b, run, more)
           \/ /\ Runs(b, ~adjacent) = {}
              /\ failed' = TRUE /\ UNCHANGED <<block, scans, output, coded>>
  /\ blocks' = blocks + 1
  /\ held' = scans

\* The index of a coefficient that is not the first: INDEX_A has all successors,
\* INDEX_B those of the last place but one, and a last coefficient has none.
Following(location) ==
  IF location < 15 THEN 0..2 ELSE IF location = 15 THEN 0..1 ELSE {0}

Continue ==
  /\ block # None /\ block.successors # 0 /\ ~failed
  /\ \/ \E run \in Runs(block, block.successors = 2) :
          \E more \in Following(block.location + run + 1) : Emit(block, run, more)
     \/ /\ Runs(block, block.successors = 2) = {}
        /\ failed' = TRUE /\ UNCHANGED <<block, scans, output, coded>>
  /\ UNCHANGED <<held, blocks>>

\* The block is whole; every 16 columns the totals start again and the orders stay.
End ==
  /\ block # None /\ block.successors = 0 /\ ~failed
  /\ \/ UNCHANGED scans
     \/ scans' = [d \in DOMAIN scans |-> [scans[d] EXCEPT !.totals = Totals]]
  /\ block' = None /\ output' = NoLevels /\ coded' = <<>>
  /\ UNCHANGED <<held, blocks, failed>>

ScanInit ==
  /\ block = None /\ output = NoLevels /\ coded = <<>> /\ failed = FALSE /\ blocks = 0
  /\ scans = [d \in DOMAIN Orders |-> Fresh(d)]
  /\ held = scans

ScanNext == Begin \/ Continue \/ End

ScanSpec == ScanInit /\ [][ScanNext]_scanVars

-----------------------------------------------------------------------------
\* Levels placed as they are decoded end where the runs of the whole block put them,
\* and leave the scan as those do, so either form may decode a block.
DirectIsInverse ==
  (block # None /\ block.successors = 0 /\ ~failed) =>
    InverseScan(held[block.direction], coded, block.start)
      = [scan |-> scans[block.direction], out |-> output]

\* However its scan has been reordered, a block puts each level in a place of its own
\* and none in the place of the DC or LP coefficient, and a scan stays a permutation
\* of the 15 other places.
PlacesApart ==
  /\ \A d \in DOMAIN scans :
       {scans[d].order[i] : i \in 1..15} = 1..15 /\ scans[d].order[0] = 0
  /\ output[0] = 0
  /\ block # None =>
       \A k \in 1..Len(coded) : \E p \in 1..15 : output[p] = coded[k].level
===============================================================================
