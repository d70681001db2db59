------------------------------ MODULE CodedBlocks ------------------------------
(***************************************************************************)
(* The coded block patterns of the high-pass band (tile_decode/cbphp.rs):  *)
(* which blocks of a macroblock have coefficients, one pattern for each    *)
(* component.  A packet holds what differs from a prediction out of the    *)
(* macroblocks to the left and above.  Patterns are sets of block numbers, *)
(* four blocks to a quadrant of luma.                                      *)
(***************************************************************************)
EXTENDS Integers, Sequences, FiniteSets, TLC

CONSTANTS
  Width, Height,       \* of the tile, in macroblocks
  Samplings,           \* "444", "422", "420", or "planes" of components coded apart
  Held                 \* sampling -> what a macroblock may hold, the codes of its quadrants

VARIABLES
  sampling,
  at,                  \* the next macroblock
  previous,            \* previous_rows: component -> column -> pattern
  prediction,          \* class -> [state, ones, zeroes]
  residuals, decoded   \* of every macroblock decoded: component -> pattern

vars == <<sampling, at, previous, prediction, residuals, decoded>>

Xor(a, b) == (a \ b) \cup (b \ a)
Shifted(a, n) == {b + n : b \in a}
Clamp(n, low, high) == IF n < low THEN low ELSE IF n > high THEN high ELSE n
Chroma == {1, 2}

-----------------------------------------------------------------------------
\* refine: how many of four, then which.
Choices(count) == {s \in SUBSET (0..3) : Cardinality(s) = count}

\* A quadrant's own pattern, by its number of blocks less one as DELTA orders it.
BLOCK_BITS == <<2, 1, 2, 2, 0>>
BLOCK_OFFSET == <<4, 2, 8, 12, 1>>
BLOCK_OUTPUT ==
  <<{}, 0..3, {0, 1}, {2, 3}, {0}, {1}, {2}, {3}, {0, 2}, {1, 2}, {0, 3}, {1, 3},
    {0, 1, 2}, {0, 1, 3}, {0, 2, 3}, {1, 2, 3}>>

\* Value 0 is no luma block, 1 to 5 choose a row of BLOCK_BITS and BLOCK_OFFSET.
LumaOf(value, increment) ==
  IF value = 0 THEN {} ELSE BLOCK_OUTPUT[BLOCK_OFFSET[value] + increment + 1]
Increments(value) == IF value = 0 THEN {0} ELSE 0..(2^BLOCK_BITS[value] - 1)

\* decode_component: the codes of a quadrant of a plane of its own.
PlaneCodes == {[value |-> v, increment |-> i] : v \in 1..5, i \in 0..3}
PlaneGroup(code) == LumaOf(code.value, code.increment)
PlaneCodesRead == {c \in PlaneCodes : c.increment \in Increments(c.value)}

\* decode_yuv_group: values from 6 on have chroma, and the last of them say how many
\* luma blocks in a code of their own.
JointCodes ==
  {[count |-> n, mask |-> m, more |-> k, increment |-> i] :
     n \in 0..8, m \in SUBSET Chroma, k \in 0..2, i \in 0..3}
ValueOf(code) ==
  IF code.count < 5 THEN code.count + 1
  ELSE (IF code.count = 8 THEN code.count + code.more ELSE code.count) - 5
JointCodesRead ==
  {c \in JointCodes :
     /\ (c.count >= 5) <=> (c.mask # {})
     /\ c.count # 8 => c.more = 0
     /\ c.increment \in Increments(ValueOf(c))}
JointGroup(code) == <<LumaOf(ValueOf(code), code.increment), code.mask>>

\* The blocks of a chroma component in a quadrant that has some.
ChromaGroups(s) ==
  CASE s = "444" -> UNION {Choices(n) : n \in 1..4}
    [] s = "422" -> {{0}, {2}, {0, 2}}
    [] s = "420" -> {{0}}
ChromaShift(s, quadrant) ==
  CASE s = "444" -> 4 * quadrant
    [] s = "422" -> <<0, 1, 4, 5>>[quadrant + 1]
    [] s = "420" -> quadrant

\* The residual of a component, from the codes of the quadrants that have any.
Quadrant(s, code, c) ==
  IF s = "planes" THEN PlaneGroup(code)
  ELSE IF c = 0 THEN JointGroup(code.joint)[1]
  ELSE IF c \in JointGroup(code.joint)[2] THEN code.chroma[c] ELSE {}
ResidualOf(s, codes, c) ==
  LET coded == IF s = "planes" THEN codes[c + 1] ELSE codes
      Shift(q) == IF s = "planes" \/ c = 0 THEN 4 * q ELSE ChromaShift(s, q)
  IN  UNION {Shifted(Quadrant(s, coded[q], c), Shift(q)) : q \in DOMAIN coded}

-----------------------------------------------------------------------------
\* predict_444, predict_422, predict_420: what a pattern copies into itself, as
\* <<blocks, distance>> in the order the code does it; the neighbours' blocks it
\* starts from; and how many luma blocks one stands for.
Shape(s) ==
  CASE s = "444" ->
         [left |-> 5, top |-> 10, weight |-> 1, all |-> 0..15,
          steps |-> <<<<{0}, 1>>, <<{1}, 3>>, <<{4}, 1>>, <<{0, 1, 4, 5}, 2>>,
                      <<{2, 3, 6, 7}, 6>>, <<{8, 9, 12, 13}, 2>>>>]
    [] s = "422" ->
         [left |-> 1, top |-> 6, weight |-> 2, all |-> 0..7,
          steps |-> <<<<{0}, 1>>, <<{0, 1}, 2>>, <<{2, 3}, 2>>, <<{4, 5}, 2>>>>]
    [] s = "420" ->
         [left |-> 1, top |-> 2, weight |-> 4, all |-> 0..3,
          steps |-> <<<<{0}, 1>>, <<{0, 1}, 2>>>>]
ShapeOf(component, s) == IF component = 0 \/ s = "planes" THEN Shape("444") ELSE Shape(s)

Spread(pattern, steps) ==
  LET done[k \in 0..Len(steps)] ==
        IF k = 0 THEN pattern
        ELSE Xor(done[k - 1], Shifted(done[k - 1] \cap steps[k][1], steps[k][2]))
  IN  done[Len(steps)]

\* Mutant: the left block of the macroblock above.
Seed_Bug(shape, rows, x, y) ==
  IF x # 0 THEN shape.left \in rows[x - 1] ELSE IF y # 0 THEN shape.left \in rows[x] ELSE TRUE

Seed(shape, rows, x, y) ==
  IF x # 0 THEN shape.left \in rows[x - 1]
  ELSE IF y # 0 THEN shape.top \in rows[x]
  ELSE TRUE

Predict(shape, state, residual, rows, x, y) ==
  CASE state = 0 -> Spread(Xor(residual, IF Seed(shape, rows, x, y) THEN {0} ELSE {}), shape.steps)
    [] state = 1 -> residual
    [] state = 2 -> shape.all \ residual

Updated(p, count) ==
  LET ones == Clamp(p.ones + count - 3, -16, 15)
      zeroes == Clamp(p.zeroes + 16 - count - 3, -16, 15)
  IN  [ones |-> ones, zeroes |-> zeroes,
       state |-> IF ones < 0 THEN IF ones < zeroes THEN 1 ELSE 2 ELSE IF zeroes < 0 THEN 2 ELSE 0]

-----------------------------------------------------------------------------
\* decode_yuv: component after component; the two chroma components share a class.
\* Each has the prediction the one before it left.
Class(component) == IF component = 0 THEN "luma" ELSE "chroma"
Decode(codes) ==
  LET residual == [c \in 0..2 |-> ResidualOf(sampling, codes, c)]
      step[c \in -1..2] ==
        IF c = -1 THEN [prediction |-> prediction, patterns |-> <<>>]
        ELSE LET p == step[c - 1].prediction
                 shape == ShapeOf(c, sampling)
                 pattern == Predict(shape, p[Class(c)].state, residual[c], previous[c], at[1], at[2])
             IN  [prediction |-> [p EXCEPT ![Class(c)] = Updated(@, shape.weight * Cardinality(pattern))],
                  patterns |-> Append(step[c - 1].patterns,
                                      [pattern |-> pattern, state |-> p[Class(c)].state])]
      done == step[2]
  IN  /\ prediction' = done.prediction
      /\ previous' = [c \in 0..2 |-> [previous[c] EXCEPT ![at[1]] = done.patterns[c + 1].pattern]]
      /\ decoded' = (at :> [c \in 0..2 |-> done.patterns[c + 1]]) @@ decoded
      /\ residuals' = (at :> residual) @@ residuals

Macroblock ==
  /\ at[2] < Height
  /\ \E codes \in Held[sampling] : Decode(codes)
  /\ at' = IF at[1] + 1 = Width THEN <<0, at[2] + 1>> ELSE <<at[1] + 1, at[2]>>
  /\ UNCHANGED sampling

Init ==
  /\ sampling \in Samplings
  /\ at = <<0, 0>>
  /\ previous = [c \in 0..2 |-> [x \in 0..(Width - 1) |-> {}]]
  /\ prediction = [k \in {"luma", "chroma"} |-> [state |-> 0, ones |-> -4, zeroes |-> 4]]
  /\ residuals = <<>> /\ decoded = <<>>

Next == Macroblock

Spec == Init /\ [][Next]_vars

-----------------------------------------------------------------------------
Blocks(component) == ShapeOf(component, sampling).all

\* The column and row of a block in its macroblock: luma blocks by quadrants.
Place(component, b) ==
  IF Blocks(component) = 0..15
  THEN <<2 * ((b \div 4) % 2) + (b % 2), 2 * (b \div 8) + (b % 4) \div 2>>
  ELSE <<b % 2, b \div 2>>
At(component, place) == CHOOSE b \in Blocks(component) : Place(component, b) = place
Corner(component, axis) ==
  CHOOSE n \in 0..3 : /\ \E b \in Blocks(component) : Place(component, b)[axis] = n
                      /\ \A b \in Blocks(component) : Place(component, b)[axis] <= n

\* The block a block is predicted from: the one above it in its macroblock; along the
\* top, the one to its left, in this macroblock or the next; at the left edge of the
\* tile, the one above; and a coded one where there is none.
Neighbour(mb, c, b) ==
  LET place == Place(c, b)
      Is(p, q) == At(c, q) \in decoded[p][c].pattern
  IN  CASE place[2] > 0 -> Is(mb, <<place[1], place[2] - 1>>)
        [] place[2] = 0 /\ place[1] > 0 -> Is(mb, <<place[1] - 1, 0>>)
        [] place = <<0, 0>> /\ mb[1] > 0 -> Is(<<mb[1] - 1, mb[2]>>, <<Corner(c, 1), 0>>)
        [] place = <<0, 0>> /\ mb[1] = 0 /\ mb[2] > 0 -> Is(<<0, mb[2] - 1>>, <<0, Corner(c, 2)>>)
        [] OTHER -> TRUE

\* In the predicting state a block differs from the block beside it exactly where the
\* packet says so, at every place of every component and across macroblocks, although
\* only one row of patterns is kept.
PredictedByNeighbours ==
  \A mb \in DOMAIN decoded : \A c \in 0..2 :
    decoded[mb][c].state = 0 =>
      \A b \in Blocks(c) :
        (b \in decoded[mb][c].pattern) = ((b \in residuals[mb][c]) # Neighbour(mb, c, b))

\* Every pattern a quadrant can have has one code: no two say the same, none is missing.
OneCodeEach ==
  /\ Cardinality(PlaneCodesRead) = 15 /\ {PlaneGroup(c) : c \in PlaneCodesRead} = (SUBSET (0..3)) \ {{}}
  /\ {JointGroup(c) : c \in JointCodesRead} = ((SUBSET (0..3)) \X SUBSET Chroma) \ {<<{}, {}>>}
  /\ Cardinality(JointCodesRead) = 63
===============================================================================
