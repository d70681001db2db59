----------------------------- MODULE CodedSymbols -----------------------------
(***************************************************************************)
(* The syntax elements of a tile packet above single bits: the levels,     *)
(* runs and refinements of jxr-native's entropy module, over a reader      *)
(* given by its two operations.  Each element takes a reader and returns   *)
(* the reader after it with a value or an error; it stops at its first     *)
(* error with the reader where that left it.                               *)
(***************************************************************************)
EXTENDS Integers, Sequences

CONSTANTS
  Read(_, _),          \* reader, width: the next bits as a number
  Symbol(_, _),        \* reader, table: the symbol whose code comes next
  Flex(_, _, _),       \* reader, width, signed: a number, its sign after it when not zero
  Run(_, _),           \* reader, longest run
  Tables               \* the prefix tables, each a set of [code, symbol]

Good(r, v) == [reader |-> r, ok |-> TRUE, value |-> v]
Bad(r, kind, at) == [reader |-> r, ok |-> FALSE, value |-> <<kind, at>>]

\* What follows a step that succeeded.
Then(step, Continue(_, _)) ==
  IF step.ok THEN Continue(step.reader, step.value) ELSE step

-----------------------------------------------------------------------------
ABS_REMAP == <<2, 3, 4, 6, 10, 14>>
ABS_FIXED_LENGTH == <<0, 0, 1, 2, 2, 2>>

\* The width of a level past the remapped ones: 4 bits, 2 and then 3 more while
\* each is at its largest.
LevelWidth(reader) ==
  Then(Read(reader, 4), LAMBDA r1, a :
    IF a < 15 THEN Good(r1, a + 4) ELSE
    Then(Read(r1, 2), LAMBDA r2, b :
      IF b < 3 THEN Good(r2, 19 + b) ELSE
      Then(Read(r2, 3), LAMBDA r3, c : Good(r3, 22 + c))))

AbsLevel(reader, table) ==
  Then(Symbol(reader, table), LAMBDA r, s :
    IF s < 6
    THEN Then(Read(r, ABS_FIXED_LENGTH[s + 1]), LAMBDA q, n : Good(q, ABS_REMAP[s + 1] + n))
    ELSE Then(LevelWidth(r), LAMBDA q, width :
           Then(Read(q, width), LAMBDA last, n : Good(last, 2^width + 2 + n))))

Signed(reader, magnitude) ==
  IF magnitude = 0 THEN Good(reader, 0)
  ELSE Then(Read(reader, 1), LAMBDA r, s : Good(r, IF s = 1 THEN -magnitude ELSE magnitude))

DcCoefficient(reader, bits, coded, table) ==
  Then(IF coded THEN AbsLevel(reader, table) ELSE Good(reader, 1), LAMBDA r, level :
    Then(Read(r, bits), LAMBDA q, low : Signed(q, (level - 1) * 2^bits + low)))

-----------------------------------------------------------------------------
\* The part below the coded one, with the coded one's sign, or a sign of its own.
Refined(reader, coefficient, bits) ==
  Then(Flex(reader, bits, coefficient = 0), LAMBDA r, n : Good(r, IF coefficient < 0 THEN -n ELSE n))

LpRefinement(reader, coefficients, bits) ==
  LET step[k \in 0..Len(coefficients)] ==
        IF k = 0 THEN Good(reader, <<>>)
        ELSE Then(step[k - 1], LAMBDA r, done :
               Then(Refined(r, coefficients[k], bits), LAMBDA q, n :
                 Good(q, Append(done, coefficients[k] * 2^bits + n))))
  IN  step[Len(coefficients)]

\* Nothing is read when the trimmed bits are all there are.
FlexBlock(reader, coefficients, model, trim) ==
  LET left == IF model > trim THEN model - trim ELSE 0
      step[k \in 0..Len(coefficients)] ==
        IF k = 0 THEN Good(reader, <<>>)
        ELSE Then(step[k - 1], LAMBDA r, done :
               Then(Refined(r, coefficients[k], left), LAMBDA q, n :
                 Good(q, Append(done, n * 2^trim))))
  IN  IF left = 0 THEN Good(reader, [k \in 1..Len(coefficients) |-> 0])
      ELSE step[Len(coefficients)]

-----------------------------------------------------------------------------
\* One call of a parser.
Perform(reader, op) ==
  CASE op.kind = "bits"   -> Read(reader, op.width)
    [] op.kind = "symbol" -> Symbol(reader, op.table)
    [] op.kind = "run"    -> Run(reader, op.longest)
    [] op.kind = "level"  -> AbsLevel(reader, op.table)
    [] op.kind = "dc"     -> DcCoefficient(reader, op.width, op.coded, op.table)
    [] op.kind = "lp"     -> LpRefinement(reader, op.coefficients, op.width)
    [] op.kind = "flex"   -> FlexBlock(reader, op.coefficients, op.width, op.trim)
===============================================================================
