--------------------------- MODULE PacketBitReader ---------------------------
(***************************************************************************)
(* jxr-native's PacketBitReader: the bits of a packet are served from a    *)
(* word of unread bits, the first one at its top, reloaded from the byte   *)
(* the position is in when it holds too few.                               *)
(***************************************************************************)
EXTENDS Integers, Sequences

CONSTANTS
  Payloads,            \* [bytes: sequence of bits, a whole number of bytes; limit: bits that count]
  Tables,              \* <<name, number>> -> set of [code, symbol]
  Elements,            \* what parsers ask for, see CodedSymbols
  WordBytes            \* bytes of a machine word; 8 in the code

VARIABLES
  payload,             \* the bytes, and the bits of them that count
  reader,              \* [position, cache, cached]
  result               \* what the last call returned: <<element, succeeded, value>>

vars == <<payload, reader, result>>

WordBits == 8 * WordBytes
FewestBits == WordBits - 7
Good(r, v) == [reader |-> r, ok |-> TRUE, value |-> v]
Bad(r, kind, at) == [reader |-> r, ok |-> FALSE, value |-> <<kind, at>>]
Least(a, b) == IF a < b THEN a ELSE b

Number(bits) ==
  LET n[k \in 0..Len(bits)] == IF k = 0 THEN 0 ELSE 2 * n[k - 1] + bits[k]
  IN  n[Len(bits)]
Empty == [position |-> 0, cache |-> [i \in 1..WordBits |-> 0], cached |-> 0]
Remaining(r) == payload.limit - r.position

-----------------------------------------------------------------------------
\* Bytes past the payload read as zero; so do bits past the limit.
Word(byte) ==
  [i \in 1..WordBits |-> IF 8 * byte + i <= Len(payload.bytes) THEN payload.bytes[8 * byte + i] ELSE 0]
\* Mutant: bits past the limit are served.
Window_Bug(position) ==
  LET offset == position % 8
      word == Word(position \div 8)
  IN  [position |-> position, cached |-> WordBits - offset,
       cache |-> [i \in 1..WordBits |-> IF i <= WordBits - offset THEN word[offset + i] ELSE 0]]

Window(position) ==
  LET offset == position % 8
      available == Least(WordBits - offset, payload.limit - position)
      word == Word(position \div 8)
  IN  [position |-> position, cached |-> available,
       cache |-> [i \in 1..WordBits |-> IF i <= available THEN word[offset + i] ELSE 0]]

Refill(r) == Window(r.position)
With(r, n) == IF n > r.cached THEN Refill(r) ELSE r

\* The cache is shifted up and filled with zeroes.
Consume(r, n) ==
  [position |-> r.position + n, cached |-> r.cached - n,
   cache |-> [i \in 1..WordBits |-> IF i + n <= WordBits THEN r.cache[i + n] ELSE 0]]
Top(r, n) == SubSeq(r.cache, 1, n)

ReadCached(r, n) ==
  LET q == With(r, n)
  IN  IF n > q.cached THEN Bad(q, "end", q.position) ELSE Good(Consume(q, n), Number(Top(q, n)))

\* Wider than a window can be sure to hold: the high part, then half a word.
ReadWide(r, n) ==
  IF n > WordBits THEN Bad(r, "count", n)
  ELSE IF n > Remaining(r) THEN Bad(r, "end", r.position)
  ELSE LET high == ReadCached(r, n - WordBits \div 2)
           low == ReadCached(high.reader, WordBits \div 2)
       IN  Good(low.reader, high.value * 2^(WordBits \div 2) + low.value)

Read(r, n) == IF n > FewestBits THEN ReadWide(r, n) ELSE ReadCached(r, n)

-----------------------------------------------------------------------------
\* PrefixTable: the code each byte starts with.
Entries(name, byte) == {c \in Tables[name] : SubSeq(byte, 1, Len(c.code)) = c.code}
Longest(table) == CHOOSE n \in 1..8 : \E c \in table : Len(c.code) = n /\ \A d \in table : Len(d.code) <= n

\* Mutant: a cut code is said to end where it starts.
Symbol_Bug(r, name) ==
  LET q == With(r, 8)
      entry == {c \in Entries(name, Top(q, 8)) : Len(c.code) <= q.cached}
  IN  IF entry # {} THEN LET c == CHOOSE c \in entry : TRUE IN Good(Consume(q, Len(c.code)), c.symbol)
      ELSE IF Remaining(q) < Longest(Tables[name]) THEN Bad(q, "end", q.position)
      ELSE Bad(q, "code", q.position)

\* The byte may reach past the packet: an entry counts when all its bits are cached.
Symbol(r, name) ==
  LET q == With(r, 8)
      entry == {c \in Entries(name, Top(q, 8)) : Len(c.code) <= q.cached}
  IN  IF entry # {} THEN LET c == CHOOSE c \in entry : TRUE IN Good(Consume(q, Len(c.code)), c.symbol)
      ELSE IF Remaining(q) < Longest(Tables[name]) THEN Bad(q, "end", q.position + Remaining(q))
      ELSE Bad(q, "code", q.position)

\* read_magnitude_and_sign takes both at once while a sign bit more is there, and
\* leaves the end of a packet to separate reads.
Flex(r, n, signed) ==
  LET q == With(r, n + 1)
      magnitude == Number(Top(q, n))
      take == signed /\ magnitude # 0
      serial == Read(q, n)
      sign == Read(serial.reader, 1)
      Negated(m, s) == IF s = 1 THEN -m ELSE m
  IN  IF n < q.cached
      THEN Good(Consume(q, IF take THEN n + 1 ELSE n),
                IF take THEN Negated(magnitude, q.cache[n + 1]) ELSE magnitude)
      ELSE IF ~serial.ok \/ ~signed \/ serial.value = 0 THEN serial
      ELSE IF ~sign.ok THEN sign
      ELSE Good(sign.reader, Negated(serial.value, sign.value))

-----------------------------------------------------------------------------
RUN_REMAP == <<1, 2, 3, 5, 7, 1, 2, 3, 5, 7, 1, 2, 3, 4, 5>>
RUN_BIN == <<2, 2, 2, 1, 1, 1, 1, 0, 0, 0, 0>>
RUN_FIXED_LENGTH == <<0, 0, 1, 1, 3, 0, 0, 1, 1, 2, 0, 0, 0, 0, 1>>
RunTable(longest) == IF longest < 5 THEN <<"RUN_VALUE", longest>> ELSE <<"RUN_INDEX", 0>>
RunRow(longest, index) == 5 * RUN_BIN[longest - 3] + index + 1

\* What RUN_LOOKUP has for a byte: a run with all its bits, refinement included.
RunEntry(longest, byte) ==
  IF longest = 1 THEN [length |-> 0, run |-> 1]
  ELSE LET code == CHOOSE c \in Entries(RunTable(longest), byte) : TRUE
           row == RunRow(longest, code.symbol)
           end == Len(code.code) + RUN_FIXED_LENGTH[row]
       IN  IF longest < 5 THEN [length |-> Len(code.code), run |-> code.symbol]
           ELSE [length |-> end,
                 run |-> RUN_REMAP[row] + Number(SubSeq(byte, Len(code.code) + 1, end))]

\* decode_run, for runs out of the table's range and the last bits of a packet.
RunRead(r, longest) ==
  LET code == Symbol(r, RunTable(longest))
      row == RunRow(longest, code.value)
      more == Read(code.reader, RUN_FIXED_LENGTH[row])
  IN  IF longest \notin 1..14 THEN Bad(r, "run", longest)
      ELSE IF longest = 1 THEN Good(r, 1)
      ELSE IF ~code.ok \/ longest < 5 THEN code
      ELSE IF ~more.ok THEN more
      ELSE Good(more.reader, RUN_REMAP[row] + more.value)

Run(r, longest) ==
  IF longest \notin 1..14 THEN RunRead(r, longest)
  ELSE LET q == With(r, 8)
           entry == RunEntry(longest, Top(q, 8))
       IN  IF entry.length <= q.cached THEN Good(Consume(q, entry.length), entry.run)
           ELSE RunRead(q, longest)

Syntax == INSTANCE CodedSymbols

-----------------------------------------------------------------------------
Outcome(e, done) == <<e.kind, done.ok, done.value>>
Opening == <<"open", TRUE, 0>>
Failed == ~result[2]
Opened(p) ==
  /\ p.limit <= Len(p.bytes)
  /\ payload' = p /\ reader' = Empty /\ result' = Opening

Init ==
  /\ payload \in {p \in Payloads : p.limit <= Len(p.bytes)}
  /\ reader = Empty
  /\ result = Opening

\* with_bit_length, for the next packet once a parser has given this one up; a
\* limit past the bytes is refused.
Open == Failed /\ \E p \in Payloads : Opened(p)

Parse(e) ==
  /\ ~Failed
  /\ LET done == Syntax!Perform(reader, e) IN reader' = done.reader /\ result' = Outcome(e, done)
  /\ UNCHANGED payload

Next == Open \/ \E e \in Elements : Parse(e)

Spec == Init /\ [][Next]_vars

-----------------------------------------------------------------------------
(***************************************************************************)
(* What parsers see of the reader is a packet read bit by bit: every       *)
(* element, whichever way its bits were cached, looked up or refilled, has *)
(* the value, the length and the error it has in the packet alone.         *)
(***************************************************************************)
Serial == INSTANCE PacketBits WITH
  Packets <- {SubSeq(p.bytes, 1, p.limit) : p \in {q \in Payloads : q.limit <= Len(q.bytes)}},
  packet <- SubSeq(payload.bytes, 1, payload.limit),
  position <- reader.position

\* The cache is the next bits of the packet, and zeroes after them: a read of any
\* width may trust it up to `cached`, and a table lookup past that.
WindowTrue ==
  /\ reader.cached <= Remaining(reader) /\ reader.cached \in 0..WordBits
  /\ \A i \in 1..WordBits :
       reader.cache[i] = IF i <= reader.cached THEN payload.bytes[reader.position + i] ELSE 0
===============================================================================
