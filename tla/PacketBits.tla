------------------------------ MODULE PacketBits ------------------------------
(***************************************************************************)
(* What a packet reader promises: a position in a packet that moves past   *)
(* exactly the bits an element is made of, never past the packet's last    *)
(* bit, and an error where a reader of single bits would have stopped.     *)
(***************************************************************************)
EXTENDS Integers, Sequences

CONSTANTS
  Packets,             \* payloads, sequences of bits
  Tables,              \* <<name, number>> -> set of [code, symbol]
  Elements,            \* what parsers ask for, see CodedSymbols
  WordBytes            \* bytes of a machine word; 8 in the code

VARIABLES
  packet,              \* the payload
  position,            \* bits consumed
  result               \* what the last call returned: <<element, succeeded, value>>

vars == <<packet, position, result>>

WordBits == 8 * WordBytes
Good(p, v) == [reader |-> p, ok |-> TRUE, value |-> v]
Bad(p, kind, at) == [reader |-> p, ok |-> FALSE, value |-> <<kind, at>>]

Number(bits) ==
  LET n[k \in 0..Len(bits)] == IF k = 0 THEN 0 ELSE 2 * n[k - 1] + bits[k]
  IN  n[Len(bits)]
Ahead(p, n) == SubSeq(packet, p + 1, p + n)
Remaining(p) == Len(packet) - p

-----------------------------------------------------------------------------
Read(p, n) ==
  IF n > WordBits THEN Bad(p, "count", n)
  ELSE IF n > Remaining(p) THEN Bad(p, "end", p)
  ELSE Good(p + n, Number(Ahead(p, n)))

Starts(c, p) == Len(c.code) <= Remaining(p) /\ Ahead(p, Len(c.code)) = c.code
Longest(table) == CHOOSE n \in 1..8 : \E c \in table : Len(c.code) = n /\ \A d \in table : Len(d.code) <= n

\* An error of a cut packet is one past its last bit.
Symbol(p, name) ==
  LET table == Tables[name]
      next == {c \in table : Starts(c, p)}
  IN  IF next # {} THEN LET c == CHOOSE c \in next : TRUE IN Good(p + Len(c.code), c.symbol)
      ELSE IF Remaining(p) < Longest(table) THEN Bad(p, "end", p + Remaining(p))
      ELSE Bad(p, "code", p)

Flex(p, n, signed) ==
  LET number == Read(p, n)
      sign == Read(p + n, 1)
  IN  IF ~number.ok \/ ~signed \/ number.value = 0 THEN number
      ELSE IF ~sign.ok THEN sign
      ELSE Good(p + n + 1, IF sign.value = 1 THEN -number.value ELSE number.value)

\* A run of zeroes: a value code, or an index and the bits that refine it.
RUN_REMAP == <<1, 2, 3, 5, 7, 1, 2, 3, 5, 7, 1, 2, 3, 4, 5>>
RUN_BIN == <<2, 2, 2, 1, 1, 1, 1, 0, 0, 0, 0>>
RUN_FIXED_LENGTH == <<0, 0, 1, 1, 3, 0, 0, 1, 1, 2, 0, 0, 0, 0, 1>>

RunRow(longest, index) == 5 * RUN_BIN[longest - 3] + index + 1
Run(p, longest) ==
  IF longest \notin 1..14 THEN Bad(p, "run", longest)
  ELSE IF longest = 1 THEN Good(p, 1)
  ELSE IF longest < 5 THEN Symbol(p, <<"RUN_VALUE", longest>>)
  ELSE LET index == Symbol(p, <<"RUN_INDEX", 0>>)
           row == RunRow(longest, index.value)
           more == Read(index.reader, RUN_FIXED_LENGTH[row])
       IN  IF ~index.ok THEN index
           ELSE IF ~more.ok THEN more
           ELSE Good(more.reader, RUN_REMAP[row] + more.value)

Syntax == INSTANCE CodedSymbols

-----------------------------------------------------------------------------
Outcome(e, done) == <<e.kind, done.ok, done.value>>
Opening == <<"open", TRUE, 0>>
Failed == ~result[2]

Init ==
  /\ packet \in Packets
  /\ position = 0
  /\ result = Opening

\* The next packet, once a parser has given this one up.
Open ==
  /\ Failed
  /\ packet' \in Packets
  /\ position' = 0
  /\ result' = Opening

Parse(e) ==
  /\ ~Failed
  /\ LET done == Syntax!Perform(position, e) IN position' = done.reader /\ result' = Outcome(e, done)
  /\ UNCHANGED packet

Next == Open \/ \E e \in Elements : Parse(e)

Spec == Init /\ [][Next]_vars
===============================================================================
