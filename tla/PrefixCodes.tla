------------------------------ MODULE PrefixCodes ------------------------------
(***************************************************************************)
(* The prefix codes of tile packets (entropy/vlc.rs, tile_decode/cbphp.rs) *)
(* as tables of [code, symbol], a code being a sequence of bits.           *)
(***************************************************************************)
EXTENDS Integers, Sequences, TLC

LOOKUP_BITS == 8

\* The lowest bits of a number, the highest of them first.
BitsOf(number, length) == [i \in 1..length |-> (number \div 2^(length - i)) % 2]

\* PrefixTable::new, of a list of <<code, length, symbol>>.
PrefixTable(codes) ==
  {[code |-> BitsOf(codes[k][1], codes[k][2]), symbol |-> codes[k][3]] : k \in DOMAIN codes}

\* Codes listed as <<code, length>> in the order of their symbols.
Numbered(codes, first) == [k \in DOMAIN codes |-> <<codes[k][1], codes[k][2], first + k - 1>>]

ABS_LEVEL_CODES ==
  <<<<<<1, 2>>, <<2, 2>>, <<3, 2>>, <<1, 3>>, <<1, 4>>, <<0, 5>>, <<1, 5>>>>,
    <<<<1, 1>>, <<1, 2>>, <<1, 3>>, <<1, 4>>, <<1, 5>>, <<0, 6>>, <<1, 6>>>>>>

RUN_VALUE_2_CODES == <<<<1, 1>>, <<0, 1>>>>
RUN_VALUE_3_CODES == <<<<1, 1>>, <<1, 2>>, <<0, 2>>>>
RUN_VALUE_4_CODES == <<<<1, 1>>, <<1, 2>>, <<1, 3>>, <<0, 3>>>>
RUN_INDEX_CODES == <<<<1, 1>>, <<1, 2>>, <<1, 3>>, <<0, 4>>, <<1, 4>>>>

INDEX_A_CODES ==
  <<<<<<1, 1>>, <<0, 5>>, <<1, 3>>, <<1, 5>>, <<1, 2>>, <<1, 4>>>>,
    <<<<1, 2>>, <<0, 4>>, <<2, 2>>, <<1, 4>>, <<3, 2>>, <<1, 3>>>>,
    <<<<0, 4>>, <<1, 4>>, <<1, 2>>, <<2, 2>>, <<3, 2>>, <<1, 3>>>>,
    <<<<0, 5>>, <<1, 5>>, <<1, 2>>, <<1, 1>>, <<1, 4>>, <<1, 3>>>>>>
\* Mutant: two symbols of one code.
INDEX_B_CODES_Bug == <<<<0, 1, 0>>, <<2, 2, 2>>, <<6, 3, 1>>, <<6, 3, 3>>>>
INDEX_B_CODES == <<<<0, 1, 0>>, <<2, 2, 2>>, <<6, 3, 1>>, <<7, 3, 3>>>>

FIRST_INDEX_CODES ==
  <<<<<<1, 5>>, <<1, 6>>, <<0, 7>>, <<1, 7>>, <<4, 5>>, <<2, 3>>,
      <<5, 5>>, <<1, 1>>, <<6, 5>>, <<1, 4>>, <<7, 5>>, <<3, 3>>>>,
    <<<<2, 4>>, <<2, 5>>, <<0, 6>>, <<1, 6>>, <<3, 4>>, <<2, 3>>,
      <<3, 5>>, <<3, 2>>, <<3, 3>>, <<4, 3>>, <<1, 5>>, <<5, 3>>>>,
    <<<<3, 2>>, <<1, 3>>, <<0, 7>>, <<1, 7>>, <<1, 5>>, <<2, 3>>,
      <<2, 7>>, <<3, 3>>, <<4, 3>>, <<5, 3>>, <<3, 7>>, <<1, 4>>>>,
    <<<<1, 3>>, <<3, 2>>, <<0, 7>>, <<1, 5>>, <<2, 5>>, <<2, 3>>,
      <<1, 7>>, <<3, 3>>, <<3, 5>>, <<4, 3>>, <<1, 6>>, <<5, 3>>>>,
    <<<<2, 3>>, <<1, 1>>, <<1, 7>>, <<1, 4>>, <<2, 7>>, <<3, 3>>,
      <<0, 8>>, <<2, 4>>, <<3, 7>>, <<3, 4>>, <<1, 8>>, <<1, 5>>>>>>

\* Those of the coded block patterns.
NUM_CODES ==
  <<<<<<1, 1>>, <<1, 2>>, <<1, 3>>, <<0, 4>>, <<1, 4>>>>,
    <<<<1, 1>>, <<0, 3>>, <<1, 3>>, <<2, 3>>, <<3, 3>>>>>>
NUM_CODES_YUV ==
  <<<<<<2, 3>>, <<0, 5>>, <<2, 4>>, <<1, 5>>, <<2, 5>>, <<1, 1>>, <<3, 3>>, <<3, 5>>, <<3, 4>>>>,
    <<<<1, 1>>, <<1, 3>>, <<2, 3>>, <<1, 4>>, <<1, 6>>, <<3, 3>>, <<1, 5>>, <<0, 7>>, <<1, 7>>>>>>
CHROMA_CODES == <<<<1, 1>>, <<1, 2>>, <<0, 2>>>>
CHROMA_BLOCK_CODES == <<<<1, 1>>, <<1, 2>>, <<0, 3>>, <<1, 3>>>>
REF_TWO == <<<<0, 2, 3>>, <<1, 2, 5>>, <<4, 3, 6>>, <<5, 3, 9>>, <<6, 3, 10>>, <<7, 3, 12>>>>

\* The tables, by name and, where there are several, number.
PrefixTables ==
  LET Family(name, lists) ==
        [k \in {<<name, n>> : n \in 0..(Len(lists) - 1)} |-> PrefixTable(Numbered(lists[k[2] + 1], 0))]
      Runs == <<RUN_VALUE_2_CODES, RUN_VALUE_3_CODES, RUN_VALUE_4_CODES>>
  IN  Family("ABS_LEVEL", ABS_LEVEL_CODES) @@ Family("INDEX_A", INDEX_A_CODES)
        @@ Family("FIRST_INDEX", FIRST_INDEX_CODES)
        @@ Family("NUM_CODES", NUM_CODES) @@ Family("NUM_CODES_YUV", NUM_CODES_YUV)
        @@ [k \in {<<"RUN_VALUE", n>> : n \in 2..4} |-> PrefixTable(Numbered(Runs[k[2] - 1], 1))]
        @@ <<"RUN_INDEX", 0>> :> PrefixTable(Numbered(RUN_INDEX_CODES, 0))
        @@ <<"INDEX_B", 0>> :> PrefixTable(INDEX_B_CODES)
        @@ <<"CHROMA_CODES", 0>> :> PrefixTable(Numbered(CHROMA_CODES, 0))
        @@ <<"CHROMA_BLOCK_CODES", 0>> :> PrefixTable(Numbered(CHROMA_BLOCK_CODES, 0))
        @@ <<"REF_TWO", 0>> :> PrefixTable(REF_TWO)

\* Every byte starts with exactly one code of each table: whatever a packet holds, a
\* symbol is read or the packet ends, and `decode` never reports an invalid code.
EveryByteDecodes ==
  \A name \in DOMAIN PrefixTables : \A byte \in 0..255 :
    LET starts == {c \in PrefixTables[name] :
                     SubSeq(BitsOf(byte, LOOKUP_BITS), 1, Len(c.code)) = c.code}
    IN  \E c \in starts : starts = {c}
===============================================================================
