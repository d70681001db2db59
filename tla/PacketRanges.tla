---------------------------- MODULE PacketRanges ----------------------------
(***************************************************************************)
(* Where the packets of a tile are.  The index of a codestream gives the   *)
(* start of each packet, and a packet ends where the next one in the file  *)
(* starts, whichever that is: packets may stand in any order, and flexbits *)
(* that are all zero may be left out.  packet_ranges of jxr-native cuts    *)
(* the packets of frequency mode, tile_packet_ranges those of spatial mode. *)
(* The file is written here packet by packet by an encoder, and its index  *)
(* may be damaged before it is read.                                       *)
(***************************************************************************)
EXTENDS Integers, Sequences, FiniteSets

CONSTANTS
  Shapes,      \* [mode, tiles, bands, sizes]: bands per tile, 1 to 4, and 1 in spatial
               \* mode; bytes of a packet
  Ahead,       \* packets of the index an encoder may put off at a time
  Gap,         \* bytes behind the last packet
  Base         \* where packets start in the codestream

VARIABLES
  file,        \* its shape, and the end of the last packet written
  written,     \* [from, to) of the packets written, by place in the index
  index,       \* the index once the file is closed, or none
  located      \* what the decoder finds: none, ranges by place in the index, or an error

vars == <<file, written, index, located>>

Places == 0..(file.tiles * file.bands - 1)
None == [kind |-> "none"]
Failure(reason) == [kind |-> "error", reason |-> reason]
Found(ranges) == [kind |-> "found", ranges |-> ranges]
Range(from, to) == [from |-> from, to |-> to]

\* The flexbits of a tile, a place that may be empty.
IsFlexbits(place) == file.bands = 4 /\ place % 4 = 3

-----------------------------------------------------------------------------
\* The encoder puts the packets down in an order of its own.
Pending == Places \ DOMAIN written

WritePacket ==
  /\ index = None
  /\ \E place \in Pending, size \in file.sizes :
       /\ Cardinality({p \in Pending : p < place}) <= Ahead
       /\ written' = [p \in DOMAIN written \cup {place} |->
                        IF p = place THEN Range(file.end, file.end + size) ELSE written[p]]
       /\ file' = [file EXCEPT !.end = @ + size]
  /\ UNCHANGED <<index, located>>

\* An offset of zero stands for flexbits left out, so they cannot come first.
EscapedRange == Range(0, 0)
LeaveOut ==
  /\ index = None
  /\ \E place \in Pending :
       /\ IsFlexbits(place) /\ \A p \in Pending : place <= p
       /\ written' = [p \in DOMAIN written \cup {place} |->
                        IF p = place THEN EscapedRange ELSE written[p]]
  /\ UNCHANGED <<file, index, located>>

Faithful == [p \in Places |-> IF written[p] = EscapedRange THEN 0 ELSE written[p].from - Base]

\* The index is true, has an entry that is not, or is left out of a file of one packet.
\* parse_index reads an entry for each place.
CloseFile ==
  /\ index = None /\ Pending = {}
  /\ \/ index' = [kind |-> "index", true |-> TRUE, offsets |-> Faithful]
     \/ \E p \in Places, offset \in 0..(file.end + Gap - Base + 1) :
          index' = [kind |-> "index", true |-> FALSE, offsets |-> [Faithful EXCEPT ![p] = offset]]
     \/ /\ file.mode = "spatial" /\ Places = {0}
        /\ index' = [kind |-> "index", true |-> TRUE, offsets |-> <<>>]
  /\ UNCHANGED <<file, written, located>>

-----------------------------------------------------------------------------
EndOfFile == file.end + Gap
Escaped(place) == IsFlexbits(place) /\ index.offsets[place] = 0
StartOf(place) == Base + index.offsets[place]
Present == {p \in DOMAIN index.offsets : ~Escaped(p)}
Starts == {StartOf(p) : p \in Present}

\* range_at: to the next start in the file, or its end.
RangeAt(start) ==
  LET later == {s \in Starts : s > start}
  IN  Range(start, IF later = {} THEN EndOfFile ELSE CHOOSE s \in later : \A t \in later : s <= t)

Ranges == [p \in DOMAIN index.offsets |-> IF Escaped(p) THEN None ELSE RangeAt(StartOf(p))]

Inside == \A p \in Present : StartOf(p) < EndOfFile
Distinct == \A p, q \in Present : p # q => StartOf(p) # StartOf(q)

\* Mutant: the next start of the index.
LocateFrequency_Bug ==
  LET next(p) == {q \in Present : q > p}
      end(p) == IF next(p) = {} THEN EndOfFile
                ELSE StartOf(CHOOSE q \in next(p) : \A r \in next(p) : q <= r)
  IN  IF ~Inside \/ ~Distinct THEN Failure("index")
      ELSE Found([p \in Places |-> IF Escaped(p) THEN None ELSE Range(StartOf(p), end(p))])

\* packet_ranges.
LocateFrequency ==
  IF ~Inside THEN Failure("packet range outside input")
  ELSE IF ~Distinct THEN Failure("duplicate frequency packet offsets")
  ELSE Found(Ranges)

\* tile_packet_ranges: an image without index is one packet; a start past the end
\* has no extent, and tiles may share a packet.
LocateSpatial ==
  IF index.offsets = <<>> THEN Found([p \in {0} |-> Range(Base, EndOfFile)])
  ELSE IF \E p \in Places : StartOf(p) > EndOfFile THEN Failure("tile index ordering")
  ELSE Found(Ranges)

Locate ==
  /\ index # None /\ located = None
  /\ located' = IF file.mode = "frequency" THEN LocateFrequency ELSE LocateSpatial
  /\ UNCHANGED <<file, written, index>>

Init ==
  /\ \E shape \in Shapes :
       file = [mode |-> shape.mode, tiles |-> shape.tiles, bands |-> shape.bands,
               sizes |-> shape.sizes, end |-> Base]
  /\ written = [p \in {} |-> EscapedRange]
  /\ index = None /\ located = None

Next == WritePacket \/ LeaveOut \/ CloseFile \/ Locate

Spec == Init /\ [][Next]_vars

-----------------------------------------------------------------------------
\* From a true index the decoder cuts out what the encoder wrote, byte for byte, the
\* last packet with the bytes behind it; unless flexbits come first, whose offset of
\* zero says that they are left out.
PacketsAsWritten ==
  LET flexbitsFirst == \E p \in Places : IsFlexbits(p) /\ written[p] = Range(Base, written[p].to)
      Expected(p) ==
        IF written[p] = EscapedRange THEN None
        ELSE IF written[p].to = file.end THEN Range(written[p].from, EndOfFile) ELSE written[p]
  IN  located # None /\ index.true /\ ~flexbitsFirst =>
        located = Found([p \in Places |-> Expected(p)])

\* Whatever the index says, packets lie in the codestream, and those of frequency mode
\* are never empty and never overlap.
PacketsApart ==
  located.kind = "found" =>
    LET ranges == located.ranges
        present == {p \in DOMAIN ranges : ranges[p] # None}
    IN  \A p \in present :
          /\ Base <= ranges[p].from /\ ranges[p].from <= ranges[p].to /\ ranges[p].to <= EndOfFile
          /\ file.mode = "frequency" =>
               /\ ranges[p].from < ranges[p].to
               /\ \A q \in present \ {p} :
                    ranges[p].to <= ranges[q].from \/ ranges[q].to <= ranges[p].from

PacketsTrue == PacketsAsWritten /\ PacketsApart
=============================================================================
