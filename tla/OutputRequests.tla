--------------------------- MODULE OutputRequests ---------------------------
(***************************************************************************)
(* A client of the decoders that has requests, one after another, each     *)
(* made by the host's two paths, by CUDA and by Metal, and a Metal runtime *)
(* that keeps what it compiled from one request to the next.  What a way   *)
(* makes of a request is given by operators; DeviceStores has those of the *)
(* code.  A result is a set of <<first byte, element>> with the planes of  *)
(* the surface, and an error <<>>.                                         *)
(***************************************************************************)
EXTENDS Sequences, Integers

CONSTANTS
  Sessions,            \* sequences of requests
  HostOutput(_),       \* storage of one's own,
  DirectOutput(_),     \* storage of the caller,
  CudaOutput(_),
  MetalOutput(_, _),   \* and [stored, pipelines], from the pipelines kept
  CheckedOutput(_),    \* the host without its fast paths
  Reordered(_)         \* requests whose clamp the devices apply after another step

VARIABLES
  requests,     \* those not made yet, the first one in work
  stored,       \* of the first: the outcomes of host, host into, CUDA and Metal
  pipelines     \* output_specializations

outputVars == <<requests, stored, pipelines>>

OutputInit ==
  /\ requests \in Sessions
  /\ stored = <<>>
  /\ pipelines = <<>>

FormatOwned ==
  /\ requests # <<>> /\ stored = <<>>
  /\ stored' = <<HostOutput(requests[1])>>
  /\ UNCHANGED <<requests, pipelines>>

FormatInto ==
  /\ Len(stored) = 1
  /\ stored' = Append(stored, DirectOutput(requests[1]))
  /\ UNCHANGED <<requests, pipelines>>

StoreCuda ==
  /\ Len(stored) = 2
  /\ stored' = Append(stored, CudaOutput(requests[1]))
  /\ UNCHANGED <<requests, pipelines>>

StoreMetal ==
  LET made == MetalOutput(requests[1], pipelines)
  IN  /\ Len(stored) = 3
      /\ stored' = Append(stored, made.stored)
      /\ pipelines' = made.pipelines
      /\ UNCHANGED requests

NextRequest ==
  /\ Len(stored) = 4
  /\ requests' = Tail(requests) /\ stored' = <<>>
  /\ UNCHANGED pipelines

OutputNext == FormatOwned \/ FormatInto \/ StoreCuda \/ StoreMetal \/ NextRequest

OutputSpec == OutputInit /\ [][OutputNext]_outputVars

-----------------------------------------------------------------------------
(***************************************************************************)
(* What the four ways owe each other.                                      *)
(***************************************************************************)
\* The caller's storage is premultiplied twice when its pixels have eight bits.
TwiceMultiplied(request) == request.premultiply /\ request.storage = "U8"

\* Vector, interleaved and planar fast paths return what the checked packer returns.
FastPathsExact == Len(stored) >= 1 => stored[1] = CheckedOutput(requests[1])

\* The caller's storage gets the elements that storage of one's own gets.
IntoAsOwned == Len(stored) >= 2 /\ ~TwiceMultiplied(requests[1]) => stored[2] = stored[1]

\* A device writes the host's elements at the host's bytes whenever the host
\* succeeds, and fails only where the host fails.
DeviceAsHost ==
  Len(stored) >= 3 /\ stored[1] # <<>> =>
    /\ stored[3] # <<>>
    /\ stored[3][1].planes = stored[1][1].planes
    /\ Reordered(requests[1]) \/ stored[3][1].bytes = stored[1][1].bytes

\* Metal writes what CUDA writes, with pipelines compiled for earlier requests.
MetalAsCuda == Len(stored) >= 4 => stored[4] = stored[3]

OutputsAlike == FastPathsExact /\ IntoAsOwned /\ DeviceAsHost /\ MetalAsCuda

\* "Typed destinations receive what owned packing returns" (output_format/tests.rs).
DirectStoresMatch == Len(stored) >= 2 => stored[2] = stored[1]
=============================================================================
