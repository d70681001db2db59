------------------------ MODULE ReconstructionCache ------------------------
(***************************************************************************)
(* Coefficient preparation of one homogeneous CUDA group.                  *)
(*                                                                         *)
(* CudaBatchDecoder::prepare_group maps every image of the group on the    *)
(* decoder's rayon pool.  An image asks its contract for the coefficient   *)
(* state, which PreparedImage::prepare_reconstruction keeps in a OnceLock: *)
(* images that the preparation deduplicated share one contract and hence   *)
(* one cell.  The initialiser decodes the image's tiles, and when there is *)
(* more than one tile it is itself a rayon parallel iterator: a worker     *)
(* that waits for its half of the tiles runs whatever job it finds.        *)
(*                                                                         *)
(* The pool (deques, stealing, join) is rayon's and modelled from how the  *)
(* code uses it; the cells, the callers and the results are the code's.    *)
(***************************************************************************)
EXTENDS Integers, Sequences, FiniteSets

CONSTANTS
  Workers,     \* threads of the decoder's pool
  Callers,     \* threads inside submit_prepared on the same prepared batch
  Contracts,   \* PreparedImageContract allocations
  N,           \* images of the group
  ContractOf,  \* the contract of each image, in group order
  Accepted,    \* contracts whose request passes validate_cuda_request
  MultiTile    \* contracts whose codestream has more than one tile

Images == 1..N

ASSUME SizeAssumption == N \in Nat \ {0}
ASSUME ContractAssumption ==
  /\ ContractOf \in [Images -> Contracts]
  /\ Accepted \subseteq Contracts
  /\ MultiTile \subseteq Contracts

(***************************************************************************)
(* A job of the pool: an image range of one caller (half = 0), or one half *)
(* of the tiles of the image lo = hi (half = 1 or 2).                      *)
(***************************************************************************)
Jobs == [call : Callers, lo : Images, hi : Images, half : 0..2]

Root(k) == [call |-> k, lo |-> 1, hi |-> N, half |-> 0]

IsRange(j) == j.half = 0 /\ j.lo < j.hi
IsImage(j) == j.half = 0 /\ j.lo >= j.hi
IsTiles(j) == j.half # 0

\* Mutant: the split is an offset into the range, taken for an image of the group.
LastOfLeft_Bug(j) == ((j.hi - j.lo + 1) \div 2) - 1
\* rayon splits an indexed range at half its length.
LastOfLeft(j) == j.lo + ((j.hi - j.lo + 1) \div 2) - 1

LeftHalf(j)  == IF IsRange(j) THEN [j EXCEPT !.hi = LastOfLeft(j)]
                              ELSE [j EXCEPT !.half = 1]
RightHalf(j) == IF IsRange(j) THEN [j EXCEPT !.lo = LastOfLeft(j) + 1]
                              ELSE [j EXCEPT !.half = 2]

Frames == [job : Jobs, at : {"enter", "decode", "join"}]

Outcomes == {"ok", "err"}

VARIABLES
  stack,     \* per worker, the jobs it is inside; the innermost first
  deque,     \* per worker, the jobs it queued; the most recent last
  injector,  \* jobs installed by threads outside the pool
  finished,  \* jobs whose latch is set
  cell,      \* per contract, the state of its OnceLock
  decodes,   \* per contract, how often its initialiser was started
  result,    \* per caller and image, what the mapped closure returned
  caller     \* per caller, where submit_prepared stands

pool  == <<stack, deque, injector, finished>>
cells == <<cell, decodes, result>>
vars  == <<stack, deque, injector, finished, cell, decodes, result, caller>>

Init ==
  /\ stack    = [w \in Workers |-> <<>>]
  /\ deque    = [w \in Workers |-> <<>>]
  /\ injector = <<>>
  /\ finished = {}
  /\ cell     = [c \in Contracts |-> "empty"]
  /\ decodes  = [c \in Contracts |-> 0]
  /\ result   = [k \in Callers |-> [i \in Images |-> "none"]]
  /\ caller   = [k \in Callers |-> "idle"]

-----------------------------------------------------------------------------
(***************************************************************************)
(* Worker bookkeeping.                                                     *)
(***************************************************************************)
TopIs(w, at) == stack[w] # <<>> /\ Head(stack[w]).at = at
TopJob(w)    == Head(stack[w]).job
ContractAt(w) == ContractOf[TopJob(w).lo]

Enter(w, j) == stack' = [stack EXCEPT ![w] = <<[job |-> j, at |-> "enter"]>> \o @]

Return(w) ==
  /\ stack' = [stack EXCEPT ![w] = Tail(@)]
  /\ finished' = finished \cup {TopJob(w)}

\* join(left, right): queue the right half, run the left half first.
ForkTop(w) ==
  LET j == TopJob(w)
  IN  /\ stack' = [stack EXCEPT ![w] =
                     <<[job |-> LeftHalf(j), at |-> "enter"],
                       [job |-> j, at |-> "join"]>> \o Tail(@)]
      /\ deque' = [deque EXCEPT ![w] = Append(@, RightHalf(j))]

ReturnResult(w, r) ==
  /\ result' = [result EXCEPT ![TopJob(w).call][TopJob(w).lo] = r]
  /\ Return(w)

(***************************************************************************)
(* The mapped closure of prepare_group.                                    *)
(***************************************************************************)
SplitImages(w) ==
  /\ TopIs(w, "enter")
  /\ IsRange(TopJob(w))
  /\ ForkTop(w)
  /\ UNCHANGED <<injector, finished, cells, caller>>

EntersImage(w) == TopIs(w, "enter") /\ IsImage(TopJob(w))

\* validate_cuda_request fails before the cell is touched.
RejectRequest(w) ==
  /\ EntersImage(w)
  /\ ContractAt(w) \notin Accepted
  /\ ReturnResult(w, "err")
  /\ UNCHANGED <<deque, injector, cell, decodes, caller>>

ReadCell(w) ==
  /\ EntersImage(w)
  /\ ContractAt(w) \in Accepted
  /\ cell[ContractAt(w)] \in Outcomes
  /\ ReturnResult(w, cell[ContractAt(w)])
  /\ UNCHANGED <<deque, injector, cell, decodes, caller>>

\* Mutant: look the cell up, decode, then store, without the once protocol.
MayInitialise_Bug(c) == cell[c] \in {"empty", "running"}
\* get_or_init runs the closure only for the thread that finds it empty.
MayInitialise(c) == cell[c] = "empty"

StartDecode(w) ==
  /\ EntersImage(w)
  /\ ContractAt(w) \in Accepted
  /\ MayInitialise(ContractAt(w))
  /\ cell'    = [cell EXCEPT ![ContractAt(w)] = "running"]
  /\ decodes' = [decodes EXCEPT ![ContractAt(w)] = @ + 1]
  /\ IF ContractAt(w) \in MultiTile
     THEN ForkTop(w)
     ELSE /\ stack' = [stack EXCEPT ![w] = <<[Head(@) EXCEPT !.at = "decode"]>> \o Tail(@)]
          /\ UNCHANGED deque
  /\ UNCHANGED <<injector, finished, result, caller>>

\* The initialiser returns and every waiter of the cell is released.
FillCell(w, r) ==
  /\ cell' = [cell EXCEPT ![ContractAt(w)] = r]
  /\ ReturnResult(w, r)

FinishDecode(w) ==
  /\ TopIs(w, "decode")
  /\ \E r \in Outcomes : FillCell(w, r)
  /\ UNCHANGED <<deque, injector, decodes, caller>>

DecodeTiles(w) ==
  /\ TopIs(w, "enter")
  /\ IsTiles(TopJob(w))
  /\ Return(w)
  /\ UNCHANGED <<deque, injector, cells, caller>>

(***************************************************************************)
(* Joining and looking for work.                                           *)
(***************************************************************************)
\* Mutant: do not wait for the half another worker stole.
RightFinished_Bug(w) == TRUE
RightFinished(w) == RightHalf(TopJob(w)) \in finished

JoinImages(w) ==
  /\ TopIs(w, "join")
  /\ IsRange(TopJob(w))
  /\ RightFinished(w)
  /\ Return(w)
  /\ UNCHANGED <<deque, injector, cells, caller>>

JoinTiles(w) ==
  /\ TopIs(w, "join")
  /\ IsImage(TopJob(w))
  /\ RightFinished(w)
  /\ \E r \in Outcomes : FillCell(w, r)
  /\ UNCHANGED <<deque, injector, decodes, caller>>

\* Mutant: a worker that waits in a join sleeps.
WantsWork_Bug(w) == stack[w] = <<>>
\* A worker with nothing to do, or waiting in a join, looks for any job.
WantsWork(w) ==
  \/ stack[w] = <<>>
  \/ TopIs(w, "join") /\ ~RightFinished(w)

PopOwn(w) ==
  /\ WantsWork(w)
  /\ deque[w] # <<>>
  /\ Enter(w, deque[w][Len(deque[w])])
  /\ deque' = [deque EXCEPT ![w] = SubSeq(@, 1, Len(@) - 1)]
  /\ UNCHANGED <<injector, finished, cells, caller>>

Steal(w, v) ==
  /\ WantsWork(w)
  /\ deque[w] = <<>>
  /\ v # w
  /\ deque[v] # <<>>
  /\ Enter(w, Head(deque[v]))
  /\ deque' = [deque EXCEPT ![v] = Tail(@)]
  /\ UNCHANGED <<injector, finished, cells, caller>>

TakeInjected(w) ==
  /\ WantsWork(w)
  /\ deque[w] = <<>>
  /\ injector # <<>>
  /\ Enter(w, Head(injector))
  /\ injector' = Tail(injector)
  /\ UNCHANGED <<deque, finished, cells, caller>>

(***************************************************************************)
(* submit_prepared: install the mapping, wait for it, then hand the planned *)
(* images to the session.                                                  *)
(***************************************************************************)
Install(k) ==
  /\ caller[k] = "idle"
  /\ caller' = [caller EXCEPT ![k] = "installed"]
  /\ injector' = Append(injector, Root(k))
  /\ UNCHANGED <<stack, deque, finished, cells>>

Planned(k) == {i \in Images : result[k][i] = "ok"}

\* No planned image: the group is skipped.  Otherwise the session accepts
\* the group or fails it as a whole.
SubmitGroup(k) ==
  /\ caller[k] = "installed"
  /\ Root(k) \in finished
  /\ \E o \in IF Planned(k) = {} THEN {"skipped"} ELSE {"submitted", "group_error"} :
        caller' = [caller EXCEPT ![k] = o]
  /\ UNCHANGED <<pool, cells>>

-----------------------------------------------------------------------------
WorkerStep(w) ==
  \/ SplitImages(w)
  \/ RejectRequest(w)
  \/ ReadCell(w)
  \/ StartDecode(w)
  \/ FinishDecode(w)
  \/ DecodeTiles(w)
  \/ JoinImages(w)
  \/ JoinTiles(w)
  \/ PopOwn(w)
  \/ \E v \in Workers : Steal(w, v)
  \/ TakeInjected(w)

Returned(k) == caller[k] \in {"skipped", "submitted", "group_error"}

\* Every caller has returned and the pool sleeps.
Quiescent ==
  /\ \A k \in Callers : Returned(k)
  /\ UNCHANGED vars

Next ==
  \/ \E w \in Workers : WorkerStep(w)
  \/ \E k \in Callers : Install(k) \/ SubmitGroup(k)
  \/ Quiescent

Spec == Init /\ [][Next]_vars

\* Pool threads keep running, and a caller inside submit_prepared returns
\* once its latch is set; nothing obliges a caller to start.
FairSpec ==
  /\ Spec
  /\ \A w \in Workers : WF_vars(WorkerStep(w))
  /\ \A k \in Callers : WF_vars(SubmitGroup(k))

-----------------------------------------------------------------------------
(***************************************************************************)
(* Properties.                                                             *)
(***************************************************************************)

\* Types of the pool, the cells and the callers.
TypeOK ==
  /\ stack \in [Workers -> Seq(Frames)]
  /\ deque \in [Workers -> Seq(Jobs)]
  /\ injector \in Seq(Jobs)
  /\ finished \subseteq Jobs
  /\ cell \in [Contracts -> {"empty", "running"} \cup Outcomes]
  /\ decodes \in [Contracts -> Nat]
  /\ result \in [Callers -> [Images -> {"none"} \cup Outcomes]]
  /\ caller \in [Callers -> {"idle", "installed", "skipped", "submitted", "group_error"}]

\* However the workers of all callers interleave, the entropy of a contract
\* is decoded at most once (contracts.rs: "Decode and cache ... on first use").
DecodedOnce == \A c \in Contracts : decodes[c] <= 1

\* Two images that share a contract never see different outcomes, within a
\* caller or across callers: both read the one cell.
SharedOutcome ==
  \A k, l \in Callers, i, j \in Images :
    /\ ContractOf[i] = ContractOf[j]
    /\ result[k][i] # "none"
    /\ result[l][j] # "none"
    => result[k][i] = result[l][j]

\* The latch of a caller's root is set only after every one of its images
\* has a result, so the collected vector has no hole.
CollectsEveryImage ==
  \A k \in Callers : Root(k) \in finished => \A i \in Images : result[k][i] # "none"

\* A call that entered the pool returns: every group is submitted, failed or
\* skipped (cuda.rs: "submit every valid homogeneous group").
CallsReturn == \A k \in Callers : caller[k] = "installed" ~> Returned(k)

=============================================================================
