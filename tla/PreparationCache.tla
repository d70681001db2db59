-------------------------- MODULE PreparationCache --------------------------
(***************************************************************************)
(* Batch preparation: prepare_batch_in_pool_cached of a decoder that is    *)
(* shared by several threads (CpuBatchDecoder::prepare takes &self), and   *)
(* prepare_batch_from_images, which regroups what it returned.             *)
(*                                                                         *)
(* An input is the pair the cache is keyed by: the compressed Arc and the  *)
(* complete request.  The cache lock is taken for one lookup or one        *)
(* insertion at a time; looking a batch up, parsing what was missed and    *)
(* storing it are separate phases, and other calls run between any two.    *)
(***************************************************************************)
EXTENDS Integers, Sequences, FiniteSets, SequencesExt

CONSTANTS
  Callers,     \* threads that prepare batches on one decoder
  Inputs,      \* (compressed Arc, request) pairs
  Surface,     \* the surface layout each input's plan has
  Invalid,     \* inputs that fail to parse or plan
  Packed,      \* surface layouts that validate_batch_layout refuses for NCHW
  Layout,      \* options.layout, "native" or "nchw"
  MaxInputs,   \* options.max_inputs
  MaxEntries,  \* options.preparation_cache_entries
  Batches,     \* the input sequences callers may submit
  MaxCalls     \* bound: calls of each caller

Layouts == {"native", "nchw"}

ASSUME SurfaceAssumption == DOMAIN Surface = Inputs /\ Invalid \subseteq Inputs
ASSUME OptionsAssumption ==
  /\ Layout \in Layouts
  /\ MaxInputs \in Nat
  /\ MaxEntries \in Nat
  /\ MaxCalls \in Nat
  /\ IsFiniteSet(Callers)
  /\ \A b \in Batches : b \in Seq(Inputs)

VARIABLES
  entries,   \* PreparationCache::entries, the least recently used first
  phase,     \* per caller, where its call stands
  batch,     \* per caller, the inputs of its call
  resolved,  \* per caller, the results found so far, by source index
  jobs,      \* per caller, the UniquePrepareJobs, in first-miss order
  made,      \* per caller, the results of the parallel stage, by job
  returned,  \* per caller, the last PreparedBatch
  calls,     \* per caller, how many calls it began
  looked     \* per caller, how many inputs of its batch it looked up

vars == <<entries, phase, batch, resolved, jobs, made, returned, calls, looked>>

NoBatch == [groups |-> <<>>, errors |-> <<>>]

Init ==
  /\ entries  = <<>>
  /\ phase    = [k \in Callers |-> "idle"]
  /\ batch    = [k \in Callers |-> <<>>]
  /\ resolved = [k \in Callers |-> <<>>]
  /\ jobs     = [k \in Callers |-> <<>>]
  /\ made     = [k \in Callers |-> <<>>]
  /\ returned = [k \in Callers |-> NoBatch]
  /\ calls    = [k \in Callers |-> 0]
  /\ looked   = [k \in Callers |-> 0]

-----------------------------------------------------------------------------
(***************************************************************************)
(* Contracts.  The id stands for the allocation: two contracts are the     *)
(* same Arc when their ids are equal.  A failed preparation has no id.     *)
(***************************************************************************)
Contract(x, l, id) == [input |-> x, layout |-> l, id |-> id]
Failed(r) == r.id = <<>>
Info(r)   == <<Surface[r.input], r.layout>>

LayoutRefused(x, l) == l = "nchw" /\ Surface[x] \in Packed

PrepareContract(x, id) ==
  Contract(x, Layout, IF x \in Invalid \/ LayoutRefused(x, Layout) THEN <<>> ELSE id)

(***************************************************************************)
(* Grouping.                                                               *)
(***************************************************************************)
\* Mutant: an image only ever joins the newest group.
GroupFor_Bug(groups, info) == {g \in DOMAIN groups : g = Len(groups) /\ groups[g].info = info}
\* The groups an image of this output contract may join: one at most.
GroupFor(groups, info) == {g \in DOMAIN groups : groups[g].info = info}

PushPrepared(groups, image, index) ==
  LET info == Info(image.contract)
  IN  IF GroupFor(groups, info) # {}
      THEN LET g == CHOOSE g \in GroupFor(groups, info) : TRUE
           IN  [groups EXCEPT ![g].images = Append(@, image), ![g].indices = Append(@, index)]
      ELSE Append(groups, [info |-> info, images |-> <<image>>, indices |-> <<index>>])

\* The result at index i, an error or an image, joins a batch.
Joined(b, result, origin, i) ==
  IF Failed(result) THEN [b EXCEPT !.errors = Append(@, i)]
  ELSE [b EXCEPT !.groups = PushPrepared(@, [contract |-> result, origin |-> origin], i)]

\* The batch of a sequence of results and of the positions they came from.
Grouped(results, origins) ==
  LET prefix[i \in 0..Len(results)] ==
        IF i = 0 THEN NoBatch ELSE Joined(prefix[i - 1], results[i], origins[i], i)
  IN  prefix[Len(results)]

-----------------------------------------------------------------------------
(***************************************************************************)
(* prepare.                                                                *)
(***************************************************************************)
Call(k) ==
  /\ phase[k] = "idle"
  /\ calls[k] < MaxCalls
  /\ calls' = [calls EXCEPT ![k] = @ + 1]
  /\ \E b \in Batches :
       IF Len(b) > MaxInputs
       THEN /\ returned' = [returned EXCEPT ![k] = NoBatch]
            /\ UNCHANGED <<phase, batch, resolved, jobs, made, looked>>
       ELSE /\ phase'    = [phase EXCEPT ![k] = "lookup"]
            /\ batch'    = [batch EXCEPT ![k] = b]
            /\ resolved' = [resolved EXCEPT ![k] = <<>>]
            /\ jobs'     = [jobs EXCEPT ![k] = <<>>]
            /\ made'     = [made EXCEPT ![k] = <<>>]
            /\ looked'   = [looked EXCEPT ![k] = 0]
            /\ returned' = [returned EXCEPT ![k] = NoBatch]
  /\ UNCHANGED entries

Current(k)    == batch[k][looked[k] + 1]
HitsFor(x)    == {p \in DOMAIN entries : entries[p].input = x}
JobsFor(k, x) == {j \in DOMAIN jobs[k] : jobs[k][j].input = x}

Looking(k) == phase[k] = "lookup" /\ looked[k] < Len(batch[k])
Advance(k) == looked' = [looked EXCEPT ![k] = @ + 1]

\* Resolve(k, I, r): the results of the source indices I are r.
Resolve(k, I, r) ==
  resolved' = [resolved EXCEPT ![k] =
                 [i \in DOMAIN @ \cup I |-> IF i \in I THEN r ELSE @[i]]]

\* A hit leaves its place and becomes the most recently used entry.
LookupHit(k) ==
  /\ Looking(k)
  /\ HitsFor(Current(k)) # {}
  /\ LET p == CHOOSE p \in HitsFor(Current(k)) : \A q \in HitsFor(Current(k)) : p <= q
     IN  /\ entries' = SubSeq(entries, 1, p - 1) \o SubSeq(entries, p + 1, Len(entries))
                         \o <<entries[p]>>
         /\ Resolve(k, {looked[k] + 1}, entries[p])
  /\ Advance(k)
  /\ UNCHANGED <<phase, batch, jobs, made, returned, calls>>

\* A miss on an input this batch is already going to prepare.
JoinJob(k) ==
  /\ Looking(k)
  /\ HitsFor(Current(k)) = {}
  /\ JobsFor(k, Current(k)) # {}
  /\ \E j \in JobsFor(k, Current(k)) :
       jobs' = [jobs EXCEPT ![k][j].indices = @ \cup {looked[k] + 1}]
  /\ Advance(k)
  /\ UNCHANGED <<entries, phase, batch, resolved, made, returned, calls>>

\* Mutant: every miss is a job of its own.
NeedsJob_Bug(k) == HitsFor(Current(k)) = {}
NeedsJob(k) == HitsFor(Current(k)) = {} /\ JobsFor(k, Current(k)) = {}

NewJob(k) ==
  /\ Looking(k)
  /\ NeedsJob(k)
  /\ jobs' = [jobs EXCEPT ![k] = Append(@, [input |-> Current(k), indices |-> {looked[k] + 1}])]
  /\ Advance(k)
  /\ UNCHANGED <<entries, phase, batch, resolved, made, returned, calls>>

\* The parallel stage: every job's contract is parsed, planned and allocated.
PrepareJobs(k) ==
  /\ phase[k] = "lookup"
  /\ looked[k] = Len(batch[k])
  /\ made' = [made EXCEPT ![k] =
                [j \in DOMAIN jobs[k] |-> PrepareContract(jobs[k][j].input, <<k, calls[k], j>>)]]
  /\ phase' = [phase EXCEPT ![k] = "store"]
  /\ UNCHANGED <<entries, batch, resolved, jobs, returned, calls, looked>>

\* Mutant: make room only once the cache is over its limit.
Retained_Bug == SubSeq(entries, (IF Len(entries) > MaxEntries THEN Len(entries) - MaxEntries ELSE 0) + 1,
                       Len(entries))
\* What insert leaves of the entries before it pushes the new one.
Retained == SubSeq(entries, (IF Len(entries) >= MaxEntries THEN Len(entries) - MaxEntries + 1 ELSE 0) + 1,
                   Len(entries))

Insert(c) == entries' = IF MaxEntries = 0 THEN entries ELSE Append(Retained, c)

IndicesOf(job) == job.indices

\* One job's result is inserted and handed to every index that waits for it.
StoreJob(k) ==
  /\ phase[k] = "store"
  /\ made[k] # <<>>
  /\ IF Failed(Head(made[k])) THEN UNCHANGED entries ELSE Insert(Head(made[k]))
  /\ Resolve(k, IndicesOf(Head(jobs[k])), Head(made[k]))
  /\ jobs' = [jobs EXCEPT ![k] = Tail(@)]
  /\ made' = [made EXCEPT ![k] = Tail(@)]
  /\ UNCHANGED <<phase, batch, returned, calls, looked>>

\* Group the results in source order and return.
Return(k) ==
  /\ phase[k] = "store"
  /\ made[k] = <<>>
  /\ DOMAIN resolved[k] = DOMAIN batch[k]
  /\ returned' = [returned EXCEPT ![k] = Grouped(resolved[k], [i \in DOMAIN batch[k] |-> i])]
  /\ phase' = [phase EXCEPT ![k] = "idle"]
  /\ UNCHANGED <<entries, batch, resolved, jobs, made, calls, looked>>

(***************************************************************************)
(* prepare_batch_from_images.                                              *)
(***************************************************************************)
\* The images of the last batch in group order, which need not be source order.
ImagesOf(b) == FlattenSeq([g \in DOMAIN b.groups |-> b.groups[g].images])

\* Mutant: the retargeted image keeps the contract, and with it the cell.
Retarget_Bug(c, l, id) == [c EXCEPT !.layout = l]
\* A changed layout has a contract, and a reconstruction cell, of its own.
Retarget(c, l, id) == IF c.layout = l THEN c ELSE Contract(c.input, l, id)

\* Regroup the images of the last batch for a decoder with layout l; a layout
\* that one of them does not support fails the call.
Regroup(k, l) ==
  LET images == ImagesOf(returned[k])
  IN  /\ phase[k] = "idle"
      /\ images # <<>>
      /\ calls[k] < MaxCalls
      /\ calls' = [calls EXCEPT ![k] = @ + 1]
      /\ IF \E i \in DOMAIN images :
              images[i].contract.layout # l /\ LayoutRefused(images[i].contract.input, l)
         THEN /\ returned' = [returned EXCEPT ![k] = NoBatch]
              /\ UNCHANGED <<batch, resolved>>
         ELSE LET results == [i \in DOMAIN images |->
                                Retarget(images[i].contract, l, <<k, calls[k] + 1, i>>)]
              IN  /\ batch' = [batch EXCEPT ![k] = [i \in DOMAIN images |-> images[i].contract.input]]
                  /\ resolved' = [resolved EXCEPT ![k] = results]
                  /\ returned' = [returned EXCEPT ![k] =
                                    Grouped(results, [i \in DOMAIN images |-> images[i].origin])]
      /\ UNCHANGED <<entries, phase, jobs, made, looked>>

-----------------------------------------------------------------------------
CallerStep(k) ==
  \/ Call(k)
  \/ LookupHit(k)
  \/ JoinJob(k)
  \/ NewJob(k)
  \/ PrepareJobs(k)
  \/ StoreJob(k)
  \/ Return(k)
  \/ \E l \in Layouts : Regroup(k, l)

AllCallsMade == (\A k \in Callers : phase[k] = "idle" /\ calls[k] = MaxCalls) /\ UNCHANGED vars

Next == (\E k \in Callers : CallerStep(k)) \/ AllCallsMade

Spec == Init /\ [][Next]_vars

-----------------------------------------------------------------------------
(***************************************************************************)
(* Properties.                                                             *)
(***************************************************************************)
Ids       == {<<>>} \cup (Callers \X (1..MaxCalls) \X Nat)
Contracts == [input : Inputs, layout : Layouts, id : Ids]

\* Types; insert keeps the cache within its limit, a disabled cache empty.
TypeOK ==
  /\ entries \in Seq(Contracts)
  /\ Len(entries) <= MaxEntries
  /\ \A p \in DOMAIN entries : ~Failed(entries[p])
  /\ phase \in [Callers -> {"idle", "lookup", "store"}]
  /\ \A k \in Callers :
       /\ batch[k] \in Seq(Inputs)
       /\ DOMAIN resolved[k] \subseteq DOMAIN batch[k]
       /\ \A i \in DOMAIN resolved[k] : resolved[k][i] \in Contracts
       /\ made[k] \in Seq(Contracts)
       /\ phase[k] = "lookup" => looked[k] \in 0..Len(batch[k])
  /\ calls \in [Callers -> 0..MaxCalls]

\* Strictly increasing source indices.
Ascending(s) == \A p, q \in DOMAIN s : p < q => s[p] < s[q]

\* A returned batch partitions its inputs: every source index is in one group
\* or in the errors, although indices were spread over cache hits and jobs, by a
\* contract of that very input; equal output contracts are in one group, groups
\* and their images are in first-occurrence order (docs: "stable first-occurrence
\* order").
StableGroups ==
  \A k \in Callers : LET b == returned[k] IN
    /\ Ascending(b.errors)
    /\ \A g \in DOMAIN b.groups :
         /\ Ascending(b.groups[g].indices)
         /\ \A p \in DOMAIN b.groups[g].indices :
              LET i == b.groups[g].indices[p]
              IN  /\ b.groups[g].images[p].contract = resolved[k][i]
                  /\ b.groups[g].images[p].contract.input = batch[k][i]
                  /\ Info(resolved[k][i]) = b.groups[g].info
    /\ \A g, h \in DOMAIN b.groups :
         g < h => /\ b.groups[g].info # b.groups[h].info
                  /\ b.groups[g].indices[1] < b.groups[h].indices[1]
    /\ b # NoBatch =>
         \A i \in DOMAIN batch[k] :
           \/ \E p \in DOMAIN b.errors : b.errors[p] = i
           \/ \E g \in DOMAIN b.groups : \E p \in DOMAIN b.groups[g].indices :
                b.groups[g].indices[p] = i

\* Duplicates of a batch share one contract, hence one reconstruction cell
\* (docs: "duplicate prepared images share an optional coefficient-ready
\* PreparedReconstruction").  Retargeted images are not such duplicates.
DuplicatesShare ==
  \A k \in Callers : \A i, j \in DOMAIN resolved[k] :
    /\ phase[k] = "store"
    /\ resolved[k][i].input = resolved[k][j].input
    => resolved[k][i].id = resolved[k][j].id

\* While one thread calls, and so its lookups and insertions are not interleaved
\* with others, they do.
DuplicatesShareAlone ==
  Cardinality({k \in Callers : calls[k] > 0}) = 1 => DuplicatesShare

\* One allocation never serves two layouts: a retargeted image does not reach
\* the cell of the image it was made from.
LayoutsApart ==
  \A k, l \in Callers : \A i \in DOMAIN resolved[k], j \in DOMAIN resolved[l] :
    /\ ~Failed(resolved[k][i])
    /\ resolved[k][i].id = resolved[l][j].id
    => resolved[k][i] = resolved[l][j]
=============================================================================
