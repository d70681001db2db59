------------------------- MODULE MetalBatchPipeline -------------------------
(***************************************************************************)
(* MetalBatchDecoder::submit_prepared and SubmittedMetalPreparedBatch.     *)
(*                                                                         *)
(* The session thread takes a homogeneous group chunk by chunk.  Within    *)
(* one scope the worker pool decodes the entropy of the new chunk into a   *)
(* staging allocation while the session thread encodes and commits the     *)
(* chunk before it; the GPU runs committed commands meanwhile.  A staging  *)
(* allocation returns to its pool when the last plan, encoding or          *)
(* submission that references it is dropped, and dropping a submission     *)
(* waits for its command.                                                  *)
(***************************************************************************)
EXTENDS Integers, Sequences, FiniteSets, SequencesExt

CONSTANTS
  Batch,          \* the groups of the prepared batch, each its source indices
  PreparedErrors, \* source indices that failed in preparation
  ChunkImages,    \* PIPELINE_CHUNK_IMAGES
  ScratchImages,  \* plans of one batch_groups range (a byte budget in the code)
  CommandImages,  \* BATCH_IMAGES_PER_COMMAND
  Buffers,        \* staging allocations, pooled or not yet made
  Faults          \* bound: what may go wrong, of AllFaults

AllFaults == {"count", "stage", "entropy", "encode", "encode_later", "gpu"}

ASSUME BatchAssumption ==
  /\ Batch \in Seq(Seq(Nat)) /\ PreparedErrors \in Seq(Nat) /\ IsInjective(PreparedErrors)
  /\ \A g \in DOMAIN Batch : /\ Batch[g] # <<>> /\ IsInjective(Batch[g])
                             /\ ToSet(Batch[g]) \cap ToSet(PreparedErrors) = {}
  /\ \A g, h \in DOMAIN Batch : g # h => ToSet(Batch[g]) \cap ToSet(Batch[h]) = {}
  /\ "none" \notin Buffers
  /\ {ChunkImages, ScratchImages, CommandImages} \subseteq Nat \ {0}
  /\ Faults \subseteq AllFaults

VARIABLES
  group,      \* index of the group submit_prepared works on
  step,       \* where the session thread stands
  candidates, \* source indices of the group not yet in a chunk
  staged,     \* the chunk whose entropy the pool decodes, or Nothing
  planned,    \* the plans the pool made of it, or Nothing
  prepared,   \* the chunk that is ready to be submitted, or Nothing
  encoder,    \* the submit_batch call under way, or Nothing
  pending,    \* PendingGroup
  commands,   \* committed commands, by number
  errors, groups, groupErrors  \* the submitted batch and, at the end, the result

chunks  == <<candidates, staged, planned, prepared>>
results == <<errors, groups, groupErrors>>
vars    == <<group, step, chunks, encoder, pending, commands, results>>

Nothing == [items |-> <<>>, buffer |-> "none"]
NoEncoder == [running |-> FALSE, todo |-> <<>>, range |-> 0, encoded |-> <<>>, submitted |-> <<>>,
              failed |-> FALSE]
NoPending == [indices |-> <<>>, submissions |-> <<>>, failed |-> FALSE]

Init ==
  /\ group      = 1
  /\ step       = "group"
  /\ candidates = <<>>
  /\ staged     = Nothing
  /\ planned    = Nothing
  /\ prepared   = Nothing
  /\ encoder    = NoEncoder
  /\ pending    = NoPending
  /\ commands   = <<>>
  /\ errors     = PreparedErrors
  /\ groups     = <<>>
  /\ groupErrors = <<>>

Take(s, n) == SubSeq(s, 1, IF n < Len(s) THEN n ELSE Len(s))
\* Mutant: the next chunk starts at the last image of this one.
Skip_Bug(s, n) == SubSeq(s, n, Len(s))
Skip(s, n) == SubSeq(s, n + 1, Len(s))
Keep(s, S) == FlattenSeq([k \in DOMAIN s |-> IF s[k] \in S THEN <<s[k]>> ELSE <<>>])

\* The k-th index is the one with k indices up to it.
Sorted(s) ==
  LET rank(j) == Cardinality({i \in DOMAIN s : s[i] < s[j] \/ (s[i] = s[j] /\ i <= j)})
  IN  [k \in DOMAIN s |-> s[CHOOSE j \in DOMAIN s : rank(j) = k]]

Completed(c) == commands[c].state # "running"

-----------------------------------------------------------------------------
(***************************************************************************)
(* Staging.                                                                *)
(***************************************************************************)
CommandsOf(submissions) == ToSet(FlattenSeq(submissions))

\* Commands some encoding or submission still leases the staging of.
Leased ==
  ToSet(encoder.encoded)
    \cup ToSet(encoder.submitted)
    \cup CommandsOf(pending.submissions)
    \cup UNION {CommandsOf(groups[g].submissions) : g \in DOMAIN groups}

\* Mutant: a submission does not lease the staging its command reads.
Referenced_Bug(b) == \E chunk \in {staged, planned, prepared} : chunk.buffer = b
\* An allocation is out of the pool while a slice, a plan or a lease references it.
Referenced(b) ==
  \/ staged.buffer = b
  \/ \E chunk \in {planned, prepared} : chunk.buffer = b /\ chunk.items # <<>>
  \/ \E c \in Leased : commands[c].buffer = b

(***************************************************************************)
(* The loop of submit_group.                                               *)
(***************************************************************************)
\* count_candidates: requests and headers that fail become indexed errors.
CountCandidates ==
  /\ step = "group"
  /\ group <= Len(Batch)
  /\ \E S \in IF "count" \in Faults THEN SUBSET ToSet(Batch[group]) ELSE {{}} :
       /\ candidates' = Keep(Batch[group], ToSet(Batch[group]) \ S)
       /\ errors' = errors \o Keep(Batch[group], S)
  /\ pending' = NoPending
  /\ step' = "chunk"
  /\ UNCHANGED <<group, staged, planned, prepared, encoder, commands, groups, groupErrors>>

MoreChunks == candidates # <<>> \/ prepared.buffer # "none"

\* stage_chunk, for the next chunk of a group that has not failed.
StageChunk ==
  /\ step = "chunk"
  /\ candidates # <<>>
  /\ ~pending.failed
  /\ \E b \in Buffers :
       /\ ~Referenced(b)
       /\ staged' = [items |-> Take(candidates, ChunkImages), buffer |-> b]
  /\ candidates' = Skip(candidates, ChunkImages)
  /\ step' = "scope"
  /\ UNCHANGED <<group, planned, prepared, encoder, pending, commands, results>>

\* Mutant: a chunk that cannot be staged is forgotten.
Unstaged_Bug(chunk) == <<>>
\* The images a failed group covers although they were never staged.
Unstaged(chunk) == chunk

\* stage_chunk when the allocation fails or the group already has.
FailChunk ==
  /\ step = "chunk"
  /\ candidates # <<>>
  /\ pending.failed \/ "stage" \in Faults
  /\ pending' = [pending EXCEPT !.indices = @ \o Unstaged(Take(candidates, ChunkImages)),
                                !.failed = TRUE]
  /\ candidates' = Skip(candidates, ChunkImages)
  /\ step' = "scope"
  /\ UNCHANGED <<group, staged, planned, prepared, encoder, commands, results>>

\* Mutant: the loop goes on without a chunk to submit.
DrainChunks_Bug ==
  /\ step = "chunk"
  /\ candidates = <<>>
  /\ step' = "scope"
  /\ UNCHANGED <<group, chunks, encoder, pending, commands, results>>
\* The last iteration has no new chunk.
DrainChunks ==
  /\ step = "chunk"
  /\ candidates = <<>>
  /\ prepared.buffer # "none"
  /\ step' = "scope"
  /\ UNCHANGED <<group, chunks, encoder, pending, commands, results>>

\* The pool decodes the staged chunk, each image into its slice.
DecodeEntropy ==
  /\ step \in {"scope", "encode"}
  /\ staged.buffer # "none"
  /\ planned.buffer = "none"
  /\ \E S \in IF "entropy" \in Faults THEN SUBSET ToSet(staged.items) ELSE {ToSet(staged.items)} :
       planned' = [items |-> Keep(staged.items, S), buffer |-> staged.buffer]
  /\ UNCHANGED <<group, step, candidates, staged, prepared, encoder, pending, commands, results>>

(***************************************************************************)
(* PendingGroup::submit and MetalDecoderSession::submit_batch.             *)
(***************************************************************************)
\* Nothing to submit, or a group that failed: only the images are recorded.
RecordOnly ==
  /\ step = "scope"
  /\ prepared.buffer # "none"
  /\ prepared.items = <<>> \/ pending.failed
  /\ pending' = [pending EXCEPT !.indices = @ \o prepared.items]
  /\ prepared' = Nothing
  /\ UNCHANGED <<group, step, candidates, staged, planned, encoder, commands, results>>

BeginSubmit ==
  /\ step = "scope"
  /\ prepared.items # <<>>
  /\ ~pending.failed
  /\ encoder' = [NoEncoder EXCEPT !.running = TRUE, !.todo = prepared.items, !.range = ScratchImages]
  /\ step' = "encode"
  /\ UNCHANGED <<group, chunks, pending, commands, results>>

\* Mutant: one image too few is taken of what the range has left.
NextCommand_Bug == Take(encoder.todo, encoder.range - 1)
\* Images of the next command: a chunk of the current batch_groups range.
NextCommand == Take(encoder.todo, IF CommandImages < encoder.range THEN CommandImages ELSE encoder.range)

\* Encode and commit one command.  When the range is complete its encodings
\* become submissions, which from then on wait when they are dropped.
CommitCommand ==
  /\ step = "encode"
  /\ encoder.todo # <<>>
  /\ ~encoder.failed
  /\ commands' = Append(commands, [images |-> NextCommand, buffer |-> prepared.buffer, state |-> "running"])
  /\ LET rest  == Skip(encoder.todo, Len(NextCommand))
         range == encoder.range - Len(NextCommand)
         all   == Append(encoder.encoded, Len(commands) + 1)
     IN  encoder' = IF rest = <<>> \/ range = 0
                    THEN [encoder EXCEPT !.todo = rest, !.range = ScratchImages,
                                         !.encoded = <<>>, !.submitted = @ \o all]
                    ELSE [encoder EXCEPT !.todo = rest, !.range = range, !.encoded = all]
  /\ UNCHANGED <<group, step, chunks, pending, results>>

\* Encoding a command fails before it is committed.  The encodings of the range
\* are dropped with their leases, although their commands were committed: a
\* fault "encode_later" when there are any.
FailEncoding ==
  /\ step = "encode"
  /\ (IF encoder.encoded = <<>> THEN "encode" ELSE "encode_later") \in Faults
  /\ encoder.todo # <<>>
  /\ ~encoder.failed
  /\ encoder' = [encoder EXCEPT !.encoded = <<>>, !.failed = TRUE]
  /\ UNCHANGED <<group, step, chunks, pending, commands, results>>

\* submit_batch returns, after the submissions of complete ranges were waited
\* for if it failed, and the images of the chunk are recorded either way.
EndSubmit ==
  /\ step = "encode"
  /\ \/ encoder.todo = <<>>
     \/ encoder.failed /\ \A c \in ToSet(encoder.submitted) : Completed(c)
  /\ pending' = [indices     |-> pending.indices \o prepared.items,
                 submissions |-> IF encoder.failed THEN pending.submissions
                                 ELSE Append(pending.submissions, encoder.submitted),
                 failed      |-> encoder.failed]
  /\ encoder' = NoEncoder
  /\ prepared' = Nothing
  /\ step' = "scope"
  /\ UNCHANGED <<group, candidates, staged, planned, commands, results>>

\* Mutant: the errors of a chunk are those of its staging, not of its plans.
DecodeErrors_Bug == <<>>
DecodeErrors == Keep(staged.items, ToSet(staged.items) \ ToSet(planned.items))

\* The scope joins both sides; classify_planned makes the next prepared chunk.
JoinScope ==
  /\ step = "scope"
  /\ prepared.buffer = "none"
  /\ staged.buffer # "none" => planned.buffer # "none"
  /\ errors' = errors \o DecodeErrors
  /\ prepared' = planned
  /\ staged' = Nothing
  /\ planned' = Nothing
  /\ step' = "chunk"
  /\ UNCHANGED <<group, candidates, encoder, pending, commands, groups, groupErrors>>

\* PendingGroup::finish.  A failed group first waits for what it submitted.
FinishGroup ==
  /\ step = "chunk"
  /\ ~MoreChunks
  /\ IF pending.failed
     THEN /\ \A c \in CommandsOf(pending.submissions) : Completed(c)
          /\ groupErrors' = Append(groupErrors, pending.indices)
          /\ UNCHANGED groups
     ELSE /\ groups' = IF pending.indices = <<>> THEN groups
                       ELSE Append(groups, [indices     |-> pending.indices,
                                            submissions |-> pending.submissions,
                                            images      |-> <<>>])
          /\ UNCHANGED groupErrors
  /\ pending' = NoPending
  /\ group' = group + 1
  /\ step' = "group"
  /\ UNCHANGED <<chunks, encoder, commands, errors>>

\* submit_prepared sorts the errors and returns the pending batch.
ReturnBatch ==
  /\ step = "group"
  /\ group > Len(Batch)
  /\ errors' = Sorted(errors)
  /\ step' = "submitted"
  /\ UNCHANGED <<group, chunks, encoder, pending, commands, groups, groupErrors>>

(***************************************************************************)
(* The GPU, and waiting for it.                                            *)
(***************************************************************************)
\* A command completes; a failure is a command error or a nonzero status.
CompleteCommand(c) ==
  /\ commands[c].state = "running"
  /\ \E s \in IF "gpu" \in Faults THEN {"ok", "bad"} ELSE {"ok"} :
       commands' = [commands EXCEPT ![c].state = s]
  /\ UNCHANGED <<group, step, chunks, encoder, pending, results>>

\* Mutant: the submissions of a group are popped, the last chunk first.
Resident_Bug(submissions) ==
  LET order == FlattenSeq(Reverse(submissions))
  IN  FlattenSeq([k \in DOMAIN order |-> commands[order[k]].images])
\* Images of a group in resident order.
Resident(submissions) ==
  LET order == FlattenSeq(submissions)
  IN  FlattenSeq([k \in DOMAIN order |-> commands[order[k]].images])

Waiting == {g \in DOMAIN groups : groups[g].submissions # <<>>}

\* SubmittedMetalPreparedBatch::wait takes the groups in order and waits for
\* every submission of a group even after one failed.
WaitGroup ==
  /\ step \in {"submitted", "waiting"}
  /\ Waiting # {}
  /\ LET g == CHOOSE g \in Waiting : \A h \in Waiting : g <= h
         mine == CommandsOf(groups[g].submissions)
     IN  /\ \A c \in mine : Completed(c)
         /\ IF \A c \in mine : commands[c].state = "ok"
            THEN /\ groups' = [groups EXCEPT ![g] = [indices |-> @.indices, submissions |-> <<>>,
                                                     images  |-> Resident(@.submissions)]]
                 /\ UNCHANGED groupErrors
            ELSE /\ groups' = RemoveAt(groups, g)
                 /\ groupErrors' = Append(groupErrors, groups[g].indices)
  /\ step' = "waiting"
  /\ UNCHANGED <<group, chunks, encoder, pending, commands, errors>>

ReturnResult ==
  /\ step \in {"submitted", "waiting"}
  /\ Waiting = {}
  /\ step' = "returned"
  /\ UNCHANGED <<group, chunks, encoder, pending, commands, results>>

\* Mutant: a dropped submission does not wait for its command.
DropBatch_Bug ==
  /\ step = "submitted"
  /\ step' = "dropped"
  /\ UNCHANGED <<group, chunks, encoder, pending, commands, results>>
\* The caller drops the pending batch instead: every submission is waited for.
DropBatch ==
  /\ step = "submitted"
  /\ \A g \in DOMAIN groups : \A c \in CommandsOf(groups[g].submissions) : Completed(c)
  /\ step' = "dropped"
  /\ UNCHANGED <<group, chunks, encoder, pending, commands, results>>

-----------------------------------------------------------------------------
Submission ==
  \/ CountCandidates \/ StageChunk \/ FailChunk \/ DrainChunks
  \/ RecordOnly \/ BeginSubmit \/ CommitCommand \/ FailEncoding \/ EndSubmit
  \/ JoinScope \/ FinishGroup \/ ReturnBatch

Waits == WaitGroup \/ ReturnResult

Gpu == \E c \in DOMAIN commands : CompleteCommand(c)

Over == step \in {"returned", "dropped"} /\ UNCHANGED vars

Next == Submission \/ DecodeEntropy \/ Gpu \/ Waits \/ DropBatch \/ Over

Spec == Init /\ [][Next]_vars

\* The thread inside submit_prepared, or inside wait, keeps running, the pool
\* runs what was spawned, and the device completes what was committed.
FairSpec ==
  /\ Spec
  /\ WF_vars(Submission)
  /\ WF_vars(DecodeEntropy)
  /\ WF_vars(Gpu)
  /\ WF_vars(step = "waiting" /\ Waits)

-----------------------------------------------------------------------------
(***************************************************************************)
(* Properties.                                                             *)
(***************************************************************************)
Indices == UNION {ToSet(Batch[g]) : g \in DOMAIN Batch}
Chunks  == [items : Seq(Indices), buffer : Buffers \cup {"none"}]

\* Types of the pipeline.
TypeOK ==
  /\ group \in 1..Len(Batch) + 1
  /\ step \in {"group", "chunk", "scope", "encode", "submitted", "waiting", "returned", "dropped"}
  /\ candidates \in Seq(Indices)
  /\ {staged, planned, prepared} \subseteq Chunks
  /\ pending.indices \in Seq(Indices)
  /\ \A c \in DOMAIN commands :
       /\ commands[c].images \in Seq(Indices) \ {<<>>}
       /\ commands[c].buffer \in Buffers
       /\ commands[c].state \in {"running", "ok", "bad"}
  /\ Leased \subseteq DOMAIN commands

\* The pool never decodes entropy into an allocation that a command on the GPU
\* may still read (coefficient_staging.rs: "a later preparation can never
\* overwrite coefficients the GPU still reads").
StagingUnshared ==
  staged.buffer # "none" =>
    \A c \in DOMAIN commands :
      commands[c].buffer = staged.buffer => Completed(c)

\* The images in any of the three results.
Accounted ==
  errors \o FlattenSeq([g \in DOMAIN groups |-> groups[g].indices]) \o FlattenSeq(groupErrors)

\* The images of a completed group are the ones its indices name, in order,
\* although chunks were decoded, committed and completed out of step.
ResidentOrder ==
  \A g \in DOMAIN groups :
    groups[g].submissions = <<>> => groups[g].images = groups[g].indices

\* No image is accounted for twice, in whichever result and after whatever failed
\* before, and when the result is returned every input is in it (docs: input-local
\* errors "remain indexed rather than failing valid siblings"), its images in the
\* order of its indices.
EveryImageAccounted ==
  /\ IsInjective(Accounted)
  /\ ResidentOrder
  /\ step \in {"submitted", "returned"} =>
       ToSet(Accounted) = Indices \cup ToSet(PreparedErrors)

\* When a result has been returned or dropped, no command runs on.
NothingRunsOn ==
  step \in {"returned", "dropped"} => \A c \in DOMAIN commands : Completed(c)

\* submit_prepared returns whatever fails, and so does a wait once it began: both
\* wait for commands while the worker pool decodes.
CallsReturn ==
  /\ <>(step \notin {"group", "chunk", "scope", "encode"})
  /\ step = "waiting" ~> step = "returned"

(***************************************************************************)
(* The outcome of each image, as BatchOutcomes sees it.                    *)
(***************************************************************************)
GroupOf == [i \in Indices |-> CHOOSE g \in DOMAIN Batch : i \in ToSet(Batch[g])]

Outcome(i) ==
  IF i \in ToSet(errors) THEN "error"
  ELSE IF \E e \in DOMAIN groupErrors : i \in ToSet(groupErrors[e]) THEN "group_error"
  ELSE IF \E g \in DOMAIN groups : i \in ToSet(groups[g].indices)
  THEN IF \E g \in DOMAIN groups : i \in ToSet(groups[g].images) THEN "complete" ELSE "submitted"
  ELSE "pending"

Promise == INSTANCE BatchOutcomes WITH
  Images  <- Indices \cup ToSet(PreparedErrors),
  Groups  <- DOMAIN Batch,
  GroupOf <- GroupOf,
  outcome <- [i \in Indices \cup ToSet(PreparedErrors) |-> Outcome(i)]

\* submit_prepared and wait keep the promise every batch decoder makes.
KeepsPromise == Promise!Spec
=============================================================================
