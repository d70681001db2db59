---------------------------- MODULE CudaSession ----------------------------
(***************************************************************************)
(* CudaDecoderSession, shared by the threads that hold a clone of it.      *)
(*                                                                         *)
(* A caller encodes the plans of a call one by one, each under the         *)
(* submission lock: coefficient arenas are found in the upload cache or    *)
(* copied to the device, scratch is taken from the exact-size pool, the    *)
(* kernels are launched on a stream and their completion event recorded.   *)
(* Waiting for a submission, or dropping it, waits for its event and       *)
(* returns its scratch to the pool, without the submission lock.           *)
(***************************************************************************)
EXTENDS Integers, Sequences, FiniteSets, SequencesExt, Totals

CONSTANTS
  Callers,      \* threads that share the session
  Calls,        \* the calls each of them makes: [dense |-> BOOLEAN, plans |-> sequence of plans]
  PlanArenas,   \* coefficient arenas each plan reads
  PlanScratch,  \* sizes of the scratch each plan needs: low-pass and samples
  ArenaBytes,   \* size of each arena on the device
  Streams,      \* DEFAULT_STREAMS
  Budget,       \* BATCH_SCRATCH_BUDGET
  PoolBytes, BufferBytes,    \* MAX_RETAINED_BYTES and MAX_BUFFER_BYTES of the pool
  CacheEntries, CacheBytes,  \* MAX_CACHE_ENTRIES and MAX_CACHE_BYTES
  Faults        \* bound: what may go wrong, of {"encode", "kernel"}

Plans  == DOMAIN PlanScratch
Arenas == DOMAIN ArenaBytes

ASSUME SessionAssumption ==
  /\ "free" \notin Callers
  /\ {Streams, CacheEntries} \subseteq Nat \ {0}
  /\ {Budget, PoolBytes, BufferBytes, CacheBytes} \subseteq Nat
  /\ \A p \in Plans : PlanScratch[p] \in Seq(Nat \ {0}) /\ Len(PlanScratch[p]) = 2
  /\ PlanArenas \in [Plans -> Seq(Arenas)]
  /\ ArenaBytes \in [Arenas -> Nat]
  /\ Calls \in [Callers -> Seq([dense : BOOLEAN, plans : Seq(Plans)])]

VARIABLES
  lock,      \* the caller that holds submission_lock, or "free"
  call,      \* the call each caller is in
  outcomes,  \* how the calls of each caller ended
  pool,      \* CudaBufferPool: retained scratch buffers, oldest first, and its counters
  sizes,     \* size of every scratch buffer ever allocated
  freed,     \* scratch buffers that were given back to the device
  cache,     \* CudaUploadCache: entries, least recently used first, and its byte count
  copies,    \* every upload: arena, stream and whether the copy has run
  commands,  \* every launched plan
  streams    \* what each stream still has to run

session == <<lock, call, outcomes>>
memory  == <<pool, sizes, freed>>
uploads == <<cache, copies>>
vars    == <<session, memory, uploads, commands, streams>>

StreamIds == 0..Streams - 1

NoCall == [pc |-> "idle", plan |-> 1, copies |-> <<>>, scratch |-> <<>>,
           submissions |-> <<>>, issued |-> <<>>, failed |-> FALSE]

Init ==
  /\ lock     = "free"
  /\ call     = [t \in Callers |-> NoCall]
  /\ outcomes = [t \in Callers |-> <<>>]
  /\ pool     = [buffers |-> <<>>, bytes |-> 0, highWater |-> 0]
  /\ sizes    = <<>>
  /\ freed    = {}
  /\ cache    = [entries |-> <<>>, bytes |-> 0]
  /\ copies   = <<>>
  /\ commands = <<>>
  /\ streams  = [s \in StreamIds |-> <<>>]

\* Mutant: one entry more than the eviction accounts for is dropped.
Rest_Bug(s, n) == SubSeq(s, n + 2, Len(s))
Rest(s, n) == SubSeq(s, n + 1, Len(s))

Current(t) == Calls[t][Len(outcomes[t]) + 1]
PlansOf(t)   == Current(t).plans
Plan(t)    == PlansOf(t)[call[t].plan]

\* submit_batch spreads its plans over the streams, everything else uses stream 0.
StreamOf(t) == IF Current(t).dense THEN 0 ELSE (call[t].plan - 1) % Streams

Goto(t, pc) == call' = [call EXCEPT ![t].pc = pc]
Enqueue(s, op) == streams' = [streams EXCEPT ![s] = Append(@, op)]

-----------------------------------------------------------------------------
(***************************************************************************)
(* CudaBufferPool.                                                         *)
(***************************************************************************)
BytesOf(buffers) == Total([k \in DOMAIN buffers |-> sizes[buffers[k]]])

\* Retained buffers of exactly this size, by position.
Fitting(size) == {k \in DOMAIN pool.buffers : sizes[pool.buffers[k]] = size}

\* take, for the next scratch buffer of a plan: the oldest fitting one, or a new one.
TakeScratch(t) ==
  LET size == PlanScratch[Plan(t)][Len(call[t].scratch) + 1]
      hit  == CHOOSE k \in Fitting(size) : \A j \in Fitting(size) : k <= j
  IN  /\ call[t].pc = "scratch"
      /\ Len(call[t].scratch) < Len(PlanScratch[Plan(t)])
      /\ IF Fitting(size) # {}
         THEN /\ call' = [call EXCEPT ![t].scratch = Append(@, pool.buffers[hit])]
              /\ pool' = [pool EXCEPT !.buffers = RemoveAt(@, hit), !.bytes = @ - size]
              /\ UNCHANGED sizes
         ELSE /\ call' = [call EXCEPT ![t].scratch = Append(@, Len(sizes) + 1)]
              /\ sizes' = Append(sizes, size)
              /\ UNCHANGED pool
  /\ UNCHANGED <<lock, outcomes, freed, uploads, commands, streams>>

\* Mutant: the bound is checked before the new buffer is counted.
Fits_Bug(n, size) == BytesOf(Rest(pool.buffers, n)) <= PoolBytes
\* A buffer fits once the n oldest retained ones are evicted.
Fits(n, size) == BytesOf(Rest(pool.buffers, n)) + size <= PoolBytes

\* recycle: a buffer that is too large is freed, older ones make room for others.
Recycle(buffer) ==
  LET size == sizes[buffer]
      n    == CHOOSE k \in 0..Len(pool.buffers) :
                Fits(k, size) /\ \A j \in 0..k - 1 : ~Fits(j, size)
      kept == pool.bytes - BytesOf(SubSeq(pool.buffers, 1, n)) + size
  IN  IF size > BufferBytes \/ size > PoolBytes
      THEN /\ freed' = freed \cup {buffer}
           /\ UNCHANGED pool
      ELSE /\ pool' = [buffers   |-> Append(Rest(pool.buffers, n), buffer),
                       bytes     |-> kept,
                       highWater |-> IF kept > pool.highWater THEN kept ELSE pool.highWater]
           /\ freed' = freed \cup ToSet(SubSeq(pool.buffers, 1, n))

-----------------------------------------------------------------------------
(***************************************************************************)
(* CudaUploadCache::get_or_upload, for the next arena of a plan.           *)
(***************************************************************************)
NextArena(t) == PlanArenas[Plan(t)][Len(call[t].copies) + 1]

\* Mutant: an entry serves every stream.
Serves_Bug(entry, t) == copies[entry].arena = NextArena(t)
\* An entry serves the stream its copy was enqueued on.
Serves(entry, t) == copies[entry].arena = NextArena(t) /\ copies[entry].stream = StreamOf(t)

FindUpload(t) ==
  /\ call[t].pc = "upload"
  /\ Len(call[t].copies) < Len(PlanArenas[Plan(t)])
  /\ IF \E k \in DOMAIN cache.entries : Serves(cache.entries[k], t)
     THEN LET hit == SelectInSeq(cache.entries, LAMBDA e : Serves(e, t))
              e   == cache.entries[hit]
          IN  /\ cache' = [cache EXCEPT !.entries = Append(RemoveAt(@, hit), e)]
              /\ call' = [call EXCEPT ![t].copies = Append(@, e)]
     ELSE /\ Goto(t, "copy")
          /\ UNCHANGED cache
  /\ UNCHANGED <<lock, outcomes, memory, copies, commands, streams>>

\* The host arena is copied while the cache is unlocked.
CopyArena(t) ==
  /\ call[t].pc = "copy"
  /\ copies' = Append(copies, [arena |-> NextArena(t), stream |-> StreamOf(t), done |-> FALSE])
  /\ Enqueue(StreamOf(t), [kind |-> "copy", id |-> Len(copies) + 1])
  /\ Goto(t, "insert")
  /\ UNCHANGED <<lock, outcomes, memory, cache, commands>>

CachedBytes(entries) == Total([k \in DOMAIN entries |-> ArenaBytes[copies[entries[k]].arena]])

HasRoom(n, bytes) ==
  /\ Len(cache.entries) - n < CacheEntries
  /\ CachedBytes(Rest(cache.entries, n)) + bytes <= CacheBytes

\* The copy of this caller is the last one: the submission lock is still held.
InsertUpload(t) ==
  LET copy  == Len(copies)
      bytes == ArenaBytes[NextArena(t)]
      n     == CHOOSE k \in 0..Len(cache.entries) :
                 HasRoom(k, bytes) /\ \A j \in 0..k - 1 : ~HasRoom(j, bytes)
  IN  /\ call[t].pc = "insert"
      /\ cache' = IF bytes > CacheBytes THEN cache
                  ELSE [entries |-> Append(Rest(cache.entries, n), copy),
                        bytes   |-> cache.bytes - CachedBytes(SubSeq(cache.entries, 1, n)) + bytes]
      /\ call' = [call EXCEPT ![t].copies = Append(@, copy), ![t].pc = "upload"]
      /\ UNCHANGED <<lock, outcomes, memory, copies, commands, streams>>

-----------------------------------------------------------------------------
(***************************************************************************)
(* submit, submit_batch, submit_dense_batch and their _into forms.         *)
(***************************************************************************)
ScratchBytes(plans) == Total([k \in DOMAIN plans |-> Total(PlanScratch[plans[k]])])

\* check_batch_scratch refuses a call before anything is encoded, and so does
\* submit_dense_batch without a plan; submit_batch then has nothing to encode.
Refused(t) == ScratchBytes(PlansOf(t)) > Budget \/ (Current(t).dense /\ PlansOf(t) = <<>>)

BeginCall(t) ==
  /\ call[t].pc = "idle"
  /\ Len(outcomes[t]) < Len(Calls[t])
  /\ IF Refused(t)
     THEN outcomes' = [outcomes EXCEPT ![t] = Append(@, [result |-> "refused", commands |-> <<>>])]
          /\ UNCHANGED call
     ELSE Goto(t, IF PlansOf(t) = <<>> THEN "submitted" ELSE "lock") /\ UNCHANGED outcomes
  /\ UNCHANGED <<lock, memory, uploads, commands, streams>>

\* Mutant: plans are encoded without the submission lock.
Lock_Bug(t) ==
  /\ call[t].pc = "lock"
  /\ lock' = t
  /\ Goto(t, "upload")
  /\ UNCHANGED <<outcomes, memory, uploads, commands, streams>>
\* encode_impl holds submission_lock until it returns.
Lock(t) ==
  /\ call[t].pc = "lock"
  /\ lock = "free"
  /\ lock' = t
  /\ Goto(t, "upload")
  /\ UNCHANGED <<outcomes, memory, uploads, commands, streams>>

UploadsFound(t) ==
  /\ call[t].pc = "upload"
  /\ Len(call[t].copies) = Len(PlanArenas[Plan(t)])
  /\ Goto(t, "scratch")
  /\ UNCHANGED <<lock, outcomes, memory, uploads, commands, streams>>

Command(t) == [scratch |-> call[t].scratch, held |-> call[t].scratch,
               copies |-> call[t].copies, stream |-> StreamOf(t), state |-> "queued"]

\* The kernels and the completion event of a plan; the lock guard is dropped.
Launch(t) ==
  /\ call[t].pc = "scratch"
  /\ Len(call[t].scratch) = Len(PlanScratch[Plan(t)])
  /\ commands' = Append(commands, Command(t))
  /\ Enqueue(StreamOf(t), [kind |-> "run", id |-> Len(commands) + 1])
  /\ call' = [call EXCEPT ![t] = [call[t] EXCEPT
       !.pc          = IF call[t].plan < Len(PlansOf(t)) THEN "lock" ELSE "submitted",
       !.plan        = @ + 1,
       !.copies      = <<>>,
       !.scratch     = <<>>,
       !.submissions = Append(@, Len(commands) + 1),
       !.issued      = Append(@, Len(commands) + 1)]]
  /\ lock' = "free"
  /\ UNCHANGED <<outcomes, memory, uploads>>

\* Encoding fails: its scratch is freed, whether or not some kernels were launched
\* on it, and the submissions of earlier plans of the call are dropped.
FailEncode(t) ==
  /\ "encode" \in Faults
  /\ call[t].pc \in {"upload", "copy", "insert", "scratch"}
  /\ freed' = freed \cup ToSet(call[t].scratch)
  /\ \/ /\ Len(call[t].scratch) = Len(PlanScratch[Plan(t)])
        /\ commands' = Append(commands, [Command(t) EXCEPT !.held = <<>>])
        /\ Enqueue(StreamOf(t), [kind |-> "run", id |-> Len(commands) + 1])
     \/ UNCHANGED <<commands, streams>>
  /\ call' = [call EXCEPT ![t] = [call[t] EXCEPT
       !.pc = "drop", !.failed = TRUE, !.copies = <<>>, !.scratch = <<>>]]
  /\ lock' = "free"
  /\ UNCHANGED <<outcomes, pool, sizes, uploads>>

-----------------------------------------------------------------------------
(***************************************************************************)
(* Waiting for the submissions of a call, and dropping them.               *)
(***************************************************************************)
First(t) == Head(call[t].submissions)

\* Mutant: nothing waits for the event.
Completed_Bug(c) == TRUE
\* The completion event of a command has fired.
Completed(c) == commands[c].state # "queued"

\* The caller waits, or drops the pending call.
Wait(t) ==
  /\ call[t].pc = "submitted"
  /\ Goto(t, "wait")
  /\ UNCHANGED <<lock, outcomes, memory, uploads, commands, streams>>
DropCall(t) ==
  /\ call[t].pc = "submitted"
  /\ Goto(t, "drop")
  /\ UNCHANGED <<lock, outcomes, memory, uploads, commands, streams>>

\* complete: after the event, the status is read back through the stream.
ReadStatus(t) ==
  /\ call[t].pc = "wait"
  /\ call[t].submissions # <<>>
  /\ Completed(First(t))
  /\ Enqueue(commands[First(t)].stream, [kind |-> "status", id |-> First(t)])
  /\ Goto(t, "status")
  /\ UNCHANGED <<lock, outcomes, memory, uploads, commands>>

StatusRead(t) ==
  /\ call[t].pc = "status"
  /\ [kind |-> "status", id |-> First(t)] \notin ToSet(streams[commands[First(t)].stream])
  /\ Goto(t, "recycle")
  /\ UNCHANGED <<lock, outcomes, memory, uploads, commands, streams>>

\* recycle_scratch, one buffer at a time.
RecycleScratch(t) ==
  /\ \/ call[t].pc = "recycle"
     \/ call[t].pc = "drop" /\ call[t].submissions # <<>> /\ Completed(First(t))
  /\ commands[First(t)].held # <<>>
  /\ Recycle(Head(commands[First(t)].held))
  /\ commands' = [commands EXCEPT ![First(t)].held = Tail(@)]
  /\ UNCHANGED <<session, sizes, uploads, streams>>

\* Mutant: a kernel that failed does not fail the call.
Failed_Bug(t) == FALSE
\* A nonzero status fails the call, after the scratch was recycled.
Failed(t) == commands[First(t)].state = "bad"

\* Mutant: the settled submission stays in the call.
FinishSubmission_Bug(t) ==
  /\ call[t].pc \in {"recycle", "drop"}
  /\ call[t].submissions # <<>>
  /\ commands[First(t)].held = <<>>
  /\ call' = [call EXCEPT ![t] = [call[t] EXCEPT
       !.failed      = @ \/ (call[t].pc = "recycle" /\ Failed(t)),
       !.pc          = IF call[t].pc = "recycle" /\ ~Failed(t) THEN "wait" ELSE "drop"]]
  /\ UNCHANGED <<lock, outcomes, memory, uploads, commands, streams>>
\* The next submission; after a failure the rest are dropped, not waited for.
FinishSubmission(t) ==
  /\ call[t].pc \in {"recycle", "drop"}
  /\ call[t].submissions # <<>>
  /\ commands[First(t)].held = <<>>
  /\ call' = [call EXCEPT ![t] = [call[t] EXCEPT
       !.submissions = Tail(@),
       !.failed      = @ \/ (call[t].pc = "recycle" /\ Failed(t)),
       !.pc          = IF call[t].pc = "recycle" /\ ~Failed(t) THEN "wait" ELSE "drop"]]
  /\ UNCHANGED <<lock, outcomes, memory, uploads, commands, streams>>

\* The call returns, and with it its output or its destination.
Return(t) ==
  /\ call[t].pc \in {"wait", "drop"}
  /\ call[t].submissions = <<>>
  /\ outcomes' = [outcomes EXCEPT ![t] = Append(@,
       [result   |-> IF call[t].failed THEN "error" ELSE IF call[t].pc = "wait" THEN "ok" ELSE "dropped",
        commands |-> call[t].issued])]
  /\ call' = [call EXCEPT ![t] = NoCall]
  /\ UNCHANGED <<lock, memory, uploads, commands, streams>>

-----------------------------------------------------------------------------
\* A stream runs its operations in order; kernels end with a status.
Device(s) ==
  /\ streams[s] # <<>>
  /\ LET op == Head(streams[s])
     IN  /\ IF op.kind = "copy"
            THEN copies' = [copies EXCEPT ![op.id].done = TRUE]
            ELSE UNCHANGED copies
         /\ IF op.kind = "run"
            THEN \E status \in IF "kernel" \in Faults THEN {"ok", "bad"} ELSE {"ok"} :
                   commands' = [commands EXCEPT ![op.id].state = status]
            ELSE UNCHANGED commands
  /\ streams' = [streams EXCEPT ![s] = Tail(@)]
  /\ UNCHANGED <<session, memory, cache>>

Encode(t) ==
  \/ Lock(t) \/ FindUpload(t) \/ CopyArena(t) \/ InsertUpload(t) \/ UploadsFound(t)
  \/ TakeScratch(t) \/ Launch(t) \/ FailEncode(t)

Settle(t) == ReadStatus(t) \/ StatusRead(t) \/ RecycleScratch(t) \/ FinishSubmission(t) \/ Return(t)

Finished(t) == call[t].pc = "idle" /\ Len(outcomes[t]) = Len(Calls[t])

Over ==
  /\ \A t \in Callers : Finished(t)
  /\ \A s \in StreamIds : streams[s] = <<>>
  /\ UNCHANGED vars

Next ==
  \/ \E t \in Callers : BeginCall(t) \/ Encode(t) \/ Wait(t) \/ DropCall(t) \/ Settle(t)
  \/ \E s \in StreamIds : Device(s)
  \/ Over

Spec == Init /\ [][Next]_vars

\* A thread inside a call runs on, and the device runs what was enqueued.
FairSpec ==
  /\ Spec
  /\ \A t \in Callers : WF_vars(Encode(t)) /\ WF_vars(Settle(t))
  /\ \A s \in StreamIds : WF_vars(Device(s))

-----------------------------------------------------------------------------
(***************************************************************************)
(* Properties.                                                             *)
(***************************************************************************)
Buffers == DOMAIN sizes

\* What the pool and the cache say they retain is what they retain, within their
\* bounds, and no arena is retained twice for one stream although the cache is
\* unlocked between a miss and the insertion.
RetentionBounded ==
  /\ pool.bytes = BytesOf(pool.buffers)
  /\ pool.bytes <= pool.highWater
  /\ pool.highWater <= PoolBytes
  /\ cache.bytes = CachedBytes(cache.entries)
  /\ cache.bytes <= CacheBytes
  /\ Len(cache.entries) <= CacheEntries
  /\ \A j, k \in DOMAIN cache.entries :
       j # k => [copies[cache.entries[j]] EXCEPT !.done = TRUE]
                  # [copies[cache.entries[k]] EXCEPT !.done = TRUE]

\* Types of the session, and the lock is held by exactly the caller that encodes.
TypeOK ==
  /\ lock \in Callers \cup {"free"}
  /\ \A t \in Callers :
       /\ call[t].pc \in {"idle", "lock", "upload", "copy", "insert", "scratch",
                         "submitted", "wait", "status", "recycle", "drop"}
       /\ lock = t <=> call[t].pc \in {"upload", "copy", "insert", "scratch"}
       /\ ToSet(call[t].scratch) \subseteq Buffers
       /\ ToSet(call[t].submissions) \subseteq DOMAIN commands
  /\ ToSet(pool.buffers) \cup freed \subseteq Buffers
  /\ ToSet(cache.entries) \subseteq DOMAIN copies
  /\ RetentionBounded

Queued(c) == commands[c].state = "queued"

\* Kernels that have not completed never share scratch with each other, with a
\* buffer the pool may hand out, or with the next plan to be launched.
ScratchExclusive ==
  \A c \in DOMAIN commands : Queued(c) =>
    LET mine == ToSet(commands[c].scratch)
    IN  /\ mine \cap ToSet(pool.buffers) = {}
        /\ \A t \in Callers : mine \cap ToSet(call[t].scratch) = {}
        /\ \A d \in DOMAIN commands : d # c /\ Queued(d) => mine \cap ToSet(commands[d].scratch) = {}

\* Every scratch buffer is in exactly one place: retained once by the pool, taken
\* by the plan that is being encoded, held by one submission, or freed.  No error
\* path loses or doubles one.
Places(b) ==
  Cardinality({k \in DOMAIN pool.buffers : pool.buffers[k] = b})
    + Cardinality({t \in Callers : b \in ToSet(call[t].scratch)})
    + Cardinality({c \in DOMAIN commands : b \in ToSet(commands[c].held)})
    + (IF b \in freed THEN 1 ELSE 0)
ScratchConserved == \A b \in Buffers : Places(b) = 1

\* Scratch is used by one running kernel at a time, and no buffer of it is lost.
ScratchExact == ScratchExclusive /\ ScratchConserved

\* When a plan runs, the copies of its arenas have run: an arena found in the
\* cache may still be on its way to the device, on the same stream.
UploadsReady ==
  \A s \in StreamIds : streams[s] # <<>> =>
    LET op == Head(streams[s])
    IN  op.kind = "run" =>
          \A k \in DOMAIN commands[op.id].copies : copies[commands[op.id].copies[k]].done

\* When a call returns, its output with it, nothing it submitted still runs; it
\* returns a result only when every plan of it completed without a failure.
ReturnsSettled ==
  \A t \in Callers : \A n \in DOMAIN outcomes[t] :
    LET outcome == outcomes[t][n]
    IN  /\ \A c \in ToSet(outcome.commands) : ~Queued(c)
        /\ outcome.result = "ok" =>
             /\ Len(outcome.commands) = Len(Calls[t][n].plans)
             /\ \A c \in ToSet(outcome.commands) : commands[c].state = "ok"

\* Submitting and settling a call end, whatever fails in between: the submission
\* lock is never left held and no wait misses its event.
CallsReturn ==
  \A t \in Callers : call[t].pc \notin {"idle", "submitted"} ~> call[t].pc \in {"idle", "submitted"}
=============================================================================
