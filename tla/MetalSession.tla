---------------------------- MODULE MetalSession ----------------------------
(***************************************************************************)
(* MetalDecoderSession.  One thread encodes the plans of a call into       *)
(* command buffers, waits for them or drops them, while the GPU runs what  *)
(* was committed.  Scratch, status words and host-visible outputs come     *)
(* from pools of exact sizes; the images of one command share its scratch, *)
(* which its first submission owns; uploads are cached by the identity of  *)
(* the arena they copy.                                                    *)
(*                                                                         *)
(* Staged coefficients (MetalCoefficientArena) and their leases are in     *)
(* MetalBatchPipeline; here coefficients come from host arenas.            *)
(***************************************************************************)
EXTENDS Integers, Sequences, FiniteSets, SequencesExt, Totals

CONSTANTS
  Requests,     \* the calls: [kind |-> "batch", "dense" or "shared", plans |-> sequence]
  Plans,        \* of each plan: [arenas, low, samples, output], sizes in words
  Addresses,    \* where host arenas are allocated
  UploadBytes,  \* of the arena at each address
  Queues,       \* DEFAULT_BATCH_QUEUE_COUNT
  PerCommand, PerDense,      \* BATCH_IMAGES_PER_COMMAND and DENSE_IMAGES_PER_COMMAND
  Budget,                    \* BATCH_SCRATCH_BUDGET
  PoolBytes, PoolBuffers,    \* PoolLimits
  CacheBytes,                \* retained_limit of the upload cache
  MaxCalls, MaxVersions,     \* bounds: calls made, arenas allocated at each address
  Faults                     \* bound: what may go wrong, of {"encode", "kernel", "command"}

MetalAssumption ==
  /\ {Queues, PerCommand, PerDense} \subseteq Nat \ {0}
  /\ {Budget, PoolBytes, PoolBuffers, CacheBytes, MaxCalls} \subseteq Nat
  /\ MaxVersions \in [Addresses -> Nat]
  /\ UploadBytes \in [Addresses -> Nat]
  /\ \A p \in DOMAIN Plans :
       Plans[p] \in [arenas : Seq(Addresses), low : Nat \ {0}, samples : Nat \ {0}, output : Nat]
  /\ \A r \in Requests : r \in [kind : {"batch", "dense", "shared"}, plans : Seq(DOMAIN Plans)]

VARIABLES
  memory,    \* the private and the shared pool, the size of every buffer, those released
  contents,  \* what was last written to each buffer
  arenas,    \* per address, how many arenas were allocated there
  cache,     \* CoefficientUploadCache
  commands,  \* every command that was committed
  queues,    \* per queue, the commands the GPU has not finished
  host,      \* the call the session's thread is in
  pending,   \* batch submissions handed to callers
  images,    \* SharedMetalImages handed to callers
  returned,  \* of the last wait: what was asked for and what was returned
  begun      \* calls made

sessionVars == <<memory, contents, arenas, cache, commands, queues, host, pending, images, returned, begun>>

EmptyPool == [entries |-> <<>>, bytes |-> 0]
Idle == [step |-> "idle", request |-> [kind |-> "none", plans |-> <<>>], groups |-> <<>>,
         todo |-> <<>>, outputs |-> <<>>, encoded |-> <<>>, submissions |-> <<>>,
         got |-> <<>>, images |-> <<>>]

SessionInit ==
  /\ memory   = [private |-> EmptyPool, shared |-> EmptyPool, sizes |-> <<>>, released |-> {}]
  /\ contents = <<>>
  /\ arenas   = [a \in Addresses |-> 1]
  /\ cache    = [entries |-> <<>>, bytes |-> 0]
  /\ commands = <<>>
  /\ queues   = [q \in 0..Queues - 1 |-> <<>>]
  /\ host     = Idle
  /\ pending  = <<>>
  /\ images   = {}
  /\ returned = [asked |-> <<>>, submissions |-> <<>>, got |-> <<>>, failed |-> FALSE]
  /\ begun    = 0

Rest(s, n) == SubSeq(s, n + 1, Len(s))

-----------------------------------------------------------------------------
(***************************************************************************)
(* PoolState.  A request takes the oldest retained buffer of its size.     *)
(***************************************************************************)
BytesOf(sizes, buffers) == Total([k \in DOMAIN buffers |-> sizes[buffers[k]]])

BufferRequest(kind, size) == [kind |-> kind, size |-> IF size > 1 THEN size ELSE 1]

\* take_or_allocate for one request; m.taken collects the buffers.
Take(m, r) ==
  LET pool == m[r.kind]
      fits == {k \in DOMAIN pool.entries : m.sizes[pool.entries[k]] = r.size}
      hit  == CHOOSE k \in fits : \A j \in fits : k <= j
  IN  IF fits # {}
      THEN [m EXCEPT ![r.kind] = [entries |-> RemoveAt(@.entries, hit), bytes |-> @.bytes - r.size],
                     !.taken = Append(@, pool.entries[hit])]
      ELSE [m EXCEPT !.sizes = Append(@, r.size), !.taken = Append(@, Len(m.sizes) + 1)]

TakeAll(requests) ==
  FoldLeft(Take, [private |-> memory.private, shared |-> memory.shared, sizes |-> memory.sizes,
                  released |-> memory.released, taken |-> <<>>], requests)
WithoutTaken(m) == [private |-> m.private, shared |-> m.shared, sizes |-> m.sizes, released |-> m.released]

\* Mutant: buffers are evicted for the bytes only.
Evicts_Bug(pool, n, sizes, size) == BytesOf(sizes, Rest(pool.entries, n)) + size <= PoolBytes
\* Room is made once the n oldest buffers are evicted.
Evicts(pool, n, sizes, size) ==
  /\ Len(pool.entries) - n < PoolBuffers
  /\ BytesOf(sizes, Rest(pool.entries, n)) + size <= PoolBytes

\* PoolState::recycle.
Recycle(m, kind, buffer) ==
  LET pool == m[kind]
      size == m.sizes[buffer]
      n    == CHOOSE k \in 0..Len(pool.entries) :
                Evicts(pool, k, m.sizes, size) /\ \A j \in 0..k - 1 : ~Evicts(pool, j, m.sizes, size)
      gone == SubSeq(pool.entries, 1, n)
  IN  IF size > PoolBytes \/ PoolBuffers = 0
      THEN [m EXCEPT !.released = @ \cup {buffer}]
      ELSE [m EXCEPT ![kind] = [entries |-> Append(Rest(@.entries, n), buffer),
                                bytes |-> @.bytes - BytesOf(m.sizes, gone) + size],
                     !.released = @ \cup ToSet(gone)]

RecycleAll(m, kind, buffers) == FoldLeft(LAMBDA n, b : Recycle(n, kind, b), m, buffers)

\* recycle_scratch: the private buffers of a submission, then its shared ones.
RecycleScratch(s) == RecycleAll(RecycleAll(memory, "private", s.private), "shared", s.shared)

ReleaseBuffers(buffers) == [memory EXCEPT !.released = @ \cup buffers]

-----------------------------------------------------------------------------
(***************************************************************************)
(* CoefficientUploadCache::get_or_upload.  An entry retains its arena, so  *)
(* no other is allocated at its address.                                   *)
(***************************************************************************)
\* Mutant: the cache knows arenas by their address alone.
IsCached_Bug(a) == FALSE
IsCached(a) == \E k \in DOMAIN cache.entries : cache.entries[k].address = a

CachedBytes(entries) == Total([k \in DOMAIN entries |-> UploadBytes[entries[k].address]])

\* Looks an arena up; c.found collects the versions of the uploads.
GetOrUpload(c, a) ==
  LET hit   == SelectInSeq(c.entries, LAMBDA e : e.address = a)
      bytes == UploadBytes[a]
      n     == CHOOSE k \in 0..Len(c.entries) :
                 /\ CachedBytes(Rest(c.entries, k)) + bytes <= CacheBytes
                 /\ \A j \in 0..k - 1 : CachedBytes(Rest(c.entries, j)) + bytes > CacheBytes
  IN  IF hit # 0 THEN [c EXCEPT !.found = Append(@, c.entries[hit].version)]
      ELSE IF bytes > CacheBytes THEN [c EXCEPT !.found = Append(@, arenas[a])]
      ELSE [entries |-> Append(Rest(c.entries, n), [address |-> a, version |-> arenas[a]]),
            bytes   |-> c.bytes - CachedBytes(SubSeq(c.entries, 1, n)) + bytes,
            found   |-> Append(c.found, arenas[a])]

UploadAll(addresses) ==
  FoldLeft(GetOrUpload, [entries |-> cache.entries, bytes |-> cache.bytes, found |-> <<>>], addresses)

\* A caller drops an arena and allocates another where it was.
ReplaceArena(a) ==
  /\ host.step = "idle"
  /\ ~IsCached(a)
  /\ arenas[a] < MaxVersions[a]
  /\ arenas' = [arenas EXCEPT ![a] = @ + 1]
  /\ UNCHANGED <<memory, contents, cache, commands, queues, host, pending, images, returned, begun>>

-----------------------------------------------------------------------------
(***************************************************************************)
(* How plans are cut into groups, and groups into commands.                *)
(***************************************************************************)
ScratchBytes(p) == Plans[p].low + Plans[p].samples + 1
Scratch(group) == Total([k \in DOMAIN group |-> ScratchBytes(group[k])])

\* Mutant: the plan that crosses the budget still joins.
Fits_Bug(group, p) == Scratch(group) <= Budget
Fits(group, p) == Scratch(group) + ScratchBytes(p) <= Budget

\* batch_groups and dense_group_end: a plan joins the last group while it fits.
\* (submit and submit_into are a dense request of one plan.)
Grouped(plans, limit) ==
  LET Join(groups, p) ==
        IF /\ groups # <<>>
           /\ Len(Last(groups)) < limit
           /\ Fits(Last(groups), p)
        THEN Append(Front(groups), Append(Last(groups), p))
        ELSE Append(groups, <<p>>)
  IN  FoldLeft(Join, <<>>, plans)

\* plans.chunks(PerCommand).
Chunks(group) ==
  [k \in 1..(Len(group) + PerCommand - 1) \div PerCommand |->
     SubSeq(group, (k - 1) * PerCommand + 1,
            IF k * PerCommand < Len(group) THEN k * PerCommand ELSE Len(group))]

\* batch::compatible, of plans of equal planes whose coefficients are host arenas.
Concatenated(plans) ==
  Len(plans) > 1 /\ \A k \in DOMAIN plans : Len(Plans[plans[k]].arenas) = 1

\* encode_dense_into gives plans that are not compatible a command each.
DenseCommands(plans) ==
  FlattenSeq([k \in DOMAIN Grouped(plans, PerDense) |->
    LET group == Grouped(plans, PerDense)[k]
    IN  IF Concatenated(group) THEN <<group>> ELSE [j \in DOMAIN group |-> <<group[j]>>]])

\* The groups of a request: each is the commands encoded before any is handed out.
GroupsOf(r) ==
  IF r.kind \in {"batch", "shared"}
  THEN LET groups == Grouped(r.plans, Len(r.plans)) IN [k \in DOMAIN groups |-> Chunks(groups[k])]
  ELSE <<DenseCommands(r.plans)>>

RefusedRequest(r) ==
  r.kind \in {"batch", "shared"} /\ \E k \in DOMAIN r.plans : ScratchBytes(r.plans[k]) > Budget

\* batch_groups refuses an image over the budget before anything is encoded.
BeginRequest(r) ==
  /\ host.step = "idle"
  /\ begun < MaxCalls
  /\ begun' = begun + 1
  /\ ~RefusedRequest(r)
  /\ host' = [Idle EXCEPT !.step = "group", !.request = r, !.groups = GroupsOf(r)]
  /\ UNCHANGED <<memory, contents, arenas, cache, commands, queues, pending, images, returned>>

-----------------------------------------------------------------------------
(***************************************************************************)
(* Encoding.                                                               *)
(***************************************************************************)
\* append_shared_batch_group takes the outputs of its group from the shared pool.
BeginGroup ==
  /\ host.step = "group"
  /\ host.groups # <<>>
  /\ LET group == Head(host.groups)
         plans == FlattenSeq(group)
         m     == TakeAll([k \in DOMAIN plans |-> BufferRequest("shared", Plans[plans[k]].output)])
     IN  IF host.request.kind = "shared"
         THEN /\ memory' = WithoutTaken(m)
              /\ contents' = contents \o [k \in 1..Len(m.sizes) - Len(contents) |-> <<>>]
              /\ host' = [host EXCEPT !.step = "encode", !.todo = group, !.outputs = m.taken]
         ELSE /\ host' = [host EXCEPT !.step = "encode", !.todo = group]
              /\ UNCHANGED <<memory, contents>>
  /\ UNCHANGED <<arenas, cache, commands, queues, pending, images, returned, begun>>

\* Scratch of a command: one set for concatenated plans, one per plan otherwise.
ScratchSet(plans) ==
  <<BufferRequest("private", Total([k \in DOMAIN plans |-> Plans[plans[k]].low])),
    BufferRequest("private", Total([k \in DOMAIN plans |-> Plans[plans[k]].samples])),
    BufferRequest("shared", Len(plans))>>
ScratchOf(plans) ==
  IF Concatenated(plans) THEN ScratchSet(plans)
  ELSE FlattenSeq([k \in DOMAIN plans |-> ScratchSet(<<plans[k]>>)])

\* The arenas the first n plans look up; only plans encoded by themselves do.
LookedUp(plans, n) ==
  IF Concatenated(plans) THEN <<>>
  ELSE FlattenSeq([k \in 1..n |-> Plans[plans[k]].arenas])

Versions(addresses) == [k \in DOMAIN addresses |-> arenas[addresses[k]]]

\* Mutant: a sibling that does not own the scratch is handed the status buffer too.
Owned_Bug(plans, k, buffers) ==
  IF Concatenated(plans)
  THEN [private |-> IF k = 1 THEN <<buffers[1], buffers[2]>> ELSE <<>>, shared |-> <<buffers[3]>>]
  ELSE [private |-> <<buffers[3 * k - 2], buffers[3 * k - 1]>>, shared |-> <<buffers[3 * k]>>]
\* finish_batch and finish_encoding: the first submission of concatenated plans
\* owns their scratch, others own theirs.
Owned(plans, k, buffers) ==
  IF Concatenated(plans)
  THEN IF k = 1 THEN [private |-> <<buffers[1], buffers[2]>>, shared |-> <<buffers[3]>>]
                ELSE [private |-> <<>>, shared |-> <<>>]
  ELSE [private |-> <<buffers[3 * k - 2], buffers[3 * k - 1]>>, shared |-> <<buffers[3 * k]>>]

\* MetalSubmission.
Submission(id, k, owned) ==
  [command |-> id, image |-> k, private |-> owned.private, shared |-> owned.shared]

\* Where image k of a command has its status word, and what it is made from.
Encoded(plans, k, buffers, found, outputs) ==
  LET before == Total([j \in 1..k - 1 |-> Len(Plans[plans[j]].arenas)])
      mine   == Plans[plans[k]].arenas
  IN  [plan   |-> plans[k],
       status |-> IF Concatenated(plans) THEN buffers[3] ELSE buffers[3 * k],
       slot   |-> IF Concatenated(plans) THEN k ELSE 1,
       source |-> IF Concatenated(plans) THEN Versions(mine)
                  ELSE SubSeq(found, before + 1, before + Len(mine)),
       truth  |-> Versions(mine),
       output |-> IF outputs = <<>> THEN 0 ELSE outputs[k]]

\* Mutant: every command of a group starts at the group's first output.
NextOutputs_Bug == host.outputs
\* Host-visible outputs of the next command; resident images have buffers of their own.
NextOutputs == IF host.outputs = <<>> THEN <<>> ELSE Rest(host.outputs, Len(FlattenSeq(host.encoded)))

QueueOf == IF host.request.kind \in {"batch", "shared"} THEN Len(host.encoded) % Queues ELSE 0

\* encode_batch_with_outputs, encode_dense_into and encode_with_output, for one
\* command: take scratch, clear the status words, encode, commit.
Commit ==
  /\ host.step = "encode"
  /\ host.todo # <<>>
  /\ LET plans    == Head(host.todo)
         m        == TakeAll(ScratchOf(plans))
         c        == UploadAll(LookedUp(plans, Len(plans)))
         id       == Len(commands) + 1
         made     == [k \in DOMAIN plans |-> Encoded(plans, k, m.taken, c.found, NextOutputs)]
         cleared  == {made[k].status : k \in DOMAIN plans}
     IN  /\ memory' = WithoutTaken(m)
         /\ contents' = [b \in DOMAIN m.sizes |->
                          IF b \in cleared THEN [k \in 1..m.sizes[b] |-> "ok"]
                          ELSE IF b \in DOMAIN contents THEN contents[b] ELSE <<>>]
         /\ cache' = [entries |-> c.entries, bytes |-> c.bytes]
         /\ commands' = Append(commands,
              [images |-> made, scratch |-> ToSet(m.taken), state |-> "running", bad |-> {}])
         /\ queues' = [queues EXCEPT ![QueueOf] = Append(@, id)]
         /\ host' = [host EXCEPT
              !.todo = Tail(@),
              !.encoded = Append(@, [k \in DOMAIN plans |->
                 Submission(id, k, Owned(plans, k, m.taken))])]
  /\ UNCHANGED <<arenas, pending, images, returned, begun>>

Scratches(submissions) ==
  UNION {ToSet(submissions[k].private) \cup ToSet(submissions[k].shared) : k \in DOMAIN submissions}

\* A command cannot be encoded once n of its buffers were taken and the arenas of
\* its first plans looked up.  These buffers, the encodings committed before it in
\* the group, which are not waited for, and the group's outputs are let go of.
\* Submissions and images of earlier groups are dropped in order.
FailEncode ==
  /\ "encode" \in Faults
  /\ host.step = "encode"
  /\ host.todo # <<>>
  /\ LET plans   == Head(host.todo)
         scratch == ScratchOf(plans)
     IN  \E n \in 0..Len(scratch) :
         \E looked \in {k \in 0..Len(plans) : k = n \div 3 + 1 \/ 3 * k = n} :
           LET m == TakeAll(SubSeq(scratch, 1, n))
               c == UploadAll(LookedUp(plans, looked))
           IN  /\ memory' = [WithoutTaken(m) EXCEPT !.released = @ \cup ToSet(m.taken)
                               \cup ToSet(host.outputs) \cup Scratches(FlattenSeq(host.encoded))]
               /\ contents' = contents \o [k \in 1..Len(m.sizes) - Len(contents) |-> <<>>]
               /\ cache' = [entries |-> c.entries, bytes |-> c.bytes]
  /\ host' = [host EXCEPT !.step = "drop", !.todo = <<>>, !.encoded = <<>>, !.outputs = <<>>]
  /\ UNCHANGED <<arenas, commands, queues, pending, images, returned, begun>>

\* A group is encoded: its submissions join the call's, or are waited for at once.
EndGroup ==
  /\ host.step = "encode"
  /\ host.todo = <<>>
  /\ host' = [host EXCEPT
       !.step = IF host.request.kind = "shared" THEN "wait" ELSE "group",
       !.groups = Tail(@),
       !.submissions = @ \o FlattenSeq(host.encoded),
       !.encoded = <<>>]
  /\ UNCHANGED <<memory, contents, arenas, cache, commands, queues, pending, images, returned, begun>>

\* The call returns a pending batch, or its shared images.
EndCall ==
  /\ host.step = "group"
  /\ host.groups = <<>>
  /\ IF host.request.kind = "shared"
     THEN /\ images' = images \cup ToSet(host.images)
          /\ UNCHANGED pending
     ELSE /\ pending' = Append(pending, [request |-> host.request, submissions |-> host.submissions])
          /\ UNCHANGED images
  /\ host' = Idle
  /\ UNCHANGED <<memory, contents, arenas, cache, commands, queues, returned, begun>>

-----------------------------------------------------------------------------
(***************************************************************************)
(* Waiting and dropping.                                                   *)
(***************************************************************************)
BeginWait(k) ==
  /\ host.step = "idle"
  /\ host' = [Idle EXCEPT !.step = "wait", !.request = pending[k].request,
                          !.submissions = pending[k].submissions]
  /\ pending' = RemoveAt(pending, k)
  /\ returned' = [returned EXCEPT !.asked = pending[k].request.plans, !.got = <<>>, !.failed = FALSE,
                                !.submissions = pending[k].submissions]
  /\ UNCHANGED <<memory, contents, arenas, cache, commands, queues, images, begun>>

BeginDrop(k) ==
  /\ host.step = "idle"
  /\ host' = [Idle EXCEPT !.step = "drop", !.submissions = pending[k].submissions]
  /\ pending' = RemoveAt(pending, k)
  /\ UNCHANGED <<memory, contents, arenas, cache, commands, queues, images, returned, begun>>

First == Head(host.submissions)
ImageOf(s) == commands[s.command].images[s.image]

\* Mutant: a submission is settled whether or not its command has completed.
Completed_Bug(s) == TRUE
Completed(s) == commands[s.command].state # "running"

\* MetalSubmission::wait.  A command that failed takes its scratch with it; a
\* status word other than zero fails the wait after the scratch was recycled.
WaitOne ==
  /\ host.step = "wait"
  /\ host.submissions # <<>>
  /\ Completed(First)
  /\ LET lost == commands[First.command].state = "failed"
         bad  == contents[ImageOf(First).status][ImageOf(First).slot] # "ok"
     IN  /\ memory' = IF lost THEN ReleaseBuffers(Scratches(<<First>>)) ELSE RecycleScratch(First)
         /\ host' = [host EXCEPT
              !.submissions = Tail(@),
              !.step = IF lost \/ bad THEN "drop" ELSE "wait",
              !.got = IF lost \/ bad THEN @ ELSE Append(@, ImageOf(First))]
         /\ returned' = IF (lost \/ bad) /\ host.request.kind # "shared"
                       THEN [returned EXCEPT !.failed = TRUE] ELSE returned
  /\ UNCHANGED <<contents, arenas, cache, commands, queues, pending, images, begun>>

\* MetalSubmission::drop waits too, and recycles whatever became of the command.
DropOne ==
  /\ host.step = "drop"
  /\ host.submissions # <<>>
  /\ Completed(First)
  /\ memory' = RecycleScratch(First)
  /\ host' = [host EXCEPT !.submissions = Tail(@)]
  /\ UNCHANGED <<contents, arenas, cache, commands, queues, pending, images, returned, begun>>

SharedImage(image, buffer) == [plan |-> image.plan, truth |-> image.truth, buffer |-> buffer]

\* Every submission of the call, or of its group, has been waited for.
EndWait ==
  /\ host.step = "wait"
  /\ host.submissions = <<>>
  /\ IF host.request.kind = "shared"
     THEN /\ host' = [host EXCEPT
               !.step = "group", !.outputs = <<>>, !.got = <<>>,
               !.images = @ \o [k \in DOMAIN host.got |-> SharedImage(host.got[k], host.outputs[k])]]
          /\ UNCHANGED returned
     ELSE /\ returned' = [returned EXCEPT !.got = host.got]
          /\ host' = Idle
  /\ UNCHANGED <<memory, contents, arenas, cache, commands, queues, pending, images, begun>>

RecycleImages(m, some) == RecycleAll(m, "shared", [k \in DOMAIN some |-> some[k].buffer])

\* A call failed, or a batch was dropped: outputs of the group are let go of, the
\* images of earlier groups are dropped.
EndDrop ==
  /\ host.step = "drop"
  /\ host.submissions = <<>>
  /\ memory' = RecycleImages(ReleaseBuffers(ToSet(host.outputs)), host.images)
  /\ host' = Idle
  /\ UNCHANGED <<contents, arenas, cache, commands, queues, pending, images, returned, begun>>

\* SharedMetalImage::drop.
DropImage(i) ==
  /\ host.step = "idle"
  /\ memory' = Recycle(memory, "shared", i.buffer)
  /\ images' = images \ {i}
  /\ UNCHANGED <<contents, arenas, cache, commands, queues, host, pending, returned, begun>>

-----------------------------------------------------------------------------
(***************************************************************************)
(* The GPU runs the commands of a queue in order.  Kernels set the status  *)
(* word of an image whose arithmetic fails and write its samples.          *)
(***************************************************************************)
Written(command, bad, b) ==
  LET statuses == {k \in bad : command.images[k].status = b}
      outputs  == {k \in DOMAIN command.images : command.images[k].output = b}
  IN  IF statuses # {}
      THEN [j \in DOMAIN contents[b] |->
              IF \E k \in statuses : command.images[k].slot = j THEN "bad" ELSE contents[b][j]]
      ELSE IF outputs # {} THEN command.images[CHOOSE k \in outputs : TRUE].source
      ELSE contents[b]

KernelFaults(c) ==
  {{}} \cup IF "kernel" \in Faults THEN {{k} : k \in DOMAIN commands[c].images} ELSE {}

Run(q) ==
  /\ queues[q] # <<>>
  /\ LET id == Head(queues[q])
     IN  \/ \E bad \in KernelFaults(id) :
              /\ commands' = [commands EXCEPT ![id].state = "done", ![id].bad = bad]
              /\ contents' = [b \in DOMAIN contents |-> Written(commands[id], bad, b)]
         \/ /\ "command" \in Faults
            /\ commands' = [commands EXCEPT ![id].state = "failed"]
            /\ UNCHANGED contents
  /\ queues' = [queues EXCEPT ![q] = Tail(@)]
  /\ UNCHANGED <<memory, arenas, cache, host, pending, images, returned, begun>>

Quiet ==
  /\ host.step = "idle" /\ begun = MaxCalls /\ pending = <<>>
  /\ \A q \in DOMAIN queues : queues[q] = <<>>
  /\ UNCHANGED sessionVars

SessionNext ==
  \/ \E r \in Requests : BeginRequest(r)
  \/ BeginGroup \/ Commit \/ FailEncode \/ EndGroup \/ EndCall
  \/ \E k \in DOMAIN pending : BeginWait(k) \/ BeginDrop(k)
  \/ WaitOne \/ DropOne \/ EndWait \/ EndDrop
  \/ \E i \in images : DropImage(i)
  \/ \E a \in Addresses : ReplaceArena(a)
  \/ \E q \in DOMAIN queues : Run(q)
  \/ Quiet

SessionSpec == SessionInit /\ [][SessionNext]_sessionVars

-----------------------------------------------------------------------------
(***************************************************************************)
(* Properties.                                                             *)
(***************************************************************************)
Buffers == DOMAIN memory.sizes
Pooled == ToSet(memory.private.entries) \cup ToSet(memory.shared.entries)
Held == (UNION {Scratches(pending[k].submissions) : k \in DOMAIN pending})
          \cup Scratches(host.submissions) \cup Scratches(FlattenSeq(host.encoded))

\* Types of the session, and what the pools and the upload cache say they retain
\* is what they retain, within their limits.
SessionTypeOK ==
  /\ host.step \in {"idle", "group", "encode", "wait", "drop"}
  /\ DOMAIN contents = Buffers
  /\ \A pool \in {memory.private, memory.shared} :
       /\ IsInjective(pool.entries)
       /\ pool.bytes = BytesOf(memory.sizes, pool.entries) /\ pool.bytes <= PoolBytes
       /\ Len(pool.entries) <= PoolBuffers
  /\ cache.bytes = CachedBytes(cache.entries) /\ cache.bytes <= CacheBytes

\* Scratch, status words and outputs of a running command are neither in a pool
\* nor part of another running command nor of an image the caller still has, and
\* what is held twice is nowhere else: every error path lets go of a buffer once.
InUse(c) ==
  commands[c].scratch
    \cup ({commands[c].images[k].output : k \in DOMAIN commands[c].images} \ {0})
BuffersApart ==
  /\ \A c \in DOMAIN commands : commands[c].state = "running" =>
       /\ InUse(c) \cap (Pooled \cup {i.buffer : i \in images}) = {}
       /\ \A d \in DOMAIN commands :
            c # d /\ commands[d].state = "running" => InUse(c) \cap InUse(d) = {}
  /\ (Held \cup {i.buffer : i \in images}) \cap (Pooled \cup memory.released) = {}
  /\ Pooled \cap memory.released = {}

\* Commands encoded together keep to the scratch budget, one large image excepted.
EncodedTogether ==
  IF host.request.kind = "dense" THEN {<<s>> : s \in ToSet(host.encoded)} ELSE {host.encoded}
ScratchHeld(submissions) ==
  Total([k \in DOMAIN submissions |->
           BytesOf(memory.sizes, submissions[k].private \o submissions[k].shared)])
WithinBudget ==
  \A group \in EncodedTogether :
    Len(FlattenSeq(group)) > 1 => ScratchHeld(FlattenSeq(group)) <= Budget

\* Buffers have one user each, and images encoded together fit the scratch budget.
RunningApart == BuffersApart /\ WithinBudget

\* The command of a submission ended, and no kernel of its image failed.
Good(s) == commands[s.command].state = "done" /\ s.image \notin commands[s.command].bad

\* A wait returns an image for every plan, in the caller's order, made from the
\* plan's own arena, exactly when the kernels of none of them failed: the status
\* word a submission reads is its own although a sibling gave the buffer back.
ResultsTrue ==
  /\ returned.failed => \E k \in DOMAIN returned.submissions : ~Good(returned.submissions[k])
  /\ returned.got # <<>> =>
       /\ [k \in DOMAIN returned.got |-> returned.got[k].plan] = returned.asked
       /\ \A k \in DOMAIN returned.got : returned.got[k].source = returned.got[k].truth
       /\ \A k \in DOMAIN returned.submissions : Good(returned.submissions[k])

\* The bytes of a shared image are its samples for as long as the caller has it
\* (shared_image.rs: "The image is immutable after GPU completion").
ImagesStable == \A i \in images : contents[i.buffer] = i.truth
=============================================================================
