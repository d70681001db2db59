-------------------------- MODULE CudaSessionProofs --------------------------
(***************************************************************************)
(* Proofs about CudaSession for any callers, calls, pool and cache: types, *)
(* the bounds of the pool and of the cache, scratch that is exclusive and  *)
(* never lost, uploads that precede their readers, and calls that settle   *)
(* what they submitted.                                                    *)
(*                                                                         *)
(* The invariant says who holds the lock and how far a call has come       *)
(* (LockHeld, Progress), where each scratch buffer is (Placed) and which   *)
(* kernels may still use it (Exclusive), what a stream has still to run    *)
(* (Queues), and which commands a call has settled (Settled).              *)
(***************************************************************************)
EXTENDS CudaSession, SequenceLemmas, FiniteSetTheorems

Encoding == {"upload", "copy", "insert", "scratch"}
Waiting  == {"submitted", "wait", "status", "recycle"}
Pcs      == {"idle", "lock", "drop"} \cup Encoding \cup Waiting

\* Records that name copies of C, buffers of B and commands of K.
CallRecords(C, B, K) ==
  [pc : Pcs, plan : Nat \ {0}, copies : Seq(C), scratch : Seq(B),
   submissions : Seq(K), issued : Seq(K), failed : BOOLEAN]
CommandRecords(C, B) ==
  [scratch : Seq(B), held : Seq(B), copies : Seq(C), stream : StreamIds,
   state : {"queued", "ok", "bad"}]
OutcomeRecords(K) == [result : {"refused", "error", "ok", "dropped"}, commands : Seq(K)]
CopyRecords == [arena : Arenas, stream : StreamIds, done : BOOLEAN]
Ops == [kind : {"copy", "run", "status"}, id : Nat]

Types ==
  /\ lock     \in Callers \cup {"free"}
  /\ call     \in [Callers -> CallRecords(DOMAIN copies, Buffers, DOMAIN commands)]
  /\ outcomes \in [Callers -> Seq(OutcomeRecords(DOMAIN commands))]
  /\ pool     \in [buffers : Seq(Buffers), bytes : Int, highWater : Int]
  /\ sizes    \in Seq(Nat \ {0})
  /\ freed    \subseteq Buffers
  /\ cache    \in [entries : Seq(DOMAIN copies), bytes : Int]
  /\ copies   \in Seq(CopyRecords)
  /\ commands \in Seq(CommandRecords(DOMAIN copies, Buffers))
  /\ streams  \in [StreamIds -> Seq(Ops)]

\* The lock is held by exactly the caller that encodes.
LockHeld == \A t \in Callers : lock = t <=> call[t].pc \in Encoding

\* A call encodes its plans one by one, and its parts are where its step says.
ProgressOf(t) ==
  /\ call[t].pc # "idle" => Len(outcomes[t]) < Len(Calls[t])
  /\ call[t].pc = "idle" => call[t] = NoCall
  /\ call[t].pc \in Encoding \cup {"lock"} =>
       /\ call[t].plan \in 1..Len(PlansOf(t))
       /\ Len(call[t].issued) = call[t].plan - 1
  /\ call[t].pc \in Waiting => Len(call[t].issued) = Len(PlansOf(t))
  /\ call[t].pc \in {"copy", "insert"} => Len(call[t].copies) < Len(PlanArenas[Plan(t)])
  /\ call[t].pc \notin Encoding => call[t].copies = <<>>
  /\ call[t].pc # "scratch" => call[t].scratch = <<>>

Progress == \A t \in Callers : ProgressOf(t)

\* A buffer is in one place: pooled, taken, held or freed.
Pooled   == ToSet(pool.buffers)
Taken(t) == ToSet(call[t].scratch)
Held(c)  == ToSet(commands[c].held)
Used(c)  == ToSet(commands[c].scratch)

Placed ==
  /\ IsInjective(pool.buffers)
  /\ \A t \in Callers : IsInjective(call[t].scratch)
  /\ \A c \in DOMAIN commands : IsInjective(commands[c].held)
  /\ Pooled \cap freed = {}
  /\ \A t \in Callers : Taken(t) \cap (Pooled \cup freed) = {}
  /\ \A c \in DOMAIN commands : Held(c) \cap (Pooled \cup freed) = {}
  /\ \A t, u \in Callers : t # u => Taken(t) \cap Taken(u) = {}
  /\ \A c, d \in DOMAIN commands : c # d => Held(c) \cap Held(d) = {}
  /\ \A t \in Callers : \A c \in DOMAIN commands : Taken(t) \cap Held(c) = {}
  /\ \A b \in Buffers :
       \/ b \in Pooled \cup freed
       \/ \E t \in Callers : b \in Taken(t)
       \/ \E c \in DOMAIN commands : b \in Held(c)

\* A kernel that may still run uses scratch that its submission holds, or that
\* was freed under it, and shares none of it.
Exclusive ==
  \A c \in DOMAIN commands : Queued(c) =>
    /\ Used(c) \cap Pooled = {}
    /\ \A t \in Callers : Used(c) \cap Taken(t) = {}
    /\ \A d \in DOMAIN commands : d # c /\ Queued(d) => Used(c) \cap Used(d) = {}
    /\ Used(c) \subseteq Held(c) \cup freed

PoolBounded ==
  /\ pool.bytes = BytesOf(pool.buffers)
  /\ pool.bytes <= pool.highWater
  /\ pool.highWater <= PoolBytes

Cached == ToSet(cache.entries)

\* Nothing else inserts while the lock is held: what was missed stays missed, and
\* the copy that was made stays the last one.
CacheBounded ==
  /\ cache.bytes = CachedBytes(cache.entries)
  /\ cache.bytes <= CacheBytes
  /\ Len(cache.entries) <= CacheEntries
  /\ IsInjective(cache.entries)
  /\ \A e, f \in Cached :
       e # f => copies[e].arena # copies[f].arena \/ copies[e].stream # copies[f].stream
  /\ \A t \in Callers :
       /\ call[t].pc \in {"copy", "insert"} => \A e \in Cached : ~ Serves(e, t)
       /\ call[t].pc = "insert" => copies # <<>> /\ Serves(Len(copies), t)

CopyOp(c) == [kind |-> "copy", id |-> c]

\* The i-th operation of a stream is about what exists, and follows what it reads.
Ordered(s, i) ==
  /\ streams[s][i].kind = "copy" => streams[s][i].id \in DOMAIN copies
  /\ streams[s][i].kind = "run" =>
       /\ streams[s][i].id \in DOMAIN commands
       /\ Queued(streams[s][i].id)
       /\ commands[streams[s][i].id].stream = s
       /\ \A j \in DOMAIN streams[s] :
            streams[s][j].kind = "run" /\ streams[s][j].id = streams[s][i].id => j = i
       /\ \A c \in ToSet(commands[streams[s][i].id].copies) :
            copies[c].done \/ \E j \in 1..i - 1 : streams[s][j] = CopyOp(c)

\* A copy is done or enqueued.
Copied(c) ==
  copies[c].done \/ \E j \in DOMAIN streams[copies[c].stream] :
                      streams[copies[c].stream][j] = CopyOp(c)

\* An upload is done or still in its stream, ahead of the kernels that read it; a
\* kernel runs once.
Queues ==
  /\ \A s \in StreamIds : \A i \in DOMAIN streams[s] : Ordered(s, i)
  /\ \A c \in DOMAIN copies : Copied(c)
  /\ \A t \in Callers : \A c \in ToSet(call[t].copies) : copies[c].stream = StreamOf(t)

\* What a call submitted is settled before it leaves its submissions, without a
\* failure unless the rest of it is dropped.
SettledOf(t) ==
  /\ \A c \in ToSet(call[t].issued) : c \in ToSet(call[t].submissions) \/ ~ Queued(c)
  /\ call[t].pc # "drop" =>
       \A c \in ToSet(call[t].issued) :
         c \in ToSet(call[t].submissions) \/ commands[c].state = "ok"
  /\ \A c \in ToSet(call[t].submissions) : Queued(c) => commands[c].held # <<>>
  /\ call[t].pc \in {"status", "recycle"} => call[t].submissions # <<>> /\ ~ Queued(First(t))

\* So is what a call that returned had submitted.
OutcomesOf(t) ==
  \A n \in DOMAIN outcomes[t] :
    /\ \A c \in ToSet(outcomes[t][n].commands) : ~ Queued(c)
    /\ outcomes[t][n].result = "ok" =>
         /\ Len(outcomes[t][n].commands) = Len(Calls[t][n].plans)
         /\ \A c \in ToSet(outcomes[t][n].commands) : commands[c].state = "ok"

Settled == \A t \in Callers : SettledOf(t) /\ OutcomesOf(t)

IInv ==
  /\ Types
  /\ LockHeld
  /\ Progress
  /\ Placed
  /\ Exclusive
  /\ PoolBounded
  /\ CacheBounded
  /\ Queues
  /\ Settled

-----------------------------------------------------------------------------
(***************************************************************************)
(* Types.                                                                  *)
(***************************************************************************)
\* Copies, buffers and commands are only ever added: what named some still does.
LEMMA RecordsGrow ==
  ASSUME NEW C, NEW D, C \subseteq D, NEW B, NEW A, B \subseteq A, NEW K, NEW L, K \subseteq L
  PROVE  /\ CallRecords(C, B, K) \subseteq CallRecords(D, A, L)
         /\ Seq(OutcomeRecords(K)) \subseteq Seq(OutcomeRecords(L))
         /\ Seq(CommandRecords(C, B)) \subseteq Seq(CommandRecords(D, A))
<1>1. Seq(C) \subseteq Seq(D) /\ Seq(B) \subseteq Seq(A) /\ Seq(K) \subseteq Seq(L)
  OBVIOUS
<1>2. CallRecords(C, B, K) \subseteq CallRecords(D, A, L)
  BY <1>1 DEF CallRecords
<1>3. OutcomeRecords(K) \subseteq OutcomeRecords(L)
  BY <1>1 DEF OutcomeRecords
<1>4. CommandRecords(C, B) \subseteq CommandRecords(D, A)
  BY <1>1 DEF CommandRecords
<1>5. QED
  BY <1>2, <1>3, <1>4

\* What Types says of one caller.
LEMMA CallTyped ==
  ASSUME Types, NEW t \in Callers
  PROVE  /\ call[t] \in CallRecords(DOMAIN copies, Buffers, DOMAIN commands)
         /\ call[t].pc \in Pcs
         /\ call[t].plan \in Nat \ {0}
         /\ call[t].copies \in Seq(DOMAIN copies)
         /\ call[t].scratch \in Seq(Buffers)
         /\ call[t].submissions \in Seq(DOMAIN commands)
         /\ call[t].issued \in Seq(DOMAIN commands)
         /\ outcomes[t] \in Seq(OutcomeRecords(DOMAIN commands))
<1>1. call[t] \in CallRecords(DOMAIN copies, Buffers, DOMAIN commands)
  BY DEF Types
<1>2. outcomes[t] \in Seq(OutcomeRecords(DOMAIN commands))
  BY DEF Types
<1>3. QED
  BY <1>1, <1>2 DEF CallRecords

\* What it says of one command.
LEMMA CommandTyped ==
  ASSUME Types, NEW c \in DOMAIN commands
  PROVE  /\ commands[c] \in CommandRecords(DOMAIN copies, Buffers)
         /\ commands[c].scratch \in Seq(Buffers)
         /\ commands[c].held \in Seq(Buffers)
         /\ commands[c].copies \in Seq(DOMAIN copies)
         /\ commands[c].stream \in StreamIds
         /\ commands[c].state \in {"queued", "ok", "bad"}
<1>1. commands[c] \in CommandRecords(DOMAIN copies, Buffers)
  BY DEF Types
<1>2. QED
  BY <1>1 DEF CommandRecords

\* The call and the plan a caller is at.
LEMMA CurrentTyped ==
  ASSUME Types, Progress, NEW t \in Callers, Len(outcomes[t]) < Len(Calls[t])
  PROVE  /\ Current(t) \in [dense : BOOLEAN, plans : Seq(Plans)]
         /\ PlansOf(t) \in Seq(Plans)
         /\ StreamOf(t) \in StreamIds
         /\ call[t].pc \in Encoding \cup {"lock"} =>
              /\ Plan(t) \in Plans
              /\ PlanArenas[Plan(t)] \in Seq(Arenas)
              /\ PlanScratch[Plan(t)] \in Seq(Nat \ {0})
              /\ Len(PlanScratch[Plan(t)]) = 2
<1>1. Len(outcomes[t]) \in Nat
  BY CallTyped
<1>2. Current(t) \in [dense : BOOLEAN, plans : Seq(Plans)]
  <2>1. Calls[t] \in Seq([dense : BOOLEAN, plans : Seq(Plans)])
    BY SessionAssumption
  <2>2. Len(outcomes[t]) + 1 \in 1..Len(Calls[t])
    BY <1>1, <2>1
  <2>3. QED
    BY <2>1, <2>2, ElementOfSeq, Zenon DEF Current
<1>3. PlansOf(t) \in Seq(Plans)
  BY <1>2 DEF PlansOf
<1>4. StreamOf(t) \in StreamIds
  <2>1. call[t].plan \in Nat \ {0} /\ Streams \in Nat \ {0}
    BY CallTyped, SessionAssumption
  <2>2. (call[t].plan - 1) % Streams \in 0..Streams - 1 /\ 0 \in 0..Streams - 1
    BY <2>1
  <2>3. QED
    BY <2>2 DEF StreamOf, StreamIds
<1>5. ASSUME call[t].pc \in Encoding \cup {"lock"}
      PROVE  Plan(t) \in Plans
  <2>1. call[t].plan \in 1..Len(PlansOf(t))
    BY <1>5 DEF Progress, ProgressOf
  <2>2. QED
    BY <1>3, <2>1 DEF Plan
<1>6. QED
  BY <1>2, <1>3, <1>4, <1>5, SessionAssumption

\* A caller whose record is replaced.
LEMMA CallMoved ==
  ASSUME NEW S, call \in [Callers -> S], NEW t \in Callers, NEW r \in S,
         call' = [call EXCEPT ![t] = r]
  PROVE  /\ call' \in [Callers -> S]
         /\ call'[t] = r
         /\ \A u \in Callers : u # t => call'[u] = call[u]
  OBVIOUS

\* One step of a caller that only moves on.
LEMMA GotoMoved ==
  ASSUME Types, NEW t \in Callers, NEW pc \in Pcs, Goto(t, pc)
  PROVE  /\ call' \in [Callers -> CallRecords(DOMAIN copies, Buffers, DOMAIN commands)]
         /\ call'[t] = [call[t] EXCEPT !.pc = pc]
         /\ \A u \in Callers : u # t => call'[u] = call[u]
<1>1. call[t] \in CallRecords(DOMAIN copies, Buffers, DOMAIN commands)
  BY CallTyped
<1>2. [call[t] EXCEPT !.pc = pc] \in CallRecords(DOMAIN copies, Buffers, DOMAIN commands)
  BY <1>1 DEF CallRecords
<1>3. call \in [Callers -> CallRecords(DOMAIN copies, Buffers, DOMAIN commands)]
  BY DEF Types
<1>4. call' = [call EXCEPT ![t] = [call[t] EXCEPT !.pc = pc]]
  BY DEF Goto
<1>5. QED
  BY <1>2, <1>3, <1>4

\* A step that only moves a caller to another place keeps the types.
LEMMA GotoTypes ==
  ASSUME Types, NEW t \in Callers, NEW pc \in Pcs, Goto(t, pc),
         lock' \in Callers \cup {"free"}, UNCHANGED <<outcomes, memory, uploads, commands, streams>>
  PROVE  Types'
  BY GotoMoved DEF Types, memory, uploads, Buffers

\* What names records that are there still names them when there are more.
LEMMA TypesGrow ==
  ASSUME Types, DOMAIN copies \subseteq (DOMAIN copies)', Buffers \subseteq Buffers',
         DOMAIN commands \subseteq (DOMAIN commands)'
  PROVE  /\ call \in [Callers -> CallRecords((DOMAIN copies)', Buffers', (DOMAIN commands)')]
         /\ outcomes \in [Callers -> Seq(OutcomeRecords((DOMAIN commands)'))]
         /\ commands \in Seq(CommandRecords((DOMAIN copies)', Buffers'))
         /\ pool \in [buffers : Seq(Buffers'), bytes : Int, highWater : Int]
         /\ freed \subseteq Buffers'
         /\ cache \in [entries : Seq((DOMAIN copies)'), bytes : Int]
<1>1. /\ CallRecords(DOMAIN copies, Buffers, DOMAIN commands)
           \subseteq CallRecords((DOMAIN copies)', Buffers', (DOMAIN commands)')
      /\ Seq(OutcomeRecords(DOMAIN commands)) \subseteq Seq(OutcomeRecords((DOMAIN commands)'))
      /\ Seq(CommandRecords(DOMAIN copies, Buffers))
           \subseteq Seq(CommandRecords((DOMAIN copies)', Buffers'))
  BY RecordsGrow
<1>2. /\ call \in [Callers -> CallRecords(DOMAIN copies, Buffers, DOMAIN commands)]
      /\ outcomes \in [Callers -> Seq(OutcomeRecords(DOMAIN commands))]
      /\ commands \in Seq(CommandRecords(DOMAIN copies, Buffers))
      /\ pool \in [buffers : Seq(Buffers), bytes : Int, highWater : Int]
      /\ freed \subseteq Buffers
      /\ cache \in [entries : Seq(DOMAIN copies), bytes : Int]
  BY DEF Types
<1>3. /\ call \in [Callers -> CallRecords((DOMAIN copies)', Buffers', (DOMAIN commands)')]
      /\ outcomes \in [Callers -> Seq(OutcomeRecords((DOMAIN commands)'))]
      /\ commands \in Seq(CommandRecords((DOMAIN copies)', Buffers'))
  BY <1>1, <1>2
<1>4. Seq(Buffers) \subseteq Seq(Buffers') /\ Seq(DOMAIN copies) \subseteq Seq((DOMAIN copies)')
  OBVIOUS
<1>5. pool \in [buffers : Seq(Buffers'), bytes : Int, highWater : Int]
  BY <1>2, <1>4
<1>6. cache \in [entries : Seq((DOMAIN copies)'), bytes : Int]
  BY <1>2, <1>4
<1>7. QED
  BY <1>2, <1>3, <1>5, <1>6

-----------------------------------------------------------------------------
(***************************************************************************)
(* The pool.                                                               *)
(***************************************************************************)
\* The bytes of a sequence of buffers are its weight by their sizes.
LEMMA BytesWeigh ==
  ASSUME NEW s
  PROVE  BytesOf(s) = Weight(s, sizes)
  BY DEF BytesOf, Weight, Weights

\* Every buffer has a size.
LEMMA SizesTyped ==
  ASSUME Types
  PROVE  \A b \in Buffers : sizes[b] \in Nat \ {0}
  BY DEF Types, Buffers

\* There is a least number of evictions after which a buffer fits.
LEMMA EvictionExists ==
  ASSUME Types, NEW size \in Nat, size <= PoolBytes
  PROVE  \E n \in 0..Len(pool.buffers) :
           Fits(n, size) /\ \A j \in 0..n - 1 : ~ Fits(j, size)
<1> DEFINE s == pool.buffers
           S == {k \in 0..Len(s) : Fits(k, size)}
<1>1. s \in Seq(Buffers)
  BY DEF Types
<1>2. Len(s) \in S
  <2>1. Rest(s, Len(s)) = <<>>
    BY <1>1 DEF Rest
  <2>2. BytesOf(<<>>) = 0
    BY BytesWeigh, WeightEmpty
  <2>3. Fits(Len(s), size)
    BY <2>1, <2>2 DEF Fits
  <2>4. QED
    BY <1>1, <2>3
<1>3. S \in SUBSET Nat /\ S # {}
  BY <1>2
<1>4. PICK n \in S : \A y \in S : n <= y
  BY <1>3, LeastElement
<1>5. ASSUME NEW j \in 0..n - 1
      PROVE  ~ Fits(j, size)
  <2>1. Len(s) \in Nat /\ n \in 0..Len(s)
    BY <1>1
  <2>2. j \in 0..Len(s) /\ ~ (n <= j)
    BY <2>1
  <2>3. j \notin S
    BY <1>4, <2>2
  <2>4. QED
    BY <2>2, <2>3
<1>6. QED
  BY <1>5

\* Giving a buffer back: it is retained or freed, what it evicts is freed, and the
\* pool keeps its bound and its count.
LEMMA RecycleEffect ==
  ASSUME Types, PoolBounded, IsInjective(pool.buffers), Pooled \cap freed = {},
         NEW b \in Buffers, b \notin Pooled \cup freed, Recycle(b), sizes' = sizes
  PROVE  /\ pool' \in [buffers : Seq(Buffers), bytes : Int, highWater : Int]
         /\ IsInjective(pool'.buffers)
         /\ Pooled' \cup freed' = Pooled \cup freed \cup {b}
         /\ Pooled' \cap freed' = {}
         /\ Pooled' \subseteq Pooled \cup {b}
         /\ freed \subseteq freed'
         /\ PoolBounded'
<1> DEFINE s    == pool.buffers
           size == sizes[b]
<1>1. /\ pool \in [buffers : Seq(Buffers), bytes : Int, highWater : Int]
      /\ s \in Seq(Buffers)
      /\ size \in Nat \ {0}
      /\ PoolBytes \in Nat
  BY SizesTyped, SessionAssumption DEF Types
<1>2. CASE size > BufferBytes \/ size > PoolBytes
  <2>1. pool' = pool /\ freed' = freed \cup {b}
    BY <1>2 DEF Recycle
  <2>2. PoolBounded'
    BY <2>1 DEF PoolBounded, BytesOf
  <2>3. Pooled' = Pooled
    BY <2>1 DEF Pooled
  <2>4. QED
    BY <1>1, <2>1, <2>2, <2>3
<1>3. CASE ~ (size > BufferBytes \/ size > PoolBytes)
  <2> DEFINE n == CHOOSE k \in 0..Len(pool.buffers) :
                    Fits(k, size) /\ \A j \in 0..k - 1 : ~ Fits(j, size)
             front == SubSeq(s, 1, n)
             back  == SubSeq(s, n + 1, Len(s))
             kept  == pool.bytes - BytesOf(front) + size
  <2>1. n \in 0..Len(s) /\ Fits(n, size)
    <3>1. size <= PoolBytes
      BY <1>1, <1>3, SessionAssumption
    <3>2. \E k \in 0..Len(pool.buffers) :
            Fits(k, size) /\ \A j \in 0..k - 1 : ~ Fits(j, size)
      BY <1>1, <3>1, EvictionExists
    <3>3. QED
      BY <3>2
  <2>2. /\ pool' = [buffers |-> Append(back, b), bytes |-> kept,
                    highWater |-> IF kept > pool.highWater THEN kept ELSE pool.highWater]
        /\ freed' = freed \cup ToSet(front)
    BY <1>3, Zenon DEF Recycle, Rest
  <2> HIDE DEF n
  <2>3. front \in Seq(Buffers) /\ back \in Seq(Buffers)
    BY <1>1, <2>1, Split
  <2>4. /\ ToSet(back) = ToSet(s) \ ToSet(front)
        /\ ToSet(front) \subseteq ToSet(s)
        /\ IsInjective(back)
    BY <1>1, <2>1, SplitSet
  <2>5. BytesOf(s) = BytesOf(front) + BytesOf(back) /\ BytesOf(front) \in Nat /\ BytesOf(back) \in Nat
    <3>1. \A x \in Buffers : sizes[x] \in Nat
      BY SizesTyped
    <3>2. Weight(s, sizes) = Weight(front, sizes) + Weight(back, sizes)
      BY <1>1, <2>1, <3>1, WeightSplit
    <3>3. Weight(front, sizes) \in Nat /\ Weight(back, sizes) \in Nat
      BY <2>3, <3>1, WeightType
    <3>4. QED
      BY <3>2, <3>3, BytesWeigh
  <2>6. BytesOf(Append(back, b)) = BytesOf(back) + size
    <3>1. \A x \in Buffers : sizes[x] \in Nat
      BY SizesTyped
    <3>2. \A r \in Seq(Buffers) : Weight(Append(r, b), sizes) = Weight(r, sizes) + sizes[b]
      BY <3>1, WeightAppend
    <3>3. QED
      BY <2>3, <3>2, BytesWeigh
  <2> HIDE DEF front, back
  <2>7. kept = BytesOf(back) + size /\ kept <= PoolBytes
    <3>1. pool.bytes = BytesOf(s)
      BY DEF PoolBounded
    <3>2. BytesOf(back) + size <= PoolBytes
      BY <2>1 DEF Fits, Rest, back
    <3>3. QED
      BY <1>1, <2>5, <3>1, <3>2
  <2>8. /\ Pooled' = (Pooled \ ToSet(front)) \cup {b}
        /\ IsInjective(pool'.buffers)
    <3>1. pool'.buffers = Append(back, b)
      BY <2>2
    <3>2. b \notin ToSet(back)
      BY <2>4 DEF Pooled
    <3>3. ToSet(Append(back, b)) = ToSet(back) \cup {b} /\ IsInjective(Append(back, b))
      BY <2>3, <2>4, <3>2, AppendSet
    <3>4. QED
      BY <2>4, <3>1, <3>3 DEF Pooled
  <2>9. pool' \in [buffers : Seq(Buffers), bytes : Int, highWater : Int]
    <3>1. kept \in Int /\ Append(back, b) \in Seq(Buffers) /\ pool.highWater \in Int
      BY <1>1, <2>3, <2>5, <2>7
    <3>2. QED
      BY <2>2, <3>1
  <2>10. PoolBounded'
    <3>1. pool.highWater \in Int /\ pool.highWater <= PoolBytes /\ kept \in Int
      BY <1>1, <2>5, <2>7 DEF PoolBounded
    <3>2. BytesOf(pool.buffers)' = BytesOf(Append(back, b))
      BY <2>2 DEF BytesOf
    <3>3. pool'.bytes = kept /\ pool'.bytes <= pool'.highWater /\ pool'.highWater <= PoolBytes
      BY <1>1, <2>2, <2>7, <3>1
    <3>4. QED
      BY <2>6, <2>7, <3>2, <3>3 DEF PoolBounded
  <2>11. QED
    BY <2>2, <2>4, <2>8, <2>9, <2>10 DEF Pooled
<1>4. QED
  BY <1>2, <1>3

\* Taking scratch: a retained buffer leaves the pool, or a new one is allocated.
LEMMA TakeEffect ==
  ASSUME Types, Progress, PoolBounded, IsInjective(pool.buffers), NEW t \in Callers, TakeScratch(t)
  PROVE  /\ Types'
         /\ PoolBounded'
         /\ IsInjective(pool'.buffers)
         /\ call[t].pc = "scratch"
         /\ \E b \in Buffers' :
              /\ call'[t] = [call[t] EXCEPT !.scratch = Append(call[t].scratch, b)]
              /\ \A u \in Callers : u # t => call'[u] = call[u]
              /\ \/ b \in Pooled /\ Pooled' = Pooled \ {b} /\ Buffers' = Buffers
                 \/ b \notin Buffers /\ Pooled' = Pooled /\ Buffers' = Buffers \cup {b}
<1> DEFINE size == PlanScratch[Plan(t)][Len(call[t].scratch) + 1]
           hit  == CHOOSE k \in Fitting(size) : \A j \in Fitting(size) : k <= j
           s    == pool.buffers
<1>1. call[t].pc = "scratch" /\ Len(call[t].scratch) < Len(PlanScratch[Plan(t)])
  BY DEF TakeScratch
<1>2. size \in Nat \ {0}
  <2>1. PlanScratch[Plan(t)] \in Seq(Nat \ {0})
    <3>1. Len(outcomes[t]) < Len(Calls[t])
      BY <1>1 DEF Progress, ProgressOf
    <3>2. QED
      BY <1>1, <3>1, CurrentTyped DEF Encoding
  <2>2. call[t].scratch \in Seq(Buffers)
    BY CallTyped
  <2>3. Len(call[t].scratch) + 1 \in 1..Len(PlanScratch[Plan(t)])
    BY <1>1, <2>1, <2>2
  <2>4. QED
    BY <2>1, <2>3, ElementOfSeq
<1>3. /\ s \in Seq(Buffers)
      /\ pool \in [buffers : Seq(Buffers), bytes : Int, highWater : Int]
      /\ sizes \in Seq(Nat \ {0})
      /\ call[t] \in CallRecords(DOMAIN copies, Buffers, DOMAIN commands)
      /\ call[t].scratch \in Seq(Buffers)
  BY CallTyped DEF Types
<1>4. CASE Fitting(size) # {}
  <2>1. hit \in Fitting(size)
    <3>1. Fitting(size) \in SUBSET Nat
      BY <1>3 DEF Fitting
    <3>2. \E x \in Fitting(size) : \A y \in Fitting(size) : x <= y
      BY <1>4, <3>1, LeastElement
    <3>3. QED
      BY <3>2
  <2>2. /\ call' = [call EXCEPT ![t].scratch = Append(@, s[hit])]
        /\ pool' = [pool EXCEPT !.buffers = RemoveAt(@, hit), !.bytes = @ - size]
        /\ sizes' = sizes
    BY <1>4, Zenon DEF TakeScratch
  <2> HIDE DEF hit, size
  <2>3. hit \in 1..Len(s) /\ sizes[s[hit]] = size /\ s[hit] \in Buffers
    BY <1>3, <2>1 DEF Fitting
  <2>4. RemoveAt(s, hit) \in Seq(Buffers)
    BY <1>3, <2>3, Removed
  <2>5. ToSet(RemoveAt(s, hit)) = ToSet(s) \ {s[hit]} /\ IsInjective(RemoveAt(s, hit))
    BY <1>3, <2>3, RemovedSet
  <2>6. BytesOf(RemoveAt(s, hit)) = BytesOf(s) - size
    <3>1. \A x \in Buffers : sizes[x] \in Nat
      BY SizesTyped
    <3>2. Weight(RemoveAt(s, hit), sizes) = Weight(s, sizes) - sizes[s[hit]]
      BY <1>3, <2>3, <3>1, WeightRemoved
    <3>3. QED
      BY <2>3, <3>2, BytesWeigh
  <2>7. pool'.buffers = RemoveAt(s, hit) /\ pool'.bytes = pool.bytes - size
          /\ pool'.highWater = pool.highWater
    BY <1>3, <2>2
  <2>8. pool' \in [buffers : Seq(Buffers), bytes : Int, highWater : Int]
    <3>1. pool.bytes \in Int /\ pool.bytes - size \in Int
      BY <1>2, <1>3
    <3>2. QED
      BY <1>3, <2>2, <2>4, <3>1
  <2>9. s[hit] \in ToSet(s)
    BY <1>3, <2>3 DEF ToSet
  <2>10. PoolBounded'
    <3>1. BytesOf(pool.buffers)' = BytesOf(RemoveAt(s, hit))
      BY <2>2, <2>7 DEF BytesOf
    <3>2. pool.bytes \in Int /\ pool.highWater \in Int /\ pool.bytes - size <= pool.bytes
      BY <1>2, <1>3
    <3>3. pool.bytes = BytesOf(s) /\ pool.bytes <= pool.highWater /\ pool.highWater <= PoolBytes
      BY DEF PoolBounded
    <3>4. pool'.bytes <= pool'.highWater
      BY <1>2, <2>7, <3>2, <3>3
    <3>5. QED
      BY <2>6, <2>7, <3>1, <3>3, <3>4 DEF PoolBounded
  <2> DEFINE r == [call[t] EXCEPT !.scratch = Append(call[t].scratch, s[hit])]
  <2>11. r \in CallRecords(DOMAIN copies, Buffers, DOMAIN commands)
    <3>1. Append(call[t].scratch, s[hit]) \in Seq(Buffers)
      BY <1>3, <2>3
    <3>2. QED
      BY <1>3, <3>1 DEF CallRecords
  <2>12. call' = [call EXCEPT ![t] = r]
    BY <2>2
  <2> HIDE DEF r
  <2>13. /\ call' \in [Callers -> CallRecords(DOMAIN copies, Buffers, DOMAIN commands)]
         /\ call'[t] = r
         /\ \A u \in Callers : u # t => call'[u] = call[u]
    BY <2>11, <2>12 DEF Types
  <2>14. UNCHANGED <<lock, outcomes, sizes, freed, cache, copies, commands, streams>>
    BY <2>2 DEF TakeScratch, uploads
  <2>15. Types'
    BY <2>8, <2>13, <2>14 DEF Types, Buffers
  <2>16. Pooled' = Pooled \ {s[hit]} /\ s[hit] \in Pooled /\ IsInjective(pool'.buffers)
    BY <2>5, <2>7, <2>9 DEF Pooled
  <2>17. QED
    BY <1>1, <2>3, <2>10, <2>13, <2>14, <2>15, <2>16 DEF Buffers, r
<1>5. CASE Fitting(size) = {}
  <2>1. /\ call' = [call EXCEPT ![t].scratch = Append(@, Len(sizes) + 1)]
        /\ sizes' = Append(sizes, size)
        /\ pool' = pool
        /\ UNCHANGED <<lock, outcomes, freed, cache, copies, commands, streams>>
    BY <1>5 DEF TakeScratch, uploads
  <2> HIDE DEF size
  <2>2. /\ sizes' \in Seq(Nat \ {0})
        /\ Len(sizes) + 1 \notin Buffers
        /\ Buffers' = Buffers \cup {Len(sizes) + 1}
        /\ \A b \in Buffers : sizes'[b] = sizes[b]
    BY <1>2, <1>3, <2>1 DEF Buffers
  <2>3. DOMAIN copies \subseteq (DOMAIN copies)' /\ Buffers \subseteq Buffers'
          /\ DOMAIN commands \subseteq (DOMAIN commands)'
    BY <2>1, <2>2
  <2> DEFINE CR == CallRecords((DOMAIN copies)', Buffers', (DOMAIN commands)')
             r  == [call[t] EXCEPT !.scratch = Append(call[t].scratch, Len(sizes) + 1)]
  <2>4. call \in [Callers -> CR]
    BY <2>3, TypesGrow
  <2>5. r \in CR
    <3>1. call[t] \in CR /\ call[t].scratch \in Seq(Buffers')
      BY <2>4 DEF CallRecords
    <3>2. Append(call[t].scratch, Len(sizes) + 1) \in Seq(Buffers')
      BY <2>2, <3>1
    <3>3. QED
      BY <3>1, <3>2 DEF CallRecords
  <2>6. call' = [call EXCEPT ![t] = r]
    BY <2>1
  <2> HIDE DEF r, CR
  <2>7. /\ call' \in [Callers -> CR]
        /\ call'[t] = r
        /\ \A u \in Callers : u # t => call'[u] = call[u]
    BY <2>4, <2>5, <2>6
  <2>8. Types'
    <3>1. /\ outcomes \in [Callers -> Seq(OutcomeRecords((DOMAIN commands)'))]
          /\ commands \in Seq(CommandRecords((DOMAIN copies)', Buffers'))
          /\ pool \in [buffers : Seq(Buffers'), bytes : Int, highWater : Int]
          /\ freed \subseteq Buffers'
          /\ cache \in [entries : Seq((DOMAIN copies)'), bytes : Int]
      BY <2>3, TypesGrow
    <3>2. lock \in Callers \cup {"free"} /\ copies \in Seq(CopyRecords)
            /\ streams \in [StreamIds -> Seq(Ops)]
      BY DEF Types
    <3>3. QED
      BY <2>1, <2>2, <2>7, <3>1, <3>2 DEF Types, CR
  <2>9. PoolBounded'
    <3>1. \A x \in Buffers : sizes[x] = sizes'[x]
      BY <2>2
    <3>2. Weight(s, sizes) = Weight(s, sizes')
      BY <1>3, <3>1, WeightAgree
    <3>3. BytesOf(pool.buffers)' = Weight(s, sizes')
      BY <2>1 DEF BytesOf, Weight, Weights
    <3>4. QED
      BY <2>1, <3>2, <3>3, BytesWeigh DEF PoolBounded
  <2>10. QED
    BY <1>1, <2>1, <2>2, <2>7, <2>8, <2>9 DEF Pooled, r
<1>6. QED
  BY <1>4, <1>5

-----------------------------------------------------------------------------
(***************************************************************************)
(* The upload cache.                                                       *)
(***************************************************************************)
\* The bytes of each copy on the device.
CopyBytes == [c \in DOMAIN copies |-> ArenaBytes[copies[c].arena]]

\* Every copy has a size.
LEMMA CopyBytesTyped ==
  ASSUME Types
  PROVE  \A c \in DOMAIN copies : CopyBytes[c] \in Nat /\ CopyBytes[c] = ArenaBytes[copies[c].arena]
<1>1. \A c \in DOMAIN copies : copies[c].arena \in Arenas
  <2>1. \A c \in DOMAIN copies : copies[c] \in CopyRecords
    BY DEF Types
  <2>2. QED
    BY <2>1 DEF CopyRecords
<1>2. ArenaBytes \in [Arenas -> Nat]
  BY SessionAssumption
<1>3. QED
  BY <1>1, <1>2 DEF CopyBytes

\* What a sequence of entries retains is its weight by the bytes of its copies.
LEMMA CachedWeigh ==
  ASSUME Types, NEW s \in Seq(DOMAIN copies)
  PROVE  CachedBytes(s) = Weight(s, CopyBytes)
<1>1. [k \in DOMAIN s |-> ArenaBytes[copies[s[k]].arena]] = [k \in DOMAIN s |-> CopyBytes[s[k]]]
  <2>1. \A k \in DOMAIN s : s[k] \in DOMAIN copies
    OBVIOUS
  <2>2. \A k \in DOMAIN s : CopyBytes[s[k]] = ArenaBytes[copies[s[k]].arena]
    BY <2>1, CopyBytesTyped
  <2>3. QED
    BY <2>2
<1>2. QED
  BY <1>1 DEF CachedBytes, Weight, Weights

\* An entry that serves a caller becomes the most recently used one.
LEMMA HitEffect ==
  ASSUME Types, CacheBounded, NEW k \in DOMAIN cache.entries,
         cache' = [cache EXCEPT !.entries = Append(RemoveAt(@, k), cache.entries[k])],
         UNCHANGED copies
  PROVE  /\ cache' \in [entries : Seq(DOMAIN copies), bytes : Int]
         /\ cache'.bytes = CachedBytes(cache.entries)'
         /\ cache'.bytes = cache.bytes
         /\ Len(cache'.entries) = Len(cache.entries)
         /\ IsInjective(cache'.entries)
         /\ Cached' = Cached
<1> DEFINE s == cache.entries
           r == RemoveAt(s, k)
           u == Append(r, s[k])
<1>1. /\ cache \in [entries : Seq(DOMAIN copies), bytes : Int]
      /\ s \in Seq(DOMAIN copies)
      /\ k \in 1..Len(s)
      /\ s[k] \in DOMAIN copies
  BY DEF Types
<1>2. IsInjective(s)
  BY DEF CacheBounded
<1>3. r \in Seq(DOMAIN copies) /\ Len(r) = Len(s) - 1
  BY <1>1, Removed
<1>4. ToSet(r) = ToSet(s) \ {s[k]} /\ IsInjective(r)
  BY <1>1, <1>2, RemovedSet
<1>5. s[k] \in ToSet(s)
  BY <1>1 DEF ToSet
<1>6. \A c \in DOMAIN copies : CopyBytes[c] \in Nat
  BY CopyBytesTyped
<1>7. Weight(r, CopyBytes) = Weight(s, CopyBytes) - CopyBytes[s[k]]
  BY <1>1, <1>6, WeightRemoved
<1>8. \A q \in Seq(DOMAIN copies) : \A x \in DOMAIN copies :
        /\ Weight(q, CopyBytes) \in Nat
        /\ Weight(Append(q, x), CopyBytes) = Weight(q, CopyBytes) + CopyBytes[x]
  BY <1>6, WeightAppend, WeightType
<1>9. \A q \in Seq(DOMAIN copies) : \A x \in DOMAIN copies :
        /\ ToSet(Append(q, x)) = ToSet(q) \cup {x}
        /\ IsInjective(q) /\ x \notin ToSet(q) => IsInjective(Append(q, x))
  BY AppendSet
<1>10. cache'.entries = u /\ cache'.bytes = cache.bytes
  BY <1>1
<1> HIDE DEF r
<1>11. u \in Seq(DOMAIN copies) /\ Len(u) = Len(s)
  BY <1>1, <1>3
<1>12. ToSet(u) = ToSet(s) /\ IsInjective(u)
  <2>1. s[k] \in DOMAIN copies /\ s[k] \notin ToSet(r) /\ IsInjective(r)
    BY <1>1, <1>4
  <2>2. ToSet(u) = ToSet(r) \cup {s[k]} /\ IsInjective(u)
    BY <1>3, <1>9, <2>1, Zenon
  <2>3. QED
    BY <1>4, <1>5, <2>2
<1>13. Weight(u, CopyBytes) = Weight(s, CopyBytes)
  <2>1. Weight(u, CopyBytes) = Weight(r, CopyBytes) + CopyBytes[s[k]]
    BY <1>1, <1>3, <1>8
  <2>2. Weight(s, CopyBytes) \in Nat /\ CopyBytes[s[k]] \in Nat
    BY <1>1, <1>6, <1>8
  <2>3. QED
    BY <1>7, <2>1, <2>2
<1>14. CachedBytes(u) = CachedBytes(s)
  BY <1>1, <1>11, <1>13, CachedWeigh
<1>15. cache' = [cache EXCEPT !.entries = u]
  BY DEF r
<1> HIDE DEF u
<1>16. cache' \in [entries : Seq(DOMAIN copies), bytes : Int]
  BY <1>1, <1>11, <1>15
<1>17. CachedBytes(cache.entries)' = CachedBytes(u)
  <2>1. cache'.entries = u /\ copies' = copies
    BY <1>10
  <2>2. [k1 \in DOMAIN cache'.entries |-> ArenaBytes[copies'[cache'.entries[k1]].arena]]
          = [k1 \in DOMAIN u |-> ArenaBytes[copies[u[k1]].arena]]
    BY <2>1
  <2>3. QED
    BY <2>2, Zenon DEF CachedBytes
<1>18. cache.bytes = CachedBytes(s)
  BY DEF CacheBounded
<1>19. QED
  BY <1>10, <1>11, <1>12, <1>14, <1>16, <1>17, <1>18 DEF Cached

\* There is a least number of evictions after which an arena has room.
LEMMA RoomExists ==
  ASSUME Types, NEW bytes \in Nat, bytes <= CacheBytes
  PROVE  \E n \in 0..Len(cache.entries) :
           HasRoom(n, bytes) /\ \A j \in 0..n - 1 : ~ HasRoom(j, bytes)
<1> DEFINE s == cache.entries
           S == {k \in 0..Len(s) : HasRoom(k, bytes)}
<1>1. s \in Seq(DOMAIN copies)
  BY DEF Types
<1>2. Len(s) \in S
  <2>1. Rest(s, Len(s)) = <<>>
    BY <1>1 DEF Rest
  <2>2. CachedBytes(<<>>) = 0
    <3>1. <<>> \in Seq(DOMAIN copies)
      OBVIOUS
    <3>2. CachedBytes(<<>>) = Weight(<<>>, CopyBytes)
      BY <3>1, CachedWeigh
    <3>3. QED
      BY <3>2, WeightEmpty
  <2>3. Len(s) - Len(s) < CacheEntries
    BY <1>1, SessionAssumption
  <2>4. HasRoom(Len(s), bytes)
    BY <2>1, <2>2, <2>3 DEF HasRoom
  <2>5. QED
    BY <1>1, <2>4
<1>3. S \in SUBSET Nat /\ S # {}
  BY <1>2
<1>4. PICK n \in S : \A y \in S : n <= y
  BY <1>3, LeastElement
<1>5. ASSUME NEW j \in 0..n - 1
      PROVE  ~ HasRoom(j, bytes)
  <2>1. Len(s) \in Nat /\ n \in 0..Len(s)
    BY <1>1
  <2>2. j \in 0..Len(s) /\ ~ (n <= j)
    BY <2>1
  <2>3. j \notin S
    BY <1>4, <2>2
  <2>4. QED
    BY <2>2, <2>3
<1>6. QED
  BY <1>5

\* The caller that encodes is the only one.
LEMMA EncodesAlone ==
  ASSUME Types, LockHeld, NEW t \in Callers, call[t].pc \in Encoding
  PROVE  lock = t /\ \A u \in Callers : u # t => call[u].pc \notin Encoding
  BY DEF LockHeld

\* What is cached stays accounted for while copies keep their arenas.
LEMMA CachedKept ==
  ASSUME Types, UNCHANGED cache,
         \A c \in DOMAIN copies : copies'[c].arena = copies[c].arena
  PROVE  CachedBytes(cache.entries)' = CachedBytes(cache.entries)
<1>1. cache.entries \in Seq(DOMAIN copies)
  BY DEF Types
<1>2. [k \in DOMAIN cache'.entries |-> ArenaBytes[copies'[cache'.entries[k]].arena]]
        = [k \in DOMAIN cache.entries |-> ArenaBytes[copies[cache.entries[k]].arena]]
  BY <1>1
<1>3. QED
  BY <1>2, Zenon DEF CachedBytes

\* Inserting the copy that was made: it evicts what it needs, and nothing that is
\* left serves the same stream with the same arena.
LEMMA InsertEffect ==
  ASSUME Types, LockHeld, Progress, CacheBounded, NEW t \in Callers, InsertUpload(t)
  PROVE  /\ Types'
         /\ CacheBounded'
         /\ call'[t] = [call[t] EXCEPT !.copies = Append(call[t].copies, Len(copies)), !.pc = "upload"]
         /\ \A u \in Callers : u # t => call'[u] = call[u]
<1> DEFINE s     == cache.entries
           copy  == Len(copies)
           bytes == ArenaBytes[NextArena(t)]
           n     == CHOOSE k \in 0..Len(cache.entries) :
                      HasRoom(k, bytes) /\ \A j \in 0..k - 1 : ~ HasRoom(j, bytes)
           front == SubSeq(s, 1, n)
           back  == SubSeq(s, n + 1, Len(s))
<1>1. call[t].pc = "insert"
  BY DEF InsertUpload
<1>2. /\ copies # <<>> /\ Serves(copy, t)
      /\ \A e \in Cached : ~ Serves(e, t)
  BY <1>1 DEF CacheBounded
<1>3. /\ cache \in [entries : Seq(DOMAIN copies), bytes : Int]
      /\ s \in Seq(DOMAIN copies)
      /\ copies \in Seq(CopyRecords)
      /\ copy \in DOMAIN copies
      /\ call[t] \in CallRecords(DOMAIN copies, Buffers, DOMAIN commands)
      /\ call[t].copies \in Seq(DOMAIN copies)
  BY <1>2, CallTyped DEF Types
<1>4. CopyBytes[copy] = bytes /\ bytes \in Nat
  <2>1. copies[copy].arena = NextArena(t)
    BY <1>2 DEF Serves
  <2>2. QED
    BY <1>3, <2>1, CopyBytesTyped
<1>5. /\ cache' = IF bytes > CacheBytes THEN cache
                  ELSE [entries |-> Append(back, copy),
                        bytes   |-> cache.bytes - CachedBytes(front) + bytes]
      /\ call' = [call EXCEPT ![t].copies = Append(@, copy), ![t].pc = "upload"]
      /\ UNCHANGED <<lock, outcomes, pool, sizes, freed, copies, commands, streams>>
  BY Zenon DEF InsertUpload, Rest, memory
<1> DEFINE r == [call[t] EXCEPT !.copies = Append(call[t].copies, copy), !.pc = "upload"]
<1>6. /\ call' \in [Callers -> CallRecords(DOMAIN copies, Buffers, DOMAIN commands)]
      /\ call'[t] = r
      /\ \A u \in Callers : u # t => call'[u] = call[u]
  <2>1. Append(call[t].copies, copy) \in Seq(DOMAIN copies)
    BY <1>3
  <2>2. r \in CallRecords(DOMAIN copies, Buffers, DOMAIN commands)
    BY <1>3, <2>1 DEF CallRecords, Pcs, Encoding
  <2>3. call \in [Callers -> CallRecords(DOMAIN copies, Buffers, DOMAIN commands)]
    BY DEF Types
  <2>4. call' = [call EXCEPT ![t] = r]
    BY <1>5
  <2> HIDE DEF r
  <2>5. QED
    BY <2>2, <2>3, <2>4
<1>7. call'[t].pc = "upload"
  BY <1>3, <1>6 DEF CallRecords
<1>8. \A u \in Callers : call'[u].pc \notin {"copy", "insert"}
  <2>1. \A u \in Callers : u # t => call[u].pc \notin Encoding
    BY <1>1, EncodesAlone DEF Encoding
  <2>2. QED
    BY <1>6, <1>7, <2>1 DEF Encoding
<1>9. cache' \in [entries : Seq(DOMAIN copies), bytes : Int] /\ CacheBounded'
  <2>1. CASE bytes > CacheBytes
    <3>1. cache' = cache /\ copies' = copies
      BY <1>5, <2>1
    <3>2. CachedBytes(cache.entries)' = CachedBytes(cache.entries)
      BY <3>1, CachedKept
    <3>3. QED
      BY <1>3, <1>8, <3>1, <3>2 DEF CacheBounded, Cached
  <2>2. CASE ~ (bytes > CacheBytes)
    <3>1. n \in 0..Len(s) /\ HasRoom(n, bytes)
      <4>1. bytes <= CacheBytes
        BY <1>4, <2>2, SessionAssumption
      <4>2. \E k \in 0..Len(cache.entries) :
              HasRoom(k, bytes) /\ \A j \in 0..k - 1 : ~ HasRoom(j, bytes)
        BY <1>4, <4>1, RoomExists
      <4>3. QED
        BY <4>2
    <3>2. cache' = [entries |-> Append(back, copy),
                    bytes   |-> cache.bytes - CachedBytes(front) + bytes]
      BY <1>5, <2>2
    <3> HIDE DEF n, bytes, copy
    <3>3. /\ front \in Seq(DOMAIN copies)
          /\ back \in Seq(DOMAIN copies)
          /\ Len(back) = Len(s) - n
      BY <1>3, <3>1, Split
    <3>4. IsInjective(s)
      BY DEF CacheBounded
    <3>5. /\ ToSet(back) = ToSet(s) \ ToSet(front)
          /\ IsInjective(back)
      BY <1>3, <3>1, <3>4, SplitSet
    <3>6. \A c \in DOMAIN copies : CopyBytes[c] \in Nat
      BY CopyBytesTyped
    <3>7. Weight(s, CopyBytes) = Weight(front, CopyBytes) + Weight(back, CopyBytes)
      BY <1>3, <3>1, <3>6, WeightSplit
    <3>8. \A q \in Seq(DOMAIN copies) : \A x \in DOMAIN copies :
            /\ Weight(q, CopyBytes) \in Nat
            /\ Weight(Append(q, x), CopyBytes) = Weight(q, CopyBytes) + CopyBytes[x]
            /\ CachedBytes(q) = Weight(q, CopyBytes)
      BY <3>6, WeightAppend, WeightType, CachedWeigh
    <3>9. \A q \in Seq(DOMAIN copies) : \A x \in DOMAIN copies :
            /\ ToSet(Append(q, x)) = ToSet(q) \cup {x}
            /\ IsInjective(q) /\ x \notin ToSet(q) => IsInjective(Append(q, x))
      BY AppendSet
    <3> DEFINE u == Append(back, copy)
    <3> HIDE DEF front, back
    <3>10. u \in Seq(DOMAIN copies) /\ Len(u) = Len(s) - n + 1
      <4>1. copy \in DOMAIN copies /\ back \in Seq(DOMAIN copies) /\ Len(back) = Len(s) - n
        BY <1>3, <3>3
      <4>2. u \in Seq(DOMAIN copies) /\ Len(u) = Len(back) + 1
        BY <4>1
      <4>3. QED
        BY <4>1, <4>2
    <3>11. copy \notin ToSet(back)
      BY <1>2, <3>5 DEF Cached, copy
    <3>12. ToSet(u) = ToSet(back) \cup {copy} /\ IsInjective(u)
      BY <1>3, <3>3, <3>5, <3>9, <3>11, Zenon
    <3>13. CachedBytes(u) = CachedBytes(back) + bytes
      <4>1. Weight(u, CopyBytes) = Weight(back, CopyBytes) + CopyBytes[copy]
        BY <1>3, <3>3, <3>8, Zenon
      <4>2. CachedBytes(u) = Weight(u, CopyBytes) /\ CachedBytes(back) = Weight(back, CopyBytes)
        BY <1>3, <3>3, <3>8, <3>10, Zenon
      <4>3. QED
        BY <1>4, <4>1, <4>2
    <3>14. cache.bytes - CachedBytes(front) + bytes = CachedBytes(u)
      <4>1. /\ CachedBytes(s) = Weight(s, CopyBytes)
            /\ CachedBytes(front) = Weight(front, CopyBytes) /\ Weight(front, CopyBytes) \in Nat
            /\ CachedBytes(back) = Weight(back, CopyBytes) /\ Weight(back, CopyBytes) \in Nat
        BY <1>3, <3>3, <3>8, Zenon
      <4>2. cache.bytes = CachedBytes(s)
        BY DEF CacheBounded
      <4>3. QED
        BY <1>4, <3>7, <3>13, <4>1, <4>2
    <3>15. /\ CachedBytes(u) <= CacheBytes
           /\ Len(u) <= CacheEntries
           /\ CachedBytes(u) \in Int
      <4>1. Len(s) - n < CacheEntries /\ CachedBytes(back) + bytes <= CacheBytes
        BY <3>1 DEF HasRoom, Rest, back
      <4>2. CachedBytes(back) \in Nat
        BY <1>3, <3>3, <3>8
      <4>3. Len(s) \in Nat /\ n \in Nat /\ CacheEntries \in Nat
        BY <1>3, <3>1, SessionAssumption
      <4>4. QED
        BY <1>4, <3>10, <3>13, <4>1, <4>2, <4>3
    <3>16. cache'.entries = u /\ cache'.bytes = CachedBytes(u)
      BY <3>2, <3>14
    <3>17. cache' \in [entries : Seq(DOMAIN copies), bytes : Int]
      BY <3>2, <3>10, <3>14, <3>15
    <3> HIDE DEF u
    <3>18. CachedBytes(cache.entries)' = CachedBytes(u)
      <4>1. [k \in DOMAIN cache'.entries |-> ArenaBytes[copies'[cache'.entries[k]].arena]]
              = [k \in DOMAIN u |-> ArenaBytes[copies[u[k]].arena]]
        BY <1>5, <3>16
      <4>2. QED
        BY <4>1, Zenon DEF CachedBytes
    <3>19. Cached' = ToSet(back) \cup {copy}
      BY <3>12, <3>16 DEF Cached
    <3>20. \A e \in ToSet(back) :
             \/ copies[e].arena # copies[copy].arena
             \/ copies[e].stream # copies[copy].stream
      BY <1>2, <3>5 DEF Serves, Cached, copy
    <3>21. ToSet(back) \subseteq Cached
      BY <3>5 DEF Cached
    <3>22. \A e, f \in Cached' :
             e # f => copies'[e].arena # copies'[f].arena \/ copies'[e].stream # copies'[f].stream
      BY <1>5, <3>19, <3>20, <3>21 DEF CacheBounded
    <3>23. CacheBounded'
      BY <1>8, <3>12, <3>15, <3>16, <3>18, <3>22 DEF CacheBounded
    <3>24. QED
      BY <3>17, <3>23
  <2>3. QED
    BY <2>1, <2>2
<1>10. Types'
  BY <1>5, <1>6, <1>9 DEF Types, Buffers
<1>11. QED
  BY <1>6, <1>9, <1>10

-----------------------------------------------------------------------------
(***************************************************************************)
(* What each step changes, and that it keeps the types.                    *)
(***************************************************************************)
\* An operation joins the end of its stream.
LEMMA EnqueueEffect ==
  ASSUME Types, NEW s \in StreamIds, NEW op \in Ops, Enqueue(s, op)
  PROVE  /\ streams' \in [StreamIds -> Seq(Ops)]
         /\ streams'[s] = Append(streams[s], op)
         /\ \A r \in StreamIds : r # s => streams'[r] = streams[r]
<1>1. streams \in [StreamIds -> Seq(Ops)]
  BY DEF Types
<1>2. streams' = [streams EXCEPT ![s] = Append(streams[s], op)]
  BY DEF Enqueue
<1>3. Append(streams[s], op) \in Seq(Ops)
  BY <1>1
<1>4. QED
  BY <1>1, <1>2, <1>3

\* A command is added after the others.
LEMMA AddedCommand ==
  ASSUME Types, NEW cmd \in CommandRecords(DOMAIN copies, Buffers), commands' = Append(commands, cmd)
  PROVE  /\ commands' \in Seq(CommandRecords(DOMAIN copies, Buffers))
         /\ (DOMAIN commands)' = DOMAIN commands \cup {Len(commands) + 1}
         /\ Len(commands) + 1 \notin DOMAIN commands
         /\ commands'[Len(commands) + 1] = cmd
         /\ \A c \in DOMAIN commands : commands'[c] = commands[c]
<1>1. commands \in Seq(CommandRecords(DOMAIN copies, Buffers))
  BY DEF Types
<1> DEFINE R == CommandRecords(DOMAIN copies, Buffers)
<1>2. commands \in Seq(R) /\ cmd \in R
  BY <1>1
<1> HIDE DEF R
<1>3. /\ commands' \in Seq(R)
      /\ (DOMAIN commands)' = DOMAIN commands \cup {Len(commands) + 1}
      /\ Len(commands) + 1 \notin DOMAIN commands
      /\ commands'[Len(commands) + 1] = cmd
      /\ \A c \in DOMAIN commands : commands'[c] = commands[c]
  BY <1>2
<1>4. QED
  BY <1>3 DEF R

\* A call begins, or is refused and over.
LEMMA BeginEffect ==
  ASSUME Types, NEW t \in Callers, BeginCall(t)
  PROVE  /\ Types'
         /\ call[t].pc = "idle"
         /\ Len(outcomes[t]) < Len(Calls[t])
         /\ UNCHANGED <<lock, memory, uploads, commands, streams>>
         /\ \/ /\ outcomes'[t] = Append(outcomes[t], [result |-> "refused", commands |-> <<>>])
               /\ \A u \in Callers : u # t => outcomes'[u] = outcomes[u]
               /\ UNCHANGED call
            \/ /\ call'[t] = [call[t] EXCEPT !.pc = IF PlansOf(t) = <<>> THEN "submitted" ELSE "lock"]
               /\ \A u \in Callers : u # t => call'[u] = call[u]
               /\ UNCHANGED outcomes
<1>1. /\ call[t].pc = "idle"
      /\ Len(outcomes[t]) < Len(Calls[t])
      /\ UNCHANGED <<lock, memory, uploads, commands, streams>>
  BY DEF BeginCall
<1>2. CASE Refused(t)
  <2> DEFINE o == [result |-> "refused", commands |-> <<>>]
  <2>1. outcomes' = [outcomes EXCEPT ![t] = Append(outcomes[t], o)] /\ call' = call
    BY <1>2 DEF BeginCall
  <2>2. o \in OutcomeRecords(DOMAIN commands)
    <3>1. <<>> \in Seq(DOMAIN commands)
      OBVIOUS
    <3>2. QED
      BY <3>1 DEF OutcomeRecords
  <2> DEFINE R == OutcomeRecords(DOMAIN commands)
  <2>3. outcomes \in [Callers -> Seq(R)]
    BY DEF Types
  <2> HIDE DEF R, o
  <2>4. Append(outcomes[t], o) \in Seq(R)
    BY <2>2, <2>3 DEF R
  <2>5. /\ outcomes' \in [Callers -> Seq(R)]
        /\ outcomes'[t] = Append(outcomes[t], o)
        /\ \A u \in Callers : u # t => outcomes'[u] = outcomes[u]
    BY <2>1, <2>3, <2>4
  <2>6. Types'
    BY <1>1, <2>1, <2>5 DEF Types, R, Buffers, memory, uploads
  <2>7. QED
    BY <1>1, <2>1, <2>5, <2>6 DEF o
<1>3. CASE ~ Refused(t)
  <2> DEFINE pc == IF PlansOf(t) = <<>> THEN "submitted" ELSE "lock"
  <2>1. Goto(t, pc) /\ outcomes' = outcomes
    BY <1>3 DEF BeginCall
  <2>2. pc \in Pcs
    BY DEF Pcs, Waiting
  <2> HIDE DEF pc
  <2>3. lock' \in Callers \cup {"free"}
    BY <1>1 DEF Types
  <2>4. Types'
    BY <1>1, <2>1, <2>2, <2>3, GotoTypes
  <2>5. call'[t] = [call[t] EXCEPT !.pc = pc] /\ \A u \in Callers : u # t => call'[u] = call[u]
    BY <2>1, <2>2, GotoMoved
  <2>6. QED
    BY <1>1, <2>1, <2>4, <2>5 DEF pc
<1>4. QED
  BY <1>2, <1>3

\* An arena is found in the cache, or is to be copied.
LEMMA FindEffect ==
  ASSUME Types, LockHeld, CacheBounded, NEW t \in Callers, FindUpload(t)
  PROVE  /\ Types'
         /\ CacheBounded'
         /\ call[t].pc = "upload"
         /\ Len(call[t].copies) < Len(PlanArenas[Plan(t)])
         /\ UNCHANGED <<lock, outcomes, memory, copies, commands, streams>>
         /\ \A u \in Callers : u # t => call'[u] = call[u]
         /\ \/ \E e \in Cached : /\ Serves(e, t)
                                 /\ call'[t] = [call[t] EXCEPT !.copies = Append(call[t].copies, e)]
            \/ call'[t] = [call[t] EXCEPT !.pc = "copy"]
<1>1. /\ call[t].pc = "upload"
      /\ Len(call[t].copies) < Len(PlanArenas[Plan(t)])
      /\ UNCHANGED <<lock, outcomes, memory, copies, commands, streams>>
  BY DEF FindUpload
<1>2. /\ cache.entries \in Seq(DOMAIN copies)
      /\ call[t] \in CallRecords(DOMAIN copies, Buffers, DOMAIN commands)
      /\ call[t].copies \in Seq(DOMAIN copies)
      /\ call \in [Callers -> CallRecords(DOMAIN copies, Buffers, DOMAIN commands)]
  BY CallTyped DEF Types
<1>3. \A u \in Callers : u # t => call[u].pc \notin Encoding
  BY <1>1, EncodesAlone DEF Encoding
<1>4. CASE \E k \in DOMAIN cache.entries : Serves(cache.entries[k], t)
  <2> DEFINE I   == {i \in 1..Len(cache.entries) : Serves(cache.entries[i], t)}
             hit == SelectInSeq(cache.entries, LAMBDA e : Serves(e, t))
  <2>1. hit \in I
    <3>1. I \in SUBSET Nat /\ I # {}
      BY <1>2, <1>4
    <3>2. \E x \in I : \A y \in I : x <= y
      BY <3>1, LeastElement
    <3>3. hit = CHOOSE x \in I : \A y \in I : x <= y
      BY <3>1 DEF SelectInSeq, Min
    <3>4. QED
      BY <3>2, <3>3
  <2>2. /\ cache' = [cache EXCEPT !.entries = Append(RemoveAt(@, hit), cache.entries[hit])]
        /\ call' = [call EXCEPT ![t].copies = Append(@, cache.entries[hit])]
    BY <1>4, Zenon DEF FindUpload
  <2> HIDE DEF hit
  <2> DEFINE e == cache.entries[hit]
             r == [call[t] EXCEPT !.copies = Append(call[t].copies, e)]
  <2>3. hit \in DOMAIN cache.entries /\ Serves(e, t) /\ e \in Cached /\ e \in DOMAIN copies
    BY <1>2, <2>1 DEF Cached, ToSet
  <2>4. /\ cache' \in [entries : Seq(DOMAIN copies), bytes : Int]
        /\ cache'.bytes = CachedBytes(cache.entries)'
        /\ cache'.bytes = cache.bytes
        /\ Len(cache'.entries) = Len(cache.entries)
        /\ IsInjective(cache'.entries)
        /\ Cached' = Cached
    BY <1>1, <2>2, <2>3, HitEffect
  <2>5. r \in CallRecords(DOMAIN copies, Buffers, DOMAIN commands)
    <3>1. Append(call[t].copies, e) \in Seq(DOMAIN copies)
      BY <1>2, <2>3
    <3>2. QED
      BY <1>2, <3>1 DEF CallRecords
  <2>6. call' = [call EXCEPT ![t] = r]
    BY <2>2
  <2>7. r.pc = "upload"
    BY <1>1, <1>2 DEF CallRecords
  <2> HIDE DEF r
  <2>8. /\ call' \in [Callers -> CallRecords(DOMAIN copies, Buffers, DOMAIN commands)]
        /\ call'[t] = r
        /\ \A u \in Callers : u # t => call'[u] = call[u]
    BY <1>2, <2>5, <2>6
  <2>9. Types'
    BY <1>1, <2>4, <2>8 DEF Types, Buffers, memory
  <2>10. \A u \in Callers : call'[u].pc \notin {"copy", "insert"}
    BY <1>3, <2>7, <2>8 DEF Encoding
  <2>11. CacheBounded'
    <3>1. /\ cache.bytes <= CacheBytes
          /\ Len(cache.entries) <= CacheEntries
          /\ \A x, y \in Cached :
               x # y => copies[x].arena # copies[y].arena \/ copies[x].stream # copies[y].stream
      BY DEF CacheBounded
    <3>2. \A x, y \in Cached' :
            x # y => copies'[x].arena # copies'[y].arena \/ copies'[x].stream # copies'[y].stream
      BY <1>1, <2>4, <3>1
    <3>3. QED
      BY <2>4, <2>10, <3>1, <3>2 DEF CacheBounded
  <2>12. QED
    BY <1>1, <2>3, <2>8, <2>9, <2>11 DEF r
<1>5. CASE ~ \E k \in DOMAIN cache.entries : Serves(cache.entries[k], t)
  <2>1. Goto(t, "copy") /\ cache' = cache
    BY <1>5, Zenon DEF FindUpload
  <2>2. lock' \in Callers \cup {"free"} /\ "copy" \in Pcs
    BY <1>1 DEF Types, Pcs, Encoding
  <2>3. Types'
    BY <1>1, <2>1, <2>2, GotoTypes DEF uploads
  <2>4. call'[t] = [call[t] EXCEPT !.pc = "copy"] /\ \A u \in Callers : u # t => call'[u] = call[u]
    BY <2>1, <2>2, GotoMoved
  <2>5. \A x \in Cached : ~ Serves(x, t)
    BY <1>5 DEF Cached, ToSet
  <2>6. call'[t].pc = "copy" /\ call'[t].copies = call[t].copies /\ call'[t].plan = call[t].plan
    BY <1>2, <2>4 DEF CallRecords
  <2>7. \A x \in Cached : ~ Serves(x, t)'
    BY <1>1, <2>5, <2>6 DEF Serves, NextArena, Plan, PlansOf, Current, StreamOf
  <2>8. CachedBytes(cache.entries)' = CachedBytes(cache.entries)
    BY <1>1, <2>1, CachedKept
  <2>9. \A u \in Callers : call'[u].pc \in {"copy", "insert"} => u = t
    BY <1>3, <2>4 DEF Encoding
  <2>10. CacheBounded'
    <3>1. Cached' = Cached
      BY <2>1 DEF Cached
    <3>2. \A x, y \in Cached' :
            x # y => copies'[x].arena # copies'[y].arena \/ copies'[x].stream # copies'[y].stream
      BY <1>1, <3>1 DEF CacheBounded
    <3>3. \A u \in Callers :
            /\ call'[u].pc \in {"copy", "insert"} => \A x \in Cached' : ~ Serves(x, u)'
            /\ call'[u].pc = "insert" => copies' # <<>> /\ Serves(Len(copies), u)'
      BY <2>6, <2>7, <2>9, <3>1
    <3>4. QED
      BY <2>1, <2>8, <3>2, <3>3 DEF CacheBounded
  <2>11. QED
    BY <1>1, <2>3, <2>4, <2>10
<1>6. QED
  BY <1>4, <1>5

\* An arena that was missed is copied, the copy enqueued on the stream of its plan.
LEMMA CopyEffect ==
  ASSUME Types, LockHeld, Progress, CacheBounded, NEW t \in Callers, CopyArena(t)
  PROVE  /\ Types'
         /\ CacheBounded'
         /\ call[t].pc = "copy"
         /\ StreamOf(t) \in StreamIds
         /\ UNCHANGED <<lock, outcomes, memory, cache, commands>>
         /\ call'[t] = [call[t] EXCEPT !.pc = "insert"]
         /\ \A u \in Callers : u # t => call'[u] = call[u]
         /\ (DOMAIN copies)' = DOMAIN copies \cup {Len(copies) + 1}
         /\ Len(copies) + 1 \notin DOMAIN copies
         /\ copies'[Len(copies) + 1] = [arena |-> NextArena(t), stream |-> StreamOf(t), done |-> FALSE]
         /\ \A c \in DOMAIN copies : copies'[c] = copies[c]
         /\ streams'[StreamOf(t)] = Append(streams[StreamOf(t)], CopyOp(Len(copies) + 1))
         /\ \A s \in StreamIds : s # StreamOf(t) => streams'[s] = streams[s]
<1> DEFINE new == [arena |-> NextArena(t), stream |-> StreamOf(t), done |-> FALSE]
<1>1. /\ call[t].pc = "copy"
      /\ copies' = Append(copies, new)
      /\ Enqueue(StreamOf(t), CopyOp(Len(copies) + 1))
      /\ Goto(t, "insert")
      /\ UNCHANGED <<lock, outcomes, memory, cache, commands>>
  BY Zenon DEF CopyArena, CopyOp
<1>2. Len(outcomes[t]) < Len(Calls[t])
  BY <1>1 DEF Progress, ProgressOf
<1>3. /\ StreamOf(t) \in StreamIds
      /\ PlanArenas[Plan(t)] \in Seq(Arenas)
  BY <1>1, <1>2, CurrentTyped DEF Encoding
<1>4. NextArena(t) \in Arenas
  <2>1. Len(call[t].copies) < Len(PlanArenas[Plan(t)])
    BY <1>1 DEF Progress, ProgressOf
  <2>2. call[t].copies \in Seq(DOMAIN copies)
    BY CallTyped
  <2>3. Len(call[t].copies) + 1 \in 1..Len(PlanArenas[Plan(t)])
    BY <1>3, <2>1, <2>2
  <2>4. QED
    BY <1>3, <2>3, ElementOfSeq DEF NextArena
<1>5. new \in CopyRecords
  BY <1>3, <1>4 DEF CopyRecords
<1>6. copies \in Seq(CopyRecords)
  BY DEF Types
<1> HIDE DEF new
<1>7. /\ copies' \in Seq(CopyRecords)
      /\ (DOMAIN copies)' = DOMAIN copies \cup {Len(copies) + 1}
      /\ Len(copies) + 1 \notin DOMAIN copies
      /\ copies'[Len(copies) + 1] = new
      /\ \A c \in DOMAIN copies : copies'[c] = copies[c]
      /\ Len(copies') = Len(copies) + 1
      /\ Len(copies) \in Nat
  BY <1>1, <1>5, <1>6
<1>8. CopyOp(Len(copies) + 1) \in Ops
  BY <1>6 DEF CopyOp, Ops
<1>9. /\ streams' \in [StreamIds -> Seq(Ops)]
      /\ streams'[StreamOf(t)] = Append(streams[StreamOf(t)], CopyOp(Len(copies) + 1))
      /\ \A s \in StreamIds : s # StreamOf(t) => streams'[s] = streams[s]
  BY <1>1, <1>3, <1>8, EnqueueEffect
<1>10. /\ call' \in [Callers -> CallRecords(DOMAIN copies, Buffers, DOMAIN commands)]
       /\ call'[t] = [call[t] EXCEPT !.pc = "insert"]
       /\ \A u \in Callers : u # t => call'[u] = call[u]
  BY <1>1, GotoMoved DEF Pcs, Encoding
<1>11. DOMAIN copies \subseteq (DOMAIN copies)' /\ Buffers \subseteq Buffers'
         /\ DOMAIN commands \subseteq (DOMAIN commands)' /\ Buffers' = Buffers
         /\ (DOMAIN commands)' = DOMAIN commands
  BY <1>1, <1>7 DEF Buffers, memory
<1>12. Types'
  <2>1. /\ outcomes \in [Callers -> Seq(OutcomeRecords((DOMAIN commands)'))]
        /\ commands \in Seq(CommandRecords((DOMAIN copies)', Buffers'))
        /\ pool \in [buffers : Seq(Buffers'), bytes : Int, highWater : Int]
        /\ freed \subseteq Buffers'
        /\ cache \in [entries : Seq((DOMAIN copies)'), bytes : Int]
    BY <1>11, TypesGrow
  <2>2. CallRecords(DOMAIN copies, Buffers, DOMAIN commands)
          \subseteq CallRecords((DOMAIN copies)', Buffers', (DOMAIN commands)')
    BY <1>11, RecordsGrow
  <2>3. call' \in [Callers -> CallRecords((DOMAIN copies)', Buffers', (DOMAIN commands)')]
    BY <1>10, <2>2
  <2>4. lock \in Callers \cup {"free"} /\ sizes \in Seq(Nat \ {0})
    BY DEF Types
  <2>5. QED
    BY <1>1, <1>7, <1>9, <2>1, <2>3, <2>4 DEF Types, memory
<1>13. CacheBounded'
  <2>1. CachedBytes(cache.entries)' = CachedBytes(cache.entries)
    BY <1>1, <1>7, CachedKept
  <2>2. Cached' = Cached /\ Cached \subseteq DOMAIN copies
    <3>1. cache.entries \in Seq(DOMAIN copies)
      BY DEF Types
    <3>2. QED
      BY <1>1, <3>1 DEF Cached, ToSet
  <2>3. \A e, f \in Cached' :
          e # f => copies'[e].arena # copies'[f].arena \/ copies'[e].stream # copies'[f].stream
    BY <1>7, <2>2 DEF CacheBounded
  <2>4. call'[t].copies = call[t].copies /\ call'[t].plan = call[t].plan
    <3>1. call[t] \in CallRecords(DOMAIN copies, Buffers, DOMAIN commands)
      BY CallTyped
    <3>2. QED
      BY <1>10, <3>1 DEF CallRecords
  <2>5. NextArena(t)' = NextArena(t) /\ StreamOf(t)' = StreamOf(t)
    BY <1>1, <2>4 DEF NextArena, Plan, PlansOf, Current, StreamOf
  <2>6. \A e \in Cached' : ~ Serves(e, t)'
    BY <1>1, <1>7, <2>2, <2>5 DEF CacheBounded, Serves
  <2>7. copies' # <<>> /\ Serves(Len(copies), t)'
    <3>1. copies' # <<>>
      BY <1>7
    <3>2. QED
      BY <1>7, <2>5, <3>1 DEF Serves, new
  <2>8. \A u \in Callers : call'[u].pc \in {"copy", "insert"} => u = t
    <3>1. \A u \in Callers : u # t => call[u].pc \notin Encoding
      BY <1>1, EncodesAlone DEF Encoding
    <3>2. QED
      BY <1>10, <3>1 DEF Encoding
  <2>9. \A u \in Callers :
          /\ call'[u].pc \in {"copy", "insert"} => \A e \in Cached' : ~ Serves(e, u)'
          /\ call'[u].pc = "insert" => copies' # <<>> /\ Serves(Len(copies), u)'
    BY <2>6, <2>7, <2>8
  <2>10. QED
    BY <1>1, <2>1, <2>3, <2>9 DEF CacheBounded
<1>14. QED
  BY <1>1, <1>3, <1>7, <1>9, <1>10, <1>12, <1>13 DEF new

RunOp(c) == [kind |-> "run", id |-> c]

\* What a launch adds is a command.
LEMMA CommandRecord ==
  ASSUME Types, NEW t \in Callers, StreamOf(t) \in StreamIds
  PROVE  /\ Command(t) \in CommandRecords(DOMAIN copies, Buffers)
         /\ [Command(t) EXCEPT !.held = <<>>] \in CommandRecords(DOMAIN copies, Buffers)
<1>1. call[t].scratch \in Seq(Buffers) /\ call[t].copies \in Seq(DOMAIN copies)
  BY CallTyped
<1>2. <<>> \in Seq(Buffers)
  OBVIOUS
<1>3. QED
  BY <1>1, <1>2 DEF Command, CommandRecords

\* The kernels of a plan are launched with the scratch that was taken for it.
LEMMA LaunchEffect ==
  ASSUME Types, Progress, NEW t \in Callers, Launch(t)
  PROVE  /\ Types'
         /\ call[t].pc = "scratch"
         /\ Len(call[t].scratch) = Len(PlanScratch[Plan(t)])
         /\ StreamOf(t) \in StreamIds
         /\ lock' = "free"
         /\ UNCHANGED <<outcomes, memory, uploads>>
         /\ call'[t] = [call[t] EXCEPT
              !.pc          = IF call[t].plan < Len(PlansOf(t)) THEN "lock" ELSE "submitted",
              !.plan        = call[t].plan + 1,
              !.copies      = <<>>,
              !.scratch     = <<>>,
              !.submissions = Append(call[t].submissions, Len(commands) + 1),
              !.issued      = Append(call[t].issued, Len(commands) + 1)]
         /\ \A u \in Callers : u # t => call'[u] = call[u]
         /\ (DOMAIN commands)' = DOMAIN commands \cup {Len(commands) + 1}
         /\ Len(commands) + 1 \notin DOMAIN commands
         /\ commands'[Len(commands) + 1] = Command(t)
         /\ \A c \in DOMAIN commands : commands'[c] = commands[c]
         /\ streams'[StreamOf(t)] = Append(streams[StreamOf(t)], RunOp(Len(commands) + 1))
         /\ \A s \in StreamIds : s # StreamOf(t) => streams'[s] = streams[s]
<1> DEFINE new == Len(commands) + 1
           r   == [call[t] EXCEPT
             !.pc          = IF call[t].plan < Len(PlansOf(t)) THEN "lock" ELSE "submitted",
             !.plan        = call[t].plan + 1,
             !.copies      = <<>>,
             !.scratch     = <<>>,
             !.submissions = Append(call[t].submissions, new),
             !.issued      = Append(call[t].issued, new)]
<1>1. /\ call[t].pc = "scratch"
      /\ Len(call[t].scratch) = Len(PlanScratch[Plan(t)])
      /\ commands' = Append(commands, Command(t))
      /\ Enqueue(StreamOf(t), RunOp(Len(commands) + 1))
      /\ call' = [call EXCEPT ![t] = r]
      /\ lock' = "free"
      /\ UNCHANGED <<outcomes, memory, uploads>>
  BY Zenon DEF Launch, RunOp
<1>2. StreamOf(t) \in StreamIds
  <2>1. Len(outcomes[t]) < Len(Calls[t])
    BY <1>1 DEF Progress, ProgressOf
  <2>2. QED
    BY <2>1, CurrentTyped
<1>3. /\ commands' \in Seq(CommandRecords(DOMAIN copies, Buffers))
      /\ (DOMAIN commands)' = DOMAIN commands \cup {Len(commands) + 1}
      /\ Len(commands) + 1 \notin DOMAIN commands
      /\ commands'[Len(commands) + 1] = Command(t)
      /\ \A c \in DOMAIN commands : commands'[c] = commands[c]
  BY <1>1, <1>2, CommandRecord, AddedCommand
<1>4. /\ streams' \in [StreamIds -> Seq(Ops)]
      /\ streams'[StreamOf(t)] = Append(streams[StreamOf(t)], RunOp(Len(commands) + 1))
      /\ \A s \in StreamIds : s # StreamOf(t) => streams'[s] = streams[s]
  <2>1. RunOp(Len(commands) + 1) \in Ops
    <3>1. Len(commands) + 1 \in Nat
      BY DEF Types
    <3>2. QED
      BY <3>1 DEF RunOp, Ops
  <2>2. QED
    BY <1>1, <1>2, <2>1, EnqueueEffect
<1>5. DOMAIN copies \subseteq (DOMAIN copies)' /\ Buffers \subseteq Buffers'
         /\ DOMAIN commands \subseteq (DOMAIN commands)' /\ Buffers' = Buffers
         /\ (DOMAIN copies)' = DOMAIN copies
  BY <1>1, <1>3 DEF Buffers, memory, uploads
<1> DEFINE CR == CallRecords((DOMAIN copies)', Buffers', (DOMAIN commands)')
<1>6. call \in [Callers -> CR]
  BY <1>5, TypesGrow
<1>7. r \in CR
  <2>1. call[t] \in CR
    BY <1>6
  <2>2. /\ call[t].submissions \in Seq((DOMAIN commands)')
        /\ call[t].issued \in Seq((DOMAIN commands)')
        /\ call[t].plan \in Nat \ {0}
    BY <2>1 DEF CallRecords
  <2>3. new \in (DOMAIN commands)'
    BY <1>3
  <2> HIDE DEF new
  <2>4. /\ Append(call[t].submissions, new) \in Seq((DOMAIN commands)')
        /\ Append(call[t].issued, new) \in Seq((DOMAIN commands)')
        /\ call[t].plan + 1 \in Nat \ {0}
        /\ <<>> \in Seq((DOMAIN copies)')
        /\ <<>> \in Seq(Buffers')
    BY <2>2, <2>3
  <2>5. (IF call[t].plan < Len(PlansOf(t)) THEN "lock" ELSE "submitted") \in Pcs
    BY DEF Pcs, Waiting
  <2>6. QED
    BY <2>1, <2>4, <2>5 DEF CallRecords
<1> HIDE DEF r, CR
<1>8. /\ call' \in [Callers -> CR]
      /\ call'[t] = r
      /\ \A u \in Callers : u # t => call'[u] = call[u]
  BY <1>1, <1>6, <1>7
<1>9. Types'
  <2>1. /\ outcomes \in [Callers -> Seq(OutcomeRecords((DOMAIN commands)'))]
        /\ pool \in [buffers : Seq(Buffers'), bytes : Int, highWater : Int]
        /\ freed \subseteq Buffers'
        /\ cache \in [entries : Seq((DOMAIN copies)'), bytes : Int]
    BY <1>5, TypesGrow
  <2>2. sizes \in Seq(Nat \ {0}) /\ copies \in Seq(CopyRecords)
    BY DEF Types
  <2>3. QED
    BY <1>1, <1>3, <1>4, <1>5, <1>8, <2>1, <2>2 DEF Types, CR, memory, uploads
<1>10. QED
  BY <1>1, <1>2, <1>3, <1>4, <1>8, <1>9 DEF r

\* An encoding that fails frees its scratch, with a kernel left running on it or not.
LEMMA FailEffect ==
  ASSUME Types, Progress, NEW t \in Callers, FailEncode(t)
  PROVE  /\ Types'
         /\ call[t].pc \in Encoding
         /\ StreamOf(t) \in StreamIds
         /\ lock' = "free"
         /\ UNCHANGED <<outcomes, pool, sizes, uploads>>
         /\ freed' = freed \cup Taken(t)
         /\ call'[t] = [call[t] EXCEPT !.pc = "drop", !.failed = TRUE, !.copies = <<>>, !.scratch = <<>>]
         /\ \A u \in Callers : u # t => call'[u] = call[u]
         /\ \A c \in DOMAIN commands : commands'[c] = commands[c]
         /\ \/ UNCHANGED <<commands, streams>>
            \/ /\ (DOMAIN commands)' = DOMAIN commands \cup {Len(commands) + 1}
               /\ Len(commands) + 1 \notin DOMAIN commands
               /\ commands'[Len(commands) + 1] = [Command(t) EXCEPT !.held = <<>>]
               /\ streams'[StreamOf(t)] = Append(streams[StreamOf(t)], RunOp(Len(commands) + 1))
               /\ \A s \in StreamIds : s # StreamOf(t) => streams'[s] = streams[s]
<1> DEFINE r   == [call[t] EXCEPT !.pc = "drop", !.failed = TRUE, !.copies = <<>>, !.scratch = <<>>]
           cmd == [Command(t) EXCEPT !.held = <<>>]
<1>1. /\ call[t].pc \in {"upload", "copy", "insert", "scratch"}
      /\ freed' = freed \cup ToSet(call[t].scratch)
      /\ \/ /\ commands' = Append(commands, cmd)
            /\ Enqueue(StreamOf(t), RunOp(Len(commands) + 1))
         \/ UNCHANGED <<commands, streams>>
      /\ call' = [call EXCEPT ![t] = r]
      /\ lock' = "free"
      /\ UNCHANGED <<outcomes, pool, sizes, uploads>>
  BY Zenon DEF FailEncode, RunOp
<1>2. StreamOf(t) \in StreamIds
  <2>1. Len(outcomes[t]) < Len(Calls[t])
    BY <1>1 DEF Progress, ProgressOf
  <2>2. QED
    BY <2>1, CurrentTyped
<1>3. cmd \in CommandRecords(DOMAIN copies, Buffers)
  BY <1>2, CommandRecord
<1> HIDE DEF cmd
<1>4. \/ UNCHANGED <<commands, streams>>
      \/ /\ commands' \in Seq(CommandRecords(DOMAIN copies, Buffers))
         /\ (DOMAIN commands)' = DOMAIN commands \cup {Len(commands) + 1}
         /\ Len(commands) + 1 \notin DOMAIN commands
         /\ commands'[Len(commands) + 1] = cmd
         /\ \A c \in DOMAIN commands : commands'[c] = commands[c]
         /\ streams' \in [StreamIds -> Seq(Ops)]
         /\ streams'[StreamOf(t)] = Append(streams[StreamOf(t)], RunOp(Len(commands) + 1))
         /\ \A s \in StreamIds : s # StreamOf(t) => streams'[s] = streams[s]
  <2>1. SUFFICES ASSUME commands' = Append(commands, cmd), Enqueue(StreamOf(t), RunOp(Len(commands) + 1))
                 PROVE  /\ commands' \in Seq(CommandRecords(DOMAIN copies, Buffers))
                        /\ (DOMAIN commands)' = DOMAIN commands \cup {Len(commands) + 1}
                        /\ Len(commands) + 1 \notin DOMAIN commands
                        /\ commands'[Len(commands) + 1] = cmd
                        /\ \A c \in DOMAIN commands : commands'[c] = commands[c]
                        /\ streams' \in [StreamIds -> Seq(Ops)]
                        /\ streams'[StreamOf(t)] = Append(streams[StreamOf(t)], RunOp(Len(commands) + 1))
                        /\ \A s \in StreamIds : s # StreamOf(t) => streams'[s] = streams[s]
    BY <1>1
  <2>2. RunOp(Len(commands) + 1) \in Ops
    <3>1. Len(commands) + 1 \in Nat
      BY DEF Types
    <3>2. QED
      BY <3>1 DEF RunOp, Ops
  <2>3. /\ streams' \in [StreamIds -> Seq(Ops)]
        /\ streams'[StreamOf(t)] = Append(streams[StreamOf(t)], RunOp(Len(commands) + 1))
        /\ \A s \in StreamIds : s # StreamOf(t) => streams'[s] = streams[s]
    BY <1>2, <2>1, <2>2, EnqueueEffect
  <2>4. /\ commands' \in Seq(CommandRecords(DOMAIN copies, Buffers))
        /\ (DOMAIN commands)' = DOMAIN commands \cup {Len(commands) + 1}
        /\ Len(commands) + 1 \notin DOMAIN commands
        /\ commands'[Len(commands) + 1] = cmd
        /\ \A c \in DOMAIN commands : commands'[c] = commands[c]
    BY <1>3, <2>1, AddedCommand
  <2>5. QED
    BY <2>3, <2>4
<1>5. /\ commands' \in Seq(CommandRecords(DOMAIN copies, Buffers))
      /\ streams' \in [StreamIds -> Seq(Ops)]
      /\ DOMAIN commands \subseteq (DOMAIN commands)'
      /\ \A c \in DOMAIN commands : commands'[c] = commands[c]
  <2>1. /\ commands \in Seq(CommandRecords(DOMAIN copies, Buffers))
        /\ streams \in [StreamIds -> Seq(Ops)]
    BY DEF Types
  <2>2. CASE UNCHANGED <<commands, streams>>
    BY <2>1, <2>2
  <2>3. QED
    BY <1>4, <2>2
<1>6. DOMAIN copies \subseteq (DOMAIN copies)' /\ Buffers \subseteq Buffers'
         /\ (DOMAIN copies)' = DOMAIN copies /\ Buffers' = Buffers
  BY <1>1 DEF Buffers, uploads
<1> DEFINE CR == CallRecords((DOMAIN copies)', Buffers', (DOMAIN commands)')
<1>7. call \in [Callers -> CR]
  BY <1>5, <1>6, TypesGrow
<1>8. r \in CR
  <2>1. call[t] \in CR
    BY <1>7
  <2>2. <<>> \in Seq((DOMAIN copies)') /\ <<>> \in Seq(Buffers')
    OBVIOUS
  <2>3. QED
    BY <2>1, <2>2 DEF CallRecords, Pcs
<1> HIDE DEF r, CR
<1>9. /\ call' \in [Callers -> CR]
      /\ call'[t] = r
      /\ \A u \in Callers : u # t => call'[u] = call[u]
  BY <1>1, <1>7, <1>8
<1>10. Types'
  <2>1. /\ outcomes \in [Callers -> Seq(OutcomeRecords((DOMAIN commands)'))]
        /\ pool \in [buffers : Seq(Buffers'), bytes : Int, highWater : Int]
        /\ freed \subseteq Buffers'
        /\ cache \in [entries : Seq((DOMAIN copies)'), bytes : Int]
    BY <1>5, <1>6, TypesGrow
  <2>2. sizes \in Seq(Nat \ {0}) /\ copies \in Seq(CopyRecords)
    BY DEF Types
  <2>3. ToSet(call[t].scratch) \subseteq Buffers
    <3>1. call[t].scratch \in Seq(Buffers)
      BY CallTyped
    <3>2. QED
      BY <3>1 DEF ToSet
  <2>4. QED
    BY <1>1, <1>5, <1>6, <1>9, <2>1, <2>2, <2>3 DEF Types, CR, uploads
<1>11. call[t].pc \in Encoding
  BY <1>1 DEF Encoding
<1>12. QED
  BY <1>1, <1>2, <1>4, <1>5, <1>9, <1>10, <1>11 DEF Taken, r, cmd

\* The status of a settled command is read back through its stream.
LEMMA ReadEffect ==
  ASSUME Types, NEW t \in Callers, ReadStatus(t)
  PROVE  /\ Types'
         /\ call[t].pc = "wait"
         /\ call[t].submissions # <<>>
         /\ Completed(First(t))
         /\ UNCHANGED <<lock, outcomes, memory, uploads, commands>>
         /\ call'[t] = [call[t] EXCEPT !.pc = "status"]
         /\ \A u \in Callers : u # t => call'[u] = call[u]
         /\ \E s \in StreamIds :
              /\ streams'[s] = Append(streams[s], [kind |-> "status", id |-> First(t)])
              /\ \A r \in StreamIds : r # s => streams'[r] = streams[r]
<1> DEFINE s  == commands[First(t)].stream
           op == [kind |-> "status", id |-> First(t)]
<1>1. /\ call[t].pc = "wait"
      /\ call[t].submissions # <<>>
      /\ Completed(First(t))
      /\ Enqueue(s, op)
      /\ Goto(t, "status")
      /\ UNCHANGED <<lock, outcomes, memory, uploads, commands>>
  BY DEF ReadStatus
<1>2. First(t) \in DOMAIN commands
  <2>1. call[t].submissions \in Seq(DOMAIN commands)
    BY CallTyped
  <2>2. QED
    BY <1>1, <2>1 DEF First
<1>3. s \in StreamIds
  BY <1>2, CommandTyped
<1>4. op \in Ops
  <2>1. First(t) \in Nat
    BY <1>2 DEF Types
  <2>2. QED
    BY <2>1 DEF Ops
<1> HIDE DEF s, op
<1>5. /\ streams' \in [StreamIds -> Seq(Ops)]
      /\ streams'[s] = Append(streams[s], op)
      /\ \A r \in StreamIds : r # s => streams'[r] = streams[r]
  BY <1>1, <1>3, <1>4, EnqueueEffect
<1>6. /\ call' \in [Callers -> CallRecords(DOMAIN copies, Buffers, DOMAIN commands)]
      /\ call'[t] = [call[t] EXCEPT !.pc = "status"]
      /\ \A u \in Callers : u # t => call'[u] = call[u]
  BY <1>1, GotoMoved DEF Pcs, Waiting
<1>7. Types'
  BY <1>1, <1>5, <1>6 DEF Types, Buffers, memory, uploads
<1>8. QED
  BY <1>1, <1>3, <1>5, <1>6, <1>7 DEF op

\* The next submission, without a failure, or the rest are dropped.
LEMMA FinishEffect ==
  ASSUME Types, NEW t \in Callers, FinishSubmission(t)
  PROVE  /\ Types'
         /\ call[t].pc \in {"recycle", "drop"}
         /\ call[t].submissions # <<>>
         /\ commands[First(t)].held = <<>>
         /\ UNCHANGED <<lock, outcomes, memory, uploads, commands, streams>>
         /\ call'[t] = [call[t] EXCEPT
              !.submissions = Tail(call[t].submissions),
              !.failed      = call[t].failed \/ (call[t].pc = "recycle" /\ Failed(t)),
              !.pc          = IF call[t].pc = "recycle" /\ ~Failed(t) THEN "wait" ELSE "drop"]
         /\ \A u \in Callers : u # t => call'[u] = call[u]
<1> DEFINE r == [call[t] EXCEPT
             !.submissions = Tail(call[t].submissions),
             !.failed      = call[t].failed \/ (call[t].pc = "recycle" /\ Failed(t)),
             !.pc          = IF call[t].pc = "recycle" /\ ~Failed(t) THEN "wait" ELSE "drop"]
<1>1. /\ call[t].pc \in {"recycle", "drop"}
      /\ call[t].submissions # <<>>
      /\ commands[First(t)].held = <<>>
      /\ call' = [call EXCEPT ![t] = r]
      /\ UNCHANGED <<lock, outcomes, memory, uploads, commands, streams>>
  BY Zenon DEF FinishSubmission
<1> DEFINE CR == CallRecords(DOMAIN copies, Buffers, DOMAIN commands)
<1>2. r \in CR
  <2>1. call[t] \in CR /\ call[t].submissions \in Seq(DOMAIN commands)
    BY CallTyped
  <2>2. Tail(call[t].submissions) \in Seq(DOMAIN commands)
    <3>1. \A q \in Seq(DOMAIN commands) : q # <<>> => Tail(q) \in Seq(DOMAIN commands)
      OBVIOUS
    <3>2. call[t].submissions \in Seq(DOMAIN commands) /\ call[t].submissions # <<>>
      BY <1>1, <2>1
    <3>3. QED
      BY <3>1, <3>2
  <2>3. QED
    BY <2>1, <2>2 DEF CallRecords, Pcs, Waiting
<1>3. call \in [Callers -> CR]
  BY DEF Types
<1> HIDE DEF r, CR
<1>4. /\ call' \in [Callers -> CR]
      /\ call'[t] = r
      /\ \A u \in Callers : u # t => call'[u] = call[u]
  BY <1>1, <1>2, <1>3
<1>5. Types'
  BY <1>1, <1>4 DEF Types, Buffers, memory, uploads, CR
<1>6. QED
  BY <1>1, <1>4, <1>5 DEF r

\* The call is over.
LEMMA ReturnEffect ==
  ASSUME Types, NEW t \in Callers, Return(t)
  PROVE  /\ Types'
         /\ call[t].pc \in {"wait", "drop"}
         /\ call[t].submissions = <<>>
         /\ UNCHANGED <<lock, memory, uploads, commands, streams>>
         /\ call'[t] = NoCall
         /\ \A u \in Callers : u # t => call'[u] = call[u] /\ outcomes'[u] = outcomes[u]
         /\ outcomes'[t] = Append(outcomes[t],
              [result   |-> IF call[t].failed THEN "error" ELSE IF call[t].pc = "wait" THEN "ok" ELSE "dropped",
               commands |-> call[t].issued])
<1> DEFINE o == [result   |-> IF call[t].failed THEN "error"
                              ELSE IF call[t].pc = "wait" THEN "ok" ELSE "dropped",
                 commands |-> call[t].issued]
<1>1. /\ call[t].pc \in {"wait", "drop"}
      /\ call[t].submissions = <<>>
      /\ outcomes' = [outcomes EXCEPT ![t] = Append(outcomes[t], o)]
      /\ call' = [call EXCEPT ![t] = NoCall]
      /\ UNCHANGED <<lock, memory, uploads, commands, streams>>
  BY DEF Return
<1> DEFINE CR == CallRecords(DOMAIN copies, Buffers, DOMAIN commands)
           R  == OutcomeRecords(DOMAIN commands)
<1>2. o \in R
  <2>1. call[t].issued \in Seq(DOMAIN commands)
    BY CallTyped
  <2>2. QED
    BY <2>1 DEF OutcomeRecords
<1>3. NoCall \in CR
  <2>1. /\ <<>> \in Seq(DOMAIN copies)
        /\ <<>> \in Seq(Buffers)
        /\ <<>> \in Seq(DOMAIN commands)
    OBVIOUS
  <2>2. QED
    BY <2>1 DEF NoCall, CallRecords, Pcs
<1>4. call \in [Callers -> CR] /\ outcomes \in [Callers -> Seq(R)]
  BY DEF Types
<1> HIDE DEF CR, R, o
<1>5. /\ call' \in [Callers -> CR]
      /\ call'[t] = NoCall
      /\ \A u \in Callers : u # t => call'[u] = call[u]
  BY <1>1, <1>3, <1>4
<1>6. Append(outcomes[t], o) \in Seq(R)
  BY <1>2, <1>4
<1>7. /\ outcomes' \in [Callers -> Seq(R)]
      /\ outcomes'[t] = Append(outcomes[t], o)
      /\ \A u \in Callers : u # t => outcomes'[u] = outcomes[u]
  BY <1>1, <1>4, <1>6
<1>8. Types'
  BY <1>1, <1>5, <1>7 DEF Types, Buffers, memory, uploads, CR, R
<1>9. QED
  BY <1>1, <1>5, <1>7, <1>8 DEF o

\* A buffer of the first submission goes back to the pool.
LEMMA RecycleStep ==
  ASSUME Types, Placed, PoolBounded, Settled, NEW t \in Callers, RecycleScratch(t)
  PROVE  /\ Types'
         /\ PoolBounded'
         /\ First(t) \in DOMAIN commands
         /\ First(t) \in ToSet(call[t].submissions)
         /\ ~ Queued(First(t))
         /\ UNCHANGED <<session, sizes, uploads, streams>>
         /\ IsInjective(pool'.buffers)
         /\ Pooled' \cap freed' = {}
         /\ freed \subseteq freed'
         /\ (DOMAIN commands)' = DOMAIN commands
         /\ \A c \in DOMAIN commands :
              /\ c # First(t) => commands'[c] = commands[c]
              /\ commands'[c].scratch = commands[c].scratch
              /\ commands'[c].copies = commands[c].copies
              /\ commands'[c].stream = commands[c].stream
              /\ commands'[c].state = commands[c].state
         /\ IsInjective(commands'[First(t)].held)
         /\ \E b \in Held(First(t)) :
              /\ ToSet(commands'[First(t)].held) = Held(First(t)) \ {b}
              /\ Pooled' \cup freed' = Pooled \cup freed \cup {b}
              /\ Pooled' \subseteq Pooled \cup {b}
<1> DEFINE f == First(t)
           h == commands[f].held
           b == Head(h)
<1>1. /\ \/ call[t].pc = "recycle"
         \/ call[t].pc = "drop" /\ call[t].submissions # <<>> /\ Completed(f)
      /\ h # <<>>
      /\ Recycle(b)
      /\ commands' = [commands EXCEPT ![f].held = Tail(@)]
      /\ UNCHANGED <<session, sizes, uploads, streams>>
  BY DEF RecycleScratch
<1>2. call[t].submissions # <<>> /\ ~ Queued(f)
  BY <1>1 DEF Settled, SettledOf, Completed, Queued
<1>3. f \in DOMAIN commands /\ f \in ToSet(call[t].submissions)
  <2>1. call[t].submissions \in Seq(DOMAIN commands)
    BY CallTyped
  <2>2. QED
    BY <1>2, <2>1 DEF First, ToSet
<1> HIDE DEF f
<1>4. /\ commands[f] \in CommandRecords(DOMAIN copies, Buffers)
      /\ h \in Seq(Buffers)
      /\ commands \in Seq(CommandRecords(DOMAIN copies, Buffers))
      /\ IsInjective(h)
      /\ ToSet(h) \cap (Pooled \cup freed) = {}
  BY <1>3, CommandTyped DEF Types, Placed, Held
<1> DEFINE tail == Tail(h)
<1>5. /\ b \in ToSet(h)
      /\ ToSet(tail) = ToSet(h) \ {b}
      /\ IsInjective(tail)
  BY <1>1, <1>4, TailSet
<1>6. b \in Buffers /\ tail \in Seq(Buffers)
  <2>1. \A q \in Seq(Buffers) : q # <<>> => Head(q) \in Buffers /\ Tail(q) \in Seq(Buffers)
    OBVIOUS
  <2>2. h # <<>>
    BY <1>1
  <2>3. QED
    BY <1>4, <2>1, <2>2
<1> DEFINE r == [commands[f] EXCEPT !.held = tail]
<1>7. commands' = [commands EXCEPT ![f] = r]
  BY <1>1
<1> HIDE DEF b, tail, h
<1>8. r \in CommandRecords(DOMAIN copies, Buffers)
  BY <1>4, <1>6 DEF CommandRecords
<1>9. /\ r.held = tail
      /\ r.scratch = commands[f].scratch
      /\ r.copies = commands[f].copies
      /\ r.stream = commands[f].stream
      /\ r.state = commands[f].state
  BY <1>4 DEF CommandRecords
<1> HIDE DEF r
<1>10. /\ commands' \in Seq(CommandRecords(DOMAIN copies, Buffers))
       /\ (DOMAIN commands)' = DOMAIN commands
       /\ commands'[f] = r
       /\ \A c \in DOMAIN commands : c # f => commands'[c] = commands[c]
  <2> DEFINE R == CommandRecords(DOMAIN copies, Buffers)
  <2>1. commands \in Seq(R) /\ r \in R
    BY <1>4, <1>8
  <2> HIDE DEF R
  <2>2. /\ commands' \in Seq(R)
        /\ (DOMAIN commands)' = DOMAIN commands
        /\ commands'[f] = r
        /\ \A c \in DOMAIN commands : c # f => commands'[c] = commands[c]
    BY <1>3, <1>7, <2>1
  <2>3. QED
    BY <2>2 DEF R
<1>11. /\ pool' \in [buffers : Seq(Buffers), bytes : Int, highWater : Int]
       /\ IsInjective(pool'.buffers)
       /\ Pooled' \cup freed' = Pooled \cup freed \cup {b}
       /\ Pooled' \cap freed' = {}
       /\ Pooled' \subseteq Pooled \cup {b}
       /\ freed \subseteq freed'
       /\ PoolBounded'
  <2>1. IsInjective(pool.buffers) /\ Pooled \cap freed = {}
    BY DEF Placed
  <2>2. b \notin Pooled \cup freed
    BY <1>4, <1>5
  <2>3. sizes' = sizes /\ Recycle(b)
    BY <1>1
  <2>4. QED
    BY <1>6, <2>1, <2>2, <2>3, RecycleEffect
<1>12. freed' \subseteq Buffers
  <2>1. Pooled \subseteq Buffers /\ freed \subseteq Buffers
    <3>1. pool.buffers \in Seq(Buffers)
      BY DEF Types
    <3>2. ToSet(pool.buffers) \subseteq Buffers
      BY <3>1 DEF ToSet
    <3>3. QED
      BY <3>2 DEF Types, Pooled
  <2>2. QED
    BY <1>6, <1>11, <2>1
<1>13. Types'
  BY <1>1, <1>10, <1>11, <1>12 DEF Types, Buffers, session, uploads
<1>14. \A c \in DOMAIN commands :
         /\ c # f => commands'[c] = commands[c]
         /\ commands'[c].scratch = commands[c].scratch
         /\ commands'[c].copies = commands[c].copies
         /\ commands'[c].stream = commands[c].stream
         /\ commands'[c].state = commands[c].state
  BY <1>9, <1>10
<1>15. IsInjective(commands'[f].held) /\ ToSet(commands'[f].held) = Held(f) \ {b} /\ b \in Held(f)
  BY <1>5, <1>9, <1>10 DEF Held, h
<1>16. QED
  BY <1>1, <1>2, <1>3, <1>10, <1>11, <1>13, <1>14, <1>15 DEF f

\* A stream runs its first operation.
LEMMA DeviceEffect ==
  ASSUME Types, Queues, NEW s \in StreamIds, Device(s)
  PROVE  /\ Types'
         /\ streams[s] # <<>>
         /\ UNCHANGED <<session, memory, cache>>
         /\ streams'[s] = Tail(streams[s])
         /\ \A r \in StreamIds : r # s => streams'[r] = streams[r]
         /\ (DOMAIN copies)' = DOMAIN copies
         /\ (DOMAIN commands)' = DOMAIN commands
         /\ \A c \in DOMAIN copies :
              /\ copies'[c].arena = copies[c].arena
              /\ copies'[c].stream = copies[c].stream
              /\ copies'[c].done <=> copies[c].done \/ Head(streams[s]) = CopyOp(c)
         /\ \A c \in DOMAIN commands :
              /\ commands'[c].scratch = commands[c].scratch
              /\ commands'[c].held = commands[c].held
              /\ commands'[c].copies = commands[c].copies
              /\ commands'[c].stream = commands[c].stream
              /\ Head(streams[s]) # RunOp(c) => commands'[c].state = commands[c].state
              /\ Head(streams[s]) = RunOp(c) => Queued(c) /\ commands'[c].state \in {"ok", "bad"}
<1> DEFINE op == Head(streams[s])
<1>1. /\ streams[s] # <<>>
      /\ IF op.kind = "copy" THEN copies' = [copies EXCEPT ![op.id].done = TRUE] ELSE UNCHANGED copies
      /\ IF op.kind = "run"
         THEN \E status \in IF "kernel" \in Faults THEN {"ok", "bad"} ELSE {"ok"} :
                commands' = [commands EXCEPT ![op.id].state = status]
         ELSE UNCHANGED commands
      /\ streams' = [streams EXCEPT ![s] = Tail(@)]
      /\ UNCHANGED <<session, memory, cache>>
  BY DEF Device
<1>2. /\ streams \in [StreamIds -> Seq(Ops)]
      /\ copies \in Seq(CopyRecords)
      /\ commands \in Seq(CommandRecords(DOMAIN copies, Buffers))
  BY DEF Types
<1>3. op \in Ops /\ op = streams[s][1] /\ 1 \in DOMAIN streams[s] /\ Tail(streams[s]) \in Seq(Ops)
  BY <1>1, <1>2
<1>4. /\ op.kind = "copy" => op.id \in DOMAIN copies
      /\ op.kind = "run" => op.id \in DOMAIN commands /\ Queued(op.id)
  BY <1>3 DEF Queues, Ordered
<1>5. /\ streams' \in [StreamIds -> Seq(Ops)]
      /\ streams'[s] = Tail(streams[s])
      /\ \A r \in StreamIds : r # s => streams'[r] = streams[r]
  BY <1>1, <1>2, <1>3
<1> HIDE DEF op
<1>6. /\ copies' \in Seq(CopyRecords)
      /\ (DOMAIN copies)' = DOMAIN copies
      /\ \A c \in DOMAIN copies :
           /\ copies'[c].arena = copies[c].arena
           /\ copies'[c].stream = copies[c].stream
           /\ copies'[c].done <=> copies[c].done \/ op = CopyOp(c)
  <2>1. \A c \in DOMAIN copies : copies[c] \in CopyRecords
    BY <1>2
  <2>2. \A c : op = CopyOp(c) <=> op.kind = "copy" /\ op.id = c
    BY <1>3 DEF CopyOp, Ops
  <2>3. CASE op.kind = "copy"
    <3> DEFINE r == [copies[op.id] EXCEPT !.done = TRUE]
    <3>1. copies' = [copies EXCEPT ![op.id] = r] /\ op.id \in DOMAIN copies
      BY <1>1, <1>4, <2>3
    <3>2. r \in CopyRecords /\ r.arena = copies[op.id].arena /\ r.stream = copies[op.id].stream /\ r.done
      BY <2>1, <3>1 DEF CopyRecords
    <3> HIDE DEF r
    <3>3. /\ copies' \in Seq(CopyRecords)
          /\ (DOMAIN copies)' = DOMAIN copies
          /\ copies'[op.id] = r
          /\ \A c \in DOMAIN copies : c # op.id => copies'[c] = copies[c]
      BY <1>2, <3>1, <3>2
    <3>4. QED
      BY <2>2, <2>3, <3>2, <3>3
  <2>4. CASE op.kind # "copy"
    BY <1>1, <1>2, <2>2, <2>4
  <2>5. QED
    BY <2>3, <2>4
<1>7. /\ commands' \in Seq(CommandRecords(DOMAIN copies, Buffers))
      /\ (DOMAIN commands)' = DOMAIN commands
      /\ \A c \in DOMAIN commands :
           /\ commands'[c].scratch = commands[c].scratch
           /\ commands'[c].held = commands[c].held
           /\ commands'[c].copies = commands[c].copies
           /\ commands'[c].stream = commands[c].stream
           /\ op # RunOp(c) => commands'[c].state = commands[c].state
           /\ op = RunOp(c) => Queued(c) /\ commands'[c].state \in {"ok", "bad"}
  <2>1. \A c : op = RunOp(c) <=> op.kind = "run" /\ op.id = c
    BY <1>3 DEF RunOp, Ops
  <2>2. CASE op.kind = "run"
    <3>1. PICK status \in {"ok", "bad"} : commands' = [commands EXCEPT ![op.id].state = status]
      BY <1>1, <2>2
    <3> DEFINE r == [commands[op.id] EXCEPT !.state = status]
               R == CommandRecords(DOMAIN copies, Buffers)
    <3>2. commands' = [commands EXCEPT ![op.id] = r] /\ op.id \in DOMAIN commands /\ Queued(op.id)
      BY <1>4, <2>2, <3>1
    <3>3. commands[op.id] \in R
      BY <3>2, CommandTyped
    <3>4. /\ r \in R
          /\ r.scratch = commands[op.id].scratch
          /\ r.held = commands[op.id].held
          /\ r.copies = commands[op.id].copies
          /\ r.stream = commands[op.id].stream
          /\ r.state \in {"ok", "bad"}
      BY <3>3 DEF CommandRecords
    <3>5. commands \in Seq(R)
      BY <1>2
    <3> HIDE DEF r, R
    <3>6. /\ commands' \in Seq(R)
          /\ (DOMAIN commands)' = DOMAIN commands
          /\ commands'[op.id] = r
          /\ \A c \in DOMAIN commands : c # op.id => commands'[c] = commands[c]
      BY <3>2, <3>4, <3>5
    <3>7. QED
      BY <2>1, <2>2, <3>2, <3>4, <3>6 DEF R
  <2>3. CASE op.kind # "run"
    BY <1>1, <1>2, <2>1, <2>3
  <2>4. QED
    BY <2>2, <2>3
<1>8. Types'
  BY <1>1, <1>5, <1>6, <1>7 DEF Types, Buffers, session, memory
<1>9. QED
  BY <1>1, <1>5, <1>6, <1>7, <1>8 DEF op

\* Steps that only move a caller on.
Moves(t) == Lock(t) \/ UploadsFound(t) \/ Wait(t) \/ DropCall(t) \/ StatusRead(t)

\* A caller takes the lock, goes on to its scratch, waits, drops or has its status.
LEMMA MoveEffect ==
  ASSUME Types, NEW t \in Callers, Moves(t)
  PROVE  /\ Types'
         /\ UNCHANGED <<outcomes, memory, uploads, commands, streams>>
         /\ \A u \in Callers : u # t => call'[u] = call[u]
         /\ \E pc \in Pcs :
              /\ call'[t] = [call[t] EXCEPT !.pc = pc]
              /\ \/ call[t].pc = "lock" /\ pc = "upload" /\ lock = "free" /\ lock' = t
                 \/ call[t].pc = "upload" /\ pc = "scratch" /\ lock' = lock
                 \/ call[t].pc = "submitted" /\ pc \in {"wait", "drop"} /\ lock' = lock
                 \/ call[t].pc = "status" /\ pc = "recycle" /\ lock' = lock
<1>1. UNCHANGED <<outcomes, memory, uploads, commands, streams>>
  BY DEF Moves, Lock, UploadsFound, Wait, DropCall, StatusRead
<1>2. PICK pc \in Pcs :
        /\ Goto(t, pc)
        /\ \/ call[t].pc = "lock" /\ pc = "upload" /\ lock = "free" /\ lock' = t
           \/ call[t].pc = "upload" /\ pc = "scratch" /\ lock' = lock
           \/ call[t].pc = "submitted" /\ pc \in {"wait", "drop"} /\ lock' = lock
           \/ call[t].pc = "status" /\ pc = "recycle" /\ lock' = lock
  <2>1. {"upload", "scratch", "wait", "drop", "recycle"} \subseteq Pcs
    BY DEF Pcs, Encoding, Waiting
  <2>2. QED
    BY <2>1 DEF Moves, Lock, UploadsFound, Wait, DropCall, StatusRead
<1>3. lock' \in Callers \cup {"free"}
  BY <1>2 DEF Types
<1>4. Types'
  BY <1>1, <1>2, <1>3, GotoTypes
<1>5. call'[t] = [call[t] EXCEPT !.pc = pc] /\ \A u \in Callers : u # t => call'[u] = call[u]
  BY <1>2, GotoMoved
<1>6. QED
  BY <1>1, <1>2, <1>4, <1>5

\* The steps of the session, one of each kind.
LEMMA NextCases ==
  ASSUME [Next]_vars
  PROVE  \/ \E t \in Callers :
              \/ BeginCall(t) \/ Moves(t) \/ FindUpload(t) \/ CopyArena(t) \/ InsertUpload(t)
              \/ TakeScratch(t) \/ Launch(t) \/ FailEncode(t)
              \/ ReadStatus(t) \/ RecycleScratch(t) \/ FinishSubmission(t) \/ Return(t)
         \/ \E s \in StreamIds : Device(s)
         \/ UNCHANGED vars
  BY Zenon DEF Next, Encode, Settle, Over, Moves

\* Every step keeps the types.
LEMMA TypesStep ==
  ASSUME IInv, [Next]_vars
  PROVE  Types'
<1>1. Types /\ LockHeld /\ Progress /\ Placed /\ PoolBounded /\ CacheBounded /\ Queues /\ Settled
  BY DEF IInv
<1>2. IsInjective(pool.buffers)
  BY <1>1 DEF Placed
<1>3. ASSUME NEW t \in Callers, BeginCall(t) PROVE Types'
  BY <1>1, <1>3, BeginEffect
<1>4. ASSUME NEW t \in Callers, Moves(t) PROVE Types'
  BY <1>1, <1>4, MoveEffect
<1>5. ASSUME NEW t \in Callers, FindUpload(t) PROVE Types'
  BY <1>1, <1>5, FindEffect
<1>6. ASSUME NEW t \in Callers, CopyArena(t) PROVE Types'
  BY <1>1, <1>6, CopyEffect
<1>7. ASSUME NEW t \in Callers, InsertUpload(t) PROVE Types'
  BY <1>1, <1>7, InsertEffect
<1>8. ASSUME NEW t \in Callers, TakeScratch(t) PROVE Types'
  BY <1>1, <1>2, <1>8, TakeEffect
<1>9. ASSUME NEW t \in Callers, Launch(t) PROVE Types'
  BY <1>1, <1>9, LaunchEffect
<1>10. ASSUME NEW t \in Callers, FailEncode(t) PROVE Types'
  BY <1>1, <1>10, FailEffect
<1>11. ASSUME NEW t \in Callers, ReadStatus(t) PROVE Types'
  BY <1>1, <1>11, ReadEffect
<1>12. ASSUME NEW t \in Callers, RecycleScratch(t) PROVE Types'
  BY <1>1, <1>12, RecycleStep
<1>13. ASSUME NEW t \in Callers, FinishSubmission(t) PROVE Types'
  BY <1>1, <1>13, FinishEffect
<1>14. ASSUME NEW t \in Callers, Return(t) PROVE Types'
  BY <1>1, <1>14, ReturnEffect
<1>15. ASSUME NEW s \in StreamIds, Device(s) PROVE Types'
  BY <1>1, <1>15, DeviceEffect
<1>16. CASE UNCHANGED vars
  BY <1>1, <1>16 DEF Types, Buffers, vars, session, memory, uploads
<1>17. QED
  BY <1>3, <1>4, <1>5, <1>6, <1>7, <1>8, <1>9, <1>10, <1>11, <1>12, <1>13, <1>14, <1>15, <1>16,
     NextCases

\* Every step keeps the lock with the caller that encodes.
LEMMA LockHeldStep ==
  ASSUME IInv, [Next]_vars
  PROVE  LockHeld'
<1>1. Types /\ LockHeld /\ Progress /\ Placed /\ PoolBounded /\ CacheBounded /\ Queues /\ Settled
  BY DEF IInv
<1>2. \A t \in Callers : call[t] \in CallRecords(DOMAIN copies, Buffers, DOMAIN commands)
  BY <1>1, CallTyped
<1>3. \A t \in Callers : t # "free" /\ (lock = t <=> call[t].pc \in Encoding)
  BY <1>1, SessionAssumption DEF LockHeld
<1>4. ASSUME NEW t \in Callers, lock' = lock,
             \A u \in Callers : u # t => call'[u] = call[u],
             call'[t].pc \in Encoding <=> call[t].pc \in Encoding
      PROVE  LockHeld'
  BY <1>3, <1>4 DEF LockHeld
<1>5. ASSUME NEW t \in Callers, lock' = "free", call[t].pc \in Encoding,
             \A u \in Callers : u # t => call'[u] = call[u],
             call'[t].pc \notin Encoding
      PROVE  LockHeld'
  BY <1>3, <1>5 DEF LockHeld
<1>6. ASSUME NEW t \in Callers, BeginCall(t) PROVE LockHeld'
  <2>1. lock' = lock /\ call[t].pc = "idle"
    BY <1>1, <1>6, BeginEffect
  <2>2. \A u \in Callers : u # t => call'[u] = call[u]
    BY <1>1, <1>6, BeginEffect
  <2>3. call'[t].pc \in {"idle", "submitted", "lock"}
    BY <1>1, <1>2, <1>6, BeginEffect, ZenonT(60) DEF CallRecords
  <2>4. QED
    BY <1>4, <2>1, <2>2, <2>3 DEF Encoding
<1>7. ASSUME NEW t \in Callers, Moves(t) PROVE LockHeld'
  <2>1. \A u \in Callers : u # t => call'[u] = call[u]
    BY <1>1, <1>7, MoveEffect
  <2>2. PICK pc \in Pcs :
          /\ call'[t] = [call[t] EXCEPT !.pc = pc]
          /\ \/ call[t].pc = "lock" /\ pc = "upload" /\ lock = "free" /\ lock' = t
             \/ call[t].pc = "upload" /\ pc = "scratch" /\ lock' = lock
             \/ call[t].pc = "submitted" /\ pc \in {"wait", "drop"} /\ lock' = lock
             \/ call[t].pc = "status" /\ pc = "recycle" /\ lock' = lock
    BY <1>1, <1>7, MoveEffect
  <2>3. call'[t].pc = pc
    BY <1>2, <2>2 DEF CallRecords
  <2>4. CASE lock = "free" /\ lock' = t /\ pc = "upload"
    BY <1>3, <2>1, <2>3, <2>4 DEF LockHeld, Encoding
  <2>5. CASE lock' = lock /\ (pc \in Encoding <=> call[t].pc \in Encoding)
    BY <1>4, <2>1, <2>3, <2>5
  <2>6. QED
    BY <2>2, <2>4, <2>5 DEF Encoding
<1>8. ASSUME NEW t \in Callers, FindUpload(t) PROVE LockHeld'
  <2>1. /\ lock' = lock /\ call[t].pc = "upload" /\ \A u \in Callers : u # t => call'[u] = call[u]
    BY <1>1, <1>8, FindEffect
  <2>2. call'[t].pc \in {"upload", "copy"}
    BY <1>1, <1>2, <1>8, <2>1, FindEffect DEF CallRecords
  <2>3. QED
    BY <1>4, <2>1, <2>2 DEF Encoding
<1>9. ASSUME NEW t \in Callers, CopyArena(t) PROVE LockHeld'
  <2>1. /\ lock' = lock /\ call[t].pc = "copy" /\ \A u \in Callers : u # t => call'[u] = call[u]
        /\ call'[t] = [call[t] EXCEPT !.pc = "insert"]
    BY <1>1, <1>9, CopyEffect
  <2>2. call'[t].pc = "insert"
    BY <1>2, <2>1 DEF CallRecords
  <2>3. QED
    BY <1>4, <2>1, <2>2 DEF Encoding
<1>10. ASSUME NEW t \in Callers, InsertUpload(t) PROVE LockHeld'
  <2>1. /\ \A u \in Callers : u # t => call'[u] = call[u]
        /\ call'[t] = [call[t] EXCEPT !.copies = Append(call[t].copies, Len(copies)), !.pc = "upload"]
    BY <1>1, <1>10, InsertEffect
  <2>2. lock' = lock /\ call[t].pc = "insert"
    BY <1>10 DEF InsertUpload
  <2>3. call'[t].pc = "upload"
    BY <1>2, <2>1 DEF CallRecords
  <2>4. QED
    BY <1>4, <2>1, <2>2, <2>3 DEF Encoding
<1>11. ASSUME NEW t \in Callers, TakeScratch(t) PROVE LockHeld'
  <2>1. IsInjective(pool.buffers)
    BY <1>1 DEF Placed
  <2>2. PICK b \in Buffers' :
          /\ call'[t] = [call[t] EXCEPT !.scratch = Append(call[t].scratch, b)]
          /\ \A u \in Callers : u # t => call'[u] = call[u]
    BY <1>1, <1>11, <2>1, TakeEffect
  <2>3. lock' = lock
    BY <1>11 DEF TakeScratch
  <2>4. call'[t].pc = call[t].pc
    BY <1>2, <2>2 DEF CallRecords
  <2>5. QED
    BY <1>4, <2>2, <2>3, <2>4
<1>12. ASSUME NEW t \in Callers, Launch(t) PROVE LockHeld'
  <2>1. /\ lock' = "free" /\ call[t].pc = "scratch"
        /\ \A u \in Callers : u # t => call'[u] = call[u]
    BY <1>1, <1>12, LaunchEffect
  <2>2. call'[t].pc \in {"lock", "submitted"}
    BY <1>1, <1>2, <1>12, LaunchEffect, ZenonT(60) DEF CallRecords
  <2>3. QED
    BY <1>5, <2>1, <2>2 DEF Encoding
<1>13. ASSUME NEW t \in Callers, FailEncode(t) PROVE LockHeld'
  <2>1. /\ lock' = "free" /\ call[t].pc \in Encoding
        /\ \A u \in Callers : u # t => call'[u] = call[u]
    BY <1>1, <1>13, FailEffect
  <2>2. call'[t].pc = "drop"
    BY <1>1, <1>2, <1>13, FailEffect DEF CallRecords
  <2>3. QED
    BY <1>5, <2>1, <2>2 DEF Encoding
<1>14. ASSUME NEW t \in Callers, ReadStatus(t) PROVE LockHeld'
  <2>1. /\ lock' = lock /\ call[t].pc = "wait"
        /\ \A u \in Callers : u # t => call'[u] = call[u]
        /\ call'[t] = [call[t] EXCEPT !.pc = "status"]
    BY <1>1, <1>14, ReadEffect
  <2>2. call'[t].pc = "status"
    BY <1>2, <2>1 DEF CallRecords
  <2>3. QED
    BY <1>4, <2>1, <2>2 DEF Encoding
<1>15. ASSUME NEW t \in Callers, FinishSubmission(t) PROVE LockHeld'
  <2>1. /\ lock' = lock /\ call[t].pc \in {"recycle", "drop"}
        /\ \A u \in Callers : u # t => call'[u] = call[u]
    BY <1>1, <1>15, FinishEffect
  <2>2. call'[t].pc \in {"wait", "drop"}
    BY <1>1, <1>2, <1>15, FinishEffect, ZenonT(60) DEF CallRecords
  <2>3. QED
    BY <1>4, <2>1, <2>2 DEF Encoding
<1>16. ASSUME NEW t \in Callers, Return(t) PROVE LockHeld'
  <2>1. /\ lock' = lock /\ call[t].pc \in {"wait", "drop"}
        /\ \A u \in Callers : u # t => call'[u] = call[u]
        /\ call'[t] = NoCall
    BY <1>1, <1>16, ReturnEffect
  <2>2. call'[t].pc = "idle"
    BY <2>1 DEF NoCall
  <2>3. QED
    BY <1>4, <2>1, <2>2 DEF Encoding
<1>17. ASSUME UNCHANGED <<lock, call>> PROVE LockHeld'
  BY <1>1, <1>17 DEF LockHeld
<1>18. ASSUME NEW t \in Callers, RecycleScratch(t) PROVE LockHeld'
  BY <1>17, <1>18 DEF RecycleScratch, session
<1>19. ASSUME NEW s \in StreamIds, Device(s) PROVE LockHeld'
  BY <1>17, <1>19 DEF Device, session
<1>20. CASE UNCHANGED vars
  BY <1>17, <1>20 DEF vars, session
<1>21. QED
  BY <1>6, <1>7, <1>8, <1>9, <1>10, <1>11, <1>12, <1>13, <1>14, <1>15, <1>16, <1>18, <1>19, <1>20,
     NextCases

-----------------------------------------------------------------------------
(***************************************************************************)
(* How far a call has come.                                                *)
(***************************************************************************)
\* The call of a caller is the same while neither it nor its outcomes change.
LEMMA Unmoved ==
  ASSUME NEW u \in Callers, call'[u] = call[u], outcomes'[u] = outcomes[u]
  PROVE  /\ Current(u)' = Current(u)
         /\ PlansOf(u)' = PlansOf(u)
         /\ Plan(u)' = Plan(u)
         /\ NextArena(u)' = NextArena(u)
         /\ StreamOf(u)' = StreamOf(u)
         /\ ProgressOf(u) => ProgressOf(u)'
<1>1. Current(u)' = Current(u)
  BY DEF Current
<1>2. PlansOf(u)' = PlansOf(u)
  BY <1>1 DEF PlansOf
<1>3. Plan(u)' = Plan(u)
  BY <1>2 DEF Plan
<1>4. NextArena(u)' = NextArena(u)
  BY <1>3 DEF NextArena
<1>5. StreamOf(u)' = StreamOf(u)
  BY <1>1 DEF StreamOf
<1>6. ProgressOf(u) => ProgressOf(u)'
  BY <1>2, <1>3 DEF ProgressOf
<1>7. QED
  BY <1>1, <1>2, <1>3, <1>4, <1>5, <1>6

\* The plans of the call and the plan it is at, while it moves on within a plan.
LEMMA SamePlan ==
  ASSUME NEW u \in Callers, call'[u].plan = call[u].plan, outcomes'[u] = outcomes[u]
  PROVE  /\ PlansOf(u)' = PlansOf(u)
         /\ Plan(u)' = Plan(u)
         /\ StreamOf(u)' = StreamOf(u)
         /\ call'[u].copies = call[u].copies => NextArena(u)' = NextArena(u)
<1>1. Current(u)' = Current(u)
  BY DEF Current
<1>2. PlansOf(u)' = PlansOf(u)
  BY <1>1 DEF PlansOf
<1>3. Plan(u)' = Plan(u)
  BY <1>2 DEF Plan
<1>4. StreamOf(u)' = StreamOf(u)
  BY <1>1 DEF StreamOf
<1>5. call'[u].copies = call[u].copies => NextArena(u)' = NextArena(u)
  BY <1>3 DEF NextArena
<1>6. QED
  BY <1>2, <1>3, <1>4, <1>5

\* Every step keeps the parts of a call where its step says they are.
LEMMA ProgressStep ==
  ASSUME IInv, [Next]_vars
  PROVE  Progress'
<1>1. Types /\ LockHeld /\ Progress /\ Placed /\ PoolBounded /\ CacheBounded /\ Queues /\ Settled
  BY DEF IInv
<1>2. \A t \in Callers : call[t] \in CallRecords(DOMAIN copies, Buffers, DOMAIN commands)
  BY <1>1, CallTyped
<1>3. \A t \in Callers : ProgressOf(t)
  BY <1>1 DEF Progress
<1>4. ASSUME NEW t \in Callers, ProgressOf(t)',
             \A u \in Callers : u # t => call'[u] = call[u] /\ outcomes'[u] = outcomes[u]
      PROVE  Progress'
  <2>1. ASSUME NEW u \in Callers, u # t PROVE ProgressOf(u)'
    BY <1>3, <1>4, <2>1, Unmoved
  <2>2. QED
    BY <1>4, <2>1 DEF Progress
<1>5. ASSUME NEW t \in Callers, BeginCall(t) PROVE Progress'
  <2>1. /\ call[t].pc = "idle" /\ call[t] = NoCall
        /\ Len(outcomes[t]) < Len(Calls[t])
        /\ \A u \in Callers : u # t => call'[u] = call[u] /\ outcomes'[u] = outcomes[u]
    BY <1>1, <1>3, <1>5, BeginEffect DEF ProgressOf
  <2>2. CASE UNCHANGED call
    <3>1. call'[t] = NoCall
      BY <2>1, <2>2
    <3>2. ProgressOf(t)'
      BY <3>1 DEF ProgressOf, NoCall, Encoding, Waiting
    <3>3. QED
      BY <1>4, <2>1, <3>2
  <2>3. CASE /\ call'[t] = [call[t] EXCEPT !.pc = IF PlansOf(t) = <<>> THEN "submitted" ELSE "lock"]
             /\ UNCHANGED outcomes
    <3>1. /\ call'[t].pc = IF PlansOf(t) = <<>> THEN "submitted" ELSE "lock"
          /\ call'[t].plan = 1 /\ call[t].plan = 1
          /\ call'[t].copies = <<>>
          /\ call'[t].scratch = <<>>
          /\ call'[t].issued = <<>>
      BY <2>1, <2>3 DEF NoCall
    <3>2. PlansOf(t)' = PlansOf(t)
      BY <2>3, <3>1, SamePlan
    <3>3. PlansOf(t) \in Seq(Plans)
      BY <1>1, <2>1, CurrentTyped
    <3>4. PlansOf(t) # <<>> => 1 \in 1..Len(PlansOf(t))
      BY <3>3
    <3>5. ProgressOf(t)'
      BY <2>1, <2>3, <3>1, <3>2, <3>4 DEF ProgressOf, Encoding, Waiting
    <3>6. QED
      BY <1>4, <2>1, <3>5
  <2>4. QED
    BY <1>1, <1>5, <2>2, <2>3, BeginEffect
<1>6. ASSUME NEW t \in Callers, Moves(t) PROVE Progress'
  <2>1. /\ outcomes' = outcomes
        /\ \A u \in Callers : u # t => call'[u] = call[u]
    BY <1>1, <1>6, MoveEffect
  <2>2. PICK pc \in Pcs :
          /\ call'[t] = [call[t] EXCEPT !.pc = pc]
          /\ \/ call[t].pc = "lock" /\ pc = "upload" /\ lock = "free" /\ lock' = t
             \/ call[t].pc = "upload" /\ pc = "scratch" /\ lock' = lock
             \/ call[t].pc = "submitted" /\ pc \in {"wait", "drop"} /\ lock' = lock
             \/ call[t].pc = "status" /\ pc = "recycle" /\ lock' = lock
    BY <1>1, <1>6, MoveEffect
  <2>3. /\ call'[t].pc = pc
        /\ call'[t].plan = call[t].plan
        /\ call'[t].copies = call[t].copies
        /\ call'[t].scratch = call[t].scratch
        /\ call'[t].issued = call[t].issued
    BY <1>2, <2>2 DEF CallRecords
  <2>4. PlansOf(t)' = PlansOf(t) /\ Plan(t)' = Plan(t)
    BY <2>1, <2>3, SamePlan
  <2>5. ProgressOf(t)
    BY <1>3
  <2>6. ProgressOf(t)'
    BY <2>1, <2>2, <2>3, <2>4, <2>5 DEF ProgressOf, Encoding, Waiting
  <2>7. QED
    BY <1>4, <2>1, <2>6
<1>7. ASSUME NEW t \in Callers, FindUpload(t) PROVE Progress'
  <2>1. /\ outcomes' = outcomes
        /\ call[t].pc = "upload"
        /\ Len(call[t].copies) < Len(PlanArenas[Plan(t)])
        /\ \A u \in Callers : u # t => call'[u] = call[u]
        /\ \/ \E e \in Cached : call'[t] = [call[t] EXCEPT !.copies = Append(call[t].copies, e)]
           \/ call'[t] = [call[t] EXCEPT !.pc = "copy"]
    BY <1>1, <1>7, FindEffect
  <2>2. /\ call'[t].pc \in {"upload", "copy"}
        /\ call'[t].pc = "copy" => call'[t].copies = call[t].copies
        /\ call'[t].plan = call[t].plan
        /\ call'[t].scratch = call[t].scratch
        /\ call'[t].issued = call[t].issued
    BY <1>2, <2>1 DEF CallRecords
  <2>3. PlansOf(t)' = PlansOf(t) /\ Plan(t)' = Plan(t)
    BY <2>1, <2>2, SamePlan
  <2>4. ProgressOf(t)
    BY <1>3
  <2>5. ProgressOf(t)'
    BY <2>1, <2>2, <2>3, <2>4 DEF ProgressOf, Encoding, Waiting
  <2>6. QED
    BY <1>4, <2>1, <2>5
<1>8. ASSUME NEW t \in Callers, CopyArena(t) PROVE Progress'
  <2>1. /\ outcomes' = outcomes
        /\ call[t].pc = "copy"
        /\ \A u \in Callers : u # t => call'[u] = call[u]
        /\ call'[t] = [call[t] EXCEPT !.pc = "insert"]
    BY <1>1, <1>8, CopyEffect
  <2>2. /\ call'[t].pc = "insert"
        /\ call'[t].copies = call[t].copies
        /\ call'[t].plan = call[t].plan
        /\ call'[t].scratch = call[t].scratch
        /\ call'[t].issued = call[t].issued
    BY <1>2, <2>1 DEF CallRecords
  <2>3. PlansOf(t)' = PlansOf(t) /\ Plan(t)' = Plan(t)
    BY <2>1, <2>2, SamePlan
  <2>4. ProgressOf(t)
    BY <1>3
  <2>5. ProgressOf(t)'
    BY <2>1, <2>2, <2>3, <2>4 DEF ProgressOf, Encoding, Waiting
  <2>6. QED
    BY <1>4, <2>1, <2>5
<1>9. ASSUME NEW t \in Callers, InsertUpload(t) PROVE Progress'
  <2>1. /\ \A u \in Callers : u # t => call'[u] = call[u]
        /\ call'[t] = [call[t] EXCEPT !.copies = Append(call[t].copies, Len(copies)), !.pc = "upload"]
    BY <1>1, <1>9, InsertEffect
  <2>2. outcomes' = outcomes /\ call[t].pc = "insert"
    BY <1>9 DEF InsertUpload
  <2>3. /\ call'[t].pc = "upload"
        /\ call'[t].plan = call[t].plan
        /\ call'[t].scratch = call[t].scratch
        /\ call'[t].issued = call[t].issued
    BY <1>2, <2>1 DEF CallRecords
  <2>4. PlansOf(t)' = PlansOf(t) /\ Plan(t)' = Plan(t)
    BY <2>2, <2>3, SamePlan
  <2>5. ProgressOf(t)
    BY <1>3
  <2>6. ProgressOf(t)'
    BY <2>2, <2>3, <2>4, <2>5 DEF ProgressOf, Encoding, Waiting
  <2>7. QED
    BY <1>4, <2>1, <2>2, <2>6
<1>10. ASSUME NEW t \in Callers, TakeScratch(t) PROVE Progress'
  <2>1. IsInjective(pool.buffers)
    BY <1>1 DEF Placed
  <2>2. PICK b \in Buffers' :
          /\ call'[t] = [call[t] EXCEPT !.scratch = Append(call[t].scratch, b)]
          /\ \A u \in Callers : u # t => call'[u] = call[u]
    BY <1>1, <1>10, <2>1, TakeEffect
  <2>3. outcomes' = outcomes /\ call[t].pc = "scratch"
    BY <1>10 DEF TakeScratch
  <2>4. /\ call'[t].pc = call[t].pc
        /\ call'[t].copies = call[t].copies
        /\ call'[t].plan = call[t].plan
        /\ call'[t].issued = call[t].issued
    BY <1>2, <2>2 DEF CallRecords
  <2>5. PlansOf(t)' = PlansOf(t) /\ Plan(t)' = Plan(t)
    BY <2>3, <2>4, SamePlan
  <2>6. ProgressOf(t)
    BY <1>3
  <2>7. ProgressOf(t)'
    BY <2>3, <2>4, <2>5, <2>6 DEF ProgressOf, Encoding, Waiting
  <2>8. QED
    BY <1>4, <2>2, <2>3, <2>7
<1>11. ASSUME NEW t \in Callers, Launch(t) PROVE Progress'
  <2>1. /\ outcomes' = outcomes
        /\ call[t].pc = "scratch"
        /\ \A u \in Callers : u # t => call'[u] = call[u]
        /\ call'[t] = [call[t] EXCEPT
             !.pc          = IF call[t].plan < Len(PlansOf(t)) THEN "lock" ELSE "submitted",
             !.plan        = call[t].plan + 1,
             !.copies      = <<>>,
             !.scratch     = <<>>,
             !.submissions = Append(call[t].submissions, Len(commands) + 1),
             !.issued      = Append(call[t].issued, Len(commands) + 1)]
    BY <1>1, <1>11, LaunchEffect
  <2>2. /\ call'[t].pc = IF call[t].plan < Len(PlansOf(t)) THEN "lock" ELSE "submitted"
        /\ call'[t].plan = call[t].plan + 1
        /\ call'[t].copies = <<>>
        /\ call'[t].scratch = <<>>
        /\ call'[t].issued = Append(call[t].issued, Len(commands) + 1)
    BY <1>2, <2>1 DEF CallRecords
  <2>3. Len(call'[t].issued) = Len(call[t].issued) + 1
    <3>1. call[t].issued \in Seq(DOMAIN commands)
      BY <1>1, CallTyped
    <3>2. QED
      BY <2>2, <3>1
  <2>4. PlansOf(t)' = PlansOf(t)
    BY <2>1 DEF PlansOf, Current
  <2>5. ProgressOf(t)
    BY <1>3
  <2>6. call[t].plan \in 1..Len(PlansOf(t)) /\ Len(call[t].issued) = call[t].plan - 1
    BY <2>1, <2>5 DEF ProgressOf, Encoding
  <2>7. Len(PlansOf(t)) \in Nat
    <3>1. PlansOf(t) \in Seq(Plans)
      BY <1>1, <2>1, <2>5, CurrentTyped DEF ProgressOf
    <3>2. QED
      BY <3>1
  <2>8. /\ call[t].plan < Len(PlansOf(t)) => call[t].plan + 1 \in 1..Len(PlansOf(t))
        /\ ~ (call[t].plan < Len(PlansOf(t))) => call[t].plan = Len(PlansOf(t))
        /\ Len(call'[t].issued) = call[t].plan
        /\ call[t].plan = call[t].plan + 1 - 1
    BY <2>3, <2>6, <2>7
  <2>9. ProgressOf(t)'
    BY <2>1, <2>2, <2>4, <2>5, <2>8 DEF ProgressOf, Encoding, Waiting
  <2>10. QED
    BY <1>4, <2>1, <2>9
<1>12. ASSUME NEW t \in Callers, FailEncode(t) PROVE Progress'
  <2>1. /\ outcomes' = outcomes
        /\ call[t].pc \in Encoding
        /\ \A u \in Callers : u # t => call'[u] = call[u]
        /\ call'[t] = [call[t] EXCEPT !.pc = "drop", !.failed = TRUE, !.copies = <<>>, !.scratch = <<>>]
    BY <1>1, <1>12, FailEffect
  <2>2. call'[t].pc = "drop" /\ call'[t].copies = <<>> /\ call'[t].scratch = <<>>
    BY <1>2, <2>1 DEF CallRecords
  <2>3. ProgressOf(t)
    BY <1>3
  <2>4. ProgressOf(t)'
    BY <2>1, <2>2, <2>3 DEF ProgressOf, Encoding, Waiting
  <2>5. QED
    BY <1>4, <2>1, <2>4
<1>13. ASSUME NEW t \in Callers, ReadStatus(t) PROVE Progress'
  <2>1. /\ outcomes' = outcomes
        /\ call[t].pc = "wait"
        /\ \A u \in Callers : u # t => call'[u] = call[u]
        /\ call'[t] = [call[t] EXCEPT !.pc = "status"]
    BY <1>1, <1>13, ReadEffect
  <2>2. /\ call'[t].pc = "status"
        /\ call'[t].plan = call[t].plan
        /\ call'[t].copies = call[t].copies
        /\ call'[t].scratch = call[t].scratch
        /\ call'[t].issued = call[t].issued
    BY <1>2, <2>1 DEF CallRecords
  <2>3. PlansOf(t)' = PlansOf(t)
    BY <2>1, <2>2, SamePlan
  <2>4. ProgressOf(t)
    BY <1>3
  <2>5. ProgressOf(t)'
    BY <2>1, <2>2, <2>3, <2>4 DEF ProgressOf, Encoding, Waiting
  <2>6. QED
    BY <1>4, <2>1, <2>5
<1>14. ASSUME NEW t \in Callers, FinishSubmission(t) PROVE Progress'
  <2>1. /\ outcomes' = outcomes
        /\ call[t].pc \in {"recycle", "drop"}
        /\ \A u \in Callers : u # t => call'[u] = call[u]
        /\ call'[t] = [call[t] EXCEPT
             !.submissions = Tail(call[t].submissions),
             !.failed      = call[t].failed \/ (call[t].pc = "recycle" /\ Failed(t)),
             !.pc          = IF call[t].pc = "recycle" /\ ~Failed(t) THEN "wait" ELSE "drop"]
    BY <1>1, <1>14, FinishEffect
  <2>2. /\ call'[t].pc = IF call[t].pc = "recycle" /\ ~Failed(t) THEN "wait" ELSE "drop"
        /\ call'[t].plan = call[t].plan
        /\ call'[t].copies = call[t].copies
        /\ call'[t].scratch = call[t].scratch
        /\ call'[t].issued = call[t].issued
    BY <1>2, <2>1 DEF CallRecords
  <2>3. PlansOf(t)' = PlansOf(t)
    BY <2>1, <2>2, SamePlan
  <2>4. ProgressOf(t)
    BY <1>3
  <2>5. ProgressOf(t)'
    BY <2>1, <2>2, <2>3, <2>4 DEF ProgressOf, Encoding, Waiting
  <2>6. QED
    BY <1>4, <2>1, <2>5
<1>15. ASSUME NEW t \in Callers, Return(t) PROVE Progress'
  <2>1. /\ \A u \in Callers : u # t => call'[u] = call[u] /\ outcomes'[u] = outcomes[u]
        /\ call'[t] = NoCall
    BY <1>1, <1>15, ReturnEffect
  <2>2. ProgressOf(t)'
    BY <2>1 DEF ProgressOf, NoCall, Encoding, Waiting
  <2>3. QED
    BY <1>4, <2>1, <2>2
<1>16. ASSUME UNCHANGED session PROVE Progress'
  <2>1. ASSUME NEW u \in Callers PROVE ProgressOf(u)'
    <3>1. call'[u] = call[u] /\ outcomes'[u] = outcomes[u]
      BY <1>16 DEF session
    <3>2. QED
      BY <1>3, <3>1, Unmoved
  <2>2. QED
    BY <2>1 DEF Progress
<1>17. ASSUME NEW t \in Callers, RecycleScratch(t) PROVE Progress'
  BY <1>16, <1>17 DEF RecycleScratch
<1>18. ASSUME NEW s \in StreamIds, Device(s) PROVE Progress'
  BY <1>16, <1>18 DEF Device
<1>19. CASE UNCHANGED vars
  BY <1>16, <1>19 DEF vars
<1>20. QED
  BY <1>5, <1>6, <1>7, <1>8, <1>9, <1>10, <1>11, <1>12, <1>13, <1>14, <1>15, <1>17, <1>18, <1>19,
     NextCases

-----------------------------------------------------------------------------
(***************************************************************************)
(* Where the scratch is.                                                   *)
(***************************************************************************)
\* Steps that leave all scratch where it is; a kernel may complete.
ScratchSame ==
  /\ UNCHANGED memory
  /\ \A u \in Callers : call'[u].scratch = call[u].scratch
  /\ (DOMAIN commands)' = DOMAIN commands
  /\ \A c \in DOMAIN commands :
       /\ commands'[c].scratch = commands[c].scratch
       /\ commands'[c].held = commands[c].held
       /\ Queued(c)' => Queued(c)

\* What a step does to the places of the scratch and to the kernels that use it.
LEMMA ScratchCases ==
  ASSUME IInv, [Next]_vars
  PROVE  \/ ScratchSame
         \/ \E t \in Callers : TakeScratch(t) \/ Launch(t) \/ FailEncode(t) \/ RecycleScratch(t)
<1>1. Types /\ LockHeld /\ Progress /\ Placed /\ PoolBounded /\ CacheBounded /\ Queues /\ Settled
  BY DEF IInv
<1>2. \A t \in Callers : call[t] \in CallRecords(DOMAIN copies, Buffers, DOMAIN commands)
  BY <1>1, CallTyped
<1>3. \A t \in Callers : ProgressOf(t)
  BY <1>1 DEF Progress
<1>4. ASSUME NEW t \in Callers, call'[t].scratch = call[t].scratch, UNCHANGED <<memory, commands>>,
             \A u \in Callers : u # t => call'[u] = call[u]
      PROVE  ScratchSame
  BY <1>4 DEF ScratchSame, Queued
<1>5. ASSUME NEW t \in Callers, BeginCall(t) PROVE ScratchSame
  <2>1. /\ UNCHANGED <<memory, commands>>
        /\ \A u \in Callers : u # t => call'[u] = call[u]
    BY <1>1, <1>5, BeginEffect
  <2>2. call'[t].scratch = call[t].scratch
    BY <1>1, <1>2, <1>5, BeginEffect, ZenonT(60) DEF CallRecords
  <2>3. QED
    BY <1>4, <2>1, <2>2
<1>6. ASSUME NEW t \in Callers, Moves(t) PROVE ScratchSame
  <2>1. /\ UNCHANGED <<memory, commands>>
        /\ \A u \in Callers : u # t => call'[u] = call[u]
        /\ \E pc \in Pcs : call'[t] = [call[t] EXCEPT !.pc = pc]
    BY <1>1, <1>6, MoveEffect
  <2>2. call'[t].scratch = call[t].scratch
    BY <1>2, <2>1 DEF CallRecords
  <2>3. QED
    BY <1>4, <2>1, <2>2
<1>7. ASSUME NEW t \in Callers, FindUpload(t) PROVE ScratchSame
  <2>1. /\ UNCHANGED <<memory, commands>>
        /\ \A u \in Callers : u # t => call'[u] = call[u]
        /\ \/ \E e \in Cached : call'[t] = [call[t] EXCEPT !.copies = Append(call[t].copies, e)]
           \/ call'[t] = [call[t] EXCEPT !.pc = "copy"]
    BY <1>1, <1>7, FindEffect
  <2>2. call'[t].scratch = call[t].scratch
    BY <1>2, <2>1 DEF CallRecords
  <2>3. QED
    BY <1>4, <2>1, <2>2
<1>8. ASSUME NEW t \in Callers, CopyArena(t) PROVE ScratchSame
  <2>1. /\ UNCHANGED <<memory, commands>>
        /\ \A u \in Callers : u # t => call'[u] = call[u]
        /\ call'[t] = [call[t] EXCEPT !.pc = "insert"]
    BY <1>1, <1>8, CopyEffect
  <2>2. call'[t].scratch = call[t].scratch
    BY <1>2, <2>1 DEF CallRecords
  <2>3. QED
    BY <1>4, <2>1, <2>2
<1>9. ASSUME NEW t \in Callers, InsertUpload(t) PROVE ScratchSame
  <2>1. /\ \A u \in Callers : u # t => call'[u] = call[u]
        /\ call'[t] = [call[t] EXCEPT !.copies = Append(call[t].copies, Len(copies)), !.pc = "upload"]
    BY <1>1, <1>9, InsertEffect
  <2>2. UNCHANGED <<memory, commands>>
    BY <1>9 DEF InsertUpload
  <2>3. call'[t].scratch = call[t].scratch
    BY <1>2, <2>1 DEF CallRecords
  <2>4. QED
    BY <1>4, <2>1, <2>2, <2>3
<1>10. ASSUME NEW t \in Callers, ReadStatus(t) PROVE ScratchSame
  <2>1. /\ UNCHANGED <<memory, commands>>
        /\ \A u \in Callers : u # t => call'[u] = call[u]
        /\ call'[t] = [call[t] EXCEPT !.pc = "status"]
    BY <1>1, <1>10, ReadEffect
  <2>2. call'[t].scratch = call[t].scratch
    BY <1>2, <2>1 DEF CallRecords
  <2>3. QED
    BY <1>4, <2>1, <2>2
<1>11. ASSUME NEW t \in Callers, FinishSubmission(t) PROVE ScratchSame
  <2>1. /\ UNCHANGED <<memory, commands>>
        /\ \A u \in Callers : u # t => call'[u] = call[u]
    BY <1>1, <1>11, FinishEffect
  <2>2. call'[t].scratch = call[t].scratch
    BY <1>1, <1>2, <1>11, FinishEffect, ZenonT(60) DEF CallRecords
  <2>3. QED
    BY <1>4, <2>1, <2>2
<1>12. ASSUME NEW t \in Callers, Return(t) PROVE ScratchSame
  <2>1. /\ UNCHANGED <<memory, commands>>
        /\ \A u \in Callers : u # t => call'[u] = call[u]
        /\ call'[t] = NoCall
        /\ call[t].pc \in {"wait", "drop"}
    BY <1>1, <1>12, ReturnEffect
  <2>2. call[t].scratch = <<>>
    BY <1>3, <2>1 DEF ProgressOf
  <2>3. call'[t].scratch = call[t].scratch
    BY <2>1, <2>2 DEF NoCall
  <2>4. QED
    BY <1>4, <2>1, <2>3
<1>13. ASSUME NEW s \in StreamIds, Device(s) PROVE ScratchSame
  <2>1. /\ UNCHANGED <<session, memory>>
        /\ (DOMAIN commands)' = DOMAIN commands
        /\ \A c \in DOMAIN commands :
             /\ commands'[c].scratch = commands[c].scratch
             /\ commands'[c].held = commands[c].held
             /\ Head(streams[s]) # RunOp(c) => commands'[c].state = commands[c].state
             /\ Head(streams[s]) = RunOp(c) => Queued(c)
    BY <1>1, <1>13, DeviceEffect
  <2>2. QED
    BY <2>1 DEF ScratchSame, session, Queued
<1>14. CASE UNCHANGED vars
  BY <1>14 DEF vars, session, ScratchSame, Queued
<1>15. QED
  BY <1>5, <1>6, <1>7, <1>8, <1>9, <1>10, <1>11, <1>12, <1>13, <1>14, NextCases

\* Every step keeps what the pool retains within its bound, and counted.
LEMMA PoolStep ==
  ASSUME IInv, [Next]_vars
  PROVE  PoolBounded'
<1>1. Types /\ LockHeld /\ Progress /\ Placed /\ PoolBounded /\ CacheBounded /\ Queues /\ Settled
  BY DEF IInv
<1>2. ASSUME UNCHANGED <<pool, sizes>> PROVE PoolBounded'
  BY <1>1, <1>2 DEF PoolBounded, BytesOf
<1>3. CASE ScratchSame
  BY <1>2, <1>3 DEF ScratchSame, memory
<1>4. ASSUME NEW t \in Callers, TakeScratch(t) PROVE PoolBounded'
  <2>1. IsInjective(pool.buffers)
    BY <1>1 DEF Placed
  <2>2. QED
    BY <1>1, <1>4, <2>1, TakeEffect
<1>5. ASSUME NEW t \in Callers, Launch(t) PROVE PoolBounded'
  BY <1>2, <1>5 DEF Launch, memory
<1>6. ASSUME NEW t \in Callers, FailEncode(t) PROVE PoolBounded'
  BY <1>2, <1>6 DEF FailEncode
<1>7. ASSUME NEW t \in Callers, RecycleScratch(t) PROVE PoolBounded'
  BY <1>1, <1>7, RecycleStep
<1>8. QED
  BY <1>3, <1>4, <1>5, <1>6, <1>7, ScratchCases

\* Scratch is made of buffers that were allocated.
LEMMA ScratchTyped ==
  ASSUME Types
  PROVE  /\ Pooled \subseteq Buffers
         /\ freed \subseteq Buffers
         /\ \A t \in Callers : Taken(t) \subseteq Buffers /\ call[t].scratch \in Seq(Buffers)
         /\ \A c \in DOMAIN commands : /\ Held(c) \subseteq Buffers
                                       /\ Used(c) \subseteq Buffers
<1>1. \A s \in Seq(Buffers) : ToSet(s) \subseteq Buffers
  BY DEF ToSet
<1>2. pool.buffers \in Seq(Buffers) /\ freed \subseteq Buffers
  BY DEF Types
<1>3. \A t \in Callers : call[t].scratch \in Seq(Buffers)
  BY CallTyped
<1>4. \A c \in DOMAIN commands : commands[c].held \in Seq(Buffers) /\ commands[c].scratch \in Seq(Buffers)
  BY CommandTyped
<1>5. Pooled \subseteq Buffers
  BY <1>1, <1>2 DEF Pooled
<1>6. \A t \in Callers : Taken(t) \subseteq Buffers
  BY <1>1, <1>3 DEF Taken
<1>7. \A c \in DOMAIN commands : Held(c) \subseteq Buffers /\ Used(c) \subseteq Buffers
  BY <1>1, <1>4 DEF Held, Used
<1>8. QED
  BY <1>2, <1>3, <1>5, <1>6, <1>7

\* Every step keeps each buffer in one place.
LEMMA PlacedStep ==
  ASSUME IInv, [Next]_vars
  PROVE  Placed'
<1>1. Types /\ LockHeld /\ Progress /\ Placed /\ PoolBounded /\ CacheBounded /\ Queues /\ Settled
  BY DEF IInv
<1>2. /\ Pooled \subseteq Buffers
      /\ freed \subseteq Buffers
      /\ \A t \in Callers : Taken(t) \subseteq Buffers /\ call[t].scratch \in Seq(Buffers)
      /\ \A c \in DOMAIN commands : Held(c) \subseteq Buffers
  BY <1>1, ScratchTyped
<1>3. \A t \in Callers : call[t] \in CallRecords(DOMAIN copies, Buffers, DOMAIN commands)
  BY <1>1, CallTyped
<1>4. CASE ScratchSame
  <2>1. /\ pool' = pool /\ freed' = freed /\ Buffers' = Buffers /\ Pooled' = Pooled
        /\ \A t \in Callers : call'[t].scratch = call[t].scratch /\ Taken(t)' = Taken(t)
        /\ (DOMAIN commands)' = DOMAIN commands
        /\ \A c \in DOMAIN commands : commands'[c].held = commands[c].held /\ Held(c)' = Held(c)
    BY <1>4 DEF ScratchSame, memory, Buffers, Pooled, Taken, Held
  <2>2. QED
    BY <1>1, <2>1 DEF Placed
<1>5. ASSUME NEW t \in Callers, TakeScratch(t) PROVE Placed'
  <2>1. IsInjective(pool.buffers)
    BY <1>1 DEF Placed
  <2>2. IsInjective(pool'.buffers)
    BY <1>1, <1>5, <2>1, TakeEffect
  <2>3. PICK b \in Buffers' :
          /\ call'[t] = [call[t] EXCEPT !.scratch = Append(call[t].scratch, b)]
          /\ \A u \in Callers : u # t => call'[u] = call[u]
          /\ \/ b \in Pooled /\ Pooled' = Pooled \ {b} /\ Buffers' = Buffers
             \/ b \notin Buffers /\ Pooled' = Pooled /\ Buffers' = Buffers \cup {b}
    BY <1>1, <1>5, <2>1, TakeEffect
  <2>4. freed' = freed /\ commands' = commands
    BY <1>5 DEF TakeScratch
  <2>5. call'[t].scratch = Append(call[t].scratch, b)
    BY <1>3, <2>3 DEF CallRecords
  <2>6. b \notin Taken(t)
    BY <1>1, <1>2, <2>3 DEF Placed
  <2>7. Taken(t)' = Taken(t) \cup {b} /\ IsInjective(call'[t].scratch)
    <3>1. call[t].scratch \in Seq(Buffers') /\ b \in Buffers'
      <4>1. Buffers \subseteq Buffers'
        BY <2>3
      <4>2. QED
        BY <1>2, <2>3, <4>1
    <3>2. IsInjective(call[t].scratch)
      BY <1>1 DEF Placed
    <3>3. /\ ToSet(Append(call[t].scratch, b)) = ToSet(call[t].scratch) \cup {b}
          /\ b \notin ToSet(call[t].scratch) => IsInjective(Append(call[t].scratch, b))
      BY <3>1, <3>2, AppendSet
    <3>4. QED
      BY <2>5, <2>6, <3>3 DEF Taken
  <2>8. /\ \A u \in Callers : u # t => Taken(u)' = Taken(u) /\ call'[u] = call[u]
        /\ \A c \in DOMAIN commands : Held(c)' = Held(c)
    BY <2>3, <2>4 DEF Taken, Held
  <2>9. \A u \in Callers : b \in Taken(u) => FALSE
    BY <1>1, <1>2, <2>3 DEF Placed
  <2>10. \A c \in DOMAIN commands : b \in Held(c) => FALSE
    BY <1>1, <1>2, <2>3 DEF Placed
  <2>11. b \notin freed
    BY <1>1, <1>2, <2>3 DEF Placed
  <2>12. \A u \in Callers : IsInjective(call'[u].scratch)
    BY <1>1, <2>7, <2>8 DEF Placed
  <2>13. Pooled' \subseteq Pooled /\ b \notin Pooled'
    BY <1>2, <2>3
  <2>14. /\ Pooled' \cap freed' = {}
         /\ \A u \in Callers : Taken(u)' \cap (Pooled' \cup freed') = {}
         /\ \A c \in DOMAIN commands : Held(c)' \cap (Pooled' \cup freed') = {}
    BY <1>1, <2>4, <2>7, <2>8, <2>11, <2>13 DEF Placed
  <2>15. \A u, v \in Callers : u # v => Taken(u)' \cap Taken(v)' = {}
    BY <1>1, <2>7, <2>8, <2>9 DEF Placed
  <2>16. \A u \in Callers : \A c \in DOMAIN commands : Taken(u)' \cap Held(c)' = {}
    BY <1>1, <2>7, <2>8, <2>10 DEF Placed
  <2>17. \A x \in Buffers' :
           \/ x \in Pooled' \cup freed'
           \/ \E u \in Callers : x \in Taken(u)'
           \/ \E c \in DOMAIN commands : x \in Held(c)'
    <3>1. SUFFICES ASSUME NEW x \in Buffers', x # b
                   PROVE  \/ x \in Pooled' \cup freed'
                          \/ \E u \in Callers : x \in Taken(u)'
                          \/ \E c \in DOMAIN commands : x \in Held(c)'
      BY <2>7
    <3>2. x \in Buffers
      BY <2>3, <3>1
    <3>3. \/ x \in Pooled \cup freed
          \/ \E u \in Callers : x \in Taken(u)
          \/ \E c \in DOMAIN commands : x \in Held(c)
      BY <1>1, <3>2 DEF Placed
    <3>4. Pooled \ {b} \subseteq Pooled' /\ \A u \in Callers : Taken(u) \subseteq Taken(u)'
      BY <2>3, <2>7, <2>8
    <3>5. QED
      BY <2>4, <2>8, <3>1, <3>3, <3>4
  <2>18. QED
    BY <1>1, <2>2, <2>4, <2>8, <2>12, <2>14, <2>15, <2>16, <2>17 DEF Placed
<1>6. ASSUME NEW t \in Callers, Launch(t) PROVE Placed'
  <2> DEFINE n == Len(commands) + 1
  <2>1. /\ pool' = pool /\ freed' = freed /\ sizes' = sizes
        /\ \A u \in Callers : u # t => call'[u] = call[u]
        /\ (DOMAIN commands)' = DOMAIN commands \cup {n}
        /\ n \notin DOMAIN commands
        /\ commands'[n] = Command(t)
        /\ \A c \in DOMAIN commands : commands'[c] = commands[c]
    BY <1>1, <1>6, LaunchEffect DEF memory
  <2>2. call'[t].scratch = <<>>
    BY <1>1, <1>3, <1>6, LaunchEffect, ZenonT(60) DEF CallRecords
  <2>3. commands'[n].held = call[t].scratch
    BY <2>1 DEF Command
  <2> HIDE DEF n
  <2>4. /\ \A c \in (DOMAIN commands)' :
             \/ c = n /\ Held(c)' = Taken(t)
             \/ c # n /\ c \in DOMAIN commands /\ Held(c)' = Held(c)
        /\ \A u \in Callers :
             \/ u = t /\ Taken(u)' = {}
             \/ u # t /\ Taken(u)' = Taken(u)
        /\ Pooled' = Pooled /\ Buffers' = Buffers /\ freed' = freed
    <3>1. ToSet(<<>>) = {}
      BY DEF ToSet
    <3>2. \A u \in Callers :
             \/ u = t /\ Taken(u)' = {}
             \/ u # t /\ Taken(u)' = Taken(u)
      BY <2>1, <2>2, <3>1 DEF Taken
    <3>3. \A c \in (DOMAIN commands)' :
             \/ c = n /\ Held(c)' = Taken(t)
             \/ c # n /\ c \in DOMAIN commands /\ Held(c)' = Held(c)
      BY <2>1, <2>3 DEF Held, Taken
    <3>4. QED
      BY <2>1, <3>2, <3>3 DEF Pooled, Buffers
  <2>5. \A u \in Callers : IsInjective(call'[u].scratch)
    <3>1. IsInjective(call'[t].scratch)
      BY <2>2 DEF IsInjective
    <3>2. QED
      BY <1>1, <2>1, <3>1 DEF Placed
  <2>6. \A c \in (DOMAIN commands)' : IsInjective(commands'[c].held)
    BY <1>1, <2>1, <2>3 DEF Placed
  <2>7. IsInjective(pool'.buffers)
    BY <1>1, <2>1 DEF Placed
  <2>8. /\ Pooled' \cap freed' = {}
        /\ \A u \in Callers : Taken(u)' \cap (Pooled' \cup freed') = {}
        /\ \A c \in (DOMAIN commands)' : Held(c)' \cap (Pooled' \cup freed') = {}
    BY <1>1, <2>4 DEF Placed
  <2>9. \A u, v \in Callers : u # v => Taken(u)' \cap Taken(v)' = {}
    BY <1>1, <2>4 DEF Placed
  <2>10. \A c, d \in (DOMAIN commands)' : c # d => Held(c)' \cap Held(d)' = {}
    BY <1>1, <2>4 DEF Placed
  <2>11. \A u \in Callers : \A c \in (DOMAIN commands)' : Taken(u)' \cap Held(c)' = {}
    BY <1>1, <2>4 DEF Placed
  <2>12. \A x \in Buffers' :
           \/ x \in Pooled' \cup freed'
           \/ \E u \in Callers : x \in Taken(u)'
           \/ \E c \in (DOMAIN commands)' : x \in Held(c)'
    <3>1. \A c \in DOMAIN commands : c \in (DOMAIN commands)' /\ Held(c)' = Held(c)
      BY <2>1, <2>4
    <3>2. \E c \in (DOMAIN commands)' : Held(c)' = Taken(t)
      BY <2>1, <2>4
    <3>3. \A u \in Callers : u # t => Taken(u)' = Taken(u)
      BY <2>4
    <3>4. TAKE x \in Buffers'
    <3>5. \/ x \in Pooled \cup freed
          \/ \E u \in Callers : x \in Taken(u)
          \/ \E c \in DOMAIN commands : x \in Held(c)
      BY <1>1, <2>4, <3>4 DEF Placed
    <3>6. QED
      BY <2>4, <3>1, <3>2, <3>3, <3>5
  <2>13. QED
    BY <2>5, <2>6, <2>7, <2>8, <2>9, <2>10, <2>11, <2>12 DEF Placed
<1>7. ASSUME NEW t \in Callers, FailEncode(t) PROVE Placed'
  <2> DEFINE n == Len(commands) + 1
  <2>1. /\ pool' = pool /\ sizes' = sizes
        /\ freed' = freed \cup Taken(t)
        /\ \A u \in Callers : u # t => call'[u] = call[u]
        /\ \A c \in DOMAIN commands : commands'[c] = commands[c]
    BY <1>1, <1>7, FailEffect
  <2>2. call'[t].scratch = <<>>
    BY <1>1, <1>3, <1>7, FailEffect DEF CallRecords
  <2>3. \/ (DOMAIN commands)' = DOMAIN commands
        \/ (DOMAIN commands)' = DOMAIN commands \cup {n} /\ commands'[n].held = <<>>
    <3>1. \/ UNCHANGED <<commands, streams>>
          \/ (DOMAIN commands)' = DOMAIN commands \cup {n} /\ commands'[n] = [Command(t) EXCEPT !.held = <<>>]
      BY <1>1, <1>7, FailEffect
    <3>2. [Command(t) EXCEPT !.held = <<>>].held = <<>>
      BY DEF Command
    <3>3. QED
      BY <3>1, <3>2
  <2> HIDE DEF n
  <2>4. \A c \in (DOMAIN commands)' :
          \/ c \in DOMAIN commands /\ Held(c)' = Held(c) /\ IsInjective(commands'[c].held)
          \/ c \notin DOMAIN commands /\ Held(c)' = {} /\ IsInjective(commands'[c].held)
    <3>1. ToSet(<<>>) = {} /\ IsInjective(<<>>)
      BY DEF ToSet, IsInjective
    <3>2. QED
      BY <1>1, <2>1, <2>3, <3>1 DEF Held, Placed
  <2>5. /\ Taken(t)' = {}
        /\ \A u \in Callers : u # t => Taken(u)' = Taken(u)
        /\ Pooled' = Pooled /\ Buffers' = Buffers
        /\ DOMAIN commands \subseteq (DOMAIN commands)'
    BY <2>1, <2>2, <2>3 DEF Taken, Pooled, Buffers, ToSet
  <2>6. \A u \in Callers : IsInjective(call'[u].scratch)
    <3>1. IsInjective(call'[t].scratch)
      BY <2>2 DEF IsInjective
    <3>2. QED
      BY <1>1, <2>1, <3>1 DEF Placed
  <2>7. IsInjective(pool'.buffers) /\ \A c \in (DOMAIN commands)' : IsInjective(commands'[c].held)
    BY <1>1, <2>1, <2>4 DEF Placed
  <2>8. /\ Pooled' \cap freed' = {}
        /\ \A u \in Callers : Taken(u)' \cap (Pooled' \cup freed') = {}
        /\ \A c \in (DOMAIN commands)' : Held(c)' \cap (Pooled' \cup freed') = {}
    BY <1>1, <2>1, <2>4, <2>5 DEF Placed
  <2>9. \A u, v \in Callers : u # v => Taken(u)' \cap Taken(v)' = {}
    BY <1>1, <2>5 DEF Placed
  <2>10. \A c, d \in (DOMAIN commands)' : c # d => Held(c)' \cap Held(d)' = {}
    BY <1>1, <2>4 DEF Placed
  <2>11. \A u \in Callers : \A c \in (DOMAIN commands)' : Taken(u)' \cap Held(c)' = {}
    BY <1>1, <2>4, <2>5 DEF Placed
  <2>12. \A x \in Buffers' :
           \/ x \in Pooled' \cup freed'
           \/ \E u \in Callers : x \in Taken(u)'
           \/ \E c \in (DOMAIN commands)' : x \in Held(c)'
    BY <1>1, <2>1, <2>4, <2>5 DEF Placed
  <2>13. QED
    BY <2>6, <2>7, <2>8, <2>9, <2>10, <2>11, <2>12 DEF Placed
<1>8. ASSUME NEW t \in Callers, RecycleScratch(t) PROVE Placed'
  <2> DEFINE f == First(t)
  <2>1. /\ f \in DOMAIN commands
        /\ UNCHANGED <<session, sizes>>
        /\ IsInjective(pool'.buffers)
        /\ Pooled' \cap freed' = {}
        /\ (DOMAIN commands)' = DOMAIN commands
        /\ \A c \in DOMAIN commands : c # f => commands'[c] = commands[c]
        /\ IsInjective(commands'[f].held)
        /\ \E b \in Held(f) :
             /\ ToSet(commands'[f].held) = Held(f) \ {b}
             /\ Pooled' \cup freed' = Pooled \cup freed \cup {b}
             /\ Pooled' \subseteq Pooled \cup {b}
    BY <1>1, <1>8, RecycleStep
  <2> HIDE DEF f
  <2>2. PICK b \in Held(f) :
          /\ \A c \in DOMAIN commands : c = f => Held(c)' = Held(c) \ {b}
          /\ Pooled' \cup freed' = Pooled \cup freed \cup {b}
    BY <2>1 DEF Held
  <2>3. call' = call /\ Buffers' = Buffers /\ \A u \in Callers : Taken(u)' = Taken(u)
    BY <2>1 DEF session, Buffers, Taken
  <2>4. /\ \A u \in Callers : IsInjective(call'[u].scratch)
        /\ \A c \in DOMAIN commands : IsInjective(commands'[c].held)
    BY <1>1, <2>1, <2>3 DEF Placed
  <2>5. \A u \in Callers : b \notin Taken(u)
    BY <1>1, <2>1, <2>2 DEF Placed
  <2>6. \A c \in DOMAIN commands : Held(c)' \subseteq Held(c) /\ b \notin Held(c)'
    <3>1. \A c \in DOMAIN commands : c # f => b \notin Held(c)
      BY <1>1, <2>1, <2>2 DEF Placed
    <3>2. \A c \in DOMAIN commands : c # f => Held(c)' = Held(c)
      BY <2>1 DEF Held
    <3>3. TAKE c \in DOMAIN commands
    <3>4. CASE c = f
      BY <2>2, <3>4
    <3>5. CASE c # f
      BY <3>1, <3>2, <3>5
    <3>6. QED
      BY <3>4, <3>5
  <2>7. /\ \A u \in Callers : Taken(u)' \cap (Pooled' \cup freed') = {}
        /\ \A c \in DOMAIN commands : Held(c)' \cap (Pooled' \cup freed') = {}
    BY <1>1, <2>2, <2>3, <2>5, <2>6 DEF Placed
  <2>8. \A u, v \in Callers : u # v => Taken(u)' \cap Taken(v)' = {}
    BY <1>1, <2>3 DEF Placed
  <2>9. \A c, d \in DOMAIN commands : c # d => Held(c)' \cap Held(d)' = {}
    BY <1>1, <2>6 DEF Placed
  <2>10. \A u \in Callers : \A c \in DOMAIN commands : Taken(u)' \cap Held(c)' = {}
    BY <1>1, <2>3, <2>6 DEF Placed
  <2>11. \A x \in Buffers' :
           \/ x \in Pooled' \cup freed'
           \/ \E u \in Callers : x \in Taken(u)'
           \/ \E c \in DOMAIN commands : x \in Held(c)'
    <3>1. \A c \in DOMAIN commands : c # f => Held(c)' = Held(c)
      BY <2>1 DEF Held
    <3>2. \A c \in DOMAIN commands : \A x \in Held(c) : x # b => x \in Held(c)'
      <4>1. TAKE c \in DOMAIN commands
      <4>2. CASE c = f
        BY <2>2, <4>2
      <4>3. CASE c # f
        BY <3>1, <4>3
      <4>4. QED
        BY <4>2, <4>3
    <3>3. TAKE x \in Buffers'
    <3>4. \/ x \in Pooled \cup freed
          \/ \E u \in Callers : x \in Taken(u)
          \/ \E c \in DOMAIN commands : x \in Held(c)
      BY <1>1, <2>3, <3>3 DEF Placed
    <3>5. QED
      BY <2>2, <2>3, <3>2, <3>4
  <2>12. QED
    BY <2>1, <2>4, <2>7, <2>8, <2>9, <2>10, <2>11 DEF Placed
<1>9. QED
  BY <1>4, <1>5, <1>6, <1>7, <1>8, ScratchCases

\* Every step keeps the scratch of kernels that may still run to themselves.
LEMMA ExclusiveStep ==
  ASSUME IInv, [Next]_vars
  PROVE  Exclusive'
<1>1. Types /\ LockHeld /\ Progress /\ Placed /\ Exclusive /\ PoolBounded /\ Queues /\ Settled
  BY DEF IInv
<1>2. /\ Pooled \subseteq Buffers
      /\ \A t \in Callers : Taken(t) \subseteq Buffers
      /\ \A c \in DOMAIN commands : Used(c) \subseteq Buffers
  BY <1>1, ScratchTyped
<1>3. \A t \in Callers : call[t] \in CallRecords(DOMAIN copies, Buffers, DOMAIN commands)
  BY <1>1, CallTyped
<1>4. CASE ScratchSame
  <2>1. /\ freed' = freed /\ Pooled' = Pooled
        /\ \A t \in Callers : Taken(t)' = Taken(t)
        /\ (DOMAIN commands)' = DOMAIN commands
        /\ \A c \in DOMAIN commands : Held(c)' = Held(c) /\ Used(c)' = Used(c) /\ (Queued(c)' => Queued(c))
    BY <1>4 DEF ScratchSame, memory, Pooled, Taken, Held, Used
  <2>2. QED
    BY <1>1, <2>1 DEF Exclusive
<1>5. ASSUME NEW t \in Callers, TakeScratch(t) PROVE Exclusive'
  <2>1. IsInjective(pool.buffers) /\ CacheBounded
    BY <1>1 DEF Placed, IInv
  <2>2. PICK b \in Buffers' :
          /\ call'[t] = [call[t] EXCEPT !.scratch = Append(call[t].scratch, b)]
          /\ \A u \in Callers : u # t => call'[u] = call[u]
          /\ \/ b \in Pooled /\ Pooled' = Pooled \ {b}
             \/ b \notin Buffers /\ Pooled' = Pooled /\ Buffers' = Buffers \cup {b}
    BY <1>1, <1>5, <2>1, TakeEffect
  <2>3. freed' = freed /\ commands' = commands
    BY <1>5 DEF TakeScratch
  <2>4. \A c \in DOMAIN commands : Held(c)' = Held(c) /\ Used(c)' = Used(c) /\ (Queued(c)' <=> Queued(c))
    BY <2>3 DEF Held, Used, Queued
  <2>5. Taken(t)' \subseteq Taken(t) \cup {b}
    <3>1. call'[t].scratch = Append(call[t].scratch, b)
      BY <1>3, <2>2 DEF CallRecords
    <3>2. call[t].scratch \in Seq(Buffers)
      BY <1>1, CallTyped
    <3>3. \A s \in Seq(Buffers) : ToSet(Append(s, b)) \subseteq ToSet(s) \cup {b}
      BY DEF ToSet
    <3>4. QED
      BY <3>1, <3>2, <3>3 DEF Taken
  <2>6. \A u \in Callers : u # t => Taken(u)' = Taken(u)
    BY <2>2 DEF Taken
  <2>7. \A c \in DOMAIN commands : Queued(c) => b \notin Used(c)
    BY <1>1, <1>2, <2>2 DEF Exclusive
  <2>8. Pooled' \subseteq Pooled
    BY <2>2
  <2>9. \A u \in Callers : Taken(u)' \subseteq Taken(u) \cup {b}
    BY <2>5, <2>6
  <2>10. QED
    BY <1>1, <2>3, <2>4, <2>7, <2>8, <2>9 DEF Exclusive
<1>6. ASSUME NEW t \in Callers, Launch(t) PROVE Exclusive'
  <2> DEFINE n == Len(commands) + 1
  <2>1. /\ pool' = pool /\ freed' = freed
        /\ \A u \in Callers : u # t => call'[u] = call[u]
        /\ (DOMAIN commands)' = DOMAIN commands \cup {n}
        /\ n \notin DOMAIN commands
        /\ commands'[n] = Command(t)
        /\ \A c \in DOMAIN commands : commands'[c] = commands[c]
    BY <1>1, <1>6, LaunchEffect DEF memory
  <2>2. call'[t].scratch = <<>>
    BY <1>1, <1>3, <1>6, LaunchEffect, ZenonT(60) DEF CallRecords
  <2>3. commands'[n].held = call[t].scratch /\ commands'[n].scratch = call[t].scratch
    BY <2>1 DEF Command
  <2> HIDE DEF n
  <2>4. \A c \in (DOMAIN commands)' :
          \/ c = n /\ Used(c)' = Taken(t) /\ Held(c)' = Taken(t)
          \/ c # n /\ c \in DOMAIN commands /\ Used(c)' = Used(c) /\ Held(c)' = Held(c)
               /\ (Queued(c)' <=> Queued(c))
    BY <2>1, <2>3 DEF Used, Held, Taken, Queued
  <2>5. \A u \in Callers :
          \/ u = t /\ Taken(u)' = {}
          \/ u # t /\ Taken(u)' = Taken(u)
    <3>1. ToSet(<<>>) = {}
      BY DEF ToSet
    <3>2. QED
      BY <2>1, <2>2, <3>1 DEF Taken
  <2>6. Pooled' = Pooled /\ freed' = freed
    BY <2>1 DEF Pooled
  <2>7. \A u \in Callers : u # t => Taken(t) \cap Taken(u) = {}
    BY <1>1 DEF Placed
  <2>8. Taken(t) \cap Pooled = {}
    BY <1>1 DEF Placed
  <2>9. QED
    BY <1>1, <2>4, <2>5, <2>6, <2>7, <2>8 DEF Exclusive
<1>7. ASSUME NEW t \in Callers, FailEncode(t) PROVE Exclusive'
  <2> DEFINE n == Len(commands) + 1
  <2>1. /\ pool' = pool
        /\ freed' = freed \cup Taken(t)
        /\ \A u \in Callers : u # t => call'[u] = call[u]
        /\ \A c \in DOMAIN commands : commands'[c] = commands[c]
    BY <1>1, <1>7, FailEffect
  <2>2. call'[t].scratch = <<>>
    BY <1>1, <1>3, <1>7, FailEffect DEF CallRecords
  <2>3. \/ (DOMAIN commands)' = DOMAIN commands
        \/ /\ (DOMAIN commands)' = DOMAIN commands \cup {n}
           /\ n \notin DOMAIN commands
           /\ commands'[n].scratch = call[t].scratch
    <3>1. \/ UNCHANGED <<commands, streams>>
          \/ /\ (DOMAIN commands)' = DOMAIN commands \cup {n}
             /\ n \notin DOMAIN commands
             /\ commands'[n] = [Command(t) EXCEPT !.held = <<>>]
      BY <1>1, <1>7, FailEffect
    <3>2. [Command(t) EXCEPT !.held = <<>>].scratch = call[t].scratch
      BY DEF Command
    <3>3. QED
      BY <3>1, <3>2
  <2> HIDE DEF n
  <2>4. \A c \in (DOMAIN commands)' :
          \/ c = n /\ Used(c)' = Taken(t)
          \/ c \in DOMAIN commands /\ Used(c)' = Used(c) /\ Held(c)' = Held(c)
               /\ (Queued(c)' <=> Queued(c))
    BY <2>1, <2>3 DEF Used, Held, Taken, Queued
  <2>5. \A u \in Callers :
          \/ u = t /\ Taken(u)' = {}
          \/ u # t /\ Taken(u)' = Taken(u)
    <3>1. ToSet(<<>>) = {}
      BY DEF ToSet
    <3>2. QED
      BY <2>1, <2>2, <3>1 DEF Taken
  <2>6. Pooled' = Pooled /\ freed' = freed \cup Taken(t)
    BY <2>1 DEF Pooled
  <2>7. \A u \in Callers : u # t => Taken(t) \cap Taken(u) = {}
    BY <1>1 DEF Placed
  <2>8. Taken(t) \cap Pooled = {}
    BY <1>1 DEF Placed
  <2>9. \A c \in DOMAIN commands : Queued(c) =>
          /\ Used(c) \cap Pooled = {}
          /\ Used(c) \cap Taken(t) = {}
          /\ \A u \in Callers : Used(c) \cap Taken(u) = {}
          /\ \A d \in DOMAIN commands : d # c /\ Queued(d) => Used(c) \cap Used(d) = {}
          /\ Used(c) \subseteq Held(c) \cup freed
    BY <1>1 DEF Exclusive
  <2>10. \A c \in (DOMAIN commands)' : Queued(c)' =>
           /\ Used(c)' \cap Pooled' = {}
           /\ \A u \in Callers : Used(c)' \cap Taken(u)' = {}
           /\ Used(c)' \subseteq Held(c)' \cup freed'
    BY <2>4, <2>5, <2>6, <2>7, <2>8, <2>9
  <2>11. \A c, d \in (DOMAIN commands)' :
           Queued(c)' /\ Queued(d)' /\ d # c => Used(c)' \cap Used(d)' = {}
    BY <2>4, <2>9
  <2>12. QED
    BY <2>10, <2>11 DEF Exclusive
<1>8. ASSUME NEW t \in Callers, RecycleScratch(t) PROVE Exclusive'
  <2> DEFINE f == First(t)
  <2>1. /\ f \in DOMAIN commands
        /\ ~ Queued(f)
        /\ UNCHANGED <<session, sizes>>
        /\ freed \subseteq freed'
        /\ (DOMAIN commands)' = DOMAIN commands
        /\ \A c \in DOMAIN commands :
             /\ c # f => commands'[c] = commands[c]
             /\ commands'[c].scratch = commands[c].scratch
             /\ commands'[c].state = commands[c].state
        /\ \E b \in Held(f) : Pooled' \subseteq Pooled \cup {b}
    BY <1>1, <1>8, RecycleStep
  <2> HIDE DEF f
  <2>2. PICK b \in Held(f) : Pooled' \subseteq Pooled \cup {b}
    BY <2>1
  <2>3. \A u \in Callers : Taken(u)' = Taken(u)
    BY <2>1 DEF session, Taken
  <2>4. \A c \in DOMAIN commands : Used(c)' = Used(c) /\ (Queued(c)' <=> Queued(c))
    BY <2>1 DEF Used, Queued
  <2>5. \A c \in DOMAIN commands : Queued(c) => Held(c)' = Held(c)
    BY <2>1 DEF Held
  <2>6. \A c \in DOMAIN commands : Queued(c) => b \notin Used(c)
    <3>1. TAKE c \in DOMAIN commands
    <3>2. HAVE Queued(c)
    <3>3. c # f
      BY <2>1, <3>2
    <3>4. b \notin Held(c) /\ b \notin freed
      BY <1>1, <2>1, <2>2, <3>3 DEF Placed
    <3>5. QED
      BY <1>1, <3>2, <3>4 DEF Exclusive
  <2>7. QED
    BY <1>1, <2>1, <2>2, <2>3, <2>4, <2>5, <2>6 DEF Exclusive
<1>9. QED
  BY <1>4, <1>5, <1>6, <1>7, <1>8, ScratchCases

-----------------------------------------------------------------------------
(***************************************************************************)
(* What the cache holds.                                                   *)
(***************************************************************************)
\* The cache is as it was when no copy is added and no caller comes to look.
LEMMA CacheSame ==
  ASSUME Types, Types', CacheBounded, UNCHANGED cache, (DOMAIN copies)' = DOMAIN copies,
         \A c \in DOMAIN copies : copies'[c].arena = copies[c].arena /\ copies'[c].stream = copies[c].stream,
         \A u \in Callers : \/ call'[u].pc \notin {"copy", "insert"}
                            \/ call'[u] = call[u] /\ outcomes'[u] = outcomes[u]
  PROVE  CacheBounded'
<1>1. CachedBytes(cache.entries)' = CachedBytes(cache.entries)
  BY CachedKept
<1>2. Cached' = Cached /\ Cached \subseteq DOMAIN copies
  <2>1. cache.entries \in Seq(DOMAIN copies)
    BY DEF Types
  <2>2. QED
    BY <2>1 DEF Cached, ToSet
<1>3. Len(copies') = Len(copies) /\ (copies # <<>> => copies' # <<>> /\ Len(copies) \in DOMAIN copies)
  <2>1. copies \in Seq(CopyRecords) /\ copies' \in Seq(CopyRecords)
    BY DEF Types
  <2>2. QED
    BY <2>1
<1>4. ASSUME NEW u \in Callers, call'[u].pc \in {"copy", "insert"}
      PROVE  /\ \A e \in Cached' : ~ Serves(e, u)'
             /\ call'[u].pc = "insert" => copies' # <<>> /\ Serves(Len(copies), u)'
  <2>1. call'[u] = call[u] /\ outcomes'[u] = outcomes[u]
    BY <1>4
  <2>2. NextArena(u)' = NextArena(u) /\ StreamOf(u)' = StreamOf(u)
    BY <2>1, Unmoved
  <2>3. /\ \A e \in Cached : ~ Serves(e, u)
        /\ call[u].pc = "insert" => copies # <<>> /\ Serves(Len(copies), u)
    BY <1>4, <2>1 DEF CacheBounded
  <2>4. \A e \in Cached' : ~ Serves(e, u)'
    BY <1>2, <2>2, <2>3 DEF Serves
  <2>5. ASSUME call[u].pc = "insert" PROVE copies' # <<>> /\ Serves(Len(copies), u)'
    BY <1>3, <2>2, <2>3, <2>5 DEF Serves
  <2>6. QED
    BY <2>1, <2>4, <2>5
<1>5. \A e, f \in Cached' :
        e # f => copies'[e].arena # copies'[f].arena \/ copies'[e].stream # copies'[f].stream
  BY <1>2 DEF CacheBounded
<1>6. QED
  BY <1>1, <1>4, <1>5 DEF CacheBounded

\* Every step keeps what the cache retains within its bounds, counted and apart.
LEMMA CacheStep ==
  ASSUME IInv, [Next]_vars
  PROVE  CacheBounded'
<1>1. Types /\ LockHeld /\ Progress /\ Placed /\ PoolBounded /\ CacheBounded /\ Queues /\ Settled
  BY DEF IInv
<1>2. \A t \in Callers : call[t] \in CallRecords(DOMAIN copies, Buffers, DOMAIN commands)
  BY <1>1, CallTyped
<1>3. Types'
  BY TypesStep
<1>4. ASSUME NEW t \in Callers, call'[t].pc \notin {"copy", "insert"}, UNCHANGED uploads,
             \A u \in Callers : u # t => call'[u] = call[u] /\ outcomes'[u] = outcomes[u]
      PROVE  CacheBounded'
  BY <1>1, <1>3, <1>4, CacheSame DEF uploads
<1>5. ASSUME NEW t \in Callers, BeginCall(t) PROVE CacheBounded'
  <2>1. /\ UNCHANGED uploads
        /\ call[t].pc = "idle"
        /\ \A u \in Callers : u # t => call'[u] = call[u] /\ outcomes'[u] = outcomes[u]
    BY <1>1, <1>5, BeginEffect
  <2>2. call'[t].pc \in {"idle", "submitted", "lock"}
    BY <1>1, <1>2, <1>5, <2>1, BeginEffect DEF CallRecords
  <2>3. QED
    BY <1>4, <2>1, <2>2
<1>6. ASSUME NEW t \in Callers, Moves(t) PROVE CacheBounded'
  <2>1. /\ UNCHANGED <<outcomes, uploads>>
        /\ \A u \in Callers : u # t => call'[u] = call[u]
        /\ \E pc \in {"upload", "scratch", "wait", "drop", "recycle"} :
             call'[t] = [call[t] EXCEPT !.pc = pc]
    BY <1>1, <1>6, MoveEffect
  <2>2. call'[t].pc \in {"upload", "scratch", "wait", "drop", "recycle"}
    BY <1>2, <2>1 DEF CallRecords
  <2>3. QED
    BY <1>4, <2>1, <2>2
<1>7. ASSUME NEW t \in Callers, FindUpload(t) PROVE CacheBounded'
  BY <1>1, <1>7, FindEffect
<1>8. ASSUME NEW t \in Callers, CopyArena(t) PROVE CacheBounded'
  BY <1>1, <1>8, CopyEffect
<1>9. ASSUME NEW t \in Callers, InsertUpload(t) PROVE CacheBounded'
  BY <1>1, <1>9, InsertEffect
<1>10. ASSUME NEW t \in Callers, TakeScratch(t) PROVE CacheBounded'
  <2>1. IsInjective(pool.buffers)
    BY <1>1 DEF Placed
  <2>2. PICK b \in Buffers' :
          /\ call'[t] = [call[t] EXCEPT !.scratch = Append(call[t].scratch, b)]
          /\ \A u \in Callers : u # t => call'[u] = call[u]
    BY <1>1, <1>10, <2>1, TakeEffect
  <2>3. UNCHANGED <<outcomes, uploads>> /\ call[t].pc = "scratch"
    BY <1>10 DEF TakeScratch
  <2>4. call'[t].pc = "scratch"
    BY <1>2, <2>2, <2>3 DEF CallRecords
  <2>5. QED
    BY <1>4, <2>2, <2>3, <2>4
<1>11. ASSUME NEW t \in Callers, Launch(t) PROVE CacheBounded'
  <2>1. UNCHANGED <<outcomes, uploads>> /\ \A u \in Callers : u # t => call'[u] = call[u]
    BY <1>1, <1>11, LaunchEffect
  <2>2. call'[t].pc \in {"lock", "submitted"}
    BY <1>1, <1>2, <1>11, LaunchEffect, ZenonT(60) DEF CallRecords
  <2>3. QED
    BY <1>4, <2>1, <2>2
<1>12. ASSUME NEW t \in Callers, FailEncode(t) PROVE CacheBounded'
  <2>1. UNCHANGED <<outcomes, uploads>> /\ \A u \in Callers : u # t => call'[u] = call[u]
    BY <1>1, <1>12, FailEffect
  <2>2. call'[t].pc = "drop"
    BY <1>1, <1>2, <1>12, FailEffect DEF CallRecords
  <2>3. QED
    BY <1>4, <2>1, <2>2
<1>13. ASSUME NEW t \in Callers, ReadStatus(t) PROVE CacheBounded'
  <2>1. /\ UNCHANGED <<outcomes, uploads>> /\ \A u \in Callers : u # t => call'[u] = call[u]
        /\ call'[t] = [call[t] EXCEPT !.pc = "status"]
    BY <1>1, <1>13, ReadEffect
  <2>2. call'[t].pc = "status"
    BY <1>2, <2>1 DEF CallRecords
  <2>3. QED
    BY <1>4, <2>1, <2>2
<1>14. ASSUME NEW t \in Callers, FinishSubmission(t) PROVE CacheBounded'
  <2>1. UNCHANGED <<outcomes, uploads>> /\ \A u \in Callers : u # t => call'[u] = call[u]
    BY <1>1, <1>14, FinishEffect
  <2>2. call'[t].pc \in {"wait", "drop"}
    BY <1>1, <1>2, <1>14, FinishEffect, ZenonT(60) DEF CallRecords
  <2>3. QED
    BY <1>4, <2>1, <2>2
<1>15. ASSUME NEW t \in Callers, Return(t) PROVE CacheBounded'
  <2>1. /\ UNCHANGED uploads
        /\ \A u \in Callers : u # t => call'[u] = call[u] /\ outcomes'[u] = outcomes[u]
        /\ call'[t] = NoCall
    BY <1>1, <1>15, ReturnEffect
  <2>2. call'[t].pc = "idle"
    BY <2>1 DEF NoCall
  <2>3. QED
    BY <1>4, <2>1, <2>2
<1>16. ASSUME UNCHANGED <<session, uploads>> PROVE CacheBounded'
  BY <1>1, <1>3, <1>16, CacheSame DEF uploads, session
<1>17. ASSUME NEW t \in Callers, RecycleScratch(t) PROVE CacheBounded'
  BY <1>16, <1>17 DEF RecycleScratch
<1>18. ASSUME NEW s \in StreamIds, Device(s) PROVE CacheBounded'
  <2>1. /\ UNCHANGED <<session, cache>>
        /\ (DOMAIN copies)' = DOMAIN copies
        /\ \A c \in DOMAIN copies : copies'[c].arena = copies[c].arena /\ copies'[c].stream = copies[c].stream
    BY <1>1, <1>18, DeviceEffect
  <2>2. call' = call /\ outcomes' = outcomes /\ cache' = cache
    BY <2>1 DEF session
  <2>3. QED
    BY <1>1, <1>3, <2>1, <2>2, CacheSame
<1>19. CASE UNCHANGED vars
  BY <1>16, <1>19 DEF vars
<1>20. QED
  BY <1>5, <1>6, <1>7, <1>8, <1>9, <1>10, <1>11, <1>12, <1>13, <1>14, <1>15, <1>17, <1>18, <1>19,
     NextCases

-----------------------------------------------------------------------------
(***************************************************************************)
(* What the streams have still to run.                                     *)
(***************************************************************************)
\* Operations that stay in their places stay in order, whatever is added behind.
LEMMA OrderKept ==
  ASSUME Types, Queues, NEW s \in StreamIds,
         DOMAIN streams[s] \subseteq (DOMAIN streams[s])',
         \A i \in DOMAIN streams[s] : streams'[s][i] = streams[s][i],
         \A i \in (DOMAIN streams[s])' \ DOMAIN streams[s] :
           streams'[s][i].kind = "run" => streams'[s][i].id \notin DOMAIN commands,
         DOMAIN copies \subseteq (DOMAIN copies)',
         \A c \in DOMAIN copies : copies'[c] = copies[c],
         DOMAIN commands \subseteq (DOMAIN commands)',
         \A c \in DOMAIN commands :
           /\ commands'[c].state = commands[c].state
           /\ commands'[c].stream = commands[c].stream
           /\ commands'[c].copies = commands[c].copies,
         NEW i \in DOMAIN streams[s]
  PROVE  Ordered(s, i)'
<1>1. Ordered(s, i)
  BY DEF Queues
<1>2. streams'[s][i] = streams[s][i]
  OBVIOUS
<1>3. streams[s][i].kind = "copy" => streams[s][i].id \in (DOMAIN copies)'
  BY <1>1 DEF Ordered
<1>4. CASE streams[s][i].kind = "run"
  <2> DEFINE d == streams[s][i].id
  <2>1. /\ d \in DOMAIN commands
        /\ commands[d].state = "queued"
        /\ commands[d].stream = s
        /\ \A j \in DOMAIN streams[s] : streams[s][j].kind = "run" /\ streams[s][j].id = d => j = i
        /\ \A c \in ToSet(commands[d].copies) :
             copies[c].done \/ \E j \in 1..i - 1 : streams[s][j] = CopyOp(c)
    BY <1>1, <1>4 DEF Ordered, Queued
  <2> HIDE DEF d
  <2>2. ToSet(commands[d].copies) \subseteq DOMAIN copies
    <3>1. commands[d].copies \in Seq(DOMAIN copies)
      BY <2>1, CommandTyped
    <3>2. QED
      BY <3>1 DEF ToSet
  <2>3. 1..i - 1 \subseteq DOMAIN streams[s]
    <3>1. streams[s] \in Seq(Ops)
      BY DEF Types
    <3>2. QED
      BY <3>1
  <2>4. /\ d \in (DOMAIN commands)'
        /\ commands'[d].state = "queued"
        /\ commands'[d].stream = s
    BY <2>1
  <2>5. \A j \in (DOMAIN streams[s])' : streams'[s][j].kind = "run" /\ streams'[s][j].id = d => j = i
    <3>1. TAKE j \in (DOMAIN streams[s])'
    <3>2. CASE j \in DOMAIN streams[s]
      BY <2>1, <3>2
    <3>3. CASE j \notin DOMAIN streams[s]
      BY <2>1, <3>3
    <3>4. QED
      BY <3>2, <3>3
  <2>6. \A c \in ToSet(commands'[d].copies) :
          copies'[c].done \/ \E j \in 1..i - 1 : streams'[s][j] = CopyOp(c)
    <3>1. commands'[d].copies = commands[d].copies
      BY <2>1
    <3>2. \A j \in 1..i - 1 : streams'[s][j] = streams[s][j]
      BY <2>3
    <3>3. QED
      BY <2>1, <2>2, <3>1, <3>2
  <2>7. streams'[s][i].kind = "run" /\ streams'[s][i].id = d
    BY <1>2, <1>4 DEF d
  <2>8. QED
    BY <2>4, <2>5, <2>6, <2>7 DEF Ordered, Queued, CopyOp
<1>5. CASE streams[s][i].kind # "run"
  BY <1>2, <1>3, <1>5 DEF Ordered
<1>6. QED
  BY <1>4, <1>5

\* So do the copies that are still to run.
LEMMA CopiedKept ==
  ASSUME Types, NEW c \in DOMAIN copies, Copied(c),
         copies'[c] = copies[c],
         \A s \in StreamIds :
           /\ DOMAIN streams[s] \subseteq (DOMAIN streams[s])'
           /\ \A i \in DOMAIN streams[s] : streams'[s][i] = streams[s][i]
  PROVE  Copied(c)'
<1>1. copies[c].stream \in StreamIds
  <2>1. copies[c] \in CopyRecords
    BY DEF Types
  <2>2. QED
    BY <2>1 DEF CopyRecords
<1>2. PICK s \in StreamIds : s = copies[c].stream
  BY <1>1
<1>3. copies[c].done \/ \E j \in DOMAIN streams[s] : streams[s][j] = CopyOp(c)
  BY <1>2 DEF Copied
<1>4. copies'[c].done \/ \E j \in (DOMAIN streams[s])' : streams'[s][j] = CopyOp(c)
  BY <1>3
<1>5. copies'[c].stream = s
  BY <1>2
<1>6. QED
  BY <1>4, <1>5 DEF Copied, CopyOp

\* An operation behind the others leaves their places.
LEMMA BehindOthers ==
  ASSUME Types, NEW s \in StreamIds, NEW op \in Ops, streams'[s] = Append(streams[s], op),
         \A r \in StreamIds : r # s => streams'[r] = streams[r]
  PROVE  /\ \A r \in StreamIds :
              /\ DOMAIN streams[r] \subseteq (DOMAIN streams[r])'
              /\ \A i \in DOMAIN streams[r] : streams'[r][i] = streams[r][i]
              /\ \A i \in (DOMAIN streams[r])' \ DOMAIN streams[r] :
                   /\ r = s /\ streams'[r][i] = op
                   /\ i \in Nat /\ 1..i - 1 = DOMAIN streams[s]
                   /\ \A j \in (DOMAIN streams[r])' : j \notin DOMAIN streams[r] => j = i
<1>1. streams[s] \in Seq(Ops)
  BY DEF Types
<1>2. /\ DOMAIN streams[s] \subseteq (DOMAIN streams[s])'
      /\ \A i \in DOMAIN streams[s] : streams'[s][i] = streams[s][i]
      /\ \A i \in (DOMAIN streams[s])' \ DOMAIN streams[s] :
           /\ streams'[s][i] = op
           /\ i \in Nat /\ 1..i - 1 = DOMAIN streams[s]
           /\ \A j \in (DOMAIN streams[s])' : j \notin DOMAIN streams[s] => j = i
  <2>1. /\ (DOMAIN streams[s])' = DOMAIN streams[s] \cup {Len(streams[s]) + 1}
        /\ Len(streams[s]) + 1 \notin DOMAIN streams[s]
        /\ \A i \in DOMAIN streams[s] : streams'[s][i] = streams[s][i]
        /\ streams'[s][Len(streams[s]) + 1] = op
        /\ Len(streams[s]) \in Nat
        /\ DOMAIN streams[s] = 1..Len(streams[s])
    BY <1>1
  <2>2. Len(streams[s]) + 1 - 1 = Len(streams[s])
    BY <2>1
  <2>3. QED
    BY <2>1, <2>2
<1>3. ASSUME NEW r \in StreamIds, r # s
      PROVE  (DOMAIN streams[r])' = DOMAIN streams[r] /\ streams'[r] = streams[r]
  BY <1>3
<1>4. QED
  BY <1>2, <1>3

\* The uploads a caller holds are on the stream of its plan.
LEMMA UploadsOnStream ==
  ASSUME IInv, [Next]_vars
  PROVE  \A u \in Callers : \A c \in ToSet(call'[u].copies) : copies'[c].stream = StreamOf(u)'
<1>1. Types /\ LockHeld /\ Progress /\ Placed /\ PoolBounded /\ CacheBounded /\ Queues /\ Settled
  BY DEF IInv
<1>2. \A t \in Callers : /\ call[t] \in CallRecords(DOMAIN copies, Buffers, DOMAIN commands)
                         /\ call[t].copies \in Seq(DOMAIN copies)
                         /\ ToSet(call[t].copies) \subseteq DOMAIN copies
  BY <1>1, CallTyped DEF ToSet
<1>3. \A t \in Callers : ProgressOf(t)
  BY <1>1 DEF Progress
<1>4. \A t \in Callers : \A c \in ToSet(call[t].copies) : copies[c].stream = StreamOf(t)
  BY <1>1 DEF Queues
<1> DEFINE Here(u) == \A c \in ToSet(call'[u].copies) : copies'[c].stream = StreamOf(u)'
           Same    == \A c \in DOMAIN copies : copies'[c].stream = copies[c].stream
<1>5. ASSUME NEW u \in Callers, call'[u].copies = <<>> PROVE Here(u)
  <2>1. ToSet(<<>>) = {}
    BY DEF ToSet
  <2>2. QED
    BY <1>5, <2>1
<1>6. ASSUME NEW u \in Callers, Same, call'[u].copies = call[u].copies, StreamOf(u)' = StreamOf(u)
      PROVE  Here(u)
  BY <1>2, <1>4, <1>6
<1>7. ASSUME NEW u \in Callers, Same, call'[u] = call[u], outcomes'[u] = outcomes[u] PROVE Here(u)
  <2>1. StreamOf(u)' = StreamOf(u)
    BY <1>7, Unmoved
  <2>2. QED
    BY <1>6, <1>7, <2>1
<1>8. ASSUME NEW u \in Callers, Same, call'[u].copies = call[u].copies, call'[u].plan = call[u].plan,
             outcomes'[u] = outcomes[u]
      PROVE  Here(u)
  <2>1. StreamOf(u)' = StreamOf(u)
    BY <1>8, SamePlan
  <2>2. QED
    BY <1>6, <1>8, <2>1
<1>9. ASSUME NEW u \in Callers, Same, NEW e \in DOMAIN copies, copies[e].stream = StreamOf(u),
             call'[u].copies = Append(call[u].copies, e), call'[u].plan = call[u].plan,
             outcomes'[u] = outcomes[u]
      PROVE  Here(u)
  <2>1. StreamOf(u)' = StreamOf(u)
    BY <1>9, SamePlan
  <2>2. ToSet(Append(call[u].copies, e)) = ToSet(call[u].copies) \cup {e}
    <3>1. call[u].copies \in Seq(DOMAIN copies)
      BY <1>2
    <3>2. QED
      BY <3>1, AppendSet
  <2>3. QED
    BY <1>2, <1>4, <1>9, <2>1, <2>2
<1> HIDE DEF Here, Same
<1>10. ASSUME NEW t \in Callers, Here(t), Same,
              \A u \in Callers : u # t => call'[u] = call[u] /\ outcomes'[u] = outcomes[u]
       PROVE  \A u \in Callers : Here(u)
  BY <1>7, <1>10
<1>11. ASSUME UNCHANGED copies PROVE Same
  BY <1>11 DEF Same
<1>12. ASSUME NEW t \in Callers, BeginCall(t) PROVE \A u \in Callers : Here(u)
  <2>1. /\ UNCHANGED copies
        /\ \A u \in Callers : u # t => call'[u] = call[u] /\ outcomes'[u] = outcomes[u]
        /\ call[t].pc = "idle"
    BY <1>1, <1>12, BeginEffect DEF uploads
  <2>2. call[t].copies = <<>>
    BY <1>3, <2>1 DEF ProgressOf, Encoding
  <2>3. call'[t].copies = <<>>
    BY <1>1, <1>2, <1>12, <2>2, BeginEffect, ZenonT(60) DEF CallRecords
  <2>4. QED
    BY <1>5, <1>10, <1>11, <2>1, <2>3
<1>13. ASSUME NEW t \in Callers, Moves(t) PROVE \A u \in Callers : Here(u)
  <2>1. /\ UNCHANGED <<copies, outcomes>>
        /\ \A u \in Callers : u # t => call'[u] = call[u]
        /\ \E pc \in Pcs : call'[t] = [call[t] EXCEPT !.pc = pc]
    BY <1>1, <1>13, MoveEffect DEF uploads
  <2>2. call'[t].copies = call[t].copies /\ call'[t].plan = call[t].plan
    BY <1>2, <2>1 DEF CallRecords
  <2>3. QED
    BY <1>8, <1>10, <1>11, <2>1, <2>2
<1>14. ASSUME NEW t \in Callers, FindUpload(t) PROVE \A u \in Callers : Here(u)
  <2>1. /\ UNCHANGED <<outcomes, copies>>
        /\ \A u \in Callers : u # t => call'[u] = call[u]
        /\ \/ \E e \in Cached : /\ Serves(e, t)
                                /\ call'[t] = [call[t] EXCEPT !.copies = Append(call[t].copies, e)]
           \/ call'[t] = [call[t] EXCEPT !.pc = "copy"]
    BY <1>1, <1>14, FindEffect
  <2>2. CASE call'[t] = [call[t] EXCEPT !.pc = "copy"]
    <3>1. call'[t].copies = call[t].copies /\ call'[t].plan = call[t].plan
      BY <1>2, <2>2 DEF CallRecords
    <3>2. QED
      BY <1>8, <1>10, <1>11, <2>1, <3>1
  <2>3. ASSUME NEW e \in Cached, Serves(e, t),
               call'[t] = [call[t] EXCEPT !.copies = Append(call[t].copies, e)]
        PROVE  \A u \in Callers : Here(u)
    <3>1. call'[t].copies = Append(call[t].copies, e) /\ call'[t].plan = call[t].plan
      BY <1>2, <2>3 DEF CallRecords
    <3>2. e \in DOMAIN copies
      <4>1. cache.entries \in Seq(DOMAIN copies)
        BY <1>1 DEF Types
      <4>2. QED
        BY <4>1 DEF Cached, ToSet
    <3>3. copies[e].stream = StreamOf(t)
      BY <2>3 DEF Serves
    <3>4. QED
      BY <1>9, <1>10, <1>11, <2>1, <3>1, <3>2, <3>3
  <2>4. QED
    BY <2>1, <2>2, <2>3
<1>15. ASSUME NEW t \in Callers, CopyArena(t) PROVE \A u \in Callers : Here(u)
  <2>1. /\ UNCHANGED outcomes
        /\ \A u \in Callers : u # t => call'[u] = call[u]
        /\ call'[t] = [call[t] EXCEPT !.pc = "insert"]
        /\ \A c \in DOMAIN copies : copies'[c] = copies[c]
    BY <1>1, <1>15, CopyEffect
  <2>2. call'[t].copies = call[t].copies /\ call'[t].plan = call[t].plan
    BY <1>2, <2>1 DEF CallRecords
  <2>3. Same
    BY <2>1 DEF Same
  <2>4. QED
    BY <1>8, <1>10, <2>1, <2>2, <2>3
<1>16. ASSUME NEW t \in Callers, InsertUpload(t) PROVE \A u \in Callers : Here(u)
  <2>1. /\ \A u \in Callers : u # t => call'[u] = call[u]
        /\ call'[t] = [call[t] EXCEPT !.copies = Append(call[t].copies, Len(copies)), !.pc = "upload"]
    BY <1>1, <1>16, InsertEffect
  <2>2. UNCHANGED <<outcomes, copies>> /\ call[t].pc = "insert"
    BY <1>16 DEF InsertUpload
  <2>3. call'[t].copies = Append(call[t].copies, Len(copies)) /\ call'[t].plan = call[t].plan
    BY <1>2, <2>1 DEF CallRecords
  <2>4. copies # <<>> /\ Serves(Len(copies), t)
    BY <1>1, <2>2 DEF CacheBounded
  <2>5. Len(copies) \in DOMAIN copies
    <3>1. copies \in Seq(CopyRecords)
      BY <1>1 DEF Types
    <3>2. QED
      BY <2>4, <3>1
  <2>6. copies[Len(copies)].stream = StreamOf(t)
    BY <2>4 DEF Serves
  <2>7. Here(t)
    BY <1>9, <1>11, <2>2, <2>3, <2>5, <2>6
  <2>8. QED
    BY <1>10, <1>11, <2>1, <2>2, <2>7
<1>17. ASSUME NEW t \in Callers, TakeScratch(t) PROVE \A u \in Callers : Here(u)
  <2>1. IsInjective(pool.buffers)
    BY <1>1 DEF Placed
  <2>2. PICK b \in Buffers' :
          /\ call'[t] = [call[t] EXCEPT !.scratch = Append(call[t].scratch, b)]
          /\ \A u \in Callers : u # t => call'[u] = call[u]
    BY <1>1, <1>17, <2>1, TakeEffect
  <2>3. UNCHANGED <<outcomes, copies>>
    BY <1>17 DEF TakeScratch, uploads
  <2>4. call'[t].copies = call[t].copies /\ call'[t].plan = call[t].plan
    BY <1>2, <2>2 DEF CallRecords
  <2>5. QED
    BY <1>8, <1>10, <1>11, <2>2, <2>3, <2>4
<1>18. ASSUME NEW t \in Callers, Launch(t) PROVE \A u \in Callers : Here(u)
  <2>1. UNCHANGED <<outcomes, copies>> /\ \A u \in Callers : u # t => call'[u] = call[u]
    BY <1>1, <1>18, LaunchEffect DEF uploads
  <2>2. call'[t].copies = <<>>
    BY <1>1, <1>2, <1>18, LaunchEffect, ZenonT(60) DEF CallRecords
  <2>3. QED
    BY <1>5, <1>10, <1>11, <2>1, <2>2
<1>19. ASSUME NEW t \in Callers, FailEncode(t) PROVE \A u \in Callers : Here(u)
  <2>1. UNCHANGED <<outcomes, copies>> /\ \A u \in Callers : u # t => call'[u] = call[u]
    BY <1>1, <1>19, FailEffect DEF uploads
  <2>2. call'[t].copies = <<>>
    BY <1>1, <1>2, <1>19, FailEffect DEF CallRecords
  <2>3. QED
    BY <1>5, <1>10, <1>11, <2>1, <2>2
<1>20. ASSUME NEW t \in Callers, ReadStatus(t) PROVE \A u \in Callers : Here(u)
  <2>1. /\ UNCHANGED <<outcomes, copies>> /\ \A u \in Callers : u # t => call'[u] = call[u]
        /\ call'[t] = [call[t] EXCEPT !.pc = "status"]
    BY <1>1, <1>20, ReadEffect DEF uploads
  <2>2. call'[t].copies = call[t].copies /\ call'[t].plan = call[t].plan
    BY <1>2, <2>1 DEF CallRecords
  <2>3. QED
    BY <1>8, <1>10, <1>11, <2>1, <2>2
<1>21. ASSUME NEW t \in Callers, FinishSubmission(t) PROVE \A u \in Callers : Here(u)
  <2>1. UNCHANGED <<outcomes, copies>> /\ \A u \in Callers : u # t => call'[u] = call[u]
    BY <1>1, <1>21, FinishEffect DEF uploads
  <2>2. call'[t].copies = call[t].copies /\ call'[t].plan = call[t].plan
    <3>1. call'[t] = [call[t] EXCEPT
            !.submissions = Tail(call[t].submissions),
            !.failed      = call[t].failed \/ (call[t].pc = "recycle" /\ Failed(t)),
            !.pc          = IF call[t].pc = "recycle" /\ ~Failed(t) THEN "wait" ELSE "drop"]
      BY <1>1, <1>21, FinishEffect
    <3>2. QED
      BY <1>2, <3>1 DEF CallRecords
  <2>3. QED
    BY <1>8, <1>10, <1>11, <2>1, <2>2
<1>22. ASSUME NEW t \in Callers, Return(t) PROVE \A u \in Callers : Here(u)
  <2>1. /\ UNCHANGED copies
        /\ \A u \in Callers : u # t => call'[u] = call[u] /\ outcomes'[u] = outcomes[u]
        /\ call'[t] = NoCall
    BY <1>1, <1>22, ReturnEffect DEF uploads
  <2>2. call'[t].copies = <<>>
    BY <2>1 DEF NoCall
  <2>3. QED
    BY <1>5, <1>10, <1>11, <2>1, <2>2
<1>23. ASSUME UNCHANGED session, Same PROVE \A u \in Callers : Here(u)
  BY <1>7, <1>23 DEF session
<1>24. ASSUME NEW t \in Callers, RecycleScratch(t) PROVE \A u \in Callers : Here(u)
  BY <1>11, <1>23, <1>24 DEF RecycleScratch, uploads
<1>25. ASSUME NEW s \in StreamIds, Device(s) PROVE \A u \in Callers : Here(u)
  <2>1. UNCHANGED session /\ \A c \in DOMAIN copies : copies'[c].stream = copies[c].stream
    BY <1>1, <1>25, DeviceEffect
  <2>2. QED
    BY <1>23, <2>1 DEF Same
<1>26. ASSUME UNCHANGED vars PROVE \A u \in Callers : Here(u)
  <2>1. UNCHANGED session /\ UNCHANGED copies
    BY <1>26 DEF vars, uploads
  <2>2. QED
    BY <1>11, <1>23, <2>1
<1>27. \A u \in Callers : Here(u)
  BY <1>12, <1>13, <1>14, <1>15, <1>16, <1>17, <1>18, <1>19, <1>20, <1>21, <1>22, <1>24, <1>25, <1>26,
     NextCases, Zenon
<1>28. QED
  BY <1>27 DEF Here

\* Every step keeps the order of the streams.
LEMMA QueuesStep ==
  ASSUME IInv, [Next]_vars
  PROVE  Queues'
<1>1. Types /\ LockHeld /\ Progress /\ Placed /\ PoolBounded /\ CacheBounded /\ Queues /\ Settled
  BY DEF IInv
<1>2. /\ \A s \in StreamIds : \A i \in DOMAIN streams[s] : Ordered(s, i)
      /\ \A c \in DOMAIN copies : Copied(c)
      /\ \A t \in Callers : \A c \in ToSet(call[t].copies) : copies[c].stream = StreamOf(t)
  BY <1>1 DEF Queues
<1>3. ASSUME \A s \in StreamIds : \A i \in (DOMAIN streams[s])' : Ordered(s, i)',
             \A c \in (DOMAIN copies)' : Copied(c)'
      PROVE  Queues'
  BY <1>3, UploadsOnStream DEF Queues
<1> DEFINE Kept ==
      /\ DOMAIN commands \subseteq (DOMAIN commands)'
      /\ \A c \in DOMAIN commands :
           /\ commands'[c].state = commands[c].state
           /\ commands'[c].stream = commands[c].stream
           /\ commands'[c].copies = commands[c].copies
<1>4. ASSUME UNCHANGED <<streams, copies>>, Kept PROVE Queues'
  <2>1. ASSUME NEW s \in StreamIds, NEW i \in (DOMAIN streams[s])' PROVE Ordered(s, i)'
    BY <1>1, <1>4, <2>1, OrderKept
  <2>2. ASSUME NEW c \in (DOMAIN copies)' PROVE Copied(c)'
    BY <1>1, <1>2, <1>4, <2>2, CopiedKept
  <2>3. QED
    BY <1>3, <2>1, <2>2
<1>5. ASSUME UNCHANGED commands PROVE Kept
  BY <1>5
<1> HIDE DEF Kept
<1>6. ASSUME UNCHANGED <<streams, copies, commands>> PROVE Queues'
  BY <1>4, <1>5, <1>6
<1>7. ASSUME NEW t \in Callers, CopyArena(t) PROVE Queues'
  <2> DEFINE new == Len(copies) + 1
  <2>1. /\ StreamOf(t) \in StreamIds
        /\ UNCHANGED commands
        /\ (DOMAIN copies)' = DOMAIN copies \cup {new}
        /\ copies'[new] = [arena |-> NextArena(t), stream |-> StreamOf(t), done |-> FALSE]
        /\ \A c \in DOMAIN copies : copies'[c] = copies[c]
        /\ streams'[StreamOf(t)] = Append(streams[StreamOf(t)], CopyOp(new))
        /\ \A s \in StreamIds : s # StreamOf(t) => streams'[s] = streams[s]
    BY <1>1, <1>7, CopyEffect
  <2>2. PICK s \in StreamIds : s = StreamOf(t)
    BY <2>1
  <2>3. PICK n : n = new
    OBVIOUS
  <2>4. CopyOp(n) \in Ops /\ CopyOp(n).kind = "copy" /\ CopyOp(n).id = n
    <3>1. new \in Nat
      BY <1>1 DEF Types
    <3>2. QED
      BY <2>3, <3>1 DEF CopyOp, Ops
  <2> HIDE DEF new
  <2>5. \A r \in StreamIds :
          /\ DOMAIN streams[r] \subseteq (DOMAIN streams[r])'
          /\ \A i \in DOMAIN streams[r] : streams'[r][i] = streams[r][i]
          /\ \A i \in (DOMAIN streams[r])' \ DOMAIN streams[r] : r = s /\ streams'[r][i] = CopyOp(n)
    <3>1. /\ streams'[s] = Append(streams[s], CopyOp(n))
          /\ \A r \in StreamIds : r # s => streams'[r] = streams[r]
      BY <2>1, <2>2, <2>3
    <3>2. QED
      BY <1>1, <2>4, <3>1, BehindOthers
  <2>6. ASSUME NEW r \in StreamIds, NEW i \in DOMAIN streams[r] PROVE Ordered(r, i)'
    <3>1. \A k \in (DOMAIN streams[r])' \ DOMAIN streams[r] :
            streams'[r][k].kind = "run" => streams'[r][k].id \notin DOMAIN commands
      BY <2>4, <2>5
    <3>2. DOMAIN streams[r] \subseteq (DOMAIN streams[r])'
            /\ \A k \in DOMAIN streams[r] : streams'[r][k] = streams[r][k]
      BY <2>5
    <3>3. DOMAIN copies \subseteq (DOMAIN copies)' /\ \A c \in DOMAIN copies : copies'[c] = copies[c]
      BY <2>1
    <3>4. commands' = commands
      BY <2>1
    <3>5. QED
      BY <1>1, <2>6, <3>1, <3>2, <3>3, <3>4, OrderKept
  <2>7. ASSUME NEW r \in StreamIds, NEW i \in (DOMAIN streams[r])' \ DOMAIN streams[r]
        PROVE  Ordered(r, i)'
    <3>1. streams'[r][i].kind = "copy" /\ streams'[r][i].id \in (DOMAIN copies)'
      BY <2>1, <2>3, <2>4, <2>5
    <3>2. QED
      BY <3>1 DEF Ordered
  <2>8. ASSUME NEW c \in DOMAIN copies PROVE Copied(c)'
    <3>1. copies'[c] = copies[c]
      BY <2>1
    <3>2. \A r \in StreamIds : /\ DOMAIN streams[r] \subseteq (DOMAIN streams[r])'
                               /\ \A i \in DOMAIN streams[r] : streams'[r][i] = streams[r][i]
      BY <2>5
    <3>3. QED
      BY <1>1, <1>2, <2>8, <3>1, <3>2, CopiedKept
  <2>9. Copied(n)'
    <3>1. copies'[n].stream = s
      BY <2>1, <2>2, <2>3
    <3>2. streams[s] \in Seq(Ops) /\ streams'[s] = Append(streams[s], CopyOp(n))
      BY <1>1, <2>1, <2>2, <2>3 DEF Types
    <3>3. \E j \in (DOMAIN streams[s])' : streams'[s][j] = CopyOp(n)
      BY <3>2
    <3>4. QED
      BY <3>1, <3>3 DEF Copied, CopyOp
  <2>10. \A c \in (DOMAIN copies)' : Copied(c)'
    BY <2>1, <2>3, <2>8, <2>9
  <2>11. \A r \in StreamIds : \A i \in (DOMAIN streams[r])' : Ordered(r, i)'
    BY <2>6, <2>7
  <2>12. QED
    BY <1>3, <2>10, <2>11
\* A plan that is launched follows the uploads it reads.
<1>8. ASSUME NEW t \in Callers, StreamOf(t) \in StreamIds, UNCHANGED copies,
             NEW n, n = Len(commands) + 1,
             (DOMAIN commands)' = DOMAIN commands \cup {n}, n \notin DOMAIN commands,
             commands'[n].state = "queued",
             commands'[n].stream = StreamOf(t),
             commands'[n].copies = call[t].copies,
             \A c \in DOMAIN commands : commands'[c] = commands[c],
             streams'[StreamOf(t)] = Append(streams[StreamOf(t)], RunOp(n)),
             \A s \in StreamIds : s # StreamOf(t) => streams'[s] = streams[s]
      PROVE  Queues'
  <2>1. PICK s \in StreamIds : s = StreamOf(t)
    BY <1>8
  <2>2. RunOp(n) \in Ops /\ RunOp(n).kind = "run" /\ RunOp(n).id = n
    <3>1. Len(commands) + 1 \in Nat
      BY <1>1 DEF Types
    <3>2. QED
      BY <1>8, <3>1 DEF RunOp, Ops
  <2>3. /\ streams'[s] = Append(streams[s], RunOp(n))
        /\ \A r \in StreamIds : r # s => streams'[r] = streams[r]
    BY <1>8, <2>1
  <2>4. \A r \in StreamIds :
          /\ DOMAIN streams[r] \subseteq (DOMAIN streams[r])'
          /\ \A i \in DOMAIN streams[r] : streams'[r][i] = streams[r][i]
          /\ \A i \in (DOMAIN streams[r])' \ DOMAIN streams[r] :
               /\ r = s /\ streams'[r][i] = RunOp(n)
               /\ i \in Nat /\ 1..i - 1 = DOMAIN streams[s]
               /\ \A j \in (DOMAIN streams[r])' : j \notin DOMAIN streams[r] => j = i
    BY <1>1, <2>2, <2>3, BehindOthers
  <2>5. ASSUME NEW r \in StreamIds, NEW i \in DOMAIN streams[r] PROVE Ordered(r, i)'
    <3>1. \A k \in (DOMAIN streams[r])' \ DOMAIN streams[r] :
            streams'[r][k].kind = "run" => streams'[r][k].id \notin DOMAIN commands
      BY <1>8, <2>2, <2>4
    <3>2. DOMAIN streams[r] \subseteq (DOMAIN streams[r])'
            /\ \A k \in DOMAIN streams[r] : streams'[r][k] = streams[r][k]
      BY <2>4
    <3>3. copies' = copies
      BY <1>8
    <3>4. DOMAIN commands \subseteq (DOMAIN commands)' /\ \A c \in DOMAIN commands : commands'[c] = commands[c]
      BY <1>8
    <3>5. QED
      BY <1>1, <2>5, <3>1, <3>2, <3>3, <3>4, OrderKept
  <2>6. ASSUME NEW r \in StreamIds, NEW i \in (DOMAIN streams[r])' \ DOMAIN streams[r]
        PROVE  Ordered(r, i)'
    <3>1. /\ r = s
          /\ streams'[r][i].kind = "run" /\ streams'[r][i].id = n
          /\ 1..i - 1 = DOMAIN streams[s]
          /\ \A j \in (DOMAIN streams[r])' : j \notin DOMAIN streams[r] => j = i
      BY <2>2, <2>4, <2>6
    <3>2. \A j \in (DOMAIN streams[r])' : streams'[r][j].kind = "run" /\ streams'[r][j].id = n => j = i
      <4>1. TAKE j \in (DOMAIN streams[r])'
      <4>2. CASE j \in DOMAIN streams[r]
        <5>1. streams[r][j].kind = "run" => streams[r][j].id \in DOMAIN commands
          BY <1>2, <4>2 DEF Ordered
        <5>2. streams'[r][j] = streams[r][j]
          BY <2>4, <4>2
        <5>3. QED
          BY <1>8, <5>1, <5>2
      <4>3. CASE j \notin DOMAIN streams[r]
        BY <3>1, <4>3
      <4>4. QED
        BY <4>2, <4>3
    <3>3. \A c \in ToSet(commands'[n].copies) :
            copies'[c].done \/ \E j \in 1..i - 1 : streams'[r][j] = CopyOp(c)
      <4>1. TAKE c \in ToSet(commands'[n].copies)
      <4>2. c \in ToSet(call[t].copies)
        BY <1>8, <4>1
      <4>3. copies[c].stream = s /\ c \in DOMAIN copies
        <5>1. call[t].copies \in Seq(DOMAIN copies)
          BY <1>1, CallTyped
        <5>2. c \in DOMAIN copies
          BY <4>2, <5>1 DEF ToSet
        <5>3. QED
          BY <1>2, <2>1, <4>2, <5>2
      <4>4. copies[c].done \/ \E j \in DOMAIN streams[s] : streams[s][j] = CopyOp(c)
        BY <1>2, <4>3 DEF Copied
      <4>5. \A j \in DOMAIN streams[s] : streams'[s][j] = streams[s][j]
        BY <2>4
      <4>6. QED
        BY <1>8, <3>1, <4>4, <4>5
    <3>4. /\ n \in (DOMAIN commands)'
          /\ commands'[n].state = "queued"
          /\ commands'[n].stream = r
      BY <1>8, <2>1, <3>1
    <3>5. QED
      BY <3>1, <3>2, <3>3, <3>4 DEF Ordered, Queued, CopyOp
  <2>7. ASSUME NEW c \in (DOMAIN copies)' PROVE Copied(c)'
    <3>1. copies' = copies
      BY <1>8
    <3>2. \A r \in StreamIds : /\ DOMAIN streams[r] \subseteq (DOMAIN streams[r])'
                               /\ \A i \in DOMAIN streams[r] : streams'[r][i] = streams[r][i]
      BY <2>4
    <3>3. QED
      BY <1>1, <1>2, <2>7, <3>1, <3>2, CopiedKept
  <2>8. \A r \in StreamIds : \A i \in (DOMAIN streams[r])' : Ordered(r, i)'
    BY <2>5, <2>6
  <2>9. QED
    BY <1>3, <2>7, <2>8
<1>9. ASSUME NEW t \in Callers, Launch(t) PROVE Queues'
  <2>1. PICK n : n = Len(commands) + 1
    OBVIOUS
  <2>2. /\ StreamOf(t) \in StreamIds
        /\ UNCHANGED copies
        /\ (DOMAIN commands)' = DOMAIN commands \cup {n}
        /\ n \notin DOMAIN commands
        /\ commands'[n] = Command(t)
        /\ \A c \in DOMAIN commands : commands'[c] = commands[c]
        /\ streams'[StreamOf(t)] = Append(streams[StreamOf(t)], RunOp(n))
        /\ \A s \in StreamIds : s # StreamOf(t) => streams'[s] = streams[s]
    BY <1>1, <1>9, <2>1, LaunchEffect DEF uploads
  <2>3. /\ commands'[n].state = "queued"
        /\ commands'[n].stream = StreamOf(t)
        /\ commands'[n].copies = call[t].copies
    BY <2>2 DEF Command
  <2>4. QED
    BY <1>8, <2>1, <2>2, <2>3
<1>10. ASSUME NEW t \in Callers, FailEncode(t) PROVE Queues'
  <2>1. PICK n : n = Len(commands) + 1
    OBVIOUS
  <2>2. /\ StreamOf(t) \in StreamIds
        /\ UNCHANGED copies
        /\ \A c \in DOMAIN commands : commands'[c] = commands[c]
        /\ \/ UNCHANGED <<commands, streams>>
           \/ /\ (DOMAIN commands)' = DOMAIN commands \cup {n}
              /\ n \notin DOMAIN commands
              /\ commands'[n] = [Command(t) EXCEPT !.held = <<>>]
              /\ streams'[StreamOf(t)] = Append(streams[StreamOf(t)], RunOp(n))
              /\ \A s \in StreamIds : s # StreamOf(t) => streams'[s] = streams[s]
    BY <1>1, <1>10, <2>1, FailEffect DEF uploads
  <2>3. CASE UNCHANGED <<commands, streams>>
    BY <1>6, <2>2, <2>3
  <2>4. CASE /\ (DOMAIN commands)' = DOMAIN commands \cup {n}
             /\ n \notin DOMAIN commands
             /\ commands'[n] = [Command(t) EXCEPT !.held = <<>>]
             /\ streams'[StreamOf(t)] = Append(streams[StreamOf(t)], RunOp(n))
             /\ \A s \in StreamIds : s # StreamOf(t) => streams'[s] = streams[s]
    <3>1. /\ commands'[n].state = "queued"
          /\ commands'[n].stream = StreamOf(t)
          /\ commands'[n].copies = call[t].copies
      BY <2>4 DEF Command
    <3>2. QED
      BY <1>8, <2>1, <2>2, <2>4, <3>1
  <2>5. QED
    BY <2>2, <2>3, <2>4
<1>11. ASSUME NEW t \in Callers, ReadStatus(t) PROVE Queues'
  <2>1. UNCHANGED <<copies, commands>>
    BY <1>1, <1>11, ReadEffect DEF uploads
  <2>2. PICK s \in StreamIds :
          /\ streams'[s] = Append(streams[s], [kind |-> "status", id |-> First(t)])
          /\ \A r \in StreamIds : r # s => streams'[r] = streams[r]
    BY <1>1, <1>11, ReadEffect
  <2>3. PICK op \in Ops : op = [kind |-> "status", id |-> First(t)] /\ op.kind = "status"
    <3>1. First(t) \in Nat
      <4>1. call[t].submissions \in Seq(DOMAIN commands) /\ call[t].submissions # <<>>
        BY <1>1, <1>11, CallTyped DEF ReadStatus
      <4>2. First(t) \in DOMAIN commands
        BY <4>1 DEF First
      <4>3. QED
        BY <1>1, <4>2 DEF Types
    <3>2. PICK i \in Nat : i = First(t)
      BY <3>1
    <3>3. [kind |-> "status", id |-> i] \in Ops
      BY DEF Ops
    <3>4. [kind |-> "status", id |-> i].kind = "status"
      OBVIOUS
    <3>5. QED
      BY <3>2, <3>3, <3>4
  <2>4. streams'[s] = Append(streams[s], op)
    BY <2>2, <2>3
  <2>5. \A r \in StreamIds :
          /\ DOMAIN streams[r] \subseteq (DOMAIN streams[r])'
          /\ \A i \in DOMAIN streams[r] : streams'[r][i] = streams[r][i]
          /\ \A i \in (DOMAIN streams[r])' \ DOMAIN streams[r] : streams'[r][i] = op
    BY <1>1, <2>2, <2>4, BehindOthers
  <2>6. ASSUME NEW r \in StreamIds, NEW i \in DOMAIN streams[r] PROVE Ordered(r, i)'
    <3>1. \A k \in (DOMAIN streams[r])' \ DOMAIN streams[r] : streams'[r][k].kind # "run"
      BY <2>3, <2>5
    <3>2. DOMAIN streams[r] \subseteq (DOMAIN streams[r])'
            /\ \A k \in DOMAIN streams[r] : streams'[r][k] = streams[r][k]
      BY <2>5
    <3>3. copies' = copies /\ commands' = commands
      BY <2>1
    <3>4. QED
      BY <1>1, <2>6, <3>1, <3>2, <3>3, OrderKept
  <2>7. ASSUME NEW r \in StreamIds, NEW i \in (DOMAIN streams[r])' \ DOMAIN streams[r]
        PROVE  Ordered(r, i)'
    <3>1. streams'[r][i].kind = "status"
      BY <2>3, <2>5, <2>7
    <3>2. QED
      BY <3>1 DEF Ordered
  <2>8. ASSUME NEW c \in (DOMAIN copies)' PROVE Copied(c)'
    <3>1. copies' = copies
      BY <2>1
    <3>2. \A r \in StreamIds : /\ DOMAIN streams[r] \subseteq (DOMAIN streams[r])'
                               /\ \A i \in DOMAIN streams[r] : streams'[r][i] = streams[r][i]
      BY <2>5
    <3>3. QED
      BY <1>1, <1>2, <2>8, <3>1, <3>2, CopiedKept
  <2>9. \A r \in StreamIds : \A i \in (DOMAIN streams[r])' : Ordered(r, i)'
    BY <2>6, <2>7
  <2>10. QED
    BY <1>3, <2>8, <2>9
<1>12. ASSUME NEW t \in Callers, RecycleScratch(t) PROVE Queues'
  <2>1. /\ UNCHANGED <<streams, uploads>>
        /\ (DOMAIN commands)' = DOMAIN commands
        /\ \A c \in DOMAIN commands :
             /\ commands'[c].copies = commands[c].copies
             /\ commands'[c].stream = commands[c].stream
             /\ commands'[c].state = commands[c].state
    BY <1>1, <1>12, RecycleStep
  <2>2. Kept
    BY <2>1 DEF Kept
  <2>3. QED
    BY <1>4, <2>1, <2>2 DEF uploads
<1>13. ASSUME NEW s \in StreamIds, Device(s) PROVE Queues'
  <2> DEFINE head == Head(streams[s])
  <2>1. /\ streams[s] # <<>>
        /\ streams'[s] = Tail(streams[s])
        /\ \A r \in StreamIds : r # s => streams'[r] = streams[r]
        /\ (DOMAIN copies)' = DOMAIN copies
        /\ (DOMAIN commands)' = DOMAIN commands
        /\ \A c \in DOMAIN copies :
             /\ copies'[c].stream = copies[c].stream
             /\ copies'[c].done <=> copies[c].done \/ head = CopyOp(c)
        /\ \A c \in DOMAIN commands :
             /\ commands'[c].copies = commands[c].copies
             /\ commands'[c].stream = commands[c].stream
             /\ head # RunOp(c) => commands'[c].state = commands[c].state
    BY <1>1, <1>13, DeviceEffect
  <2>2. streams \in [StreamIds -> Seq(Ops)]
    BY <1>1 DEF Types
  <2>3. /\ streams[s] \in Seq(Ops)
        /\ head = streams[s][1] /\ head \in Ops
        /\ 1 \in DOMAIN streams[s]
        /\ \A i \in (DOMAIN streams[s])' : /\ i \in Nat \ {0}
                                           /\ i + 1 \in DOMAIN streams[s]
                                           /\ streams'[s][i] = streams[s][i + 1]
        /\ \A j \in DOMAIN streams[s] : /\ j \in Nat \ {0}
                                        /\ j # 1 => j - 1 \in (DOMAIN streams[s])'
                                                    /\ streams'[s][j - 1] = streams[s][j]
    BY <2>1, <2>2
  <2> HIDE DEF head
  \* Where each operation was: one place behind in the stream that runs.
  <2>4. \A c : head = RunOp(c) <=> head.kind = "run" /\ head.id = c
    BY <2>3 DEF RunOp, Ops
  <2>5. ASSUME NEW r \in StreamIds, NEW i \in (DOMAIN streams[r])', NEW k \in DOMAIN streams[r],
               streams'[r][i] = streams[r][k],
               \A j \in (DOMAIN streams[r])' : \E m \in DOMAIN streams[r] :
                 streams'[r][j] = streams[r][m] /\ (m = k => j = i),
               \A j \in 1..k - 1 :
                 \/ streams[r][j] = head
                 \/ \E m \in 1..i - 1 : streams'[r][m] = streams[r][j],
               head.kind = "run" /\ streams[r][k].kind = "run" => streams[r][k].id # head.id
        PROVE  Ordered(r, i)'
    <3>1. Ordered(r, k)
      BY <1>2, <2>5
    <3>2. streams'[r][i].kind = "copy" => streams'[r][i].id \in (DOMAIN copies)'
      BY <2>1, <2>5, <3>1 DEF Ordered
    <3>3. CASE streams[r][k].kind = "run"
      <4> DEFINE d == streams[r][k].id
      <4>1. /\ d \in DOMAIN commands
            /\ commands[d].state = "queued"
            /\ commands[d].stream = r
            /\ \A j \in DOMAIN streams[r] : streams[r][j].kind = "run" /\ streams[r][j].id = d => j = k
            /\ \A c \in ToSet(commands[d].copies) :
                 copies[c].done \/ \E j \in 1..k - 1 : streams[r][j] = CopyOp(c)
        BY <3>1, <3>3 DEF Ordered, Queued
      <4>2. head # RunOp(d)
        BY <2>4, <2>5, <3>3
      <4>3. streams'[r][i].kind = "run" /\ streams'[r][i].id = d
        BY <2>5, <3>3
      <4> HIDE DEF d
      <4>4. d \in (DOMAIN commands)' /\ commands'[d].state = "queued" /\ commands'[d].stream = r
        BY <2>1, <4>1, <4>2
      <4>5. \A j \in (DOMAIN streams[r])' : streams'[r][j].kind = "run" /\ streams'[r][j].id = d => j = i
        BY <2>5, <4>1
      <4>6. \A c \in ToSet(commands'[d].copies) :
              copies'[c].done \/ \E j \in 1..i - 1 : streams'[r][j] = CopyOp(c)
        <5>1. TAKE c \in ToSet(commands'[d].copies)
        <5>2. c \in ToSet(commands[d].copies) /\ c \in DOMAIN copies
          <6>1. commands[d].copies \in Seq(DOMAIN copies) /\ commands'[d].copies = commands[d].copies
            BY <1>1, <2>1, <4>1, CommandTyped
          <6>2. QED
            BY <5>1, <6>1 DEF ToSet
        <5>3. CASE copies[c].done
          BY <2>1, <5>2, <5>3
        <5>4. ASSUME NEW j \in 1..k - 1, streams[r][j] = CopyOp(c)
              PROVE  copies'[c].done \/ \E m \in 1..i - 1 : streams'[r][m] = CopyOp(c)
          BY <2>1, <2>5, <5>2, <5>4
        <5>5. QED
          BY <4>1, <5>2, <5>3, <5>4
      <4>7. QED
        BY <4>3, <4>4, <4>5, <4>6 DEF Ordered, Queued, CopyOp
    <3>4. CASE streams[r][k].kind # "run"
      BY <2>5, <3>2, <3>4 DEF Ordered
    <3>5. QED
      BY <3>3, <3>4
  <2>6. ASSUME NEW r \in StreamIds, NEW k \in DOMAIN streams[r], r # s \/ k # 1,
               head.kind = "run", streams[r][k].kind = "run"
        PROVE  streams[r][k].id # head.id
    <3>1. Ordered(r, k) /\ Ordered(s, 1)
      BY <1>2, <2>3, <2>6
    <3>2. head = streams[s][1]
      BY <2>3
    <3>3. CASE r = s
      BY <2>6, <3>1, <3>2, <3>3 DEF Ordered
    <3>4. CASE r # s
      <4>1. commands[streams[r][k].id].stream = r /\ commands[head.id].stream = s
        BY <2>6, <3>1, <3>2 DEF Ordered
      <4>2. QED
        BY <3>4, <4>1
    <3>5. QED
      BY <3>3, <3>4
  <2>7. ASSUME NEW r \in StreamIds, NEW i \in (DOMAIN streams[r])' PROVE Ordered(r, i)'
    <3>1. CASE r # s
      <4>1. streams'[r] = streams[r] /\ i \in DOMAIN streams[r]
        BY <2>1, <2>7, <3>1
      <4>2. \A j \in (DOMAIN streams[r])' : \E m \in DOMAIN streams[r] :
              streams'[r][j] = streams[r][m] /\ (m = i => j = i)
        BY <4>1
      <4>3. \A j \in 1..i - 1 : \E m \in 1..i - 1 : streams'[r][m] = streams[r][j]
        BY <4>1
      <4>4. head.kind = "run" /\ streams[r][i].kind = "run" => streams[r][i].id # head.id
        BY <2>6, <3>1, <4>1
      <4>5. QED
        BY <2>5, <2>7, <4>1, <4>2, <4>3, <4>4
    <3>2. CASE r = s
      <4>1. PICK k : k = i + 1
        OBVIOUS
      <4>2. /\ k \in DOMAIN streams[r] /\ streams'[r][i] = streams[r][k]
            /\ i \in Nat \ {0} /\ k # 1
        BY <2>3, <2>7, <3>2, <4>1
      <4>3. \A j \in (DOMAIN streams[r])' : \E m \in DOMAIN streams[r] :
              streams'[r][j] = streams[r][m] /\ (m = k => j = i)
        <5>1. TAKE j \in (DOMAIN streams[r])'
        <5>2. j \in Nat \ {0} /\ j + 1 \in DOMAIN streams[r] /\ streams'[r][j] = streams[r][j + 1]
          BY <2>3, <3>2, <5>1
        <5>3. j + 1 = k => j = i
          BY <4>1, <4>2, <5>2
        <5>4. QED
          BY <5>2, <5>3
      <4>4. \A j \in 1..k - 1 :
              streams[r][j] = head \/ \E m \in 1..i - 1 : streams'[r][m] = streams[r][j]
        <5>1. TAKE j \in 1..k - 1
        <5>2. j \in DOMAIN streams[r]
          BY <2>3, <3>2, <4>1, <4>2, <5>1
        <5>3. CASE j = 1
          BY <2>3, <3>2, <5>3
        <5>4. CASE j # 1
          <6>1. j - 1 \in 1..i - 1
            BY <4>1, <4>2, <5>1, <5>4
          <6>2. streams'[r][j - 1] = streams[r][j]
            BY <2>3, <3>2, <5>2, <5>4
          <6>3. QED
            BY <6>1, <6>2
        <5>5. QED
          BY <5>3, <5>4
      <4>5. head.kind = "run" /\ streams[r][k].kind = "run" => streams[r][k].id # head.id
        BY <2>6, <4>2
      <4>6. QED
        BY <2>5, <2>7, <4>2, <4>3, <4>4, <4>5
    <3>3. QED
      BY <3>1, <3>2
  <2>8. ASSUME NEW c \in (DOMAIN copies)' PROVE Copied(c)'
    <3>1. c \in DOMAIN copies /\ Copied(c)
      BY <1>2, <2>1, <2>8
    <3>2. copies[c].stream \in StreamIds
      <4>1. copies[c] \in CopyRecords
        BY <1>1, <3>1 DEF Types
      <4>2. QED
        BY <4>1 DEF CopyRecords
    <3>3. PICK r \in StreamIds : r = copies[c].stream
      BY <3>2
    <3>4. copies[c].done \/ \E j \in DOMAIN streams[r] : streams[r][j] = CopyOp(c)
      BY <3>1, <3>3 DEF Copied
    <3>5. copies'[c].stream = r
      BY <2>1, <3>1, <3>3
    <3>6. copies'[c].done \/ \E j \in (DOMAIN streams[r])' : streams'[r][j] = CopyOp(c)
      <4>1. CASE copies[c].done
        BY <2>1, <3>1, <4>1
      <4>2. ASSUME NEW j \in DOMAIN streams[r], streams[r][j] = CopyOp(c)
            PROVE  copies'[c].done \/ \E m \in (DOMAIN streams[r])' : streams'[r][m] = CopyOp(c)
        <5>1. CASE r # s
          BY <2>1, <4>2, <5>1
        <5>2. CASE r = s /\ j = 1
          BY <2>1, <2>3, <3>1, <4>2, <5>2
        <5>3. CASE r = s /\ j # 1
          BY <2>3, <4>2, <5>3
        <5>4. QED
          BY <5>1, <5>2, <5>3
      <4>3. QED
        BY <3>4, <4>1, <4>2
    <3>7. QED
      BY <3>5, <3>6 DEF Copied, CopyOp
  <2>9. QED
    BY <1>3, <2>7, <2>8
<1>14. ASSUME NEW t \in Callers, BeginCall(t) PROVE Queues'
  BY <1>6, <1>14 DEF BeginCall, uploads
<1>15. ASSUME NEW t \in Callers, Moves(t) PROVE Queues'
  <2>1. UNCHANGED <<uploads, commands, streams>>
    BY <1>1, <1>15, MoveEffect
  <2>2. QED
    BY <1>6, <2>1 DEF uploads
<1>16. ASSUME NEW t \in Callers, FindUpload(t) PROVE Queues'
  BY <1>6, <1>16 DEF FindUpload
<1>17. ASSUME NEW t \in Callers, InsertUpload(t) PROVE Queues'
  BY <1>6, <1>17 DEF InsertUpload
<1>18. ASSUME NEW t \in Callers, TakeScratch(t) PROVE Queues'
  BY <1>6, <1>18 DEF TakeScratch, uploads
<1>19. ASSUME NEW t \in Callers, FinishSubmission(t) PROVE Queues'
  BY <1>6, <1>19 DEF FinishSubmission, uploads
<1>20. ASSUME NEW t \in Callers, Return(t) PROVE Queues'
  BY <1>6, <1>20 DEF Return, uploads
<1>21. CASE UNCHANGED vars
  BY <1>6, <1>21 DEF vars, uploads
<1>22. QED
  BY <1>7, <1>9, <1>10, <1>11, <1>12, <1>13, <1>14, <1>15, <1>16, <1>17, <1>18, <1>19, <1>20, <1>21,
     NextCases

-----------------------------------------------------------------------------
(***************************************************************************)
(* What a call has settled.                                                *)
(***************************************************************************)
\* Commands are only added; one that completed has completed for good, and one
\* that is queued keeps its scratch.
Advance ==
  \A c \in DOMAIN commands :
    /\ c \in (DOMAIN commands)'
    /\ Queued(c)' => Queued(c) /\ commands'[c].held = commands[c].held
    /\ commands[c].state = "ok" => commands'[c].state = "ok"

\* Every step lets commands only advance.
LEMMA AdvanceStep ==
  ASSUME IInv, [Next]_vars
  PROVE  Advance
<1>1. Types /\ LockHeld /\ Progress /\ Placed /\ PoolBounded /\ CacheBounded /\ Queues /\ Settled
  BY DEF IInv
<1>2. ASSUME UNCHANGED commands PROVE Advance
  BY <1>2 DEF Advance, Queued
<1>3. ASSUME NEW t \in Callers, Launch(t) PROVE Advance
  <2>1. (DOMAIN commands)' = DOMAIN commands \cup {Len(commands) + 1}
    BY <1>1, <1>3, LaunchEffect
  <2>2. \A c \in DOMAIN commands : commands'[c] = commands[c]
    BY <1>1, <1>3, LaunchEffect
  <2>3. QED
    BY <2>1, <2>2 DEF Advance, Queued
<1>4. ASSUME NEW t \in Callers, FailEncode(t) PROVE Advance
  <2>1. \/ UNCHANGED commands
        \/ (DOMAIN commands)' = DOMAIN commands \cup {Len(commands) + 1}
    BY <1>1, <1>4, FailEffect
  <2>2. \A c \in DOMAIN commands : commands'[c] = commands[c]
    BY <1>1, <1>4, FailEffect
  <2>3. QED
    BY <2>1, <2>2 DEF Advance, Queued
<1>5. ASSUME NEW t \in Callers, RecycleScratch(t) PROVE Advance
  <2>1. PICK f : f = First(t)
    OBVIOUS
  <2>2. (DOMAIN commands)' = DOMAIN commands /\ ~ Queued(f)
    BY <1>1, <1>5, <2>1, RecycleStep
  <2>3. \A c \in DOMAIN commands :
          /\ c # f => commands'[c] = commands[c]
          /\ commands'[c].state = commands[c].state
    BY <1>1, <1>5, <2>1, RecycleStep
  <2>4. QED
    BY <2>2, <2>3 DEF Advance, Queued
<1>6. ASSUME NEW s \in StreamIds, Device(s) PROVE Advance
  <2>1. (DOMAIN commands)' = DOMAIN commands
    BY <1>1, <1>6, DeviceEffect
  <2>2. \A c \in DOMAIN commands :
          /\ commands'[c].held = commands[c].held
          /\ Head(streams[s]) # RunOp(c) => commands'[c].state = commands[c].state
          /\ Head(streams[s]) = RunOp(c) => Queued(c) /\ commands'[c].state \in {"ok", "bad"}
    BY <1>1, <1>6, DeviceEffect
  <2>3. QED
    BY <2>1, <2>2 DEF Advance, Queued
<1>7. ASSUME NEW t \in Callers, BeginCall(t) PROVE Advance
  BY <1>2, <1>7 DEF BeginCall
<1>8. ASSUME NEW t \in Callers, Moves(t) PROVE Advance
  <2>1. UNCHANGED commands
    BY <1>1, <1>8, MoveEffect
  <2>2. QED
    BY <1>2, <2>1
<1>9. ASSUME NEW t \in Callers, FindUpload(t) PROVE Advance
  BY <1>2, <1>9 DEF FindUpload
<1>10. ASSUME NEW t \in Callers, CopyArena(t) PROVE Advance
  BY <1>2, <1>10 DEF CopyArena
<1>11. ASSUME NEW t \in Callers, InsertUpload(t) PROVE Advance
  BY <1>2, <1>11 DEF InsertUpload
<1>12. ASSUME NEW t \in Callers, TakeScratch(t) PROVE Advance
  BY <1>2, <1>12 DEF TakeScratch
<1>13. ASSUME NEW t \in Callers, ReadStatus(t) PROVE Advance
  BY <1>2, <1>13 DEF ReadStatus
<1>14. ASSUME NEW t \in Callers, FinishSubmission(t) PROVE Advance
  BY <1>2, <1>14 DEF FinishSubmission
<1>15. ASSUME NEW t \in Callers, Return(t) PROVE Advance
  BY <1>2, <1>15 DEF Return
<1>16. CASE UNCHANGED vars
  BY <1>2, <1>16 DEF vars
<1>17. QED
  BY <1>3, <1>4, <1>5, <1>6, <1>7, <1>8, <1>9, <1>10, <1>11, <1>12, <1>13, <1>14, <1>15, <1>16,
     NextCases

\* A call that keeps its submissions keeps what is settled of them.
LEMMA SettledKept ==
  ASSUME Types, Advance, NEW u \in Callers, SettledOf(u),
         call'[u].issued = call[u].issued,
         call'[u].submissions = call[u].submissions,
         call[u].pc = "drop" => call'[u].pc = "drop",
         call'[u].pc \in {"status", "recycle"} =>
           call[u].submissions # <<>> /\ ~ Queued(First(u))
  PROVE  SettledOf(u)'
<1>1. ToSet(call[u].issued) \subseteq DOMAIN commands /\ ToSet(call[u].submissions) \subseteq DOMAIN commands
  <2>1. call[u].issued \in Seq(DOMAIN commands) /\ call[u].submissions \in Seq(DOMAIN commands)
    BY CallTyped
  <2>2. \A q \in Seq(DOMAIN commands) : ToSet(q) \subseteq DOMAIN commands
    BY DEF ToSet
  <2>3. QED
    BY <2>1, <2>2
<1>2. \A c \in DOMAIN commands :
        /\ ~ Queued(c) => ~ Queued(c)'
        /\ commands[c].state = "ok" => commands'[c].state = "ok"
        /\ Queued(c)' => Queued(c) /\ commands'[c].held = commands[c].held
  BY DEF Advance
<1>3. \A c \in ToSet(call[u].issued) : c \in ToSet(call[u].submissions) \/ ~ Queued(c)'
  BY <1>1, <1>2 DEF SettledOf
<1>4. call'[u].pc # "drop" =>
        \A c \in ToSet(call[u].issued) :
          c \in ToSet(call[u].submissions) \/ commands'[c].state = "ok"
  BY <1>1, <1>2 DEF SettledOf
<1>5. \A c \in ToSet(call[u].submissions) : Queued(c)' => commands'[c].held # <<>>
  BY <1>1, <1>2 DEF SettledOf
<1>6. call'[u].pc \in {"status", "recycle"} => call'[u].submissions # <<>> /\ ~ Queued(First(u))'
  <2>1. SUFFICES ASSUME call'[u].pc \in {"status", "recycle"}
                 PROVE  call'[u].submissions # <<>> /\ ~ Queued(First(u))'
    OBVIOUS
  <2>2. call[u].submissions # <<>> /\ ~ Queued(First(u))
    BY <2>1
  <2>3. PICK f : f = First(u)
    OBVIOUS
  <2>4. f \in DOMAIN commands
    <3>1. call[u].submissions \in Seq(DOMAIN commands)
      BY CallTyped
    <3>2. QED
      BY <2>2, <2>3, <3>1 DEF First
  <2>5. ~ Queued(f)'
    BY <1>2, <2>2, <2>3, <2>4
  <2>6. First(u)' = f
    BY <2>3 DEF First
  <2>7. QED
    BY <2>2, <2>5, <2>6 DEF Queued
<1>7. QED
  BY <1>3, <1>4, <1>5, <1>6 DEF SettledOf

\* Outcomes stay settled.
LEMMA OutcomesKept ==
  ASSUME Types, Advance, NEW u \in Callers, OutcomesOf(u), outcomes'[u] = outcomes[u]
  PROVE  OutcomesOf(u)'
<1>1. ASSUME NEW n \in DOMAIN outcomes[u]
      PROVE  ToSet(outcomes[u][n].commands) \subseteq DOMAIN commands
  <2>1. outcomes[u] \in Seq(OutcomeRecords(DOMAIN commands))
    BY CallTyped
  <2>2. outcomes[u][n] \in OutcomeRecords(DOMAIN commands)
    <3>1. n \in 1..Len(outcomes[u])
      BY <1>1, <2>1
    <3>2. QED
      BY <2>1, <3>1, ElementOfSeq, Zenon
  <2>3. outcomes[u][n].commands \in Seq(DOMAIN commands)
    BY <2>2 DEF OutcomeRecords
  <2>4. QED
    BY <2>3 DEF ToSet
<1>2. \A c \in DOMAIN commands :
        /\ ~ Queued(c) => ~ Queued(c)'
        /\ commands[c].state = "ok" => commands'[c].state = "ok"
  BY DEF Advance
<1>3. QED
  BY <1>1, <1>2, Zenon DEF OutcomesOf

\* A settled outcome is added to settled ones.
LEMMA OutcomeAdded ==
  ASSUME Types, NEW t \in Callers, OutcomesOf(t), UNCHANGED commands,
         NEW o \in OutcomeRecords(DOMAIN commands),
         outcomes'[t] = Append(outcomes[t], o),
         \A c \in ToSet(o.commands) : ~ Queued(c),
         o.result = "ok" =>
           /\ Len(o.commands) = Len(Calls[t][Len(outcomes[t]) + 1].plans)
           /\ \A c \in ToSet(o.commands) : commands[c].state = "ok"
  PROVE  OutcomesOf(t)'
<1> DEFINE R == OutcomeRecords(DOMAIN commands)
<1>1. outcomes[t] \in Seq(R) /\ o \in R
  BY CallTyped
<1> HIDE DEF R
<1>2. /\ DOMAIN outcomes'[t] = DOMAIN outcomes[t] \cup {Len(outcomes[t]) + 1}
      /\ \A n \in DOMAIN outcomes[t] : outcomes'[t][n] = outcomes[t][n]
      /\ outcomes'[t][Len(outcomes[t]) + 1] = o
  BY <1>1
<1>3. PICK m : m = Len(outcomes[t]) + 1
  OBVIOUS
<1>4. ASSUME NEW n \in DOMAIN outcomes'[t]
      PROVE  /\ \A c \in ToSet(outcomes'[t][n].commands) : ~ Queued(c)
             /\ outcomes'[t][n].result = "ok" =>
                  /\ Len(outcomes'[t][n].commands) = Len(Calls[t][n].plans)
                  /\ \A c \in ToSet(outcomes'[t][n].commands) : commands[c].state = "ok"
  <2>1. CASE n \in DOMAIN outcomes[t]
    <3>1. outcomes'[t][n] = outcomes[t][n]
      BY <1>2, <2>1
    <3>2. QED
      BY <2>1, <3>1, Zenon DEF OutcomesOf
  <2>2. CASE n = m
    <3>1. outcomes'[t][n] = o
      BY <1>2, <1>3, <2>2
    <3>2. o.result = "ok" => Len(o.commands) = Len(Calls[t][n].plans)
      BY <1>3, <2>2
    <3>3. QED
      BY <3>1, <3>2, Zenon
  <2>3. QED
    BY <1>2, <1>3, <1>4, <2>1, <2>2
<1>5. QED
  BY <1>4 DEF OutcomesOf, Queued

\* Every step keeps what is settled.
LEMMA SettledStep ==
  ASSUME IInv, [Next]_vars
  PROVE  Settled'
<1>1. Types /\ LockHeld /\ Progress /\ Placed /\ PoolBounded /\ CacheBounded /\ Queues /\ Settled
  BY DEF IInv
<1>2. Advance
  BY AdvanceStep
<1>3. /\ \A t \in Callers : ProgressOf(t) /\ SettledOf(t) /\ OutcomesOf(t)
      /\ \A t \in Callers : call[t] \in CallRecords(DOMAIN copies, Buffers, DOMAIN commands)
  BY <1>1, CallTyped DEF Progress, Settled
<1>4. ASSUME NEW t \in Callers, SettledOf(t)', OutcomesOf(t)',
             \A u \in Callers : u # t => call'[u] = call[u] /\ outcomes'[u] = outcomes[u]
      PROVE  Settled'
  <2>1. ASSUME NEW u \in Callers, u # t PROVE SettledOf(u)' /\ OutcomesOf(u)'
    <3>1. call'[u] = call[u] /\ outcomes'[u] = outcomes[u]
      BY <1>4, <2>1
    <3>2. call[u].pc \in {"status", "recycle"} => call[u].submissions # <<>> /\ ~ Queued(First(u))
      BY <1>3 DEF SettledOf
    <3>3. SettledOf(u)'
      BY <1>1, <1>2, <1>3, <3>1, <3>2, SettledKept
    <3>4. OutcomesOf(u)'
      BY <1>1, <1>2, <1>3, <3>1, OutcomesKept
    <3>5. QED
      BY <3>3, <3>4
  <2>2. QED
    BY <1>4, <2>1 DEF Settled
<1>5. ASSUME UNCHANGED <<call, outcomes>> PROVE Settled'
  <2>1. ASSUME NEW u \in Callers PROVE SettledOf(u)' /\ OutcomesOf(u)'
    <3>1. call'[u] = call[u] /\ outcomes'[u] = outcomes[u]
      BY <1>5
    <3>2. call[u].pc \in {"status", "recycle"} => call[u].submissions # <<>> /\ ~ Queued(First(u))
      BY <1>3 DEF SettledOf
    <3>3. SettledOf(u)'
      BY <1>1, <1>2, <1>3, <3>1, <3>2, SettledKept
    <3>4. OutcomesOf(u)'
      BY <1>1, <1>2, <1>3, <3>1, OutcomesKept
    <3>5. QED
      BY <3>3, <3>4
  <2>2. QED
    BY <2>1 DEF Settled
<1>6. ASSUME NEW t \in Callers,
             \A u \in Callers : u # t => call'[u] = call[u],
             UNCHANGED outcomes,
             call'[t].issued = call[t].issued,
             call'[t].submissions = call[t].submissions,
             call[t].pc = "drop" => call'[t].pc = "drop",
             call'[t].pc \in {"status", "recycle"} =>
               call[t].submissions # <<>> /\ ~ Queued(First(t))
      PROVE  Settled'
  <2>1. SettledOf(t)'
    BY <1>1, <1>2, <1>3, <1>6, SettledKept
  <2>2. OutcomesOf(t)'
    BY <1>1, <1>2, <1>3, <1>6, OutcomesKept
  <2>3. QED
    BY <1>4, <1>6, <2>1, <2>2
<1>7. ASSUME NEW t \in Callers, BeginCall(t) PROVE Settled'
  <2>1. /\ call[t].pc = "idle" /\ call[t] = NoCall
        /\ UNCHANGED commands
        /\ \A u \in Callers : u # t => call'[u] = call[u] /\ outcomes'[u] = outcomes[u]
    BY <1>1, <1>3, <1>7, BeginEffect DEF ProgressOf
  <2>2. CASE /\ outcomes'[t] = Append(outcomes[t], [result |-> "refused", commands |-> <<>>])
             /\ UNCHANGED call
    <3>1. PICK o : o = [result |-> "refused", commands |-> <<>>]
      OBVIOUS
    <3>2. o \in OutcomeRecords(DOMAIN commands) /\ o.result # "ok" /\ ToSet(o.commands) = {}
      BY <3>1 DEF OutcomeRecords, ToSet
    <3>3. outcomes'[t] = Append(outcomes[t], o)
      BY <2>2, <3>1
    <3>4. OutcomesOf(t)'
      BY <1>1, <1>3, <2>1, <3>2, <3>3, OutcomeAdded
    <3>5. SettledOf(t)'
      <4>1. call'[t] = call[t]
        BY <2>2
      <4>2. QED
        BY <1>1, <1>2, <1>3, <2>1, <4>1, SettledKept
    <3>6. QED
      BY <1>4, <2>1, <3>4, <3>5
  <2>3. CASE /\ call'[t] = [call[t] EXCEPT !.pc = IF PlansOf(t) = <<>> THEN "submitted" ELSE "lock"]
             /\ UNCHANGED outcomes
    <3>1. /\ call'[t].pc \in {"submitted", "lock"}
          /\ call'[t].issued = call[t].issued
          /\ call'[t].submissions = call[t].submissions
      BY <2>1, <2>3 DEF NoCall
    <3>2. QED
      BY <1>6, <2>1, <2>3, <3>1
  <2>4. QED
    BY <1>1, <1>7, <2>2, <2>3, BeginEffect
<1>8. ASSUME NEW t \in Callers, Moves(t) PROVE Settled'
  <2>1. /\ outcomes' = outcomes
        /\ \A u \in Callers : u # t => call'[u] = call[u]
    BY <1>1, <1>8, MoveEffect
  <2>2. PICK pc \in Pcs :
          /\ call'[t] = [call[t] EXCEPT !.pc = pc]
          /\ \/ call[t].pc = "lock" /\ pc = "upload" /\ lock = "free" /\ lock' = t
             \/ call[t].pc = "upload" /\ pc = "scratch" /\ lock' = lock
             \/ call[t].pc = "submitted" /\ pc \in {"wait", "drop"} /\ lock' = lock
             \/ call[t].pc = "status" /\ pc = "recycle" /\ lock' = lock
    BY <1>1, <1>8, MoveEffect
  <2>3. /\ call'[t].pc = pc
        /\ call'[t].issued = call[t].issued
        /\ call'[t].submissions = call[t].submissions
    BY <1>3, <2>2 DEF CallRecords
  <2>4. call'[t].pc \in {"status", "recycle"} => call[t].submissions # <<>> /\ ~ Queued(First(t))
    BY <1>3, <2>2, <2>3 DEF SettledOf
  <2>5. call[t].pc # "drop"
    BY <2>2
  <2>6. QED
    BY <1>6, <2>1, <2>3, <2>4, <2>5
<1>9. ASSUME NEW t \in Callers, FindUpload(t) PROVE Settled'
  <2>1. /\ outcomes' = outcomes
        /\ call[t].pc = "upload"
        /\ \A u \in Callers : u # t => call'[u] = call[u]
        /\ \/ \E e \in Cached : call'[t] = [call[t] EXCEPT !.copies = Append(call[t].copies, e)]
           \/ call'[t] = [call[t] EXCEPT !.pc = "copy"]
    BY <1>1, <1>9, FindEffect
  <2>2. /\ call'[t].pc \in {"upload", "copy"}
        /\ call'[t].issued = call[t].issued
        /\ call'[t].submissions = call[t].submissions
    BY <1>3, <2>1 DEF CallRecords
  <2>3. QED
    BY <1>6, <2>1, <2>2
<1>10. ASSUME NEW t \in Callers, CopyArena(t) PROVE Settled'
  <2>1. /\ outcomes' = outcomes
        /\ call[t].pc = "copy"
        /\ \A u \in Callers : u # t => call'[u] = call[u]
        /\ call'[t] = [call[t] EXCEPT !.pc = "insert"]
    BY <1>1, <1>10, CopyEffect
  <2>2. /\ call'[t].pc = "insert"
        /\ call'[t].issued = call[t].issued
        /\ call'[t].submissions = call[t].submissions
    BY <1>3, <2>1 DEF CallRecords
  <2>3. QED
    BY <1>6, <2>1, <2>2
<1>11. ASSUME NEW t \in Callers, InsertUpload(t) PROVE Settled'
  <2>1. /\ outcomes' = outcomes
        /\ call[t].pc = "insert"
    BY <1>11 DEF InsertUpload
  <2>2. /\ \A u \in Callers : u # t => call'[u] = call[u]
        /\ call'[t] = [call[t] EXCEPT !.copies = Append(call[t].copies, Len(copies)), !.pc = "upload"]
    BY <1>1, <1>11, InsertEffect
  <2>3. /\ call'[t].pc = "upload"
        /\ call'[t].issued = call[t].issued
        /\ call'[t].submissions = call[t].submissions
    BY <1>3, <2>2 DEF CallRecords
  <2>4. QED
    BY <1>6, <2>1, <2>2, <2>3
<1>12. ASSUME NEW t \in Callers, TakeScratch(t) PROVE Settled'
  <2>1. outcomes' = outcomes
    BY <1>12 DEF TakeScratch
  <2>2. call[t].pc = "scratch"
    BY <1>12 DEF TakeScratch
  <2>3. PICK b \in Buffers' :
          /\ call'[t] = [call[t] EXCEPT !.scratch = Append(call[t].scratch, b)]
          /\ \A u \in Callers : u # t => call'[u] = call[u]
    BY <1>1, <1>12, TakeEffect DEF Placed
  <2>4. /\ call'[t].pc = "scratch"
        /\ call'[t].issued = call[t].issued
        /\ call'[t].submissions = call[t].submissions
    BY <1>3, <2>2, <2>3 DEF CallRecords
  <2>5. QED
    BY <1>6, <2>1, <2>2, <2>3, <2>4
<1>13. ASSUME NEW t \in Callers, FailEncode(t) PROVE Settled'
  <2>1. outcomes' = outcomes
    BY <1>1, <1>13, FailEffect
  <2>2. call[t].pc \in Encoding
    BY <1>1, <1>13, FailEffect
  <2>3. /\ \A u \in Callers : u # t => call'[u] = call[u]
        /\ call'[t] = [call[t] EXCEPT !.pc = "drop", !.failed = TRUE, !.copies = <<>>, !.scratch = <<>>]
    BY <1>1, <1>13, FailEffect
  <2>4. /\ call'[t].pc = "drop"
        /\ call'[t].issued = call[t].issued
        /\ call'[t].submissions = call[t].submissions
    BY <1>3, <2>3 DEF CallRecords
  <2>5. QED
    BY <1>6, <2>1, <2>2, <2>3, <2>4
<1>14. ASSUME NEW t \in Callers, ReadStatus(t) PROVE Settled'
  <2>1. /\ outcomes' = outcomes
        /\ call[t].pc = "wait"
        /\ call[t].submissions # <<>>
        /\ Completed(First(t))
        /\ call'[t] = [call[t] EXCEPT !.pc = "status"]
        /\ \A u \in Callers : u # t => call'[u] = call[u]
    BY <1>1, <1>14, ReadEffect
  <2>2. /\ call'[t].pc = "status"
        /\ call'[t].issued = call[t].issued
        /\ call'[t].submissions = call[t].submissions
    BY <1>3, <2>1 DEF CallRecords
  <2>3. ~ Queued(First(t))
    BY <2>1 DEF Completed, Queued
  <2>4. QED
    BY <1>6, <2>1, <2>2, <2>3
<1>15. ASSUME NEW t \in Callers, RecycleScratch(t) PROVE Settled'
  BY <1>5, <1>15 DEF RecycleScratch, session
<1>16. ASSUME NEW s \in StreamIds, Device(s) PROVE Settled'
  BY <1>5, <1>16 DEF Device, session
<1>17. CASE UNCHANGED vars
  BY <1>5, <1>17 DEF vars, session
<1>18. ASSUME NEW t \in Callers, Launch(t) PROVE Settled'
  <2> DEFINE new == Len(commands) + 1
  <2>1. /\ call[t].pc = "scratch"
        /\ Len(call[t].scratch) = Len(PlanScratch[Plan(t)])
        /\ outcomes' = outcomes
        /\ \A u \in Callers : u # t => call'[u] = call[u]
        /\ (DOMAIN commands)' = DOMAIN commands \cup {new}
        /\ new \notin DOMAIN commands
        /\ commands'[new] = Command(t)
    BY <1>1, <1>18, LaunchEffect
  <2>2. call'[t] = [call[t] EXCEPT
          !.pc          = IF call[t].plan < Len(PlansOf(t)) THEN "lock" ELSE "submitted",
          !.plan        = call[t].plan + 1,
          !.copies      = <<>>,
          !.scratch     = <<>>,
          !.submissions = Append(call[t].submissions, new),
          !.issued      = Append(call[t].issued, new)]
    BY <1>1, <1>18, LaunchEffect
  <2>3. PICK n \in Nat : n = new
    BY <1>1 DEF Types
  <2> HIDE DEF new
  <2>4. /\ call'[t].pc \in {"lock", "submitted"}
        /\ call'[t].submissions = Append(call[t].submissions, n)
        /\ call'[t].issued = Append(call[t].issued, n)
    BY <1>3, <2>2, <2>3 DEF CallRecords
  <2>5. /\ ToSet(call'[t].submissions) = ToSet(call[t].submissions) \cup {n}
        /\ ToSet(call'[t].issued) = ToSet(call[t].issued) \cup {n}
    <3>1. /\ call[t].submissions \in Seq(DOMAIN commands \cup {n})
          /\ call[t].issued \in Seq(DOMAIN commands \cup {n})
      BY <1>1, CallTyped
    <3>2. \A q \in Seq(DOMAIN commands \cup {n}) : ToSet(Append(q, n)) = ToSet(q) \cup {n}
      BY AppendSet
    <3>3. QED
      BY <2>4, <3>1, <3>2, Zenon
  <2>6. commands'[n].held # <<>>
    <3>1. Len(call[t].scratch) = 2
      <4>1. Len(outcomes[t]) < Len(Calls[t])
        BY <1>3, <2>1 DEF ProgressOf
      <4>2. QED
        BY <1>1, <2>1, <4>1, CurrentTyped DEF Encoding
    <3>2. call[t].scratch # <<>>
      BY <3>1
    <3>3. QED
      BY <2>1, <2>3, <3>2 DEF Command
  <2>7. ToSet(call[t].issued) \subseteq DOMAIN commands /\ ToSet(call[t].submissions) \subseteq DOMAIN commands
    <3>1. call[t].issued \in Seq(DOMAIN commands) /\ call[t].submissions \in Seq(DOMAIN commands)
      BY <1>1, CallTyped
    <3>2. \A q \in Seq(DOMAIN commands) : ToSet(q) \subseteq DOMAIN commands
      BY DEF ToSet
    <3>3. QED
      BY <3>1, <3>2
  <2>8. \A c \in DOMAIN commands :
          /\ ~ Queued(c) => ~ Queued(c)'
          /\ commands[c].state = "ok" => commands'[c].state = "ok"
          /\ Queued(c)' => Queued(c) /\ commands'[c].held = commands[c].held
    BY <1>2 DEF Advance
  <2>9. SettledOf(t)
    BY <1>3
  <2>10. \A c \in ToSet(call'[t].issued) : c \in ToSet(call'[t].submissions) \/ ~ Queued(c)'
    BY <2>5, <2>7, <2>8, <2>9 DEF SettledOf
  <2>11. \A c \in ToSet(call'[t].issued) :
           c \in ToSet(call'[t].submissions) \/ commands'[c].state = "ok"
    BY <2>1, <2>5, <2>7, <2>8, <2>9 DEF SettledOf
  <2>12. \A c \in ToSet(call'[t].submissions) : Queued(c)' => commands'[c].held # <<>>
    BY <2>5, <2>6, <2>7, <2>8, <2>9 DEF SettledOf
  <2>13. SettledOf(t)'
    BY <2>4, <2>10, <2>11, <2>12 DEF SettledOf
  <2>14. OutcomesOf(t)'
    BY <1>1, <1>2, <1>3, <2>1, OutcomesKept
  <2>15. QED
    BY <1>4, <2>1, <2>13, <2>14
<1>19. ASSUME NEW t \in Callers, FinishSubmission(t) PROVE Settled'
  <2>1. PICK f : f = First(t)
    OBVIOUS
  <2>2. /\ call[t].pc \in {"recycle", "drop"}
        /\ call[t].submissions # <<>>
        /\ commands[f].held = <<>>
        /\ UNCHANGED <<outcomes, commands>>
        /\ \A u \in Callers : u # t => call'[u] = call[u]
    BY <1>1, <1>19, <2>1, FinishEffect
  <2>3. call'[t] = [call[t] EXCEPT
          !.submissions = Tail(call[t].submissions),
          !.failed      = call[t].failed \/ (call[t].pc = "recycle" /\ Failed(t)),
          !.pc          = IF call[t].pc = "recycle" /\ ~Failed(t) THEN "wait" ELSE "drop"]
    BY <1>1, <1>19, FinishEffect
  <2>4. /\ call'[t].pc \in {"wait", "drop"}
        /\ call'[t].pc = "wait" => call[t].pc = "recycle" /\ ~ Failed(t)
        /\ call'[t].submissions = Tail(call[t].submissions)
        /\ call'[t].issued = call[t].issued
    BY <1>3, <2>3 DEF CallRecords
  <2>5. /\ ToSet(call[t].submissions) = ToSet(call'[t].submissions) \cup {f}
        /\ f \in DOMAIN commands
    <3>1. call[t].submissions \in Seq(DOMAIN commands)
      BY <1>1, CallTyped
    <3>2. \A q \in Seq(DOMAIN commands) : q # <<>> =>
            /\ Head(q) \in DOMAIN commands
            /\ ToSet(q) = ToSet(Tail(q)) \cup {Head(q)}
      <4>1. SUFFICES ASSUME NEW q \in Seq(DOMAIN commands), q # <<>>
                     PROVE  /\ Head(q) \in DOMAIN commands
                            /\ ToSet(q) = ToSet(Tail(q)) \cup {Head(q)}
        OBVIOUS
      <4>2. /\ Len(q) \in Nat \ {0}
            /\ Len(Tail(q)) = Len(q) - 1
            /\ \A i \in 1..Len(q) - 1 : Tail(q)[i] = q[i + 1]
            /\ Head(q) = q[1]
            /\ DOMAIN Tail(q) = 1..Len(q) - 1
            /\ DOMAIN q = 1..Len(q)
        BY <4>1
      <4>3. ToSet(Tail(q)) \cup {Head(q)} \subseteq ToSet(q)
        BY <4>2 DEF ToSet
      <4>4. ASSUME NEW i \in DOMAIN q PROVE q[i] \in ToSet(Tail(q)) \cup {Head(q)}
        <5>1. CASE i = 1
          BY <4>2, <5>1
        <5>2. CASE i # 1
          <6>1. i - 1 \in 1..Len(q) - 1 /\ Tail(q)[i - 1] = q[i]
            BY <4>2, <4>4, <5>2
          <6>2. QED
            BY <4>2, <6>1 DEF ToSet
        <5>3. QED
          BY <5>1, <5>2
      <4>5. QED
        BY <4>1, <4>3, <4>4 DEF ToSet
    <3>3. QED
      BY <2>1, <2>2, <2>4, <3>1, <3>2 DEF First
  <2>6. SettledOf(t)
    BY <1>3
  <2>7. ~ Queued(f)
    <3>1. Queued(f) => commands[f].held # <<>>
      BY <2>5, <2>6 DEF SettledOf
    <3>2. QED
      BY <2>2, <3>1
  <2>8. call'[t].pc = "wait" => call[t].pc # "drop" /\ commands[f].state = "ok"
    <3>1. commands[f].state \in {"queued", "ok", "bad"}
      BY <1>1, <2>5, CommandTyped
    <3>2. QED
      BY <2>1, <2>4, <2>7, <3>1 DEF Failed, Queued
  <2>9. \A c \in ToSet(call'[t].issued) : c \in ToSet(call'[t].submissions) \/ ~ Queued(c)
    BY <2>4, <2>5, <2>6, <2>7 DEF SettledOf
  <2>10. call'[t].pc # "drop" =>
           \A c \in ToSet(call'[t].issued) :
             c \in ToSet(call'[t].submissions) \/ commands[c].state = "ok"
    BY <2>4, <2>5, <2>6, <2>8 DEF SettledOf
  <2>11. \A c \in ToSet(call'[t].submissions) : Queued(c) => commands[c].held # <<>>
    BY <2>5, <2>6 DEF SettledOf
  <2>12. commands' = commands
    BY <2>2
  <2>13. SettledOf(t)'
    BY <2>4, <2>9, <2>10, <2>11, <2>12 DEF SettledOf, Queued
  <2>14. OutcomesOf(t)'
    BY <1>1, <1>2, <1>3, <2>2, OutcomesKept
  <2>15. QED
    BY <1>4, <2>2, <2>13, <2>14
<1>20. ASSUME NEW t \in Callers, Return(t) PROVE Settled'
  <2>1. /\ call[t].pc \in {"wait", "drop"}
        /\ call[t].submissions = <<>>
        /\ UNCHANGED commands
        /\ call'[t] = NoCall
        /\ \A u \in Callers : u # t => call'[u] = call[u] /\ outcomes'[u] = outcomes[u]
    BY <1>1, <1>20, ReturnEffect
  <2>2. PICK o : o = [result   |-> IF call[t].failed THEN "error"
                                   ELSE IF call[t].pc = "wait" THEN "ok" ELSE "dropped",
                      commands |-> call[t].issued]
    OBVIOUS
  <2>3. outcomes'[t] = Append(outcomes[t], o)
    BY <1>1, <1>20, <2>2, ReturnEffect
  <2>4. /\ o \in OutcomeRecords(DOMAIN commands)
        /\ o.commands = call[t].issued
        /\ o.result = "ok" => call[t].pc = "wait"
    <3>1. call[t].issued \in Seq(DOMAIN commands)
      BY <1>1, CallTyped
    <3>2. QED
      BY <2>2, <3>1 DEF OutcomeRecords
  <2>5. ToSet(call[t].submissions) = {}
    BY <2>1 DEF ToSet
  <2>6. \A c \in ToSet(o.commands) : ~ Queued(c)
    BY <1>3, <2>4, <2>5 DEF SettledOf
  <2>7. o.result = "ok" =>
          /\ Len(o.commands) = Len(Calls[t][Len(outcomes[t]) + 1].plans)
          /\ \A c \in ToSet(o.commands) : commands[c].state = "ok"
    <3>1. SUFFICES ASSUME o.result = "ok"
                   PROVE  /\ Len(o.commands) = Len(Calls[t][Len(outcomes[t]) + 1].plans)
                          /\ \A c \in ToSet(o.commands) : commands[c].state = "ok"
      OBVIOUS
    <3>2. call[t].pc = "wait"
      BY <2>4, <3>1
    <3>3. Len(call[t].issued) = Len(PlansOf(t))
      BY <1>3, <3>2 DEF ProgressOf, Waiting
    <3>4. \A c \in ToSet(call[t].issued) : commands[c].state = "ok"
      BY <1>3, <2>5, <3>2 DEF SettledOf
    <3>5. QED
      BY <2>4, <3>3, <3>4 DEF PlansOf, Current
  <2>8. OutcomesOf(t)'
    BY <1>1, <1>3, <2>1, <2>3, <2>4, <2>6, <2>7, OutcomeAdded
  <2>9. SettledOf(t)'
    <3>1. /\ call'[t].pc = "idle"
          /\ ToSet(call'[t].issued) = {}
          /\ ToSet(call'[t].submissions) = {}
      BY <2>1 DEF NoCall, ToSet
    <3>2. QED
      BY <3>1 DEF SettledOf
  <2>10. QED
    BY <1>4, <2>1, <2>8, <2>9
<1>21. QED
  BY <1>7, <1>8, <1>9, <1>10, <1>11, <1>12, <1>13, <1>14, <1>15, <1>16, <1>17, <1>18, <1>19, <1>20,
     NextCases

-----------------------------------------------------------------------------
(***************************************************************************)
(* The invariant and what follows from it.                                 *)
(***************************************************************************)
\* A new session satisfies the invariant.
LEMMA InitIInv ==
  ASSUME Init
  PROVE  IInv
<1>1. /\ lock = "free"
      /\ call = [t \in Callers |-> NoCall]
      /\ outcomes = [t \in Callers |-> <<>>]
      /\ pool = [buffers |-> <<>>, bytes |-> 0, highWater |-> 0]
      /\ sizes = <<>>
      /\ freed = {}
      /\ cache = [entries |-> <<>>, bytes |-> 0]
      /\ copies = <<>>
      /\ commands = <<>>
      /\ streams = [s \in StreamIds |-> <<>>]
  BY DEF Init
<1>2. DOMAIN commands = {} /\ DOMAIN copies = {} /\ Buffers = {}
  BY <1>1 DEF Buffers
<1>3. \A t \in Callers :
        /\ call[t] = NoCall
        /\ outcomes[t] = <<>>
  BY <1>1
<1>4. ToSet(<<>>) = {}
  BY DEF ToSet
<1>5. IsInjective(<<>>)
  BY DEF IsInjective
<1>6. Types
  <2>1. NoCall \in CallRecords(DOMAIN copies, Buffers, DOMAIN commands)
    BY DEF NoCall, CallRecords, Pcs
  <2>2. call \in [Callers -> CallRecords(DOMAIN copies, Buffers, DOMAIN commands)]
    BY <1>1, <2>1
  <2>3. outcomes \in [Callers -> Seq(OutcomeRecords(DOMAIN commands))]
    BY <1>1
  <2>4. streams \in [StreamIds -> Seq(Ops)]
    BY <1>1
  <2>5. sizes \in Seq(Nat \ {0}) /\ copies \in Seq(CopyRecords)
    BY <1>1
  <2>6. commands \in Seq(CommandRecords(DOMAIN copies, Buffers))
    BY <1>1
  <2>7. pool \in [buffers : Seq(Buffers), bytes : Int, highWater : Int]
    BY <1>1
  <2>8. cache \in [entries : Seq(DOMAIN copies), bytes : Int]
    BY <1>1
  <2>9. lock \in Callers \cup {"free"} /\ freed \subseteq Buffers
    BY <1>1
  <2>10. QED
    BY <2>2, <2>3, <2>4, <2>5, <2>6, <2>7, <2>8, <2>9 DEF Types
<1>7. LockHeld
  <2>1. "free" \notin Callers
    BY SessionAssumption
  <2>2. \A t \in Callers : call[t].pc \notin Encoding
    BY <1>3 DEF NoCall, Encoding
  <2>3. QED
    BY <1>1, <2>1, <2>2 DEF LockHeld
<1>8. Progress
  BY <1>3 DEF Progress, ProgressOf, NoCall, Encoding, Waiting
<1>9. Pooled = {} /\ Cached = {} /\ \A t \in Callers : Taken(t) = {} /\ ToSet(call[t].copies) = {}
  BY <1>1, <1>3, <1>4 DEF Pooled, Cached, Taken, NoCall
<1>10. Placed
  <2>1. IsInjective(pool.buffers) /\ \A t \in Callers : IsInjective(call[t].scratch)
    BY <1>1, <1>3, <1>5 DEF NoCall
  <2>2. QED
    BY <1>1, <1>2, <1>9, <2>1 DEF Placed
<1>11. Exclusive
  BY <1>2 DEF Exclusive
<1>12. PoolBounded
  <2>1. BytesOf(pool.buffers) = 0
    <3>1. [k \in DOMAIN pool.buffers |-> sizes[pool.buffers[k]]] = <<>>
      BY <1>1
    <3>2. QED
      BY <3>1, TotalEmpty DEF BytesOf
  <2>2. PoolBytes \in Nat
    BY SessionAssumption
  <2>3. QED
    BY <1>1, <2>1, <2>2 DEF PoolBounded
<1>13. CacheBounded
  <2>1. CachedBytes(cache.entries) = 0
    <3>1. [k \in DOMAIN cache.entries |-> ArenaBytes[copies[cache.entries[k]].arena]] = <<>>
      BY <1>1
    <3>2. QED
      BY <3>1, TotalEmpty DEF CachedBytes
  <2>2. CacheBytes \in Nat /\ CacheEntries \in Nat
    BY SessionAssumption
  <2>3. /\ cache.bytes = 0 /\ cache.bytes <= CacheBytes
        /\ Len(cache.entries) <= CacheEntries
        /\ IsInjective(cache.entries)
    BY <1>1, <1>5, <2>2
  <2>4. \A t \in Callers : call[t].pc \notin {"copy", "insert"}
    BY <1>3 DEF NoCall
  <2>5. QED
    BY <1>9, <2>1, <2>3, <2>4 DEF CacheBounded
<1>14. Queues
  <2>1. \A s \in StreamIds : DOMAIN streams[s] = {}
    BY <1>1
  <2>2. QED
    BY <1>2, <1>9, <2>1 DEF Queues
<1>15. Settled
  <2>1. ASSUME NEW t \in Callers PROVE SettledOf(t) /\ OutcomesOf(t)
    <3>1. ToSet(call[t].issued) = {} /\ ToSet(call[t].submissions) = {} /\ call[t].pc = "idle"
      BY <1>3, <1>4 DEF NoCall
    <3>2. DOMAIN outcomes[t] = {}
      BY <1>3
    <3>3. QED
      BY <3>1, <3>2 DEF SettledOf, OutcomesOf
  <2>2. QED
    BY <2>1 DEF Settled
<1>16. QED
  BY <1>6, <1>7, <1>8, <1>10, <1>11, <1>12, <1>13, <1>14, <1>15 DEF IInv

\* The invariant holds in every state.
LEMMA Invariance == Spec => []IInv
<1>1. Init => IInv
  BY InitIInv
<1>2. IInv /\ [Next]_vars => IInv'
  BY TypesStep, LockHeldStep, ProgressStep, PoolStep, PlacedStep, ExclusiveStep, CacheStep,
     QueuesStep, SettledStep DEF IInv
<1>3. QED
  BY <1>1, <1>2, PTL DEF Spec

\* What the pool and the cache retain is bounded, and no arena is retained twice
\* for one stream.
LEMMA Retention ==
  ASSUME IInv
  PROVE  RetentionBounded
<1>1. Types /\ PoolBounded /\ CacheBounded
  BY DEF IInv
<1>2. ASSUME NEW j \in DOMAIN cache.entries, NEW k \in DOMAIN cache.entries, j # k
      PROVE  [copies[cache.entries[j]] EXCEPT !.done = TRUE]
               # [copies[cache.entries[k]] EXCEPT !.done = TRUE]
  <2>1. PICK e : e = cache.entries[j]
    OBVIOUS
  <2>2. PICK f : f = cache.entries[k]
    OBVIOUS
  <2>3. e \in Cached /\ f \in Cached
    BY <1>2, <2>1, <2>2 DEF Cached, ToSet
  <2>4. e # f
    BY <1>1, <1>2, <2>1, <2>2 DEF CacheBounded, IsInjective
  <2>5. copies[e].arena # copies[f].arena \/ copies[e].stream # copies[f].stream
    BY <1>1, <2>3, <2>4 DEF CacheBounded
  <2>6. copies[e] \in CopyRecords /\ copies[f] \in CopyRecords
    <3>1. cache.entries \in Seq(DOMAIN copies)
      BY <1>1 DEF Types
    <3>2. e \in DOMAIN copies /\ f \in DOMAIN copies
      BY <1>2, <2>1, <2>2, <3>1
    <3>3. QED
      BY <1>1, <3>2 DEF Types
  <2>7. \A x, y \in CopyRecords :
          x.arena # y.arena \/ x.stream # y.stream =>
            [x EXCEPT !.done = TRUE] # [y EXCEPT !.done = TRUE]
    <3>1. SUFFICES ASSUME NEW x \in CopyRecords, NEW y \in CopyRecords,
                          [x EXCEPT !.done = TRUE] = [y EXCEPT !.done = TRUE]
                   PROVE  x.arena = y.arena /\ x.stream = y.stream
      OBVIOUS
    <3>2. /\ [x EXCEPT !.done = TRUE].arena = x.arena
          /\ [x EXCEPT !.done = TRUE].stream = x.stream
          /\ [y EXCEPT !.done = TRUE].arena = y.arena
          /\ [y EXCEPT !.done = TRUE].stream = y.stream
      BY DEF CopyRecords
    <3>3. QED
      BY <3>1, <3>2
  <2>8. [copies[e] EXCEPT !.done = TRUE] # [copies[f] EXCEPT !.done = TRUE]
    BY <2>5, <2>6, <2>7
  <2>9. QED
    BY <2>1, <2>2, <2>8
<1>3. QED
  BY <1>1, <1>2 DEF RetentionBounded, PoolBounded, CacheBounded

\* Sets of at most one element.
LEMMA Counted ==
  ASSUME NEW S, \A x, y \in S : x = y
  PROVE  Cardinality(S) = IF S = {} THEN 0 ELSE 1
<1>1. CASE S = {}
  BY <1>1, FS_EmptySet
<1>2. CASE S # {}
  <2>1. PICK x : S = {x}
    BY <1>2
  <2>2. QED
    BY <1>2, <2>1, FS_Singleton
<1>3. QED
  BY <1>1, <1>2

\* Every scratch buffer is in exactly one place.
LEMMA Conserved ==
  ASSUME IInv
  PROVE  ScratchConserved
<1>1. Types /\ Placed
  BY DEF IInv
<1>2. SUFFICES ASSUME NEW b \in Buffers
               PROVE  Places(b) = 1
  BY DEF ScratchConserved
<1> DEFINE P == {k \in DOMAIN pool.buffers : pool.buffers[k] = b}
           T == {t \in Callers : b \in ToSet(call[t].scratch)}
           H == {c \in DOMAIN commands : b \in ToSet(commands[c].held)}
<1>3. \A x, y \in P : x = y
  BY <1>1 DEF Placed, IsInjective
<1>4. \A x, y \in T : x = y
  BY <1>1 DEF Placed, Taken
<1>5. \A x, y \in H : x = y
  BY <1>1 DEF Placed, Held
<1>6. P # {} <=> b \in Pooled
  BY DEF Pooled, ToSet
<1>7. T # {} <=> \E t \in Callers : b \in Taken(t)
  BY DEF Taken
<1>8. H # {} <=> \E c \in DOMAIN commands : b \in Held(c)
  BY DEF Held
<1>9. Places(b) = Cardinality(P) + Cardinality(T) + Cardinality(H) + (IF b \in freed THEN 1 ELSE 0)
  BY DEF Places
<1>10. /\ Cardinality(P) = IF P = {} THEN 0 ELSE 1
       /\ Cardinality(T) = IF T = {} THEN 0 ELSE 1
       /\ Cardinality(H) = IF H = {} THEN 0 ELSE 1
  <2> HIDE DEF P, T, H
  <2>1. QED
    BY <1>3, <1>4, <1>5, Counted
<1> HIDE DEF P, T, H
<1>11. P # {} \/ T # {} \/ H # {} \/ b \in freed
  BY <1>1, <1>6, <1>7, <1>8 DEF Placed
<1>12. /\ P # {} => T = {} /\ H = {} /\ b \notin freed
       /\ T # {} => H = {} /\ b \notin freed
       /\ H # {} => b \notin freed
  BY <1>1, <1>6, <1>7, <1>8 DEF Placed
<1>13. QED
  BY <1>9, <1>10, <1>11, <1>12

(***************************************************************************)
(* The session keeps its types and its bounds, and the submission lock is  *)
(* held by the one caller that encodes (encode_impl, CudaBufferPool and    *)
(* CudaUploadCache).                                                       *)
(***************************************************************************)
THEOREM Typed == Spec => []TypeOK
<1>1. IInv => TypeOK
  <2>1. SUFFICES ASSUME IInv
                 PROVE  TypeOK
    OBVIOUS
  <2>2. Types /\ LockHeld
    BY <2>1 DEF IInv
  <2>3. RetentionBounded
    BY <2>1, Retention
  <2>4. ASSUME NEW t \in Callers
        PROVE  /\ call[t].pc \in {"idle", "lock", "upload", "copy", "insert", "scratch",
                                  "submitted", "wait", "status", "recycle", "drop"}
               /\ lock = t <=> call[t].pc \in {"upload", "copy", "insert", "scratch"}
               /\ ToSet(call[t].scratch) \subseteq Buffers
               /\ ToSet(call[t].submissions) \subseteq DOMAIN commands
    <3>1. /\ call[t].pc \in Pcs
          /\ call[t].scratch \in Seq(Buffers)
          /\ call[t].submissions \in Seq(DOMAIN commands)
      BY <2>2, CallTyped
    <3>2. lock = t <=> call[t].pc \in Encoding
      BY <2>2 DEF LockHeld
    <3>3. \A S : \A q \in Seq(S) : ToSet(q) \subseteq S
      BY DEF ToSet
    <3>4. QED
      BY <3>1, <3>2, <3>3 DEF Pcs, Encoding, Waiting
  <2>5. ToSet(pool.buffers) \cup freed \subseteq Buffers /\ ToSet(cache.entries) \subseteq DOMAIN copies
    <3>1. pool.buffers \in Seq(Buffers) /\ cache.entries \in Seq(DOMAIN copies) /\ freed \subseteq Buffers
      BY <2>2 DEF Types
    <3>2. \A S : \A q \in Seq(S) : ToSet(q) \subseteq S
      BY DEF ToSet
    <3>3. QED
      BY <3>1, <3>2
  <2>6. lock \in Callers \cup {"free"}
    BY <2>2 DEF Types
  <2>7. QED
    BY <2>3, <2>4, <2>5, <2>6 DEF TypeOK
<1>2. QED
  BY <1>1, Invariance, PTL

(***************************************************************************)
(* Kernels that may still run never share scratch, and every buffer the    *)
(* pool allocated is retained, taken, held or freed exactly once, whatever *)
(* fails while plans are encoded (take, recycle and recycle_scratch).      *)
(***************************************************************************)
THEOREM ScratchIsExact == Spec => []ScratchExact
<1>1. IInv => ScratchExact
  <2>1. SUFFICES ASSUME IInv
                 PROVE  ScratchExact
    OBVIOUS
  <2>2. ScratchExclusive
    BY <2>1 DEF IInv, Exclusive, Used, Pooled, Taken, ScratchExclusive
  <2>3. QED
    BY <2>1, <2>2, Conserved DEF ScratchExact
<1>2. QED
  BY <1>1, Invariance, PTL

(***************************************************************************)
(* A plan never runs before the copies of its arenas, although what the    *)
(* cache finds may still be on its way (get_or_upload and encode_impl).    *)
(***************************************************************************)
THEOREM UploadsAreReady == Spec => []UploadsReady
<1>1. IInv => UploadsReady
  <2>1. SUFFICES ASSUME IInv, NEW s \in StreamIds, streams[s] # <<>>,
                        Head(streams[s]).kind = "run",
                        NEW k \in DOMAIN commands[Head(streams[s]).id].copies
                 PROVE  copies[commands[Head(streams[s]).id].copies[k]].done
    BY DEF UploadsReady
  <2>2. streams[s] \in Seq(Ops)
    BY <2>1 DEF IInv, Types
  <2>3. 1 \in DOMAIN streams[s] /\ Head(streams[s]) = streams[s][1]
    BY <2>1, <2>2
  <2>4. Ordered(s, 1)
    BY <2>1, <2>3 DEF IInv, Queues
  <2>5. PICK c : c = commands[streams[s][1].id].copies[k]
    OBVIOUS
  <2>6. c \in ToSet(commands[streams[s][1].id].copies)
    BY <2>1, <2>3, <2>5 DEF ToSet
  <2>7. copies[c].done \/ \E j \in 1..1 - 1 : streams[s][j] = CopyOp(c)
    BY <2>1, <2>3, <2>4, <2>6 DEF Ordered
  <2>8. QED
    BY SMTT(30), <2>3, <2>5, <2>7
<1>2. QED
  BY <1>1, Invariance, PTL

(***************************************************************************)
(* A call that returned left nothing running, and it returned a result     *)
(* only when each of its plans completed without a failure (complete,      *)
(* recycle_scratch and the drop of a pending batch).                       *)
(***************************************************************************)
THEOREM ReturnsAreSettled == Spec => []ReturnsSettled
<1>1. IInv => ReturnsSettled
  BY Zenon DEF IInv, Settled, OutcomesOf, ReturnsSettled
<1>2. QED
  BY <1>1, Invariance, PTL
=============================================================================
