-------------------------- MODULE MetalSessionProofs --------------------------
(***************************************************************************)
(* Proofs about MetalSession for any plans, limits, budgets and queues:    *)
(* whatever calls come and however commands end, buffers of scratch,       *)
(* outputs and images have one user each, and the images encoded together  *)
(* keep to the budget of scratch.                                          *)
(*                                                                         *)
(* A buffer is a number, and the session only knows which list it is in.   *)
(* What makes the lists disjoint is an account of owners (Safe): every     *)
(* buffer is in a pool, released, of one pending batch, of the call, or of *)
(* one image that is handed out, and a command that runs uses buffers of   *)
(* its own submissions alone.  Each step of the session moves buffers from *)
(* one owner to another: there is a lemma per way of moving them, then one *)
(* per action.                                                             *)
(***************************************************************************)
EXTENDS MetalSession, SequenceLemmas, FiniteSetTheorems

-----------------------------------------------------------------------------
(***************************************************************************)
(* The inductive invariant.                                                *)
(***************************************************************************)
\* The types of the session's state.
Names    == DOMAIN Plans
Subs     == [command : Nat, image : Nat, private : Seq(Nat), shared : Seq(Nat)]
Pools    == [entries : Seq(Nat), bytes : Int]
Memories == [private : Pools, shared : Pools, sizes : Seq(Nat), released : SUBSET Nat]
Entries  == [address : Addresses, version : Nat]
Calls    == [kind : {"none", "batch", "dense", "shared"}, plans : Seq(Names)]
Pictures == [plan : Names, status : Nat, slot : Nat, source : Seq(Nat), truth : Seq(Nat), output : Nat]
Commands == [images : Seq(Pictures), scratch : SUBSET Nat, state : {"running", "done", "failed"}, bad : SUBSET Nat]
Shared   == [plan : Names, truth : Seq(Nat), buffer : Nat]
Hosts    == [step : {"idle", "group", "encode", "wait", "drop"}, request : Calls,
             groups : Seq(Seq(Seq(Names))), todo : Seq(Seq(Names)), outputs : Seq(Nat),
             encoded : Seq(Seq(Subs)), submissions : Seq(Subs), got : Seq(Pictures), images : Seq(Shared)]

\* A batch that is handed over; a call for shared images is not.
Handed   == [request : {r \in Calls : r.kind # "shared"}, submissions : Seq(Subs)]

\* The uploads an entry stands for are those of the arena at its address.
Cached(entries) == \A k \in 1..Len(entries) : entries[k].version = arenas[entries[k].address]

\* The buffers of a submission, the submissions of the call, the commands that run
\* and what each of them uses.
Own(s) == ToSet(s.private) \cup ToSet(s.shared)
MineOf(h) == h.submissions \o FlattenSeq(h.encoded)
RunningOf(cs) == {c \in DOMAIN cs : cs[c].state = "running"}
UseOf(cs, c) == cs[c].scratch \cup ({cs[c].images[k].output : k \in DOMAIN cs[c].images} \ {0})

\* A buffer is in one pool, or released, or in use.
PooledOf(m) == ToSet(m.private.entries) \cup ToSet(m.shared.entries)
Well(m) ==
  /\ IsInjective(m.private.entries) /\ IsInjective(m.shared.entries)
  /\ ToSet(m.private.entries) \cap ToSet(m.shared.entries) = {}
  /\ PooledOf(m) \cap m.released = {}
  /\ PooledOf(m) \cup m.released \subseteq DOMAIN m.sizes

\* No two submissions have a buffer in common, and none has one twice.
Apart(subs) ==
  /\ \A k \in DOMAIN subs :
       /\ IsInjective(subs[k].private) /\ IsInjective(subs[k].shared)
       /\ ToSet(subs[k].private) \cap ToSet(subs[k].shared) = {}
  /\ \A j, k \in DOMAIN subs : j # k => Own(subs[j]) \cap Own(subs[k]) = {}

\* Who owns buffers: batches handed out (P), submissions of the call (M), its
\* outputs (O) and images (H), images handed out (C).
BatchBuffers(P) == UNION {Scratches(P[k].submissions) : k \in DOMAIN P}
HostBuffers(H)  == {H[k].buffer : k \in DOMAIN H}
ImageBuffers(C) == {i.buffer : i \in C}
Pairwise(v, w, x, y, z) ==
  /\ v \cap w = {} /\ v \cap x = {} /\ v \cap y = {} /\ v \cap z = {}
  /\ w \cap x = {} /\ w \cap y = {} /\ w \cap z = {}
  /\ x \cap y = {} /\ x \cap z = {} /\ y \cap z = {}
Batches(P) ==
  /\ \A k \in DOMAIN P : Apart(P[k].submissions)
  /\ \A j, k \in DOMAIN P : j # k => Scratches(P[j].submissions) \cap Scratches(P[k].submissions) = {}
Distinct(H) == \A j, k \in DOMAIN H : j # k => H[j].buffer # H[k].buffer
Owners(P, M, O, H, C) ==
  /\ Batches(P) /\ Apart(M) /\ IsInjective(O) /\ Distinct(H)
  /\ \A i, j \in C : i # j => i.buffer # j.buffer
  /\ Pairwise(BatchBuffers(P), Scratches(M), ToSet(O), HostBuffers(H), ImageBuffers(C))
Owning(P, M, O, H, C) ==
  BatchBuffers(P) \cup Scratches(M) \cup ToSet(O) \cup HostBuffers(H) \cup ImageBuffers(C)
Free(m, W) == W \cap (PooledOf(m) \cup m.released) = {} /\ W \subseteq DOMAIN m.sizes

\* What the command c uses, U, is part of submissions of c alone.
Clear(subs, c, U) == \A j \in DOMAIN subs : subs[j].command # c => Own(subs[j]) \cap U = {}
Uses(c, U, P, M, H, C, pooled) ==
  /\ U \cap (pooled \cup HostBuffers(H) \cup ImageBuffers(C)) = {}
  /\ \A k \in DOMAIN P : Clear(P[k].submissions, c, U)
  /\ Clear(M, c, U)
\* An output it uses is that of a submission of c that is not waited for yet.
OutputsUsed(c, U, O, g, M) ==
  \A k \in DOMAIN O : O[k] \in U => k > g /\ k - g \in DOMAIN M /\ M[k - g].command = c
OutputsOf(h, c, U) ==
  h.step \in {"encode", "wait"} => OutputsUsed(c, U, h.outputs, Len(h.got), MineOf(h))
UsersApart(m, cs, h, P, C) ==
  \A c \in RunningOf(cs) :
    /\ UseOf(cs, c) \subseteq DOMAIN m.sizes
    /\ \A d \in RunningOf(cs) : c # d => UseOf(cs, c) \cap UseOf(cs, d) = {}
    /\ Uses(c, UseOf(cs, c), P, MineOf(h), h.images, C, PooledOf(m))
    /\ OutputsOf(h, c, UseOf(cs, c))

\* Submissions are of images that commands encode.
Known(cs, subs) ==
  \A k \in DOMAIN subs : subs[k].command \in DOMAIN cs /\ subs[k].image \in DOMAIN cs[subs[k].command].images

\* What the call has at each step.
Shape(h) ==
  /\ h.step = "idle" => h = Idle
  /\ h.step = "encode" => h.groups # <<>>
  /\ h.step # "encode" => h.encoded = <<>>
  /\ h.step = "group" => h.outputs = <<>>
  /\ h.step \in {"group", "encode"} => h.got = <<>>
  /\ h.request.kind # "shared" => h.outputs = <<>>
  /\ h.step \in {"group", "encode"} /\ h.request.kind = "shared" => h.submissions = <<>>
  /\ h.step = "encode" /\ h.request.kind = "shared" =>
        Len(h.outputs) = Len(MineOf(h)) + Len(FlattenSeq(h.todo))
  /\ h.step = "wait" /\ h.request.kind = "shared" =>
        Len(h.got) + Len(MineOf(h)) = Len(h.outputs)

Typed(m, cs, h, P, C) ==
  m \in Memories /\ cs \in Seq(Commands) /\ h \in Hosts /\ P \in Seq(Handed) /\ C \in SUBSET Shared
OwnersOf(h, P, C) == Owners(P, MineOf(h), h.outputs, h.images, C)
OwningOf(h, P, C) == Owning(P, MineOf(h), h.outputs, h.images, C)
KnownOf(cs, h, P) == Known(cs, MineOf(h)) /\ \A k \in DOMAIN P : Known(cs, P[k].submissions)
Safe(m, cs, h, P, C) ==
  /\ Typed(m, cs, h, P, C) /\ Well(m)
  /\ OwnersOf(h, P, C) /\ Free(m, OwningOf(h, P, C))
  /\ UsersApart(m, cs, h, P, C) /\ KnownOf(cs, h, P)
  /\ Shape(h)

IInv ==
  /\ arenas \in [Addresses -> Nat]
  /\ cache \in [entries : Seq(Entries), bytes : Int] /\ Cached(cache.entries)
  /\ Safe(memory, commands, host, pending, images)

-----------------------------------------------------------------------------
(***************************************************************************)
(* Taking buffers.                                                         *)
(***************************************************************************)
Requested == [kind : {"private", "shared"}, size : Nat]
Takings == [private : Pools, shared : Pools, sizes : Seq(Nat), released : SUBSET Nat, taken : Seq(Nat)]

\* FoldLeft takes a buffer per request.
TakesIn(M) == \A m \in M : \A r \in Requested : Take(m, r) \in M
TakesTo(h, base, s) ==
  /\ h[0] = base /\ h[Len(s)] = FoldLeft(Take, base, s)
  /\ \A k \in 1..Len(s) : h[k] = Take(h[k - 1], s[k])

\* Folding Take over requests is taking buffers one after another.
LEMMA TakeFold ==
  ASSUME NEW M, NEW base \in M, NEW s \in Seq(Requested), TakesIn(M)
  PROVE  \E h : TakesTo(h, base, s)
<1> DEFINE step == [x \in M \X Requested |-> Take(x[1], x[2])]
<1>1. /\ DOMAIN s = 1..Len(s) /\ Len(s) \in Nat /\ 1..0 = {}
      /\ \A T \in SUBSET DOMAIN s : T # {} => s[Max(T)] \in Requested
      /\ \A k \in 1..Len(s) : /\ 1..k \in SUBSET DOMAIN s /\ 1..k # {} /\ k - 1 \in 0..Len(s)
                              /\ Max(1..k) = k /\ (1..k) \ {k} = 1..k - 1
  BY FoldPrefixes
<1>2. step \in [M \X Requested -> M] /\ \A m \in M : \A r \in Requested : step[<<m, r>>] = Take(m, r)
  BY DEF TakesIn
<1>3. PICK g \in [SUBSET (1..Len(s)) -> M] : Folds(g, base, step, s, Len(s))
  <2> HIDE DEF step
  <2>1. QED
    BY <1>2, FoldExists
<1> HIDE DEF step
<1>4. g = [T \in SUBSET (DOMAIN s) |-> IF T = {} THEN base ELSE Take(g[T \ {Max(T)}], s[Max(T)])]
  <2>1. \A T \in SUBSET DOMAIN s : g[T] \in M /\ T \ {Max(T)} \in SUBSET DOMAIN s
    BY <1>1, <1>3
  <2>2. \A T \in SUBSET DOMAIN s : T # {} =>
          step[<<g[T \ {Max(T)}], s[Max(T)]>>] = Take(g[T \ {Max(T)}], s[Max(T)])
    BY <1>1, <1>2, <2>1
  <2>3. QED
    BY <1>1, <1>3, <2>2 DEF Folds
<1>5. PICK f : /\ f[DOMAIN s] = FoldLeft(Take, base, s)
               /\ f = [T \in SUBSET (DOMAIN s) |-> IF T = {} THEN base ELSE Take(f[T \ {Max(T)}], s[Max(T)])]
  BY <1>4, Zenon DEF FoldLeft, MapThenFoldSet
<1> DEFINE h == [k \in 0..Len(s) |-> f[1..k]]
<1>6. h[0] = base /\ h[Len(s)] = FoldLeft(Take, base, s)
  <2>1. h[0] = f[1..0] /\ h[Len(s)] = f[1..Len(s)]
    BY <1>1
  <2>2. f[{}] = base
    BY <1>5
  <2>3. QED
    BY <1>1, <1>5, <2>1, <2>2
<1>7. \A k \in 1..Len(s) : h[k] = Take(h[k - 1], s[k])
  <2>1. SUFFICES ASSUME NEW k \in 1..Len(s)
                 PROVE  h[k] = Take(h[k - 1], s[k])
    OBVIOUS
  <2>2. f[1..k] = Take(f[(1..k) \ {Max(1..k)}], s[Max(1..k)])
    BY <1>1, <1>5, Zenon
  <2>3. f[1..k] = Take(f[1..k - 1], s[k])
    BY <1>1, <2>2, Zenon
  <2>4. h[k] = f[1..k] /\ h[k - 1] = f[1..k - 1]
    BY <1>1
  <2>5. QED
    BY <2>3, <2>4
<1> HIDE DEF h
<1>8. QED
  BY <1>6, <1>7 DEF TakesTo

\* What k requests leave of a memory: the buffers taken were in a pool or are new,
\* and are in no pool any more.
Taken(m0, m, k) ==
  /\ m \in Takings /\ Well(m) /\ m.released = m0.released
  /\ Len(m.sizes) >= Len(m0.sizes) /\ \A i \in 1..Len(m0.sizes) : m.sizes[i] = m0.sizes[i]
  /\ Len(m.taken) = k /\ IsInjective(m.taken)
  /\ ToSet(m.taken) \cap (PooledOf(m) \cup m.released) = {}
  /\ PooledOf(m) \cup ToSet(m.taken) = PooledOf(m0) \cup (Len(m0.sizes) + 1..Len(m.sizes))

\* A memory and the one a request leaves, field by field.
Takes(m, n, pn, sn, zn, b, size, q, o, qn) ==
  /\ pn \in Pools /\ sn \in Pools /\ zn \in Seq(Nat) /\ b \in Nat
  /\ q \in Seq(Nat) /\ o \in Seq(Nat) /\ qn \in Seq(Nat)
  /\ n = [private |-> pn, shared |-> sn, sizes |-> zn, released |-> m.released, taken |-> Append(m.taken, b)]
  /\ \/ m.private.entries = q /\ m.shared.entries = o /\ pn.entries = qn /\ sn.entries = o
     \/ m.shared.entries = q /\ m.private.entries = o /\ sn.entries = qn /\ pn.entries = o
  /\ IsInjective(qn) /\ ToSet(qn) \subseteq ToSet(q) /\ b \notin ToSet(qn)
  /\ Len(zn) >= Len(m.sizes) /\ (\A i \in 1..Len(m.sizes) : zn[i] = m.sizes[i]) /\ zn[b] = size
  /\ \/ Len(zn) = Len(m.sizes) /\ b \in ToSet(q) /\ ToSet(q) = ToSet(qn) \cup {b}
     \/ Len(zn) = Len(m.sizes) + 1 /\ b = Len(zn) /\ qn = q
\* One more buffer was taken, of the size that was asked for.
TakenMore(m0, m, n, k, size) ==
  /\ Taken(m0, n, k + 1) /\ n.sizes[n.taken[k + 1]] = size
  /\ \A i \in 1..k : n.taken[i] = m.taken[i]
  /\ Len(n.sizes) >= Len(m.sizes)
  /\ \A i \in 1..Len(m.sizes) : n.sizes[i] = m.sizes[i]

\* A request more takes a buffer that nobody has.
LEMMA TakenFrom ==
  ASSUME NEW m0 \in Memories, Well(m0), NEW k \in Nat, NEW m, Taken(m0, m, k), NEW n,
         NEW pn, NEW sn, NEW zn, NEW b, NEW size, NEW q, NEW o, NEW qn,
         Takes(m, n, pn, sn, zn, b, size, q, o, qn)
  PROVE  TakenMore(m0, m, n, k, size)
<1>1. PICK sz, rl, tk, z0, P0, P :
        /\ sz = m.sizes /\ rl = m.released /\ tk = m.taken
        /\ z0 = Len(m0.sizes) /\ P0 = PooledOf(m0) /\ P = PooledOf(m)
  OBVIOUS
<1>A. /\ pn \in Pools /\ sn \in Pools /\ zn \in Seq(Nat) /\ b \in Nat
      /\ q \in Seq(Nat) /\ o \in Seq(Nat) /\ qn \in Seq(Nat)
      /\ n = [private |-> pn, shared |-> sn, sizes |-> zn, released |-> rl, taken |-> Append(tk, b)]
  BY <1>1, Zenon DEF Takes
<1>B. \/ m.private.entries = q /\ m.shared.entries = o /\ pn.entries = qn /\ sn.entries = o
      \/ m.shared.entries = q /\ m.private.entries = o /\ sn.entries = qn /\ pn.entries = o
  BY Zenon DEF Takes
<1>C. /\ IsInjective(qn) /\ ToSet(qn) \subseteq ToSet(q) /\ b \notin ToSet(qn)
      /\ Len(zn) >= Len(sz) /\ (\A i \in 1..Len(sz) : zn[i] = sz[i]) /\ zn[b] = size
  BY <1>1, Zenon DEF Takes
<1>D. \/ Len(zn) = Len(sz) /\ b \in ToSet(q) /\ ToSet(q) = ToSet(qn) \cup {b}
      \/ Len(zn) = Len(sz) + 1 /\ b = Len(zn) /\ qn = q
  BY <1>1, Zenon DEF Takes
<1>2. sz \in Seq(Nat) /\ rl \in SUBSET Nat /\ tk \in Seq(Nat) /\ z0 \in Nat
  <2>1. m.sizes \in Seq(Nat) /\ m.released \in SUBSET Nat /\ m.taken \in Seq(Nat)
    BY DEF Taken, Takings
  <2>2. Len(m0.sizes) \in Nat
    BY DEF Memories
  <2>3. QED
    BY <1>1, <2>1, <2>2, Zenon
<1>3. /\ Len(sz) \in Nat /\ DOMAIN sz = 1..Len(sz) /\ Len(tk) = k /\ Len(sz) >= z0
      /\ IsInjective(tk) /\ ToSet(tk) \cap (P \cup rl) = {}
      /\ P \cup ToSet(tk) = P0 \cup (z0 + 1..Len(sz))
      /\ P \cap rl = {} /\ P \cup rl \subseteq 1..Len(sz) /\ P0 \subseteq 1..z0
      /\ rl = m0.released /\ \A i \in 1..z0 : sz[i] = m0.sizes[i]
  <2>1. /\ ToSet(m.taken) \cap (PooledOf(m) \cup m.released) = {} /\ IsInjective(m.taken)
        /\ PooledOf(m) \cup ToSet(m.taken) = PooledOf(m0) \cup (Len(m0.sizes) + 1..Len(m.sizes))
        /\ Len(m.taken) = k /\ Len(m.sizes) >= Len(m0.sizes) /\ m.released = m0.released
        /\ \A i \in 1..Len(m0.sizes) : m.sizes[i] = m0.sizes[i]
    BY DEF Taken
  <2>2. PooledOf(m) \cap m.released = {} /\ PooledOf(m) \cup m.released \subseteq DOMAIN m.sizes
    BY DEF Taken, Well
  <2>3. PooledOf(m0) \subseteq DOMAIN m0.sizes /\ DOMAIN m0.sizes = 1..Len(m0.sizes)
    BY DEF Well, Memories
  <2>4. Len(sz) \in Nat /\ DOMAIN sz = 1..Len(sz)
    BY <1>2
  <2>5. QED
    BY <1>1, <2>1, <2>2, <2>3, <2>4, Zenon
<1> DEFINE z == Len(sz)
<1>0. z \in Nat /\ z >= z0 /\ Len(tk) = k /\ z0 \in Nat
  BY <1>2, <1>3
<1>4. P = ToSet(q) \cup ToSet(o) /\ IsInjective(q) /\ IsInjective(o) /\ ToSet(q) \cap ToSet(o) = {}
  <2>1. Well(m)
    BY DEF Taken
  <2>2. QED
    BY <1>1, <1>B, <2>1, Zenon DEF Well, PooledOf
<1>5. n.private = pn /\ n.shared = sn /\ n.sizes = zn /\ n.released = rl /\ n.taken = Append(tk, b)
  BY <1>A
<1>6. n \in Takings
  <2>1. Append(tk, b) \in Seq(Nat)
    BY <1>2, <1>A
  <2>2. QED
    BY <1>2, <1>A, <2>1 DEF Takings
<1>7. PooledOf(n) = ToSet(qn) \cup ToSet(o)
  BY <1>5, <1>B DEF PooledOf
<1>8. DOMAIN zn = 1..Len(zn) /\ Len(zn) \in Nat
  BY <1>A
<1> HIDE DEF z
<1>9. b \notin ToSet(tk) \cup rl \cup ToSet(qn) \cup ToSet(o)
  <2>1. CASE b \in ToSet(q)
    BY <1>3, <1>4, <1>C, <2>1
  <2>2. CASE Len(zn) = z + 1 /\ b = Len(zn)
    <3>1. P0 \subseteq 1..z0 /\ P \cup ToSet(tk) = P0 \cup (z0 + 1..z) /\ P \cup rl \subseteq 1..z
      BY <1>3 DEF z
    <3>2. b \notin 1..z /\ b \notin 1..z0 /\ b \notin z0 + 1..z
      BY <1>0, <2>2
    <3>3. QED
      BY <1>4, <1>C, <3>1, <3>2
  <2>3. QED
    BY <1>D, <2>1, <2>2 DEF z
<1>10. ToSet(qn) \cup ToSet(o) \cup {b} = P \cup (z + 1..Len(zn))
  <2>1. CASE Len(zn) = z /\ ToSet(q) = ToSet(qn) \cup {b}
    <3>1. z + 1..Len(zn) = {}
      BY <1>0, <2>1
    <3>2. QED
      BY <1>4, <2>1, <3>1
  <2>2. CASE Len(zn) = z + 1 /\ b = Len(zn) /\ qn = q
    <3>1. z + 1..Len(zn) = {b}
      BY <1>0, <2>2
    <3>2. QED
      BY <1>4, <2>2, <3>1
  <2>3. QED
    BY <1>D, <2>1, <2>2 DEF z
<1>11. Well(n)
  <2>1. ToSet(qn) \cap ToSet(o) = {} /\ (ToSet(qn) \cup ToSet(o)) \cap rl = {}
    BY <1>3, <1>4, <1>C
  <2>2. ToSet(qn) \cup ToSet(o) \cup rl \subseteq 1..Len(zn)
    <3>1. Len(zn) >= z
      BY <1>C DEF z
    <3>2. 1..z \subseteq 1..Len(zn)
      BY <1>0, <1>8, <3>1
    <3>3. QED
      BY <1>3, <1>4, <1>C, <3>2 DEF z
  <2>3. PooledOf(n) \cap n.released = {} /\ PooledOf(n) \cup n.released \subseteq DOMAIN n.sizes
    BY <1>5, <1>7, <1>8, <2>1, <2>2, Zenon
  <2>4. IsInjective(n.private.entries) /\ IsInjective(n.shared.entries)
    BY <1>4, <1>5, <1>B, <1>C, Zenon
  <2>5. ToSet(n.private.entries) \cap ToSet(n.shared.entries) = {}
    BY <1>5, <1>B, <2>1
  <2>6. QED
    BY <2>3, <2>4, <2>5 DEF Well
<1>12. /\ Append(tk, b) \in Seq(Nat) /\ Len(Append(tk, b)) = k + 1
       /\ Append(tk, b)[k + 1] = b /\ \A i \in 1..k : Append(tk, b)[i] = tk[i]
  <2>1. tk \in Seq(Nat) /\ b \in Nat
    BY <1>2, <1>A
  <2>2. QED
    BY <1>0, <2>1
<1>13. ToSet(Append(tk, b)) = ToSet(tk) \cup {b} /\ IsInjective(Append(tk, b))
  BY <1>2, <1>3, <1>9, <1>A, AppendSet
<1>14. ToSet(Append(tk, b)) \cap (PooledOf(n) \cup rl) = {}
  <2>1. ToSet(qn) \cup ToSet(o) \subseteq P
    BY <1>4, <1>C
  <2>2. QED
    BY <1>3, <1>7, <1>9, <1>13, <2>1
<1>15. PooledOf(n) \cup ToSet(Append(tk, b)) = P0 \cup (z0 + 1..Len(zn))
  <2>1. Len(zn) >= z
    BY <1>C DEF z
  <2>2. (z0 + 1..z) \cup (z + 1..Len(zn)) = z0 + 1..Len(zn)
    BY <1>0, <1>8, <2>1
  <2>3. PooledOf(n) \cup ToSet(Append(tk, b)) = P \cup ToSet(tk) \cup (z + 1..Len(zn))
    BY <1>7, <1>10, <1>13
  <2>4. P \cup ToSet(tk) = P0 \cup (z0 + 1..z)
    BY <1>3 DEF z
  <2>5. QED
    BY <2>2, <2>3, <2>4
<1>16. Len(zn) >= z0 /\ \A i \in 1..z0 : zn[i] = m0.sizes[i]
  <2>1. Len(zn) >= z /\ (\A i \in 1..z : zn[i] = sz[i]) /\ \A i \in 1..z0 : sz[i] = m0.sizes[i]
    BY <1>3, <1>C DEF z
  <2>2. QED
    BY <1>0, <1>8, <2>1
<1>17. Taken(m0, n, k + 1)
  BY <1>1, <1>3, <1>5, <1>6, <1>11, <1>12, <1>13, <1>14, <1>15, <1>16, Zenon DEF Taken
<1>18. QED
  BY <1>1, <1>5, <1>12, <1>17, <1>C, Zenon DEF TakenMore

\* One request takes one buffer.
LEMMA TakeStep ==
  ASSUME NEW m0 \in Memories, Well(m0), NEW k \in Nat, NEW m, Taken(m0, m, k), NEW r \in Requested
  PROVE  TakenMore(m0, m, Take(m, r), k, r.size)
<1> DEFINE fits == {j \in DOMAIN m[r.kind].entries : m.sizes[m[r.kind].entries[j]] = r.size}
           hit  == CHOOSE j \in fits : \A i \in fits : j <= i
           n    == Take(m, r)
<1>1. n = IF fits # {}
          THEN [m EXCEPT ![r.kind] = [entries |-> RemoveAt(@.entries, hit), bytes |-> @.bytes - r.size],
                         !.taken = Append(@, m[r.kind].entries[hit])]
          ELSE [m EXCEPT !.sizes = Append(@, r.size), !.taken = Append(@, Len(m.sizes) + 1)]
  BY DEF Take
<1>2. PICK kind, size : kind = r.kind /\ size = r.size /\ kind \in {"private", "shared"} /\ size \in Nat
  BY DEF Requested
<1>3. PICK ff, hh : ff = fits /\ hh = hit
  OBVIOUS
<1>4. hh = CHOOSE j \in ff : \A i \in ff : j <= i
  BY <1>3
<1>5. PICK pr, sh, sz, rl, tk :
        /\ m = [private |-> pr, shared |-> sh, sizes |-> sz, released |-> rl, taken |-> tk]
        /\ pr \in Pools /\ sh \in Pools /\ sz \in Seq(Nat) /\ rl \in SUBSET Nat /\ tk \in Seq(Nat)
  BY DEF Taken, Takings
<1>6. PICK pool, other : IF kind = "private" THEN pool = pr /\ other = sh ELSE pool = sh /\ other = pr
  OBVIOUS
<1>7. PICK q, bytes : pool = [entries |-> q, bytes |-> bytes] /\ q \in Seq(Nat) /\ bytes \in Int
  BY <1>5, <1>6 DEF Pools
<1>8. PICK o : o = other.entries /\ o \in Seq(Nat)
  BY <1>5, <1>6 DEF Pools
<1>9. /\ m[r.kind] = pool /\ m.sizes = sz /\ m.released = rl /\ m.taken = tk
      /\ m.private = pr /\ m.shared = sh /\ m[r.kind].entries = q /\ m[r.kind].bytes = bytes
  BY <1>2, <1>5, <1>6, <1>7
<1>10. ff = {j \in DOMAIN q : sz[q[j]] = size}
  BY <1>2, <1>3, <1>9
<1>11. IsInjective(q)
  <2>1. Well(m)
    BY DEF Taken
  <2>2. QED
    BY <1>6, <1>7, <1>9, <2>1 DEF Well
<1>12. n = IF ff # {}
           THEN [m EXCEPT ![kind] = [entries |-> RemoveAt(q, hh), bytes |-> bytes - size], !.taken = Append(tk, q[hh])]
           ELSE [m EXCEPT !.sizes = Append(sz, size), !.taken = Append(tk, Len(sz) + 1)]
  <2> HIDE DEF n, fits, hit
  <2>1. QED
    BY <1>1, <1>2, <1>3, <1>9
<1> HIDE DEF n, fits, hit
<1>13. CASE ff # {}
  <2>1. /\ hh \in 1..Len(q) /\ sz[q[hh]] = size /\ q[hh] \in ToSet(q) /\ q[hh] \in Nat
        /\ RemoveAt(q, hh) \in Seq(Nat) /\ IsInjective(RemoveAt(q, hh))
        /\ ToSet(RemoveAt(q, hh)) = ToSet(q) \ {q[hh]}
    <3>1. DOMAIN q = 1..Len(q) /\ Len(q) \in Nat
      BY <1>7
    <3>2. ff \in SUBSET Nat
      BY <1>10, <3>1
    <3>3. \E j \in ff : \A i \in ff : j <= i
      BY <1>13, <3>2, LeastElement
    <3>4. hh \in ff
      BY <1>4, <3>3, Zenon
    <3>5. hh \in 1..Len(q) /\ sz[q[hh]] = size
      BY <1>10, <3>1, <3>4
    <3>6. q[hh] \in Nat /\ q[hh] \in ToSet(q)
      BY <1>7, <3>1, <3>5, ElementOfSeq DEF ToSet
    <3>7. QED
      BY <1>7, <1>11, <3>5, <3>6, Removed, RemovedSet
  <2>2. PICK qn, b, p : qn = RemoveAt(q, hh) /\ b = q[hh] /\ p = [entries |-> qn, bytes |-> bytes - size]
    OBVIOUS
  <2>3. p \in Pools /\ p.entries = qn /\ b \in Nat /\ qn \in Seq(Nat) /\ IsInjective(qn) /\ sz[b] = size
    BY <1>2, <1>7, <2>1, <2>2 DEF Pools
  <2>4. ToSet(qn) \subseteq ToSet(q) /\ b \notin ToSet(qn) /\ b \in ToSet(q) /\ ToSet(q) = ToSet(qn) \cup {b}
    BY <2>1, <2>2
  <2>5. n = [m EXCEPT ![kind] = p, !.taken = Append(tk, b)]
    BY <1>12, <1>13, <2>2
  <2>6. PICK pn, sn : IF kind = "private" THEN pn = p /\ sn = sh ELSE sn = p /\ pn = pr
    OBVIOUS
  <2>7. n = [private |-> pn, shared |-> sn, sizes |-> sz, released |-> rl, taken |-> Append(tk, b)]
    <3>1. CASE kind = "private"
      BY <1>5, <2>5, <2>6, <3>1
    <3>2. CASE kind = "shared"
      BY <1>5, <2>5, <2>6, <3>2
    <3>3. QED
      BY <1>2, <3>1, <3>2
  <2>8. pn \in Pools /\ sn \in Pools
    BY <1>5, <2>3, <2>6
  <2>9. \/ m.private.entries = q /\ m.shared.entries = o /\ pn.entries = qn /\ sn.entries = o
        \/ m.shared.entries = q /\ m.private.entries = o /\ sn.entries = qn /\ pn.entries = o
    BY <1>6, <1>7, <1>8, <1>9, <2>3, <2>6
  <2>10. /\ Len(sz) >= Len(m.sizes) /\ Len(sz) \in Nat /\ Len(sz) = Len(m.sizes)
         /\ \A i \in 1..Len(m.sizes) : sz[i] = m.sizes[i]
         /\ n = [private |-> pn, shared |-> sn, sizes |-> sz, released |-> m.released, taken |-> Append(m.taken, b)]
    BY <1>5, <1>9, <2>7
  <2>11. TakenMore(m0, m, n, k, size)
    <3>1. Takes(m, n, pn, sn, sz, b, size, q, o, qn)
      BY <1>5, <1>7, <1>8, <2>3, <2>4, <2>8, <2>9, <2>10, Zenon DEF Takes
    <3>2. QED
      BY <3>1, TakenFrom, Zenon
  <2>12. QED
    BY <1>2, <2>11 DEF n
<1>14. CASE ff = {}
  <2>1. PICK zn, b : zn = Append(sz, size) /\ b = Len(sz) + 1
    OBVIOUS
  <2>2. /\ b \in Nat /\ zn \in Seq(Nat) /\ Len(zn) = b /\ zn[b] = size /\ \A i \in 1..Len(sz) : zn[i] = sz[i]
        /\ Len(zn) >= Len(sz) /\ Len(zn) = Len(sz) + 1 /\ b \notin 1..Len(sz) /\ DOMAIN sz = 1..Len(sz)
    BY <1>2, <1>5, <2>1
  <2>3. n = [private |-> pr, shared |-> sh, sizes |-> zn, released |-> rl, taken |-> Append(tk, b)]
    BY <1>5, <1>12, <1>14, <2>1
  <2>4. b \notin ToSet(q)
    <3>1. PooledOf(m) \subseteq DOMAIN sz
      BY <1>9 DEF Taken, Well
    <3>2. ToSet(q) \subseteq PooledOf(m)
      BY <1>6, <1>7, <1>9 DEF PooledOf
    <3>3. QED
      BY <2>2, <3>1, <3>2
  <2>5. \/ m.private.entries = q /\ m.shared.entries = o /\ pr.entries = q /\ sh.entries = o
        \/ m.shared.entries = q /\ m.private.entries = o /\ sh.entries = q /\ pr.entries = o
    BY <1>6, <1>7, <1>8, <1>9
  <2>8. /\ \A i \in 1..Len(m.sizes) : zn[i] = m.sizes[i]
        /\ n = [private |-> pr, shared |-> sh, sizes |-> zn, released |-> m.released, taken |-> Append(m.taken, b)]
        /\ Len(zn) >= Len(m.sizes) /\ Len(zn) = Len(m.sizes) + 1 /\ ToSet(q) \subseteq ToSet(q)
    BY <1>9, <2>2, <2>3
  <2>6. TakenMore(m0, m, n, k, size)
    <3>1. Takes(m, n, pr, sh, zn, b, size, q, o, q)
      BY <1>5, <1>7, <1>8, <1>11, <2>2, <2>4, <2>5, <2>8, Zenon DEF Takes
    <3>2. QED
      BY <3>1, TakenFrom, Zenon
  <2>7. QED
    BY <1>2, <2>6 DEF n
<1>15. QED
  BY <1>13, <1>14

\* What a sequence of requests leaves of a memory.
TakeFrom(m, requests) ==
  FoldLeft(Take, [private |-> m.private, shared |-> m.shared, sizes |-> m.sizes,
                  released |-> m.released, taken |-> <<>>], requests)
Took(m0, n, requests) ==
  /\ Taken(m0, n, Len(requests))
  /\ \A j \in 1..Len(requests) : n.sizes[n.taken[j]] = requests[j].size

\* The buffers taken are buffers.
LEMMA TakenBuffers ==
  ASSUME NEW m0 \in Memories, Well(m0), NEW k \in Nat, NEW m, Taken(m0, m, k)
  PROVE  /\ Len(m.sizes) \in Nat /\ Len(m0.sizes) \in Nat /\ DOMAIN m.taken = 1..k
         /\ m.taken \in Seq(Nat) /\ ToSet(m.taken) \subseteq 1..Len(m.sizes)
         /\ \A j \in 1..k : m.taken[j] \in 1..Len(m.sizes) /\ m.taken[j] \in ToSet(m.taken)
<1>1. m.sizes \in Seq(Nat) /\ m.taken \in Seq(Nat) /\ Len(m.taken) = k /\ Len(m.sizes) >= Len(m0.sizes)
      /\ PooledOf(m) \cup ToSet(m.taken) = PooledOf(m0) \cup (Len(m0.sizes) + 1..Len(m.sizes))
  BY DEF Taken, Takings
<1>2. m0.sizes \in Seq(Nat) /\ PooledOf(m0) \subseteq DOMAIN m0.sizes
  BY DEF Memories, Well
<1>3. PICK z0, z, tk : z0 = Len(m0.sizes) /\ z = Len(m.sizes) /\ tk = m.taken
  OBVIOUS
<1>4. z0 \in Nat /\ z \in Nat /\ z >= z0 /\ PooledOf(m0) \subseteq 1..z0 /\ tk \in Seq(Nat) /\ Len(tk) = k
  BY <1>1, <1>2, <1>3
<1>5. ToSet(tk) \subseteq PooledOf(m0) \cup (z0 + 1..z)
  BY <1>1, <1>3
<1>6. ToSet(tk) \subseteq 1..z
  <2>1. (1..z0) \cup (z0 + 1..z) \subseteq 1..z
    BY <1>4
  <2>2. QED
    BY <1>4, <1>5, <2>1
<1>7. \A j \in 1..k : tk[j] \in ToSet(tk)
  BY <1>4 DEF ToSet
<1>8. DOMAIN tk = 1..k
  BY <1>4
<1>9. QED
  BY <1>3, <1>4, <1>6, <1>7, <1>8

\* The requests of a call take a buffer each, of the size they ask for.
LEMMA TakeFromTakes ==
  ASSUME NEW m0 \in Memories, Well(m0), NEW rs \in Seq(Requested)
  PROVE  Took(m0, TakeFrom(m0, rs), rs)
<1> DEFINE base == [private |-> m0.private, shared |-> m0.shared, sizes |-> m0.sizes,
                    released |-> m0.released, taken |-> <<>>]
           M == {m \in Takings : Taken(m0, m, Len(m.taken))}
<1>1. Len(rs) \in Nat /\ \A k \in 1..Len(rs) : rs[k] \in Requested
  OBVIOUS
<1>2. Taken(m0, base, 0) /\ base \in M
  <2>1. base \in Takings /\ base.taken = <<>> /\ base.sizes = m0.sizes /\ base.released = m0.released
        /\ base.private = m0.private /\ base.shared = m0.shared
    BY DEF Memories, Takings
  <2>2. PooledOf(base) = PooledOf(m0) /\ Well(base)
    BY <2>1 DEF PooledOf, Well
  <2>3. Len(<<>>) = 0 /\ ToSet(<<>>) = {} /\ IsInjective(<<>>)
    BY DEF ToSet, IsInjective
  <2>4. Len(m0.sizes) \in Nat /\ Len(m0.sizes) + 1..Len(m0.sizes) = {}
    BY DEF Memories
  <2>5. QED
    BY <2>1, <2>2, <2>3, <2>4 DEF Taken
<1>3. TakesIn(M)
  <2>1. SUFFICES ASSUME NEW m \in M, NEW r \in Requested PROVE Take(m, r) \in M
    BY DEF TakesIn
  <2>2. PICK k \in Nat : Taken(m0, m, k)
    BY DEF Takings
  <2>3. TakenMore(m0, m, Take(m, r), k, r.size)
    BY <2>2, TakeStep
  <2>4. Taken(m0, Take(m, r), k + 1)
    BY <2>3 DEF TakenMore
  <2>5. Take(m, r) \in Takings /\ Len(Take(m, r).taken) = k + 1
    BY <2>4 DEF Taken
  <2>6. QED
    BY <2>4, <2>5
<1> HIDE DEF M, base
<1>4. PICK h : /\ h[0] = base /\ h[Len(rs)] = FoldLeft(Take, base, rs)
               /\ \A k \in 1..Len(rs) : h[k] = Take(h[k - 1], rs[k])
  <2>1. \E h : TakesTo(h, base, rs)
    BY <1>2, <1>3, TakeFold, Zenon
  <2>2. QED
    BY <2>1, Zenon DEF TakesTo
<1> DEFINE P == {k \in Nat : Taken(m0, h[k], k) /\ \A j \in 1..k : h[k].sizes[h[k].taken[j]] = rs[j].size}
<1>5. 0 \in P
  BY <1>2, <1>4
<1>6. ASSUME NEW k \in 0..Len(rs) - 1, k \in P
      PROVE  k + 1 \in P
  <2>1. k \in Nat /\ k + 1 \in 1..Len(rs) /\ (k + 1) - 1 = k
    BY <1>1
  <2>2. PICK m, n, r : m = h[k] /\ n = h[k + 1] /\ r = rs[k + 1]
    OBVIOUS
  <2>3. n = Take(m, r) /\ r \in Requested
    BY <1>1, <1>4, <2>1, <2>2
  <2>4. Taken(m0, m, k) /\ \A j \in 1..k : m.sizes[m.taken[j]] = rs[j].size
    BY <1>6, <2>2
  <2>5. TakenMore(m0, m, n, k, r.size)
    BY <2>1, <2>3, <2>4, TakeStep
  <2>6. \A j \in 1..k : m.taken[j] \in 1..Len(m.sizes)
    BY <2>1, <2>4, TakenBuffers
  <2>7. \A j \in 1..k + 1 : n.sizes[n.taken[j]] = rs[j].size
    <3>1. SUFFICES ASSUME NEW j \in 1..k + 1 PROVE n.sizes[n.taken[j]] = rs[j].size
      OBVIOUS
    <3>2. CASE j = k + 1
      BY <2>2, <2>5, <3>2 DEF TakenMore
    <3>3. CASE j # k + 1
      <4>1. j \in 1..k
        BY <2>1, <3>3
      <4>2. n.taken[j] = m.taken[j] /\ n.sizes[m.taken[j]] = m.sizes[m.taken[j]]
        BY <2>5, <2>6, <4>1, Zenon DEF TakenMore
      <4>3. QED
        BY <2>4, <4>1, <4>2
    <3>4. QED
      BY <3>2, <3>3
  <2>8. QED
    BY <2>1, <2>2, <2>5, <2>7 DEF TakenMore
<1>7. \A k \in 0..Len(rs) : k \in P
  <2> HIDE DEF P
  <2>1. \A k \in 0..Len(rs) - 1 : k \in P => k + 1 \in P
    BY <1>6
  <2>2. QED
    BY <1>1, <1>5, <2>1, UpToInduction
<1>8. Len(rs) \in P
  <2>1. Len(rs) \in 0..Len(rs)
    BY <1>1
  <2>2. QED
    BY <1>7, <2>1, Zenon
<1>9. TakeFrom(m0, rs) = h[Len(rs)]
  BY <1>4 DEF TakeFrom, base
<1>10. QED
  BY <1>8, <1>9 DEF Took

-----------------------------------------------------------------------------
(***************************************************************************)
(* Giving buffers back.                                                    *)
(***************************************************************************)
\* Every buffer of X is free now: in a pool, or released, and so may be those
\* that it evicted.
GivenBack(m, n, X) ==
  /\ n \in Memories /\ Well(n) /\ n.sizes = m.sizes
  /\ PooledOf(n) \subseteq PooledOf(m) \cup X
  /\ PooledOf(n) \cup n.released = PooledOf(m) \cup m.released \cup X

\* Buffers have some bytes.
LEMMA BytesType ==
  ASSUME NEW sizes \in Seq(Nat), NEW s \in Seq(Nat), ToSet(s) \subseteq DOMAIN sizes
  PROVE  BytesOf(sizes, s) \in Nat
<1>1. \A k \in 1..Len(s) : s[k] \in DOMAIN sizes
  BY DEF ToSet
<1>2. [k \in DOMAIN s |-> sizes[s[k]]] \in Seq(Nat)
  BY <1>1
<1>3. QED
  BY <1>2, TotalType DEF BytesOf

\* A pool has room once enough buffers are evicted.
LEMMA EvictsSome ==
  ASSUME MetalAssumption, NEW pool \in Pools, NEW sizes, NEW size \in Nat, ~(size > PoolBytes \/ PoolBuffers = 0)
  PROVE  (CHOOSE k \in 0..Len(pool.entries) :
            Evicts(pool, k, sizes, size) /\ \A j \in 0..k - 1 : ~Evicts(pool, j, sizes, size)) \in 0..Len(pool.entries)
<1> DEFINE Room == {k \in 0..Len(pool.entries) : Evicts(pool, k, sizes, size)}
<1>1. pool.entries \in Seq(Nat) /\ Len(pool.entries) \in Nat /\ PoolBytes \in Nat /\ PoolBuffers \in Nat
  BY DEF Pools, MetalAssumption
<1>2. PICK s, l : s = pool.entries /\ l = Len(s)
  OBVIOUS
<1>3. s \in Seq(Nat) /\ l \in Nat /\ l = Len(pool.entries) /\ l \in 0..l
  BY <1>1, <1>2
<1>4. Rest(s, l) = <<>>
  <2>1. Rest(s, l) \in Seq(Nat) /\ Len(Rest(s, l)) = 0
    BY <1>2, <1>3, Split DEF Rest
  <2>2. QED
    BY <2>1
<1>5. BytesOf(sizes, <<>>) = 0
  <2>1. [k \in DOMAIN <<>> |-> sizes[<<>>[k]]] = <<>>
    OBVIOUS
  <2>2. QED
    BY <2>1, TotalEmpty, Zenon DEF BytesOf
<1>6. Evicts(pool, l, sizes, size)
  <2>1. l - l = 0 /\ 0 < PoolBuffers /\ 0 + size <= PoolBytes
    BY <1>1, <1>3
  <2>2. QED
    BY <1>2, <1>4, <1>5, <2>1, Zenon DEF Evicts
<1>7. Room \in SUBSET Nat /\ l \in Room
  BY <1>3, <1>6
<1>8. PICK n \in Room : \A j \in Room : n <= j
  BY <1>7, LeastElement
<1>9. n \in 0..Len(pool.entries) /\ Evicts(pool, n, sizes, size)
  OBVIOUS
<1>10. \A j \in 0..n - 1 : ~Evicts(pool, j, sizes, size)
  BY <1>1, <1>8, <1>9
<1>11. QED
  BY <1>9, <1>10, Zenon

\* A memory after a buffer was given back, field by field.
Gives(m, n, pn, sn, b, q, o, qn, gone) ==
  /\ pn \in Pools /\ sn \in Pools /\ q \in Seq(Nat) /\ o \in Seq(Nat) /\ qn \in Seq(Nat)
  /\ n = [private |-> pn, shared |-> sn, sizes |-> m.sizes, released |-> m.released \cup gone]
  /\ \/ m.private.entries = q /\ m.shared.entries = o /\ pn.entries = qn /\ sn.entries = o
     \/ m.shared.entries = q /\ m.private.entries = o /\ sn.entries = qn /\ pn.entries = o
  /\ b \in DOMAIN m.sizes /\ b \notin PooledOf(m) \cup m.released
  /\ IsInjective(qn) /\ gone \subseteq ToSet(q) \cup {b} /\ ToSet(qn) = (ToSet(q) \cup {b}) \ gone

\* One more buffer is given back.
LEMMA GivenFrom ==
  ASSUME NEW m \in Memories, Well(m), NEW n, NEW pn, NEW sn, NEW b, NEW q, NEW o, NEW qn, NEW gone,
         Gives(m, n, pn, sn, b, q, o, qn, gone)
  PROVE  GivenBack(m, n, {b})
<1>1. PICK sz, rl, P : sz = m.sizes /\ rl = m.released /\ P = PooledOf(m)
  OBVIOUS
<1>2. sz \in Seq(Nat) /\ rl \in SUBSET Nat /\ DOMAIN sz = 1..Len(sz) /\ DOMAIN sz \subseteq Nat
  BY <1>1 DEF Memories
<1>3. P \cap rl = {} /\ P \cup rl \subseteq DOMAIN sz
  BY <1>1, Zenon DEF Well
<1>4. /\ pn \in Pools /\ sn \in Pools
      /\ n = [private |-> pn, shared |-> sn, sizes |-> sz, released |-> rl \cup gone]
      /\ b \in DOMAIN sz /\ b \notin P \cup rl
      /\ IsInjective(qn) /\ gone \subseteq ToSet(q) \cup {b} /\ ToSet(qn) = (ToSet(q) \cup {b}) \ gone
  BY <1>1, Zenon DEF Gives
<1>5. /\ \/ m.private.entries = q /\ m.shared.entries = o /\ pn.entries = qn /\ sn.entries = o
         \/ m.shared.entries = q /\ m.private.entries = o /\ sn.entries = qn /\ pn.entries = o
  BY Zenon DEF Gives
<1>6. P = ToSet(q) \cup ToSet(o) /\ IsInjective(q) /\ IsInjective(o) /\ ToSet(q) \cap ToSet(o) = {}
  BY <1>1, <1>5, Zenon DEF Well, PooledOf
<1>7. n.private = pn /\ n.shared = sn /\ n.sizes = sz /\ n.released = rl \cup gone
  BY <1>4
<1>8. PooledOf(n) = ToSet(qn) \cup ToSet(o)
  BY <1>5, <1>7 DEF PooledOf
<1>9. gone \subseteq DOMAIN sz
  BY <1>3, <1>4, <1>6
<1>10. n \in Memories
  BY <1>2, <1>4, <1>9 DEF Memories
<1>11. /\ ToSet(qn) \cap ToSet(o) = {} /\ (ToSet(qn) \cup ToSet(o)) \cap (rl \cup gone) = {}
       /\ ToSet(qn) \cup ToSet(o) \cup rl \cup gone = P \cup rl \cup {b}
       /\ ToSet(qn) \cup ToSet(o) \subseteq P \cup {b}
  BY <1>3, <1>4, <1>6
<1>12. Well(n)
  <2>1. PooledOf(n) \cap n.released = {} /\ PooledOf(n) \cup n.released \subseteq DOMAIN n.sizes
    BY <1>3, <1>4, <1>7, <1>8, <1>11
  <2>2. IsInjective(n.private.entries) /\ IsInjective(n.shared.entries)
    BY <1>4, <1>5, <1>6, <1>7, Zenon
  <2>3. ToSet(n.private.entries) \cap ToSet(n.shared.entries) = {}
    BY <1>5, <1>7, <1>11
  <2>4. QED
    BY <2>1, <2>2, <2>3 DEF Well
<1>13. PooledOf(n) \subseteq P \cup {b} /\ PooledOf(n) \cup n.released = P \cup rl \cup {b}
  BY <1>7, <1>8, <1>11
<1>14. QED
  BY <1>1, <1>7, <1>10, <1>12, <1>13, Zenon DEF GivenBack

\* PoolState::recycle gives one buffer back.
LEMMA RecycleStep ==
  ASSUME MetalAssumption, NEW m \in Memories, Well(m), NEW kind \in {"private", "shared"},
         NEW b \in DOMAIN m.sizes, b \notin PooledOf(m) \cup m.released
  PROVE  GivenBack(m, Recycle(m, kind, b), {b})
<1> DEFINE size == m.sizes[b]
           k == CHOOSE i \in 0..Len(m[kind].entries) :
                  Evicts(m[kind], i, m.sizes, size) /\ \A j \in 0..i - 1 : ~Evicts(m[kind], j, m.sizes, size)
           n == Recycle(m, kind, b)
<1>1. PICK pr, sh, sz, rl :
        /\ m = [private |-> pr, shared |-> sh, sizes |-> sz, released |-> rl]
        /\ pr \in Pools /\ sh \in Pools /\ sz \in Seq(Nat) /\ rl \in SUBSET Nat
  BY DEF Memories
<1>2. PICK pool, other : IF kind = "private" THEN pool = pr /\ other = sh ELSE pool = sh /\ other = pr
  OBVIOUS
<1>3. PICK q, bytes : pool = [entries |-> q, bytes |-> bytes] /\ q \in Seq(Nat) /\ bytes \in Int
  BY <1>1, <1>2 DEF Pools
<1>4. PICK o : o = other.entries /\ o \in Seq(Nat)
  BY <1>1, <1>2 DEF Pools
<1>5. /\ m[kind] = pool /\ m.sizes = sz /\ m.released = rl /\ m.private = pr /\ m.shared = sh
      /\ m[kind].entries = q /\ m[kind].bytes = bytes
  BY <1>1, <1>2, <1>3
<1>6. \/ m.private.entries = q /\ m.shared.entries = o /\ kind = "private"
      \/ m.shared.entries = q /\ m.private.entries = o /\ kind = "shared"
  BY <1>2, <1>3, <1>4, <1>5
<1>7. IsInjective(q) /\ ToSet(q) \subseteq PooledOf(m)
  BY <1>6 DEF Well, PooledOf
<1>8. b \in Nat /\ size \in Nat /\ b \notin ToSet(q)
  BY <1>1, <1>7
<1>9. CASE size > PoolBytes \/ PoolBuffers = 0
  <2>1. n = [m EXCEPT !.released = m.released \cup {b}]
    BY <1>9, Zenon DEF Recycle
  <2>2. n = [private |-> pr, shared |-> sh, sizes |-> m.sizes, released |-> m.released \cup {b}]
    <3> HIDE DEF n
    <3>1. QED
      BY <1>1, <1>5, <2>1
  <2>3. \/ m.private.entries = q /\ m.shared.entries = o /\ pr.entries = q /\ sh.entries = o
        \/ m.shared.entries = q /\ m.private.entries = o /\ sh.entries = q /\ pr.entries = o
    BY <1>5, <1>6
  <2>4. {b} \subseteq ToSet(q) \cup {b} /\ ToSet(q) = (ToSet(q) \cup {b}) \ {b}
    BY <1>8
  <2>5. Gives(m, n, pr, sh, b, q, o, q, {b})
    BY <1>1, <1>3, <1>4, <1>7, <2>2, <2>3, <2>4, Zenon DEF Gives
  <2>6. QED
    BY <2>5, GivenFrom, Zenon
<1>10. CASE ~(size > PoolBytes \/ PoolBuffers = 0)
  <2>1. m[kind] \in Pools
    BY <1>1, <1>2, <1>5
  <2>2. k \in 0..Len(q)
    <3>1. PICK pp, zz, ss : pp = m[kind] /\ zz = m.sizes /\ ss = size
      OBVIOUS
    <3>2. ss \in Nat /\ pp \in Pools /\ ~(ss > PoolBytes \/ PoolBuffers = 0)
      BY <1>8, <1>10, <2>1, <3>1
    <3>3. (CHOOSE i \in 0..Len(pp.entries) :
             Evicts(pp, i, zz, ss) /\ \A j \in 0..i - 1 : ~Evicts(pp, j, zz, ss)) \in 0..Len(pp.entries)
      BY <3>2, EvictsSome
    <3>4. k \in 0..Len(m[kind].entries)
      BY <3>1, <3>3, Zenon
    <3> HIDE DEF k
    <3>5. QED
      BY <1>5, <3>4
  <2>3. n = [m EXCEPT ![kind] = [entries |-> Append(Rest(m[kind].entries, k), b),
                                 bytes |-> m[kind].bytes - BytesOf(m.sizes, SubSeq(m[kind].entries, 1, k)) + size],
                      !.released = m.released \cup ToSet(SubSeq(m[kind].entries, 1, k))]
    BY <1>10, Zenon DEF Recycle
  <2>4. PICK qn, gone, bn, p :
          /\ qn = Append(Rest(q, k), b) /\ gone = ToSet(SubSeq(q, 1, k))
          /\ bn = bytes - BytesOf(sz, SubSeq(q, 1, k)) + size
          /\ p = [entries |-> qn, bytes |-> bn]
    OBVIOUS
  <2> HIDE DEF k, n
  <2>5. n = [m EXCEPT ![kind] = p, !.released = m.released \cup gone]
    BY <1>5, <2>3, <2>4
  <2>6. /\ Rest(q, k) \in Seq(Nat) /\ SubSeq(q, 1, k) \in Seq(Nat)
        /\ ToSet(Rest(q, k)) = ToSet(q) \ gone /\ gone \subseteq ToSet(q) /\ IsInjective(Rest(q, k))
    BY <1>3, <1>7, <2>2, <2>4, Split, SplitSet DEF Rest
  <2>7. qn \in Seq(Nat) /\ IsInjective(qn) /\ ToSet(qn) = (ToSet(q) \cup {b}) \ gone
    <3>1. ToSet(qn) = ToSet(Rest(q, k)) \cup {b} /\ IsInjective(qn) /\ qn \in Seq(Nat)
      BY <1>8, <2>4, <2>6, AppendSet
    <3>2. QED
      BY <1>8, <2>6, <3>1
  <2>8. bn \in Int
    <3>1. BytesOf(sz, SubSeq(q, 1, k)) \in Int
      <4>1. ToSet(SubSeq(q, 1, k)) \subseteq DOMAIN sz
        BY <1>5, <1>7, <2>4, <2>6 DEF Well
      <4>2. sz \in Seq(Nat) /\ SubSeq(q, 1, k) \in Seq(Nat)
        BY <1>1, <2>6
      <4>3. BytesOf(sz, SubSeq(q, 1, k)) \in Nat
        BY <4>1, <4>2, BytesType, Zenon
      <4>4. QED
        BY <4>3
    <3>2. QED
      BY <1>3, <1>8, <2>4, <3>1
  <2>9. p \in Pools /\ p.entries = qn
    BY <2>4, <2>7, <2>8 DEF Pools
  <2>10. PICK pn, sn : IF kind = "private" THEN pn = p /\ sn = sh ELSE sn = p /\ pn = pr
    OBVIOUS
  <2>11. n = [private |-> pn, shared |-> sn, sizes |-> m.sizes, released |-> m.released \cup gone]
    <3>1. CASE kind = "private"
      BY <1>1, <1>5, <2>5, <2>10, <3>1
    <3>2. CASE kind = "shared"
      BY <1>1, <1>5, <2>5, <2>10, <3>2
    <3>3. QED
      BY <3>1, <3>2
  <2>12. pn \in Pools /\ sn \in Pools
    BY <1>1, <2>9, <2>10
  <2>13. \/ m.private.entries = q /\ m.shared.entries = o /\ pn.entries = qn /\ sn.entries = o
         \/ m.shared.entries = q /\ m.private.entries = o /\ sn.entries = qn /\ pn.entries = o
    BY <1>5, <1>6, <2>9, <2>10
  <2>14. gone \subseteq ToSet(q) \cup {b}
    BY <2>6
  <2>15. Gives(m, n, pn, sn, b, q, o, qn, gone)
    BY <1>3, <1>4, <2>7, <2>11, <2>12, <2>13, <2>14, Zenon DEF Gives
  <2>16. GivenBack(m, n, {b})
    BY <2>15, GivenFrom, Zenon
  <2>17. QED
    BY <2>16 DEF n
<1>11. QED
  BY <1>9, <1>10

\* Giving back some buffers, then others.
LEMMA GivenBackTrans ==
  ASSUME NEW m, NEW n, NEW l, NEW X, NEW Y, GivenBack(m, n, X), GivenBack(n, l, Y)
  PROVE  GivenBack(m, l, X \cup Y)
<1>1. /\ l \in Memories /\ Well(l) /\ l.sizes = m.sizes
  BY DEF GivenBack
<1>2. PooledOf(l) \subseteq PooledOf(m) \cup (X \cup Y)
  BY DEF GivenBack
<1>3. PooledOf(l) \cup l.released = PooledOf(m) \cup m.released \cup (X \cup Y)
  BY DEF GivenBack
<1>4. QED
  BY <1>1, <1>2, <1>3, Zenon DEF GivenBack

\* Buffers that are neither in a pool nor released.
Fit(m, b) == b \in DOMAIN m.sizes /\ b \notin PooledOf(m) \cup m.released
Returnable(m, s) ==
  /\ m \in Memories /\ Well(m) /\ s \in Seq(Nat) /\ IsInjective(s)
  /\ \A b \in ToSet(s) : Fit(m, b)

\* A function that gives a buffer back at each step gives those of a subset back.
Gifts(f, m, kind, s) ==
  /\ f[{}] = m
  /\ \A T \in SUBSET DOMAIN s : T # {} /\ Fit(f[T \ {Max(T)}], s[Max(T)]) =>
       f[T] = Recycle(f[T \ {Max(T)}], kind, s[Max(T)])
Given(f, m, s, T) ==
  /\ GivenBack(m, f[T], {s[i] : i \in T})
  /\ T # {} => Fit(f[T \ {Max(T)}], s[Max(T)])

\* Giving back a sequence of buffers leaves no more and no fewer than were there.
LEMMA GiftsGive ==
  ASSUME MetalAssumption, NEW m, NEW s, Returnable(m, s), NEW kind \in {"private", "shared"},
         NEW f, Gifts(f, m, kind, s)
  PROVE  \A T \in SUBSET (1..Len(s)) : Given(f, m, s, T)
<1> DEFINE P == {k \in Nat : \A T \in SUBSET (1..k) : T \subseteq DOMAIN s => Given(f, m, s, T)}
<1>1. s \in Seq(Nat) /\ Len(s) \in Nat /\ DOMAIN s = 1..Len(s) /\ IsInjective(s) /\ m \in Memories /\ Well(m)
  BY DEF Returnable
<1>2. 0 \in P
  <2>1. SUFFICES ASSUME NEW T \in SUBSET (1..0) PROVE Given(f, m, s, T)
    OBVIOUS
  <2>2. T = {}
    OBVIOUS
  <2>5. {s[i] : i \in T} = {} /\ f[T] = m
    BY <2>2 DEF Gifts
  <2>3. GivenBack(m, m, {})
    BY <1>1 DEF GivenBack
  <2>4. QED
    BY <2>2, <2>3, <2>5 DEF Given
<1>3. ASSUME NEW k \in 0..Len(s) - 1, k \in P
      PROVE  k + 1 \in P
  <2>1. k \in Nat /\ k + 1 \in 1..Len(s) /\ k + 1 \in Nat
    BY <1>1
  <2>2. SUFFICES ASSUME NEW T \in SUBSET (1..k + 1), T \subseteq DOMAIN s
                 PROVE  Given(f, m, s, T)
    BY <2>1
  <2>3. CASE k + 1 \notin T
    <3>1. T \in SUBSET (1..k)
      BY <2>1, <2>3
    <3>2. QED
      BY <1>3, <2>2, <3>1
  <2>4. CASE k + 1 \in T
    <3>1. PICK U : U = T \ {k + 1}
      OBVIOUS
    <3>2. U \in SUBSET (1..k) /\ U \subseteq DOMAIN s /\ k + 1 \notin U
      BY <2>1, <2>2, <3>1
    <3>3. Max(T) = k + 1
      <4>1. \A y \in T : k + 1 >= y
        BY <2>1, <2>2
      <4>2. \A x \in T : (\A y \in T : x >= y) => x = k + 1
        BY <2>1, <2>2, <2>4
      <4>3. \E x \in T : \A y \in T : x >= y
        BY <2>4, <4>1
      <4>4. Max(T) \in T /\ \A y \in T : Max(T) >= y
        BY <4>3, Zenon DEF Max
      <4>5. QED
        BY <4>2, <4>4
    <3>4. PICK n, b, X : n = f[U] /\ b = s[k + 1] /\ X = {s[i] : i \in U}
      OBVIOUS
    <3>5. GivenBack(m, n, X)
      BY <1>3, <3>2, <3>4 DEF Given
    <3>6. b \in ToSet(s) /\ b \notin X
      <4>1. b \in ToSet(s)
        BY <1>1, <2>1, <3>4 DEF ToSet
      <4>2. \A i \in U : s[i] # b
        BY <1>1, <2>1, <3>2, <3>4 DEF IsInjective
      <4>3. QED
        BY <3>4, <4>1, <4>2
    <3>7. Fit(m, b)
      BY <3>6 DEF Returnable
    <3>8. Fit(n, b)
      BY <3>5, <3>6, <3>7 DEF GivenBack, Fit
    <3>9. f[T] = Recycle(n, kind, b)
      BY <2>2, <2>4, <3>1, <3>3, <3>4, <3>8 DEF Gifts
    <3>10. GivenBack(n, Recycle(n, kind, b), {b})
      <4>1. n \in Memories /\ Well(n) /\ b \in DOMAIN n.sizes /\ b \notin PooledOf(n) \cup n.released
        BY <3>5, <3>8 DEF GivenBack, Fit
      <4>2. QED
        BY <4>1, RecycleStep
    <3>11. {s[i] : i \in T} = X \cup {b}
      BY <2>4, <3>1, <3>4
    <3>12. GivenBack(m, f[T], X \cup {b})
      BY <3>5, <3>9, <3>10, GivenBackTrans
    <3>13. QED
      BY <3>1, <3>3, <3>4, <3>8, <3>11, <3>12 DEF Given
  <2>5. QED
    BY <2>3, <2>4
<1>4. \A k \in 0..Len(s) : k \in P
  <2> HIDE DEF P
  <2>1. \A k \in 0..Len(s) - 1 : k \in P => k + 1 \in P
    BY <1>3
  <2>2. QED
    BY <1>1, <1>2, <2>1, UpToInduction
<1>5. Len(s) \in P
  <2>1. Len(s) \in 0..Len(s)
    BY <1>1
  <2>2. QED
    BY <1>4, <2>1, Zenon
<1>6. QED
  BY <1>1, <1>5

\* Buffers are given back one after the other.
LEMMA RecycleAllGives ==
  ASSUME MetalAssumption, NEW m, NEW s, Returnable(m, s), NEW kind \in {"private", "shared"}
  PROVE  GivenBack(m, RecycleAll(m, kind, s), ToSet(s))
<1> DEFINE M == {n \in Memories : Well(n)}
           step == [x \in M \X Nat |-> IF Fit(x[1], x[2]) THEN Recycle(x[1], kind, x[2]) ELSE x[1]]
<1>1. /\ DOMAIN s = 1..Len(s) /\ Len(s) \in Nat /\ s \in Seq(Nat)
      /\ \A T \in SUBSET DOMAIN s : T # {} => s[Max(T)] \in Nat
  BY FoldPrefixes DEF Returnable
<1>2. \A n \in M : \A b \in Nat : Fit(n, b) => Recycle(n, kind, b) \in M
  <2>1. SUFFICES ASSUME NEW n \in Memories, Well(n), NEW b \in Nat, Fit(n, b) PROVE Recycle(n, kind, b) \in M
    OBVIOUS
  <2>2. b \in DOMAIN n.sizes /\ b \notin PooledOf(n) \cup n.released
    BY <2>1 DEF Fit
  <2>3. GivenBack(n, Recycle(n, kind, b), {b})
    BY <2>1, <2>2, RecycleStep
  <2>4. QED
    BY <2>3 DEF GivenBack
<1>3. m \in M
  BY DEF Returnable
<1>4. /\ step \in [M \X Nat -> M]
      /\ \A n \in M : \A b \in Nat : Fit(n, b) => step[<<n, b>>] = Recycle(n, kind, b)
  <2> HIDE DEF M
  <2>1. QED
    BY <1>2
<1>5. PICK g \in [SUBSET (1..Len(s)) -> M] : Folds(g, m, step, s, Len(s))
  <2> HIDE DEF step, M
  <2>1. QED
    BY <1>1, <1>3, <1>4, FoldExists
<1> HIDE DEF step, M
<1>6. \A T \in SUBSET DOMAIN s : g[T] \in M /\ T \ {Max(T)} \in SUBSET DOMAIN s
  BY <1>1, <1>5
<1>7. g[{}] = m /\ \A T \in SUBSET DOMAIN s : T # {} => g[T] = step[<<g[T \ {Max(T)}], s[Max(T)]>>]
  BY <1>1, <1>5 DEF Folds
<1>8. Gifts(g, m, kind, s)
  BY <1>1, <1>4, <1>6, <1>7 DEF Gifts
<1>9. \A T \in SUBSET (1..Len(s)) : Given(g, m, s, T)
  BY <1>8, GiftsGive
<1>10. \A T \in SUBSET DOMAIN s : T # {} => Fit(g[T \ {Max(T)}], s[Max(T)])
  BY <1>1, <1>9 DEF Given
<1>11. g = [T \in SUBSET (DOMAIN s) |-> IF T = {} THEN m ELSE Recycle(g[T \ {Max(T)}], kind, s[Max(T)])]
  BY <1>1, <1>5, <1>7, <1>8, <1>10 DEF Gifts
<1>12. PICK f : /\ f[DOMAIN s] = RecycleAll(m, kind, s)
                /\ f = [T \in SUBSET (DOMAIN s) |-> IF T = {} THEN m ELSE Recycle(f[T \ {Max(T)}], kind, s[Max(T)])]
  BY <1>11, Zenon DEF RecycleAll, FoldLeft, MapThenFoldSet
<1>13. Gifts(f, m, kind, s)
  BY <1>12, Zenon DEF Gifts
<1>14. GivenBack(m, f[1..Len(s)], {s[i] : i \in 1..Len(s)})
  <2>1. 1..Len(s) \in SUBSET (1..Len(s))
    OBVIOUS
  <2>2. Given(f, m, s, 1..Len(s))
    BY <1>13, <2>1, GiftsGive
  <2>3. QED
    BY <2>2 DEF Given
<1>15. {s[i] : i \in 1..Len(s)} = ToSet(s)
  BY <1>1 DEF ToSet
<1>16. QED
  BY <1>1, <1>12, <1>14, <1>15

-----------------------------------------------------------------------------
(***************************************************************************)
(* The upload cache.                                                       *)
(***************************************************************************)
Lookups == {c \in [entries : Seq(Entries), bytes : Int, found : Seq(Nat)] : Cached(c.entries)}

\* FoldLeft looks an arena up after the other.
UploadsIn(M) == \A c \in M : \A a \in Addresses : GetOrUpload(c, a) \in M
UploadsTo(h, base, s) ==
  /\ h[0] = base /\ h[Len(s)] = FoldLeft(GetOrUpload, base, s)
  /\ \A k \in 1..Len(s) : h[k] = GetOrUpload(h[k - 1], s[k])

\* Folding GetOrUpload over addresses is looking them up one after another.
LEMMA UploadFold ==
  ASSUME NEW M, NEW base \in M, NEW s \in Seq(Addresses), UploadsIn(M)
  PROVE  \E h : UploadsTo(h, base, s)
<1> DEFINE step == [x \in M \X Addresses |-> GetOrUpload(x[1], x[2])]
<1>1. /\ DOMAIN s = 1..Len(s) /\ Len(s) \in Nat /\ 1..0 = {}
      /\ \A T \in SUBSET DOMAIN s : T # {} => s[Max(T)] \in Addresses
      /\ \A k \in 1..Len(s) : /\ 1..k \in SUBSET DOMAIN s /\ 1..k # {} /\ k - 1 \in 0..Len(s)
                              /\ Max(1..k) = k /\ (1..k) \ {k} = 1..k - 1
  BY FoldPrefixes
<1>2. step \in [M \X Addresses -> M] /\ \A m \in M : \A r \in Addresses : step[<<m, r>>] = GetOrUpload(m, r)
  BY DEF UploadsIn
<1>3. PICK g \in [SUBSET (1..Len(s)) -> M] : Folds(g, base, step, s, Len(s))
  <2> HIDE DEF step
  <2>1. QED
    BY <1>2, FoldExists
<1> HIDE DEF step
<1>4. g = [T \in SUBSET (DOMAIN s) |-> IF T = {} THEN base ELSE GetOrUpload(g[T \ {Max(T)}], s[Max(T)])]
  <2>1. \A T \in SUBSET DOMAIN s : g[T] \in M /\ T \ {Max(T)} \in SUBSET DOMAIN s
    BY <1>1, <1>3
  <2>2. \A T \in SUBSET DOMAIN s : T # {} =>
          step[<<g[T \ {Max(T)}], s[Max(T)]>>] = GetOrUpload(g[T \ {Max(T)}], s[Max(T)])
    BY <1>1, <1>2, <2>1
  <2>3. QED
    BY <1>1, <1>3, <2>2 DEF Folds
<1>5. PICK f : /\ f[DOMAIN s] = FoldLeft(GetOrUpload, base, s)
               /\ f = [T \in SUBSET (DOMAIN s) |-> IF T = {} THEN base ELSE GetOrUpload(f[T \ {Max(T)}], s[Max(T)])]
  BY <1>4, Zenon DEF FoldLeft, MapThenFoldSet
<1> DEFINE h == [k \in 0..Len(s) |-> f[1..k]]
<1>6. h[0] = base /\ h[Len(s)] = FoldLeft(GetOrUpload, base, s)
  <2>1. h[0] = f[1..0] /\ h[Len(s)] = f[1..Len(s)]
    BY <1>1
  <2>2. f[{}] = base
    BY <1>5
  <2>3. QED
    BY <1>1, <1>5, <2>1, <2>2
<1>7. \A k \in 1..Len(s) : h[k] = GetOrUpload(h[k - 1], s[k])
  <2>1. SUFFICES ASSUME NEW k \in 1..Len(s)
                 PROVE  h[k] = GetOrUpload(h[k - 1], s[k])
    OBVIOUS
  <2>2. f[1..k] = GetOrUpload(f[(1..k) \ {Max(1..k)}], s[Max(1..k)])
    BY <1>1, <1>5, Zenon
  <2>3. f[1..k] = GetOrUpload(f[1..k - 1], s[k])
    BY <1>1, <2>2, Zenon
  <2>4. h[k] = f[1..k] /\ h[k - 1] = f[1..k - 1]
    BY <1>1
  <2>5. QED
    BY <2>3, <2>4
<1> HIDE DEF h
<1>8. QED
  BY <1>6, <1>7 DEF UploadsTo

\* Uploads have some bytes.
LEMMA CachedBytesType ==
  ASSUME MetalAssumption, NEW s \in Seq(Entries)
  PROVE  CachedBytes(s) \in Nat
<1>1. \A k \in 1..Len(s) : s[k] \in Entries
  OBVIOUS
<1>2. \A k \in 1..Len(s) : UploadBytes[s[k].address] \in Nat
  BY <1>1 DEF Entries, MetalAssumption
<1>3. [k \in DOMAIN s |-> UploadBytes[s[k].address]] \in Seq(Nat)
  BY <1>2
<1>4. QED
  BY <1>3, TotalType DEF CachedBytes

\* An arena is found at the version that is at its address now.
Looked(c, n, a) == n \in Lookups /\ n.found = Append(c.found, arenas[a])

\* A lookup finds the version its arena has.
LEMMA UploadStep ==
  ASSUME MetalAssumption, arenas \in [Addresses -> Nat], NEW c \in Lookups, NEW a \in Addresses
  PROVE  Looked(c, GetOrUpload(c, a), a)
<1> DEFINE hit   == SelectInSeq(c.entries, LAMBDA e : e.address = a)
           bytes == UploadBytes[a]
           n     == CHOOSE k \in 0..Len(c.entries) :
                      /\ CachedBytes(Rest(c.entries, k)) + bytes <= CacheBytes
                      /\ \A j \in 0..k - 1 : CachedBytes(Rest(c.entries, j)) + bytes > CacheBytes
           d     == GetOrUpload(c, a)
<1>1. PICK s, b, f : c = [entries |-> s, bytes |-> b, found |-> f] /\ s \in Seq(Entries) /\ b \in Int /\ f \in Seq(Nat)
  BY DEF Lookups
<1>2. c.entries = s /\ c.bytes = b /\ c.found = f /\ Cached(s)
  BY <1>1 DEF Lookups
<1>3. PICK v : v = arenas[a] /\ v \in Nat
  OBVIOUS
<1>4. bytes \in Nat /\ CacheBytes \in Nat
  BY DEF MetalAssumption
<1>5. Append(f, v) \in Seq(Nat)
  BY <1>1, <1>3
<1>6. CASE hit # 0
  <2>1. d = [c EXCEPT !.found = Append(c.found, c.entries[hit].version)]
    BY <1>6, Zenon DEF GetOrUpload
  <2>2. hit \in 1..Len(s) /\ s[hit].address = a
    <3> DEFINE I == {i \in 1..Len(c.entries) : c.entries[i].address = a}
    <3>1. hit = IF I # {} THEN CHOOSE i \in I : \A j \in I : i <= j ELSE 0
      BY Zenon DEF SelectInSeq, Min
    <3>2. I # {} /\ I \in SUBSET Nat
      BY <1>6, <3>1
    <3>3. \E i \in I : \A j \in I : i <= j
      <4> HIDE DEF I
      <4>1. QED
        BY <3>2, LeastElement
    <3>4. hit \in I
      <4> HIDE DEF I, hit
      <4>1. QED
        BY <3>1, <3>2, <3>3, Zenon
    <3>5. QED
      BY <1>2, <3>4
  <2> HIDE DEF hit, d
  <2>3. s[hit].version = v
    BY <1>2, <1>3, <2>2, Zenon DEF Cached
  <2>4. d = [entries |-> s, bytes |-> b, found |-> Append(f, v)]
    BY <1>1, <1>2, <2>1, <2>3
  <2>5. d \in Lookups /\ d.found = Append(c.found, arenas[a])
    BY <1>1, <1>2, <1>3, <1>5, <2>4 DEF Lookups
  <2>6. QED
    BY <2>5 DEF Looked, d
<1>7. CASE hit = 0 /\ bytes > CacheBytes
  <2>1. d = [c EXCEPT !.found = Append(c.found, arenas[a])]
    BY <1>7, Zenon DEF GetOrUpload
  <2> HIDE DEF hit, d
  <2>2. d = [entries |-> s, bytes |-> b, found |-> Append(f, v)]
    BY <1>1, <1>2, <1>3, <2>1
  <2>3. d \in Lookups /\ d.found = Append(c.found, arenas[a])
    BY <1>1, <1>2, <1>3, <1>5, <2>2 DEF Lookups
  <2>4. QED
    BY <2>3 DEF Looked, d
<1>8. CASE hit = 0 /\ ~(bytes > CacheBytes)
  <2>1. d = [entries |-> Append(Rest(c.entries, n), [address |-> a, version |-> arenas[a]]),
             bytes   |-> c.bytes - CachedBytes(SubSeq(c.entries, 1, n)) + bytes,
             found   |-> Append(c.found, arenas[a])]
    BY <1>8, Zenon DEF GetOrUpload
  <2> HIDE DEF hit, d
  <2>2. n \in 0..Len(s)
    <3> DEFINE Room == {k \in 0..Len(s) : CachedBytes(Rest(s, k)) + bytes <= CacheBytes}
    <3>1. Len(s) \in Nat /\ Len(s) \in 0..Len(s)
      BY <1>1
    <3>2. \A k \in 0..Len(s) : Rest(s, k) \in Seq(Entries) /\ Len(Rest(s, k)) = Len(s) - k
      BY <1>1, Split DEF Rest
    <3>3. \A k \in 0..Len(s) : CachedBytes(Rest(s, k)) \in Nat
      BY <3>2, CachedBytesType
    <3>4. CachedBytes(Rest(s, Len(s))) = 0
      <4>1. Rest(s, Len(s)) = <<>>
        BY <3>1, <3>2
      <4>2. [k \in DOMAIN <<>> |-> UploadBytes[<<>>[k].address]] = <<>>
        OBVIOUS
      <4>3. QED
        BY <4>1, <4>2, TotalEmpty, Zenon DEF CachedBytes
    <3>5. Room \in SUBSET Nat /\ Len(s) \in Room
      BY <1>4, <1>8, <3>1, <3>4
    <3>6. PICK k \in Room : \A j \in Room : k <= j
      <4> HIDE DEF Room
      <4>1. QED
        BY <3>5, LeastElement
    <3>7. k \in 0..Len(s) /\ CachedBytes(Rest(s, k)) + bytes <= CacheBytes
      OBVIOUS
    <3>8. \A j \in 0..k - 1 : CachedBytes(Rest(s, j)) + bytes > CacheBytes
      <4>1. SUFFICES ASSUME NEW j \in 0..k - 1 PROVE CachedBytes(Rest(s, j)) + bytes > CacheBytes
        OBVIOUS
      <4>2. j \in 0..Len(s) /\ j < k
        BY <3>1, <3>7
      <4>3. j \notin Room
        BY <3>1, <3>6, <3>7, <4>2
      <4>4. CachedBytes(Rest(s, j)) \in Nat
        BY <3>3, <4>2
      <4>5. QED
        BY <1>4, <4>2, <4>3, <4>4
    <3>9. QED
      BY <1>2, <3>7, <3>8, Zenon
  <2> HIDE DEF n, bytes
  <2>3. PICK e, r, g : e = [address |-> a, version |-> v] /\ r = Rest(s, n) /\ g = SubSeq(s, 1, n)
    OBVIOUS
  <2>4. e \in Entries /\ e.version = arenas[e.address]
    BY <1>3, <2>3 DEF Entries
  <2>5. /\ r \in Seq(Entries) /\ Len(r) = Len(s) - n /\ g \in Seq(Entries)
        /\ \A i \in 1..Len(s) - n : r[i] = s[n + i]
    BY <1>1, <2>2, <2>3, Split DEF Rest
  <2>6. CachedBytes(g) \in Nat
    BY <2>5, CachedBytesType
  <2>7. Append(r, e) \in Seq(Entries) /\ Cached(Append(r, e))
    <3>1. Append(r, e) \in Seq(Entries) /\ Len(Append(r, e)) = Len(r) + 1 /\ Append(r, e)[Len(r) + 1] = e
          /\ \A i \in 1..Len(r) : Append(r, e)[i] = r[i]
      BY <2>4, <2>5
    <3>2. \A i \in 1..Len(r) : r[i].version = arenas[r[i].address]
      <4>1. \A i \in 1..Len(r) : n + i \in 1..Len(s) /\ r[i] = s[n + i]
        BY <1>1, <2>2, <2>5
      <4>2. QED
        BY <1>2, <4>1 DEF Cached
    <3>3. SUFFICES ASSUME NEW i \in 1..Len(r) + 1
                   PROVE  Append(r, e)[i].version = arenas[Append(r, e)[i].address]
      BY <3>1 DEF Cached
    <3>4. CASE i = Len(r) + 1
      BY <2>4, <3>1, <3>4
    <3>5. CASE i # Len(r) + 1
      <4>1. i \in 1..Len(r)
        BY <2>5, <3>5
      <4>2. QED
        BY <3>1, <3>2, <4>1
    <3>6. QED
      BY <3>4, <3>5
  <2>8. d = [entries |-> Append(r, e), bytes |-> b - CachedBytes(g) + bytes, found |-> Append(f, v)]
    BY <1>2, <1>3, <2>1, <2>3
  <2>9. b - CachedBytes(g) + bytes \in Int
    BY <1>1, <1>4, <2>6 DEF bytes
  <2>10. d \in Lookups /\ d.found = Append(c.found, arenas[a])
    BY <1>2, <1>3, <1>5, <2>7, <2>8, <2>9 DEF Lookups
  <2>11. QED
    BY <2>10 DEF Looked, d
<1>9. QED
  BY <1>6, <1>7, <1>8

\* What is found for arenas are their own versions.
LEMMA UploadAllFinds ==
  ASSUME MetalAssumption, arenas \in [Addresses -> Nat], cache \in [entries : Seq(Entries), bytes : Int],
         Cached(cache.entries), NEW s \in Seq(Addresses)
  PROVE  UploadAll(s) \in Lookups /\ UploadAll(s).found = Versions(s)
<1> DEFINE base == [entries |-> cache.entries, bytes |-> cache.bytes, found |-> <<>>]
<1>1. Len(s) \in Nat /\ \A k \in 1..Len(s) : s[k] \in Addresses
  OBVIOUS
<1>2. base \in Lookups /\ base.found = <<>>
  BY DEF Lookups
<1>3. UploadsIn(Lookups)
  BY UploadStep DEF UploadsIn, Looked
<1> HIDE DEF base
<1>4. PICK h : /\ h[0] = base /\ h[Len(s)] = FoldLeft(GetOrUpload, base, s)
               /\ \A k \in 1..Len(s) : h[k] = GetOrUpload(h[k - 1], s[k])
  <2>1. \E h : UploadsTo(h, base, s)
    BY <1>2, <1>3, UploadFold, Zenon
  <2>2. QED
    BY <2>1, Zenon DEF UploadsTo
<1> DEFINE P == {k \in Nat : /\ h[k] \in Lookups /\ Len(h[k].found) = k
                             /\ \A j \in 1..k : h[k].found[j] = arenas[s[j]]}
<1>5. 0 \in P
  BY <1>2, <1>4
<1>6. ASSUME NEW k \in 0..Len(s) - 1, k \in P
      PROVE  k + 1 \in P
  <2>1. k \in Nat /\ k + 1 \in 1..Len(s) /\ (k + 1) - 1 = k
    BY <1>1
  <2>2. PICK c, d, a : c = h[k] /\ d = h[k + 1] /\ a = s[k + 1]
    OBVIOUS
  <2>3. d = GetOrUpload(c, a) /\ a \in Addresses /\ c \in Lookups
    BY <1>1, <1>4, <1>6, <2>1, <2>2
  <2>4. Looked(c, d, a)
    BY <2>3, UploadStep
  <2>5. PICK f, g, v : f = c.found /\ g = d.found /\ v = arenas[a]
    OBVIOUS
  <2>6. d \in Lookups /\ g = Append(f, v) /\ f \in Seq(Nat) /\ Len(f) = k /\ \A j \in 1..k : f[j] = arenas[s[j]]
    BY <1>6, <2>2, <2>3, <2>4, <2>5 DEF Looked, Lookups
  <2>7. Len(g) = k + 1 /\ g[k + 1] = v /\ \A j \in 1..k : g[j] = f[j]
    BY <2>1, <2>6
  <2>8. \A j \in 1..k + 1 : j = k + 1 \/ j \in 1..k
    BY <2>1
  <2>9. \A j \in 1..k + 1 : g[j] = arenas[s[j]]
    BY <2>2, <2>5, <2>6, <2>7, <2>8
  <2>10. h[k + 1] \in Lookups /\ Len(h[k + 1].found) = k + 1 /\ \A j \in 1..k + 1 : h[k + 1].found[j] = arenas[s[j]]
    BY <2>2, <2>5, <2>6, <2>7, <2>9, Zenon
  <2>11. QED
    BY <2>1, <2>10
<1>7. \A k \in 0..Len(s) : k \in P
  <2> HIDE DEF P
  <2>1. \A k \in 0..Len(s) - 1 : k \in P => k + 1 \in P
    BY <1>6
  <2>2. QED
    BY <1>1, <1>5, <2>1, UpToInduction
<1>8. Len(s) \in P
  <2>1. Len(s) \in 0..Len(s)
    BY <1>1
  <2>2. QED
    BY <1>7, <2>1, Zenon
<1>9. PICK c, f : c = UploadAll(s) /\ f = c.found
  OBVIOUS
<1>10. c = h[Len(s)]
  BY <1>4, <1>9, Zenon DEF UploadAll, base
<1>11. c \in Lookups /\ Len(f) = Len(s) /\ \A j \in 1..Len(s) : f[j] = arenas[s[j]]
  BY <1>8, <1>9, <1>10
<1>12. f \in Seq(Nat)
  BY <1>9, <1>11 DEF Lookups
<1>13. f = Versions(s)
  BY <1>1, <1>11, <1>12 DEF Versions
<1>14. QED
  BY <1>9, <1>11, <1>13

-----------------------------------------------------------------------------
(***************************************************************************)
(* Groups and commands.                                                    *)
(***************************************************************************)
Joined(groups, p, limit) ==
  IF /\ groups # <<>>
     /\ Len(Last(groups)) < limit
     /\ Fits(Last(groups), p)
  THEN Append(Front(groups), Append(Last(groups), p))
  ELSE Append(groups, <<p>>)

\* A group holds a plan, and keeps to the budget if it holds more.
Whole(plans) == Len(plans) > 1 => Scratch(plans) <= Budget
Groups == {groups \in Seq(Seq(Names)) : \A k \in 1..Len(groups) : groups[k] # <<>> /\ Whole(groups[k])}

\* FoldLeft adds a plan after the other.
JoinsIn(M, limit) == \A c \in M : \A a \in Names : Joined(c, a, limit) \in M
JoinsTo(h, base, s, limit) ==
  /\ h[0] = base /\ h[Len(s)] = FoldLeft(LAMBDA groups, p : Joined(groups, p, limit), base, s)
  /\ \A k \in 1..Len(s) : h[k] = Joined(h[k - 1], s[k], limit)

\* Folding Joined over plans is adding them one after another.
LEMMA JoinFold ==
  ASSUME NEW M, NEW limit, NEW base \in M, NEW s \in Seq(Names), JoinsIn(M, limit)
  PROVE  \E h : JoinsTo(h, base, s, limit)
<1> DEFINE step == [x \in M \X Names |-> Joined(x[1], x[2], limit)]
<1>1. /\ DOMAIN s = 1..Len(s) /\ Len(s) \in Nat /\ 1..0 = {}
      /\ \A T \in SUBSET DOMAIN s : T # {} => s[Max(T)] \in Names
      /\ \A k \in 1..Len(s) : /\ 1..k \in SUBSET DOMAIN s /\ 1..k # {} /\ k - 1 \in 0..Len(s)
                              /\ Max(1..k) = k /\ (1..k) \ {k} = 1..k - 1
  BY FoldPrefixes
<1>2. step \in [M \X Names -> M] /\ \A m \in M : \A r \in Names : step[<<m, r>>] = Joined(m, r, limit)
  BY DEF JoinsIn
<1>3. PICK g \in [SUBSET (1..Len(s)) -> M] : Folds(g, base, step, s, Len(s))
  <2> HIDE DEF step
  <2>1. QED
    BY <1>2, FoldExists
<1> HIDE DEF step
<1>4. g = [T \in SUBSET (DOMAIN s) |-> IF T = {} THEN base ELSE Joined(g[T \ {Max(T)}], s[Max(T)], limit)]
  <2>1. \A T \in SUBSET DOMAIN s : g[T] \in M /\ T \ {Max(T)} \in SUBSET DOMAIN s
    BY <1>1, <1>3
  <2>2. \A T \in SUBSET DOMAIN s : T # {} =>
          step[<<g[T \ {Max(T)}], s[Max(T)]>>] = Joined(g[T \ {Max(T)}], s[Max(T)], limit)
    BY <1>1, <1>2, <2>1
  <2>3. QED
    BY <1>1, <1>3, <2>2 DEF Folds
<1>5. PICK f : /\ f[DOMAIN s] = FoldLeft(LAMBDA groups, p : Joined(groups, p, limit), base, s)
               /\ f = [T \in SUBSET (DOMAIN s) |-> IF T = {} THEN base ELSE Joined(f[T \ {Max(T)}], s[Max(T)], limit)]
  BY <1>4, Zenon DEF FoldLeft, MapThenFoldSet
<1> DEFINE h == [k \in 0..Len(s) |-> f[1..k]]
<1>6. h[0] = base /\ h[Len(s)] = FoldLeft(LAMBDA groups, p : Joined(groups, p, limit), base, s)
  <2>1. h[0] = f[1..0] /\ h[Len(s)] = f[1..Len(s)]
    BY <1>1
  <2>2. f[{}] = base
    BY <1>5
  <2>3. QED
    BY <1>1, <1>5, <2>1, <2>2
<1>7. \A k \in 1..Len(s) : h[k] = Joined(h[k - 1], s[k], limit)
  <2>1. SUFFICES ASSUME NEW k \in 1..Len(s)
                 PROVE  h[k] = Joined(h[k - 1], s[k], limit)
    OBVIOUS
  <2>2. f[1..k] = Joined(f[(1..k) \ {Max(1..k)}], s[Max(1..k)], limit)
    BY <1>1, <1>5, Zenon
  <2>3. f[1..k] = Joined(f[1..k - 1], s[k], limit)
    BY <1>1, <2>2, Zenon
  <2>4. h[k] = f[1..k] /\ h[k - 1] = f[1..k - 1]
    BY <1>1
  <2>5. QED
    BY <2>3, <2>4
<1> HIDE DEF h
<1>8. QED
  BY <1>6, <1>7 DEF JoinsTo

\* A sequence is its front and its last element.
LEMMA FrontAndLast ==
  ASSUME NEW S, NEW s \in Seq(S), s # <<>>
  PROVE  /\ Front(s) \in Seq(S) /\ Last(s) \in S /\ Len(Front(s)) = Len(s) - 1
         /\ \A i \in 1..Len(s) - 1 : Front(s)[i] = s[i]
         /\ Last(s) = s[Len(s)] /\ Len(s) \in 1..Len(s)
         /\ s = Append(Front(s), Last(s))
<1>1. Len(s) \in Nat \ {0} /\ Len(s) - 1 \in 0..Len(s) /\ Len(s) \in 1..Len(s) /\ s[Len(s)] \in S
  OBVIOUS
<1>2. PICK l : l = Len(s)
  OBVIOUS
<1>3. /\ SubSeq(s, 1, l - 1) \in Seq(S) /\ Len(SubSeq(s, 1, l - 1)) = l - 1
      /\ \A i \in 1..l - 1 : SubSeq(s, 1, l - 1)[i] = s[i]
  BY <1>1, <1>2, Split
<1>4. PICK f : f = Front(s)
  OBVIOUS
<1>5. f \in Seq(S) /\ Len(f) = l - 1 /\ (\A i \in 1..l - 1 : f[i] = s[i]) /\ Last(s) = s[l]
  BY <1>2, <1>3, <1>4 DEF Front, Last
<1>6. s = Append(f, s[l])
  BY <1>1, <1>2, <1>5
<1>7. QED
  BY <1>1, <1>2, <1>4, <1>5, <1>6

\* What a plan needs, and a sequence of plans.
Need == [p \in Names |-> ScratchBytes(p)]

\* What a plan needs is a number of bytes.
LEMMA NeedType ==
  ASSUME MetalAssumption
  PROVE  /\ Need \in [Names -> Nat] /\ \A p \in Names : Need[p] \in Nat
         /\ \A s \in Seq(Names) : Scratch(s) = Weight(s, Need) /\ Scratch(s) \in Nat
<1>1. ASSUME NEW p \in Names
      PROVE  ScratchBytes(p) \in Nat
  <2>1. Plans[p] \in [arenas : Seq(Addresses), low : Nat \ {0}, samples : Nat \ {0}, output : Nat]
    BY DEF MetalAssumption, Names
  <2>2. Plans[p].low \in Nat /\ Plans[p].samples \in Nat
    BY <2>1
  <2>3. QED
    BY <2>2 DEF ScratchBytes
<1>2. Need \in [Names -> Nat] /\ \A p \in Names : Need[p] \in Nat /\ Need[p] = ScratchBytes(p)
  BY <1>1 DEF Need
<1>3. ASSUME NEW s \in Seq(Names)
      PROVE  Scratch(s) = Weight(s, Need) /\ Scratch(s) \in Nat
  <2>1. \A k \in DOMAIN s : ScratchBytes(s[k]) = Need[s[k]]
    BY <1>2
  <2>2. [k \in DOMAIN s |-> ScratchBytes(s[k])] = [k \in DOMAIN s |-> Need[s[k]]]
    BY <2>1
  <2>3. Scratch(s) = Weight(s, Need)
    BY <2>2, Zenon DEF Scratch, Weight, Weights
  <2>4. QED
    BY <1>2, <2>3, WeightType
<1>4. QED
  BY <1>2, <1>3

\* A plan joins the last group only within the budget.
Joins(groups, n, p) == n \in Groups /\ FlattenSeq(n) = Append(FlattenSeq(groups), p)

\* A plan is added at the end of the groups.
LEMMA JoinStep ==
  ASSUME MetalAssumption, NEW groups \in Groups, NEW p \in Names, NEW limit
  PROVE  Joins(groups, Joined(groups, p, limit), p)
<1>1. groups \in Seq(Seq(Names)) /\ \A k \in 1..Len(groups) : groups[k] # <<>> /\ Whole(groups[k])
  BY DEF Groups
<1>2. FlattenSeq(groups) \in Seq(Names)
  BY <1>1, FlattenType
<1>3. ASSUME NEW front \in Seq(Seq(Names)), NEW last \in Seq(Names), last # <<>>, Whole(last),
             \A k \in 1..Len(front) : front[k] # <<>> /\ Whole(front[k])
      PROVE  Append(front, last) \in Groups
  <2>1. /\ Append(front, last) \in Seq(Seq(Names)) /\ Len(Append(front, last)) = Len(front) + 1
        /\ Append(front, last)[Len(front) + 1] = last
        /\ \A k \in 1..Len(front) : Append(front, last)[k] = front[k]
    OBVIOUS
  <2>2. \A k \in 1..Len(front) + 1 : k = Len(front) + 1 \/ k \in 1..Len(front)
    OBVIOUS
  <2>3. \A k \in 1..Len(Append(front, last)) : Append(front, last)[k] # <<>> /\ Whole(Append(front, last)[k])
    BY <1>3, <2>1, <2>2
  <2>4. QED
    BY <2>1, <2>3 DEF Groups
<1>4. CASE groups # <<>> /\ Fits(Last(groups), p) /\ Joined(groups, p, limit) = Append(Front(groups), Append(Last(groups), p))
  <2>1. PICK f, l, n : f = Front(groups) /\ l = Last(groups) /\ n = Append(l, p)
    OBVIOUS
  <2>2. /\ f \in Seq(Seq(Names)) /\ l \in Seq(Names) /\ groups = Append(f, l) /\ Len(f) = Len(groups) - 1
        /\ (\A i \in 1..Len(groups) - 1 : f[i] = groups[i])
    BY <1>1, <1>4, <2>1, FrontAndLast
  <2>3. n \in Seq(Names) /\ n # <<>>
    BY <2>1, <2>2
  <2>4. \A k \in 1..Len(f) : f[k] # <<>> /\ Whole(f[k])
    BY <1>1, <2>2
  <2>5. Whole(n)
    <3>1. Scratch(n) = Scratch(l) + Need[p]
      <4>1. PICK w : w = Need
        OBVIOUS
      <4>2. (\A x \in Names : w[x] \in Nat) /\ Scratch(l) = Weight(l, w) /\ Scratch(n) = Weight(n, w)
        BY <2>2, <2>3, <4>1, NeedType
      <4>3. Weight(Append(l, p), w) = Weight(l, w) + w[p]
        BY <2>2, <4>2, WeightAppend
      <4>4. QED
        BY <2>1, <4>1, <4>2, <4>3
    <3>2. Need[p] = ScratchBytes(p)
      BY DEF Need
    <3>3. Scratch(l) + ScratchBytes(p) <= Budget
      BY <1>4, <2>1 DEF Fits
    <3>4. QED
      BY <3>1, <3>2, <3>3 DEF Whole
  <2>6. Append(f, n) \in Groups
    BY <1>3, <2>2, <2>3, <2>4, <2>5
  <2>7. FlattenSeq(groups) = FlattenSeq(f) \o l /\ FlattenSeq(Append(f, n)) = FlattenSeq(f) \o n /\ FlattenSeq(f) \in Seq(Names)
    BY <2>2, <2>3, FlattenAppend, FlattenType
  <2>8. PICK a : a = FlattenSeq(f)
    OBVIOUS
  <2>9. a \o n = Append(a \o l, p)
    <3>1. a \in Seq(Names)
      BY <2>7, <2>8
    <3>2. QED
      BY <2>1, <2>2, <3>1
  <2>10. QED
    BY <1>4, <2>1, <2>6, <2>7, <2>8, <2>9 DEF Joins
<1>5. CASE Joined(groups, p, limit) = Append(groups, <<p>>)
  <2>1. <<p>> \in Seq(Names) /\ <<p>> # <<>> /\ Whole(<<p>>)
    BY DEF Whole
  <2>2. Append(groups, <<p>>) \in Groups
    BY <1>1, <1>3, <2>1
  <2>3. FlattenSeq(Append(groups, <<p>>)) = FlattenSeq(groups) \o <<p>>
    BY <1>1, <2>1, FlattenAppend
  <2>4. FlattenSeq(groups) \o <<p>> = Append(FlattenSeq(groups), p)
    BY <1>2
  <2>5. QED
    BY <1>5, <2>2, <2>3, <2>4 DEF Joins
<1>6. QED
  BY <1>4, <1>5, Zenon DEF Joined

\* batch_groups and dense_group_end cut the plans into such groups, in order.
LEMMA GroupedPlans ==
  ASSUME MetalAssumption, NEW s \in Seq(Names), NEW limit
  PROVE  Grouped(s, limit) \in Groups /\ FlattenSeq(Grouped(s, limit)) = s
<1>1. Len(s) \in Nat /\ \A k \in 1..Len(s) : s[k] \in Names
  OBVIOUS
<1>2. <<>> \in Groups /\ FlattenSeq(<<>>) = <<>>
  BY FlattenEmpty DEF Groups
<1>3. JoinsIn(Groups, limit)
  BY JoinStep DEF JoinsIn, Joins
<1>4. PICK h : /\ h[0] = <<>> /\ h[Len(s)] = FoldLeft(LAMBDA groups, p : Joined(groups, p, limit), <<>>, s)
               /\ \A k \in 1..Len(s) : h[k] = Joined(h[k - 1], s[k], limit)
  <2>1. \E h : JoinsTo(h, <<>>, s, limit)
    BY <1>2, <1>3, JoinFold, Zenon
  <2>2. QED
    BY <2>1, Zenon DEF JoinsTo
<1> DEFINE P == {k \in Nat : /\ h[k] \in Groups /\ Len(FlattenSeq(h[k])) = k
                             /\ \A j \in 1..k : FlattenSeq(h[k])[j] = s[j]}
<1>5. 0 \in P
  <2>1. h[0] \in Groups /\ FlattenSeq(h[0]) = <<>>
    BY <1>2, <1>4
  <2>2. QED
    BY <2>1
<1>6. ASSUME NEW k \in 0..Len(s) - 1, k \in P
      PROVE  k + 1 \in P
  <2>1. k \in Nat /\ k + 1 \in 1..Len(s) /\ (k + 1) - 1 = k
    BY <1>1
  <2>2. PICK c, d, a : c = h[k] /\ d = h[k + 1] /\ a = s[k + 1]
    OBVIOUS
  <2>3. d = Joined(c, a, limit) /\ a \in Names /\ c \in Groups
    BY <1>1, <1>4, <1>6, <2>1, <2>2
  <2>4. Joins(c, d, a)
    BY <2>3, JoinStep
  <2>5. PICK f, g : f = FlattenSeq(c) /\ g = FlattenSeq(d)
    OBVIOUS
  <2>6. f \in Seq(Names)
    BY <2>3, <2>5, FlattenType DEF Groups
  <2>7. g = Append(f, a) /\ Len(f) = k /\ \A j \in 1..k : f[j] = s[j]
    BY <1>6, <2>2, <2>4, <2>5 DEF Joins
  <2>8. Len(g) = k + 1 /\ g[k + 1] = a /\ \A j \in 1..k : g[j] = f[j]
    BY <2>1, <2>6, <2>7
  <2>9. \A j \in 1..k + 1 : j = k + 1 \/ j \in 1..k
    BY <2>1
  <2>10. \A j \in 1..k + 1 : g[j] = s[j]
    BY <2>2, <2>7, <2>8, <2>9
  <2>11. h[k + 1] \in Groups /\ Len(FlattenSeq(h[k + 1])) = k + 1 /\ \A j \in 1..k + 1 : FlattenSeq(h[k + 1])[j] = s[j]
    BY <2>2, <2>4, <2>5, <2>8, <2>10 DEF Joins
  <2>12. QED
    BY <2>1, <2>11
<1>7. \A k \in 0..Len(s) : k \in P
  <2> HIDE DEF P
  <2>1. \A k \in 0..Len(s) - 1 : k \in P => k + 1 \in P
    BY <1>6
  <2>2. QED
    BY <1>1, <1>5, <2>1, UpToInduction
<1>8. Len(s) \in P
  <2>1. Len(s) \in 0..Len(s)
    BY <1>1
  <2>2. QED
    BY <1>7, <2>1, Zenon
<1>9. PICK g, f : g = Grouped(s, limit) /\ f = FlattenSeq(g)
  OBVIOUS
<1>10. g = h[Len(s)]
  BY <1>4, <1>9, Zenon DEF Grouped, Joined
<1>11. g \in Groups /\ Len(f) = Len(s) /\ \A j \in 1..Len(s) : f[j] = s[j]
  BY <1>8, <1>9, <1>10
<1>12. f \in Seq(Names)
  BY <1>9, <1>11, FlattenType DEF Groups
<1>13. f = s
  BY <1>1, <1>11, <1>12
<1>14. QED
  BY <1>9, <1>11, <1>13

\* Two slices of a sequence.
LEMMA Slices ==
  ASSUME NEW S, NEW s \in Seq(S), NEW i \in 0..Len(s), NEW j \in i..Len(s)
  PROVE  /\ SubSeq(s, 1, i) \in Seq(S) /\ SubSeq(s, i + 1, j) \in Seq(S)
         /\ SubSeq(s, 1, i) \o SubSeq(s, i + 1, j) = SubSeq(s, 1, j)
         /\ SubSeq(s, 1, 0) = <<>> /\ SubSeq(s, 1, Len(s)) = s
<1>1. Len(s) \in Nat /\ i \in Nat /\ j \in Nat /\ i <= j /\ j <= Len(s) /\ \A k \in 1..Len(s) : s[k] \in S
  OBVIOUS
<1> DEFINE a == SubSeq(s, 1, i)
           b == SubSeq(s, i + 1, j)
           c == SubSeq(s, 1, j)
<1>2. a \in Seq(S) /\ Len(a) = i /\ \A k \in 1..i : a[k] = s[k]
  BY <1>1
<1>3. b \in Seq(S) /\ Len(b) = j - i /\ \A k \in 1..j - i : b[k] = s[i + k]
  BY <1>1
<1>4. c \in Seq(S) /\ Len(c) = j /\ \A k \in 1..j : c[k] = s[k]
  BY <1>1
<1>5. SubSeq(s, 1, 0) = <<>> /\ SubSeq(s, 1, Len(s)) = s
  BY <1>1
<1> HIDE DEF a, b, c
<1>6. a \o b \in Seq(S) /\ Len(a \o b) = j /\ \A k \in 1..j : (a \o b)[k] = s[k]
  BY <1>1, <1>2, <1>3
<1>7. a \o b = c
  <2>1. PICK u : u = a \o b
    OBVIOUS
  <2>2. u \in Seq(S) /\ Len(u) = j /\ \A k \in 1..j : u[k] = s[k]
    BY <1>6, <2>1
  <2>3. u = c
    BY <1>4, <2>2
  <2>4. QED
    BY <2>1, <2>3
<1>8. QED
  BY <1>2, <1>3, <1>5, <1>7 DEF a, b, c

\* Sequences of sequences of sequences are flattened from either side.
Flattened(t) == [k \in DOMAIN t |-> FlattenSeq(t[k])]

\* Concatenating twice is concatenating once what was concatenated.
LEMMA FlattenNested ==
  ASSUME NEW S, NEW t \in Seq(Seq(Seq(S)))
  PROVE  FlattenSeq(FlattenSeq(t)) = FlattenSeq(Flattened(t)) /\ Flattened(t) \in Seq(Seq(S))
<1> DEFINE P == {q \in Seq(Seq(Seq(S))) : FlattenSeq(FlattenSeq(q)) = FlattenSeq(Flattened(q))}
<1>1. ASSUME NEW q \in Seq(Seq(Seq(S)))
      PROVE  Flattened(q) \in Seq(Seq(S)) /\ Len(Flattened(q)) = Len(q)
  <2>1. DOMAIN q = 1..Len(q) /\ Len(q) \in Nat /\ \A k \in 1..Len(q) : q[k] \in Seq(Seq(S))
    OBVIOUS
  <2>2. \A k \in 1..Len(q) : FlattenSeq(q[k]) \in Seq(S)
    BY <2>1, FlattenType
  <2>3. QED
    BY <2>1, <2>2 DEF Flattened
<1>2. <<>> \in P
  <2>1. Flattened(<<>>) = <<>>
    BY DEF Flattened
  <2>2. QED
    BY <2>1, FlattenEmpty
<1>3. ASSUME NEW q \in P, NEW x \in Seq(Seq(S))
      PROVE  Append(q, x) \in P
  <2>1. q \in Seq(Seq(Seq(S))) /\ Append(q, x) \in Seq(Seq(Seq(S)))
    OBVIOUS
  <2>2. PICK f, y : f = FlattenSeq(q) /\ y = FlattenSeq(x)
    OBVIOUS
  <2>3. f \in Seq(Seq(S)) /\ y \in Seq(S)
    BY <2>1, <2>2, FlattenType
  <2>4. FlattenSeq(Append(q, x)) = f \o x
    BY <2>1, <2>2, FlattenAppend
  <2>5. FlattenSeq(f \o x) = FlattenSeq(f) \o y
    BY <2>2, <2>3, FlattenConcat
  <2>6. Flattened(Append(q, x)) = Append(Flattened(q), y)
    <3>1. /\ Len(Append(q, x)) = Len(q) + 1 /\ Append(q, x)[Len(q) + 1] = x
          /\ (\A k \in 1..Len(q) : Append(q, x)[k] = q[k]) /\ Len(q) \in Nat /\ DOMAIN q = 1..Len(q)
          /\ DOMAIN Append(q, x) = 1..Len(q) + 1
      BY <2>1
    <3>2. PICK u, v : u = Flattened(q) /\ v = Flattened(Append(q, x))
      OBVIOUS
    <3>3. u \in Seq(Seq(S)) /\ Len(u) = Len(q) /\ v \in Seq(Seq(S)) /\ Len(v) = Len(q) + 1
      BY <1>1, <2>1, <3>1, <3>2
    <3>4. \A k \in 1..Len(q) : v[k] = u[k]
      BY <3>1, <3>2 DEF Flattened
    <3>5. v[Len(q) + 1] = y
      BY <2>2, <3>1, <3>2 DEF Flattened
    <3>6. v = Append(u, y)
      BY <2>3, <3>1, <3>3, <3>4, <3>5
    <3>7. QED
      BY <3>2, <3>6
  <2>7. FlattenSeq(Append(Flattened(q), y)) = FlattenSeq(Flattened(q)) \o y
    BY <1>1, <2>1, <2>3, FlattenAppend
  <2>8. FlattenSeq(f) = FlattenSeq(Flattened(q))
    BY <2>2
  <2>9. QED
    BY <2>1, <2>4, <2>5, <2>6, <2>7, <2>8
<1>4. Seq(Seq(Seq(S))) \subseteq P
  <2> DEFINE R == Seq(Seq(S))
  <2> HIDE DEF P
  <2>1. <<>> \in P /\ \A q \in P \cap Seq(R) : \A x \in R : Append(q, x) \in P
    BY <1>2, <1>3
  <2> HIDE DEF R
  <2>2. Seq(R) \subseteq P
    BY <2>1, SeqInduction
  <2>3. QED
    BY <2>2 DEF R
<1>5. QED
  BY <1>1, <1>4

\* plans.chunks(PerCommand): the chunks of a group are its plans, in order.
LEMMA ChunksOfGroup ==
  ASSUME MetalAssumption, NEW group \in Seq(Names)
  PROVE  Chunks(group) \in Seq(Seq(Names)) /\ FlattenSeq(Chunks(group)) = group
<1>1. PICK L, W, N : L = Len(group) /\ W = PerCommand /\ N = (L + W - 1) \div W
  OBVIOUS
<1>2. L \in Nat /\ W \in Nat \ {0}
  BY <1>1 DEF MetalAssumption
<1>3. N \in Nat /\ N * W >= L /\ N * W <= L + W - 1
  BY <1>1, <1>2
<1> DEFINE e == [k \in 0..N |-> IF k * W < L THEN k * W ELSE L]
<1>4. e[0] = 0 /\ e[N] = L
  BY <1>2, <1>3
<1>5. ASSUME NEW k \in 1..N
      PROVE  e[k - 1] = (k - 1) * W /\ e[k - 1] \in 0..L /\ e[k] \in e[k - 1]..L
  <2>1. k - 1 \in Nat /\ k - 1 < N /\ k \in 0..N /\ k - 1 \in 0..N
    BY <1>3
  <2>2. (k - 1) * W + W <= N * W /\ (k - 1) * W \in Nat /\ k * W = (k - 1) * W + W
    <3>1. PICK i, j : i = k - 1 /\ j = k
      OBVIOUS
    <3>2. i \in Nat /\ j = i + 1 /\ i < N
      BY <2>1, <3>1
    <3>3. i * W + W <= N * W /\ i * W \in Nat /\ j * W = i * W + W
      BY <1>2, <1>3, <3>2
    <3>4. QED
      BY <3>1, <3>3
  <2>3. (k - 1) * W < L
    BY <1>2, <1>3, <2>2
  <2>4. QED
    BY <1>2, <2>1, <2>2, <2>3
<1>6. PICK c : c = Chunks(group)
  OBVIOUS
<1>7. DOMAIN c = 1..N /\ c = [k \in 1..N |-> c[k]] /\ \A k \in 1..N : c[k] = SubSeq(group, e[k - 1] + 1, e[k])
  <2>1. c = [k \in 1..N |-> SubSeq(group, (k - 1) * W + 1, IF k * W < L THEN k * W ELSE L)]
    BY <1>1, <1>6, Zenon DEF Chunks
  <2>2. \A k \in 1..N : e[k] = IF k * W < L THEN k * W ELSE L
    BY <1>3
  <2>3. \A k \in 1..N : e[k - 1] = (k - 1) * W
    BY <1>5
  <2> HIDE DEF e
  <2>4. QED
    BY <2>1, <2>2, <2>3
<1> HIDE DEF e
<1>8. ASSUME NEW k \in 1..N
      PROVE  /\ c[k] \in Seq(Names) /\ SubSeq(group, 1, e[k - 1]) \in Seq(Names)
             /\ SubSeq(group, 1, e[k - 1]) \o c[k] = SubSeq(group, 1, e[k])
  <2>1. PICK i, j : i = e[k - 1] /\ j = e[k]
    OBVIOUS
  <2>2. i \in 0..Len(group) /\ j \in i..Len(group) /\ c[k] = SubSeq(group, i + 1, j)
    BY <1>1, <1>5, <1>7, <2>1
  <2>3. /\ SubSeq(group, 1, i) \in Seq(Names) /\ SubSeq(group, i + 1, j) \in Seq(Names)
        /\ SubSeq(group, 1, i) \o SubSeq(group, i + 1, j) = SubSeq(group, 1, j)
    BY <2>2, Slices
  <2>4. QED
    BY <2>1, <2>2, <2>3
<1>9. c \in Seq(Seq(Names)) /\ Len(c) = N
  BY <1>3, <1>7, <1>8
<1>10. SubSeq(group, 1, 0) = <<>> /\ SubSeq(group, 1, L) = group
  BY <1>1
<1> DEFINE P == {k \in Nat : FlattenSeq(SubSeq(c, 1, k)) = SubSeq(group, 1, e[k])}
<1>11. 0 \in P
  <2>1. SubSeq(c, 1, 0) = <<>>
    BY <1>9
  <2>2. QED
    BY <1>4, <1>10, <2>1, FlattenEmpty
<1>12. ASSUME NEW k \in 0..N - 1, k \in P
       PROVE  k + 1 \in P
  <2>1. k \in Nat /\ k + 1 \in 1..N /\ (k + 1) - 1 = k /\ k + 1 \in Nat
    BY <1>3
  <2>2. PICK a, x : a = SubSeq(c, 1, k) /\ x = c[k + 1]
    OBVIOUS
  <2>3. a \in Seq(Seq(Names)) /\ x \in Seq(Names)
    BY <1>3, <1>8, <1>9, <2>1, <2>2
  <2>4. SubSeq(c, 1, k + 1) = Append(a, x)
    <3>1. Len(a) = k /\ \A i \in 1..k : a[i] = c[i]
      BY <1>3, <1>9, <2>1, <2>2
    <3>2. PICK u, v : u = SubSeq(c, 1, k + 1) /\ v = Append(a, x)
      OBVIOUS
    <3>3. u \in Seq(Seq(Names)) /\ Len(u) = k + 1 /\ \A i \in 1..k + 1 : u[i] = c[i]
      BY <1>3, <1>9, <2>1, <3>2
    <3>4. v \in Seq(Seq(Names)) /\ Len(v) = k + 1 /\ v[k + 1] = x /\ \A i \in 1..k : v[i] = a[i]
      BY <2>1, <2>3, <3>1, <3>2
    <3>5. \A i \in 1..k + 1 : i = k + 1 \/ i \in 1..k
      BY <2>1
    <3>6. u = v
      <4>1. \A i \in 1..k + 1 : u[i] = v[i]
        BY <2>2, <3>1, <3>3, <3>4, <3>5
      <4>2. QED
        BY <3>3, <3>4, <4>1
    <3>7. QED
      BY <3>2, <3>6
  <2>5. FlattenSeq(Append(a, x)) = FlattenSeq(a) \o x
    BY <2>3, FlattenAppend
  <2>6. SubSeq(group, 1, e[k]) \o c[k + 1] = SubSeq(group, 1, e[k + 1])
    BY <1>8, <2>1
  <2>7. QED
    BY <1>12, <2>1, <2>2, <2>4, <2>5, <2>6
<1>13. \A k \in 0..N : k \in P
  <2> HIDE DEF P
  <2>1. \A k \in 0..N - 1 : k \in P => k + 1 \in P
    BY <1>12
  <2>2. QED
    BY <1>3, <1>11, <2>1, UpToInduction
<1>14. FlattenSeq(SubSeq(c, 1, N)) = SubSeq(group, 1, e[N])
  <2>1. N \in 0..N
    BY <1>3
  <2>2. QED
    BY <1>13, <2>1
<1>15. SubSeq(c, 1, N) = c
  BY <1>9
<1>16. QED
  BY <1>4, <1>6, <1>9, <1>10, <1>14, <1>15

\* Single plans.
Singles(group) == [j \in DOMAIN group |-> <<group[j]>>]

\* A group cut into single plans has the plans of the group.
LEMMA SinglesOf ==
  ASSUME NEW group \in Seq(Names)
  PROVE  /\ Singles(group) \in Seq({plans \in Seq(Names) : Whole(plans)})
         /\ Singles(group) \in Seq(Seq(Names))
         /\ FlattenSeq(Singles(group)) = group
<1> DEFINE P == {q \in Seq(Names) : FlattenSeq(Singles(q)) = q}
<1>1. ASSUME NEW q \in Seq(Names)
      PROVE  /\ Singles(q) \in Seq({plans \in Seq(Names) : Whole(plans)}) /\ Len(Singles(q)) = Len(q)
             /\ Singles(q) \in Seq(Seq(Names))
  <2>1. DOMAIN q = 1..Len(q) /\ Len(q) \in Nat /\ \A k \in 1..Len(q) : q[k] \in Names
    OBVIOUS
  <2>2. \A p \in Names : <<p>> \in Seq(Names) /\ Whole(<<p>>)
    BY DEF Whole
  <2>3. PICK G : G = {plans \in Seq(Names) : Whole(plans)}
    OBVIOUS
  <2>4. \A k \in 1..Len(q) : <<q[k]>> \in G /\ <<q[k]>> \in Seq(Names)
    BY <2>1, <2>2, <2>3
  <2>5. Singles(q) \in Seq(G) /\ Len(Singles(q)) = Len(q) /\ Singles(q) \in Seq(Seq(Names))
    BY <2>1, <2>4 DEF Singles
  <2>6. QED
    BY <2>3, <2>5
<1>2. \A q \in Seq(Names) : Singles(q) \in Seq(Seq(Names)) /\ Len(Singles(q)) = Len(q)
  BY <1>1
<1>3. <<>> \in P
  <2>1. Singles(<<>>) = <<>>
    BY DEF Singles
  <2>2. QED
    BY <2>1, FlattenEmpty
<1>4. ASSUME NEW q \in P, NEW x \in Names
      PROVE  Append(q, x) \in P
  <2>1. q \in Seq(Names) /\ Append(q, x) \in Seq(Names) /\ <<x>> \in Seq(Names)
    OBVIOUS
  <2>2. Singles(Append(q, x)) = Append(Singles(q), <<x>>)
    <3>1. /\ Len(Append(q, x)) = Len(q) + 1 /\ Append(q, x)[Len(q) + 1] = x
          /\ (\A k \in 1..Len(q) : Append(q, x)[k] = q[k]) /\ Len(q) \in Nat /\ DOMAIN q = 1..Len(q)
          /\ DOMAIN Append(q, x) = 1..Len(q) + 1
      BY <2>1
    <3>2. PICK u, v : u = Singles(q) /\ v = Singles(Append(q, x))
      OBVIOUS
    <3>3. u \in Seq(Seq(Names)) /\ Len(u) = Len(q) /\ v \in Seq(Seq(Names)) /\ Len(v) = Len(q) + 1
      BY <1>2, <2>1, <3>1, <3>2
    <3>4. \A k \in 1..Len(q) : v[k] = u[k]
      BY <3>1, <3>2 DEF Singles
    <3>5. v[Len(q) + 1] = <<x>>
      BY <3>1, <3>2 DEF Singles
    <3>6. v = Append(u, <<x>>)
      BY <2>1, <3>1, <3>3, <3>4, <3>5
    <3>7. QED
      BY <3>2, <3>6
  <2>3. FlattenSeq(Append(Singles(q), <<x>>)) = FlattenSeq(Singles(q)) \o <<x>>
    BY <1>2, <2>1, FlattenAppend
  <2>4. FlattenSeq(Singles(q)) = q
    OBVIOUS
  <2>5. q \o <<x>> = Append(q, x)
    BY <2>1
  <2>6. QED
    BY <2>1, <2>2, <2>3, <2>4, <2>5
<1>5. Seq(Names) \subseteq P
  <2> HIDE DEF P
  <2>1. <<>> \in P /\ \A q \in P \cap Seq(Names) : \A x \in Names : Append(q, x) \in P
    BY <1>3, <1>4
  <2>2. QED
    BY <2>1, SeqInduction
<1>6. QED
  BY <1>1, <1>5

\* The commands of a group of plans that encode_dense_into encodes.
Commanded(group) == IF Concatenated(group) THEN <<group>> ELSE Singles(group)
WholeCommands == {plans \in Seq(Names) : Whole(plans)}

\* encode_dense_into encodes the plans in order, none over the budget with another.
LEMMA DenseCommandsOf ==
  ASSUME MetalAssumption, NEW plans \in Seq(Names)
  PROVE  DenseCommands(plans) \in Seq(WholeCommands) /\ FlattenSeq(DenseCommands(plans)) = plans
<1>1. PICK g : g = Grouped(plans, PerDense)
  OBVIOUS
<1>2. g \in Seq(Seq(Names)) /\ (\A k \in 1..Len(g) : g[k] # <<>> /\ Whole(g[k])) /\ FlattenSeq(g) = plans
  BY <1>1, GroupedPlans DEF Groups
<1>3. PICK t : t = [k \in DOMAIN g |-> Commanded(g[k])]
  OBVIOUS
<1>4. DenseCommands(plans) = FlattenSeq(t)
  BY <1>1, <1>3, Zenon DEF DenseCommands, Commanded, Singles
<1>5. Len(g) \in Nat /\ DOMAIN g = 1..Len(g) /\ \A k \in 1..Len(g) : g[k] \in Seq(Names) /\ Whole(g[k])
  BY <1>2
<1>6. ASSUME NEW k \in 1..Len(g)
      PROVE  /\ Commanded(g[k]) \in Seq(WholeCommands) /\ Commanded(g[k]) \in Seq(Seq(Names))
             /\ FlattenSeq(Commanded(g[k])) = g[k]
  <2>1. PICK s : s = g[k]
    OBVIOUS
  <2>2. s \in Seq(Names) /\ Whole(s) /\ s \in WholeCommands
    BY <1>5, <2>1 DEF WholeCommands
  <2>3. CASE Concatenated(s)
    <3>1. Commanded(s) = <<s>>
      BY <2>3 DEF Commanded
    <3>2. <<s>> \in Seq(WholeCommands) /\ <<s>> \in Seq(Seq(Names)) /\ FlattenSeq(<<s>>) = s
      BY <2>2, FlattenSingle
    <3>3. QED
      BY <2>1, <3>1, <3>2
  <2>4. CASE ~Concatenated(s)
    <3>1. Commanded(s) = Singles(s)
      BY <2>4 DEF Commanded
    <3>2. Singles(s) \in Seq(WholeCommands) /\ FlattenSeq(Singles(s)) = s /\ Singles(s) \in Seq(Seq(Names))
      BY <2>2, SinglesOf DEF WholeCommands
    <3>3. QED
      BY <2>1, <3>1, <3>2
  <2>5. QED
    BY <2>3, <2>4
<1>7. t \in Seq(Seq(WholeCommands)) /\ t \in Seq(Seq(Seq(Names))) /\ DOMAIN t = 1..Len(g) /\ Len(t) = Len(g)
  BY <1>3, <1>5, <1>6
<1>8. FlattenSeq(t) \in Seq(WholeCommands)
  BY <1>7, FlattenType
<1>9. Flattened(t) = g
  <2>1. \A k \in 1..Len(g) : FlattenSeq(t[k]) = g[k]
    BY <1>3, <1>5, <1>6
  <2>2. Flattened(t) = [k \in 1..Len(g) |-> FlattenSeq(t[k])]
    BY <1>7 DEF Flattened
  <2>3. QED
    BY <1>2, <1>5, <2>1, <2>2
<1>10. FlattenSeq(FlattenSeq(t)) = FlattenSeq(Flattened(t))
  BY <1>7, FlattenNested
<1>11. QED
  BY <1>2, <1>4, <1>8, <1>9, <1>10

\* Groups of commands keep to the budget: commands of dense groups each by itself.
Sized(kind, group) ==
  IF kind = "dense" THEN \A k \in 1..Len(group) : Whole(group[k]) ELSE Whole(FlattenSeq(group))

\* The groups of a request are its plans, in order.
LEMMA GroupsOfRequest ==
  ASSUME MetalAssumption, NEW r \in Requests
  PROVE  /\ GroupsOf(r) \in Seq(Seq(Seq(Names))) /\ FlattenSeq(FlattenSeq(GroupsOf(r))) = r.plans
         /\ \A k \in 1..Len(GroupsOf(r)) : Sized(r.kind, GroupsOf(r)[k])
         /\ r.plans \in Seq(Names) /\ r.kind \in {"batch", "dense", "shared"}
<1>1. PICK plans : plans = r.plans
  OBVIOUS
<1>2. plans \in Seq(Names) /\ r.kind \in {"batch", "dense", "shared"}
  BY <1>1 DEF MetalAssumption, Names
<1>3. CASE r.kind \in {"batch", "shared"}
  <2>1. PICK g, t : g = Grouped(plans, Len(plans)) /\ t = [k \in DOMAIN g |-> Chunks(g[k])]
    OBVIOUS
  <2>2. g \in Seq(Seq(Names)) /\ (\A k \in 1..Len(g) : g[k] # <<>> /\ Whole(g[k])) /\ FlattenSeq(g) = plans
    BY <1>2, <2>1, GroupedPlans DEF Groups
  <2>3. Len(g) \in Nat /\ DOMAIN g = 1..Len(g) /\ \A k \in 1..Len(g) : g[k] \in Seq(Names)
    BY <2>2
  <2>4. \A k \in 1..Len(g) : Chunks(g[k]) \in Seq(Seq(Names)) /\ FlattenSeq(Chunks(g[k])) = g[k]
    BY <2>3, ChunksOfGroup
  <2>5. t \in Seq(Seq(Seq(Names))) /\ DOMAIN t = 1..Len(g) /\ Len(t) = Len(g)
    BY <2>1, <2>3, <2>4
  <2>6. GroupsOf(r) = t
    BY <1>1, <1>3, <2>1, Zenon DEF GroupsOf
  <2>7. \A k \in 1..Len(g) : FlattenSeq(t[k]) = g[k]
    BY <2>1, <2>3, <2>4
  <2>8. Flattened(t) = g
    <3>1. Flattened(t) = [k \in 1..Len(g) |-> FlattenSeq(t[k])]
      BY <2>5 DEF Flattened
    <3>2. QED
      BY <2>2, <2>3, <2>7, <3>1
  <2>9. FlattenSeq(FlattenSeq(t)) = FlattenSeq(Flattened(t))
    BY <2>5, FlattenNested
  <2>10. \A k \in 1..Len(t) : Sized(r.kind, t[k])
    BY <1>3, <2>2, <2>5, <2>7 DEF Sized
  <2>11. QED
    BY <1>1, <1>2, <2>2, <2>5, <2>6, <2>8, <2>9, <2>10
<1>4. CASE r.kind = "dense"
  <2>1. PICK d : d = DenseCommands(plans)
    OBVIOUS
  <2>2. d \in Seq(WholeCommands) /\ FlattenSeq(d) = plans
    BY <1>2, <2>1, DenseCommandsOf
  <2>3. Len(d) \in Nat /\ DOMAIN d = 1..Len(d) /\ \A k \in 1..Len(d) : d[k] \in Seq(Names) /\ Whole(d[k])
    BY <2>2 DEF WholeCommands
  <2>4. d \in Seq(Seq(Names))
    BY <2>2, <2>3
  <2>5. GroupsOf(r) = <<d>>
    BY <1>1, <1>4, <2>1, Zenon DEF GroupsOf
  <2>6. <<d>> \in Seq(Seq(Seq(Names))) /\ Len(<<d>>) = 1 /\ <<d>>[1] = d
    BY <2>4
  <2>7. FlattenSeq(<<d>>) = d
    BY <2>4, FlattenSingle
  <2>8. \A k \in 1..Len(<<d>>) : Sized(r.kind, <<d>>[k])
    BY <1>4, <2>3, <2>6 DEF Sized
  <2>9. QED
    BY <1>1, <1>2, <2>2, <2>5, <2>6, <2>7, <2>8
<1>5. QED
  BY <1>2, <1>3, <1>4

-----------------------------------------------------------------------------
(***************************************************************************)
(* Who owns buffers.                                                       *)
(***************************************************************************)
\* Submissions of two sequences.
LEMMA SubsConcat ==
  ASSUME NEW s \in Seq(Subs), NEW t \in Seq(Subs)
  PROVE  /\ s \o t \in Seq(Subs) /\ Scratches(s \o t) = Scratches(s) \cup Scratches(t)
         /\ Apart(s \o t) <=> Apart(s) /\ Apart(t) /\ Scratches(s) \cap Scratches(t) = {}
         /\ \A c, U : Clear(s \o t, c, U) <=> Clear(s, c, U) /\ Clear(t, c, U)
<1> DEFINE u == s \o t
<1>1. /\ DOMAIN s = 1..Len(s) /\ DOMAIN t = 1..Len(t) /\ DOMAIN u = 1..Len(s) + Len(t) /\ Len(s) \in Nat /\ Len(t) \in Nat
      /\ u \in Seq(Subs)
      /\ \A k \in 1..Len(s) : u[k] = s[k] /\ k \in DOMAIN u
      /\ \A k \in 1..Len(t) : u[Len(s) + k] = t[k] /\ Len(s) + k \in DOMAIN u
  OBVIOUS
<1>2. \A k \in DOMAIN u : (k \in DOMAIN s /\ u[k] = s[k]) \/ \E l \in DOMAIN t : k = Len(s) + l /\ u[k] = t[l]
  <2>1. \A k \in DOMAIN u : k \in 1..Len(s) \/ (k - Len(s) \in 1..Len(t) /\ k = Len(s) + (k - Len(s)))
    BY <1>1
  <2> HIDE DEF u
  <2>2. QED
    BY <1>1, <2>1
<1> HIDE DEF u
<1>3. \A q : Scratches(q) = UNION {Own(q[k]) : k \in DOMAIN q}
  BY Zenon DEF Scratches, Own
<1>4. Scratches(u) = Scratches(s) \cup Scratches(t)
  <2>1. \A k \in DOMAIN s : k \in DOMAIN u /\ Own(u[k]) = Own(s[k])
    BY <1>1
  <2>2. \A k \in DOMAIN t : Len(s) + k \in DOMAIN u /\ Own(u[Len(s) + k]) = Own(t[k])
    BY <1>1
  <2>3. \A k \in DOMAIN u : (k \in DOMAIN s /\ Own(u[k]) = Own(s[k])) \/ \E l \in DOMAIN t : Own(u[k]) = Own(t[l])
    BY <1>2
  <2>4. Scratches(u) \subseteq Scratches(s) \cup Scratches(t)
    BY <1>3, <2>3
  <2>5. Scratches(s) \subseteq Scratches(u)
    BY <1>3, <2>1
  <2>6. Scratches(t) \subseteq Scratches(u)
    BY <1>3, <2>2
  <2>7. QED
    BY <2>4, <2>5, <2>6
<1>5. \A c, U : Clear(u, c, U) <=> Clear(s, c, U) /\ Clear(t, c, U)
  <2>1. SUFFICES ASSUME NEW c, NEW U PROVE Clear(u, c, U) <=> Clear(s, c, U) /\ Clear(t, c, U)
    OBVIOUS
  <2>2. ASSUME Clear(u, c, U) PROVE Clear(s, c, U) /\ Clear(t, c, U)
    <3>1. \A k \in DOMAIN s : s[k].command # c => Own(s[k]) \cap U = {}
      BY <1>1, <2>2 DEF Clear
    <3>2. \A k \in DOMAIN t : t[k].command # c => Own(t[k]) \cap U = {}
      BY <1>1, <2>2 DEF Clear
    <3>3. QED
      BY <3>1, <3>2 DEF Clear
  <2>3. ASSUME Clear(s, c, U), Clear(t, c, U) PROVE Clear(u, c, U)
    BY <1>2, <2>3, Zenon DEF Clear
  <2>4. QED
    BY <2>2, <2>3
<1>6. ASSUME Apart(u)
      PROVE  Apart(s) /\ Apart(t) /\ Scratches(s) \cap Scratches(t) = {}
  <2>1. /\ \A k \in DOMAIN u : /\ IsInjective(u[k].private) /\ IsInjective(u[k].shared)
                               /\ ToSet(u[k].private) \cap ToSet(u[k].shared) = {}
        /\ \A j, k \in DOMAIN u : j # k => Own(u[j]) \cap Own(u[k]) = {}
    BY <1>6 DEF Apart
  <2>2. Apart(s)
    BY <1>1, <2>1 DEF Apart
  <2>3. Apart(t)
    <3>1. \A k \in DOMAIN t : /\ IsInjective(t[k].private) /\ IsInjective(t[k].shared)
                              /\ ToSet(t[k].private) \cap ToSet(t[k].shared) = {}
      BY <1>1, <2>1
    <3>2. \A j, k \in DOMAIN t : j # k => Len(s) + j # Len(s) + k
      BY <1>1
    <3>3. \A j, k \in DOMAIN t : j # k => Own(t[j]) \cap Own(t[k]) = {}
      BY <1>1, <2>1, <3>2
    <3>4. QED
      BY <3>1, <3>3 DEF Apart
  <2>4. \A j \in DOMAIN s : \A k \in DOMAIN t : Own(s[j]) \cap Own(t[k]) = {}
    <3>1. \A j \in DOMAIN s : \A k \in DOMAIN t : j # Len(s) + k
      BY <1>1
    <3>2. QED
      BY <1>1, <2>1, <3>1
  <2>5. QED
    BY <1>3, <2>2, <2>3, <2>4
<1>7. ASSUME Apart(s), Apart(t), Scratches(s) \cap Scratches(t) = {}
      PROVE  Apart(u)
  <2>1. \A k \in DOMAIN u : /\ IsInjective(u[k].private) /\ IsInjective(u[k].shared)
                            /\ ToSet(u[k].private) \cap ToSet(u[k].shared) = {}
    BY <1>2, <1>7, Zenon DEF Apart
  <2>2. SUFFICES ASSUME NEW j \in DOMAIN u, NEW k \in DOMAIN u, j # k PROVE Own(u[j]) \cap Own(u[k]) = {}
    BY <2>1 DEF Apart
  <2>3. \A i \in DOMAIN s : \A l \in DOMAIN t : Own(s[i]) \cap Own(t[l]) = {}
    BY <1>3, <1>7
  <2>4. CASE j \in DOMAIN s /\ u[j] = s[j] /\ k \in DOMAIN s /\ u[k] = s[k]
    BY <1>7, <2>2, <2>4 DEF Apart
  <2>5. CASE j \in DOMAIN s /\ u[j] = s[j] /\ \E l \in DOMAIN t : k = Len(s) + l /\ u[k] = t[l]
    BY <2>3, <2>5
  <2>6. CASE k \in DOMAIN s /\ u[k] = s[k] /\ \E l \in DOMAIN t : j = Len(s) + l /\ u[j] = t[l]
    BY <2>3, <2>6
  <2>7. CASE (\E l \in DOMAIN t : j = Len(s) + l /\ u[j] = t[l]) /\ \E l \in DOMAIN t : k = Len(s) + l /\ u[k] = t[l]
    BY <1>7, <2>2, <2>7 DEF Apart
  <2>8. QED
    BY <1>2, <2>4, <2>5, <2>6, <2>7
<1>8. QED
  BY <1>1, <1>4, <1>5, <1>6, <1>7 DEF u

\* Submissions without the first.
LEMMA SubsTail ==
  ASSUME NEW s \in Seq(Subs), s # <<>>
  PROVE  /\ Head(s) \in Subs /\ Tail(s) \in Seq(Subs) /\ Head(s) = s[1] /\ 1 \in DOMAIN s
         /\ Len(Tail(s)) = Len(s) - 1 /\ \A k \in DOMAIN Tail(s) : Tail(s)[k] = s[k + 1] /\ k + 1 \in DOMAIN s
         /\ Scratches(s) = Own(Head(s)) \cup Scratches(Tail(s))
         /\ Apart(s) => Apart(Tail(s)) /\ Own(Head(s)) \cap Scratches(Tail(s)) = {}
         /\ \A c, U : Clear(s, c, U) => Clear(Tail(s), c, U)
<1> DEFINE h == Head(s)
           t == Tail(s)
<1>1. h \in Subs /\ t \in Seq(Subs) /\ h = s[1] /\ <<h>> \in Seq(Subs) /\ Len(t) = Len(s) - 1 /\ Len(s) \in Nat
  OBVIOUS
<1>2. DOMAIN t = 1..Len(s) - 1 /\ DOMAIN s = 1..Len(s) /\ \A k \in 1..Len(s) - 1 : t[k] = s[k + 1]
  OBVIOUS
<1>3. s = <<h>> \o t
  OBVIOUS
<1>4. 1 \in DOMAIN s /\ \A k \in DOMAIN t : k + 1 \in DOMAIN s
  BY <1>1, <1>2
<1>5. Scratches(<<h>>) = Own(h)
  <2>1. DOMAIN <<h>> = {1} /\ <<h>>[1] = h
    OBVIOUS
  <2> HIDE DEF h
  <2>2. QED
    BY <2>1 DEF Scratches, Own
<1> HIDE DEF h, t
<1>6. /\ Scratches(s) = Scratches(<<h>>) \cup Scratches(t)
      /\ Apart(s) <=> Apart(<<h>>) /\ Apart(t) /\ Scratches(<<h>>) \cap Scratches(t) = {}
      /\ \A c, U : Clear(s, c, U) <=> Clear(<<h>>, c, U) /\ Clear(t, c, U)
  <2>1. PICK a : a = <<h>>
    OBVIOUS
  <2>2. a \in Seq(Subs) /\ s = a \o t
    BY <1>1, <1>3, <2>1
  <2>3. /\ Scratches(a \o t) = Scratches(a) \cup Scratches(t)
        /\ Apart(a \o t) <=> Apart(a) /\ Apart(t) /\ Scratches(a) \cap Scratches(t) = {}
        /\ \A c, U : Clear(a \o t, c, U) <=> Clear(a, c, U) /\ Clear(t, c, U)
    BY <1>1, <2>2, SubsConcat, Zenon
  <2>4. QED
    BY <2>1, <2>2, <2>3, Zenon
<1>7. QED
  BY <1>1, <1>2, <1>4, <1>5, <1>6 DEF h, t

\* No submissions have no scratch.
LEMMA SubsEmpty == Scratches(<<>>) = {} /\ Apart(<<>>) /\ (\A c, U : Clear(<<>>, c, U)) /\ <<>> \in Seq(Subs)
  BY DEF Scratches, Apart, Clear

-----------------------------------------------------------------------------
(***************************************************************************)
(* Moving buffers from one owner to another.                               *)
(***************************************************************************)
\* A batch that is handed over.
LEMMA BatchRemoved ==
  ASSUME NEW P \in Seq(Handed), NEW k \in 1..Len(P), Batches(P), NEW Q, Q = RemoveAt(P, k)
  PROVE  /\ Q \in Seq(Handed) /\ Batches(Q) /\ Apart(P[k].submissions)
         /\ BatchBuffers(P) = BatchBuffers(Q) \cup Scratches(P[k].submissions)
         /\ BatchBuffers(Q) \cap Scratches(P[k].submissions) = {}
         /\ \A i \in DOMAIN Q : \E j \in DOMAIN P : Q[i] = P[j]
<1>1. /\ DOMAIN P = 1..Len(P) /\ Len(P) \in Nat /\ Q \in Seq(Handed) /\ Len(Q) = Len(P) - 1 /\ DOMAIN Q = 1..Len(P) - 1
      /\ \A i \in 1..Len(P) - 1 : Q[i] = IF i < k THEN P[i] ELSE P[i + 1]
  <2>1. DOMAIN P = 1..Len(P) /\ Len(P) \in Nat
    OBVIOUS
  <2>2. PICK S : S = Handed
    OBVIOUS
  <2>3. /\ Q \in Seq(S) /\ Len(Q) = Len(P) - 1
        /\ \A i \in 1..Len(P) - 1 : Q[i] = IF i < k THEN P[i] ELSE P[i + 1]
    BY <2>2, Removed
  <2>4. DOMAIN Q = 1..Len(P) - 1
    BY <2>3
  <2>5. QED
    BY <2>1, <2>2, <2>3, <2>4
<1> DEFINE f == [i \in 1..Len(P) - 1 |-> IF i < k THEN i ELSE i + 1]
<1>2. /\ \A i \in DOMAIN Q : f[i] \in DOMAIN P /\ f[i] # k /\ Q[i] = P[f[i]]
      /\ \A i, j \in DOMAIN Q : i # j => f[i] # f[j]
  BY <1>1
<1>3. \A j \in DOMAIN P : j # k => \E i \in DOMAIN Q : f[i] = j
  <2>1. SUFFICES ASSUME NEW j \in DOMAIN P, j # k PROVE \E i \in DOMAIN Q : f[i] = j
    OBVIOUS
  <2>2. CASE j < k
    <3>1. j \in DOMAIN Q /\ f[j] = j
      BY <1>1, <2>2
    <3>2. QED
      BY <3>1, Zenon
  <2>3. CASE j > k
    <3>1. j - 1 \in DOMAIN Q /\ f[j - 1] = j
      BY <1>1, <2>3
    <3>2. QED
      BY <3>1, Zenon
  <2>4. QED
    BY <1>1, <2>1, <2>2, <2>3
<1> HIDE DEF f
<1>4. Batches(Q)
  <2>1. \A i \in DOMAIN Q : Apart(Q[i].submissions)
    BY <1>2 DEF Batches
  <2>2. \A i, j \in DOMAIN Q : i # j => Scratches(Q[i].submissions) \cap Scratches(Q[j].submissions) = {}
    <3>1. SUFFICES ASSUME NEW i \in DOMAIN Q, NEW j \in DOMAIN Q, i # j
                   PROVE  Scratches(Q[i].submissions) \cap Scratches(Q[j].submissions) = {}
      OBVIOUS
    <3>2. Scratches(P[f[i]].submissions) \cap Scratches(P[f[j]].submissions) = {}
      BY <1>2, <3>1, Zenon DEF Batches
    <3>3. QED
      BY <1>2, <3>2
  <2>3. QED
    BY <2>1, <2>2 DEF Batches
<1>5. k \in DOMAIN P
  BY <1>1
<1>6. BatchBuffers(Q) \cap Scratches(P[k].submissions) = {}
  <2>1. \A i \in DOMAIN Q : Scratches(Q[i].submissions) \cap Scratches(P[k].submissions) = {}
    BY <1>2, <1>5 DEF Batches
  <2>2. QED
    BY <2>1 DEF BatchBuffers
<1>7. BatchBuffers(P) = BatchBuffers(Q) \cup Scratches(P[k].submissions)
  <2>1. \A b : b \in BatchBuffers(P) <=> \E j \in DOMAIN P : b \in Scratches(P[j].submissions)
    BY DEF BatchBuffers
  <2>2. \A b : b \in BatchBuffers(Q) <=> \E j \in DOMAIN Q : b \in Scratches(Q[j].submissions)
    BY DEF BatchBuffers
  <2>3. ASSUME NEW b \in BatchBuffers(P) PROVE b \in BatchBuffers(Q) \cup Scratches(P[k].submissions)
    <3>1. PICK j \in DOMAIN P : b \in Scratches(P[j].submissions)
      BY <2>1
    <3>2. CASE j = k
      BY <3>1, <3>2
    <3>3. CASE j # k
      <4>1. PICK i \in DOMAIN Q : f[i] = j
        BY <1>3, <3>3
      <4>2. Q[i] = P[j]
        BY <1>2, <4>1
      <4>3. QED
        BY <2>2, <3>1, <4>2
    <3>4. QED
      BY <3>2, <3>3
  <2>4. ASSUME NEW b \in BatchBuffers(Q) PROVE b \in BatchBuffers(P)
    BY <1>2, <2>1, <2>2
  <2>5. ASSUME NEW b \in Scratches(P[k].submissions) PROVE b \in BatchBuffers(P)
    BY <1>5, <2>1
  <2>6. QED
    BY <2>3, <2>4, <2>5
<1>8. Apart(P[k].submissions)
  BY <1>5 DEF Batches
<1>9. QED
  BY <1>1, <1>2, <1>4, <1>6, <1>7, <1>8

\* A batch that is handed out.
LEMMA BatchAppended ==
  ASSUME NEW P \in Seq(Handed), Batches(P), NEW b \in Handed, Apart(b.submissions),
         BatchBuffers(P) \cap Scratches(b.submissions) = {}, NEW Q, Q = Append(P, b)
  PROVE  /\ Q \in Seq(Handed) /\ Batches(Q)
         /\ BatchBuffers(Q) = BatchBuffers(P) \cup Scratches(b.submissions)
         /\ \A i \in DOMAIN Q : (i \in DOMAIN P /\ Q[i] = P[i]) \/ Q[i] = b
<1>1. /\ DOMAIN P = 1..Len(P) /\ Len(P) \in Nat /\ Q \in Seq(Handed) /\ DOMAIN Q = 1..Len(P) + 1
      /\ Q[Len(P) + 1] = b /\ \A i \in 1..Len(P) : Q[i] = P[i]
  OBVIOUS
<1>2. \A i \in DOMAIN Q : (i \in DOMAIN P /\ Q[i] = P[i]) \/ (i = Len(P) + 1 /\ Q[i] = b)
  BY <1>1
<1>3. \A i \in DOMAIN P : i \in DOMAIN Q /\ Q[i] = P[i]
  BY <1>1
<1>4. Len(P) + 1 \in DOMAIN Q /\ Q[Len(P) + 1] = b
  BY <1>1
<1>5. \A i \in DOMAIN P : Scratches(P[i].submissions) \cap Scratches(b.submissions) = {}
  BY DEF BatchBuffers
<1>6. Batches(Q)
  <2>1. \A i \in DOMAIN Q : Apart(Q[i].submissions)
    BY <1>2 DEF Batches
  <2>2. \A i, j \in DOMAIN Q : i # j => Scratches(Q[i].submissions) \cap Scratches(Q[j].submissions) = {}
    <3>1. SUFFICES ASSUME NEW i \in DOMAIN Q, NEW j \in DOMAIN Q, i # j
                   PROVE  Scratches(Q[i].submissions) \cap Scratches(Q[j].submissions) = {}
      OBVIOUS
    <3>2. CASE i \in DOMAIN P /\ j \in DOMAIN P
      BY <1>3, <3>1, <3>2 DEF Batches
    <3>3. CASE i \in DOMAIN P /\ Q[j] = b
      BY <1>3, <1>5, <3>3
    <3>4. CASE j \in DOMAIN P /\ Q[i] = b
      BY <1>3, <1>5, <3>4
    <3>5. QED
      BY <1>2, <3>1, <3>2, <3>3, <3>4
  <2>3. QED
    BY <2>1, <2>2 DEF Batches
<1>7. BatchBuffers(Q) = BatchBuffers(P) \cup Scratches(b.submissions)
  <2>1. \A x : x \in BatchBuffers(P) <=> \E j \in DOMAIN P : x \in Scratches(P[j].submissions)
    BY DEF BatchBuffers
  <2>2. \A x : x \in BatchBuffers(Q) <=> \E j \in DOMAIN Q : x \in Scratches(Q[j].submissions)
    BY DEF BatchBuffers
  <2>3. ASSUME NEW x \in BatchBuffers(Q) PROVE x \in BatchBuffers(P) \cup Scratches(b.submissions)
    BY <1>2, <2>1, <2>2
  <2>4. ASSUME NEW x \in BatchBuffers(P) PROVE x \in BatchBuffers(Q)
    BY <1>3, <2>1, <2>2
  <2>5. ASSUME NEW x \in Scratches(b.submissions) PROVE x \in BatchBuffers(Q)
    BY <1>4, <2>2
  <2>6. QED
    BY <2>3, <2>4, <2>5
<1>8. QED
  BY <1>1, <1>2, <1>6, <1>7

\* Images that join others.
LEMMA HostBuffersMore ==
  ASSUME NEW H \in Seq(Shared), Distinct(H), NEW K \in Seq(Shared), Distinct(K), HostBuffers(H) \cap HostBuffers(K) = {},
         NEW J, J = H \o K
  PROVE  J \in Seq(Shared) /\ Distinct(J) /\ HostBuffers(J) = HostBuffers(H) \cup HostBuffers(K)
<1>1. /\ DOMAIN H = 1..Len(H) /\ DOMAIN K = 1..Len(K) /\ DOMAIN J = 1..Len(H) + Len(K) /\ Len(H) \in Nat /\ Len(K) \in Nat
      /\ J \in Seq(Shared)
      /\ \A k \in 1..Len(H) : J[k] = H[k] /\ k \in DOMAIN J
      /\ \A k \in 1..Len(K) : J[Len(H) + k] = K[k] /\ Len(H) + k \in DOMAIN J
  OBVIOUS
<1>2. \A k \in DOMAIN J : (k \in DOMAIN H /\ J[k] = H[k]) \/ \E l \in DOMAIN K : k = Len(H) + l /\ J[k] = K[l]
  <2>1. \A k \in DOMAIN J : k \in 1..Len(H) \/ (k - Len(H) \in 1..Len(K) /\ k = Len(H) + (k - Len(H)))
    BY <1>1
  <2>2. QED
    BY <1>1, <2>1
<1>3. \A i \in DOMAIN H : \A l \in DOMAIN K : H[i].buffer # K[l].buffer
  BY DEF HostBuffers
<1>4. Distinct(J)
  <2>1. SUFFICES ASSUME NEW j \in DOMAIN J, NEW k \in DOMAIN J, j # k PROVE J[j].buffer # J[k].buffer
    BY DEF Distinct
  <2>2. CASE j \in DOMAIN H /\ J[j] = H[j] /\ k \in DOMAIN H /\ J[k] = H[k]
    BY <2>1, <2>2 DEF Distinct
  <2>3. CASE j \in DOMAIN H /\ J[j] = H[j] /\ \E l \in DOMAIN K : k = Len(H) + l /\ J[k] = K[l]
    BY <1>3, <2>3
  <2>4. CASE k \in DOMAIN H /\ J[k] = H[k] /\ \E l \in DOMAIN K : j = Len(H) + l /\ J[j] = K[l]
    BY <1>3, <2>4
  <2>5. CASE (\E l \in DOMAIN K : j = Len(H) + l /\ J[j] = K[l]) /\ \E l \in DOMAIN K : k = Len(H) + l /\ J[k] = K[l]
    BY <2>1, <2>5 DEF Distinct
  <2>6. QED
    BY <1>2, <2>2, <2>3, <2>4, <2>5
<1>5. HostBuffers(J) = HostBuffers(H) \cup HostBuffers(K)
  <2>1. HostBuffers(J) \subseteq HostBuffers(H) \cup HostBuffers(K)
    BY <1>2 DEF HostBuffers
  <2>2. HostBuffers(H) \subseteq HostBuffers(J)
    BY <1>1 DEF HostBuffers
  <2>3. HostBuffers(K) \subseteq HostBuffers(J)
    <3>1. \A l \in DOMAIN K : J[Len(H) + l].buffer = K[l].buffer /\ Len(H) + l \in DOMAIN J
      BY <1>1
    <3>2. QED
      BY <3>1 DEF HostBuffers
  <2>4. QED
    BY <2>1, <2>2, <2>3
<1>6. QED
  BY <1>1, <1>4, <1>5

\* Nothing of an empty sequence is owned.
LEMMA NothingOwned ==
  /\ Batches(<<>>) /\ Distinct(<<>>) /\ BatchBuffers(<<>>) = {} /\ HostBuffers(<<>>) = {}
  /\ ToSet(<<>>) = {} /\ IsInjective(<<>>) /\ ImageBuffers({}) = {}
  BY DEF Batches, Distinct, BatchBuffers, HostBuffers, ToSet, IsInjective, ImageBuffers

-----------------------------------------------------------------------------
(***************************************************************************)
(* Steps of the session, apart from the values they compute.               *)
(***************************************************************************)
\* Running commands keep to themselves if they do so one by one.
LEMMA UsersKept ==
  ASSUME NEW m, NEW cs, NEW h, NEW P, NEW C, UsersApart(m, cs, h, P, C), NEW n, NEW g, NEW Q, NEW D,
         DOMAIN m.sizes \subseteq DOMAIN n.sizes,
         \A c \in RunningOf(cs) : /\ Uses(c, UseOf(cs, c), Q, MineOf(g), g.images, D, PooledOf(n))
                                  /\ OutputsOf(g, c, UseOf(cs, c))
  PROVE  UsersApart(n, cs, g, Q, D)
<1>1. SUFFICES ASSUME NEW c \in RunningOf(cs)
               PROVE  /\ UseOf(cs, c) \subseteq DOMAIN n.sizes
                      /\ \A d \in RunningOf(cs) : c # d => UseOf(cs, c) \cap UseOf(cs, d) = {}
                      /\ Uses(c, UseOf(cs, c), Q, MineOf(g), g.images, D, PooledOf(n))
                      /\ OutputsOf(g, c, UseOf(cs, c))
  BY Zenon DEF UsersApart
<1>2. UseOf(cs, c) \subseteq DOMAIN m.sizes
  BY <1>1, Zenon DEF UsersApart
<1>3. \A d \in RunningOf(cs) : c # d => UseOf(cs, c) \cap UseOf(cs, d) = {}
  BY <1>1, Zenon DEF UsersApart
<1>4. QED
  BY <1>1, <1>2, <1>3, Zenon

\* The submissions of a call.
LEMMA MineType ==
  ASSUME NEW h \in Hosts
  PROVE  /\ MineOf(h) \in Seq(Subs) /\ h.submissions \in Seq(Subs) /\ FlattenSeq(h.encoded) \in Seq(Subs)
         /\ h.encoded = <<>> => MineOf(h) = h.submissions
         /\ h.submissions = <<>> => MineOf(h) = FlattenSeq(h.encoded)
<1>1. h.submissions \in Seq(Subs) /\ h.encoded \in Seq(Seq(Subs))
  BY DEF Hosts
<1>2. FlattenSeq(h.encoded) \in Seq(Subs)
  BY <1>1, FlattenType
<1>3. PICK e : e = FlattenSeq(h.encoded)
  OBVIOUS
<1>4. e \in Seq(Subs) /\ MineOf(h) = h.submissions \o e
  BY <1>2, <1>3 DEF MineOf
<1>5. h.encoded = <<>> => e = <<>>
  BY <1>3, FlattenEmpty
<1>6. PICK s : s = h.submissions
  OBVIOUS
<1>7. s \in Seq(Subs) /\ MineOf(h) = s \o e
  BY <1>1, <1>4, <1>6
<1>8. s \o e \in Seq(Subs) /\ (e = <<>> => s \o e = s) /\ (s = <<>> => s \o e = e)
  BY <1>4, <1>7
<1>9. QED
  BY <1>3, <1>4, <1>5, <1>6, <1>7, <1>8, Zenon

\* The call goes on without buffers changing hands.
LEMMA SafeHost ==
  ASSUME NEW m, NEW cs, NEW h, NEW P, NEW C, Safe(m, cs, h, P, C), NEW g \in Hosts, Shape(g),
         MineOf(g) = MineOf(h), g.outputs = h.outputs, g.images = h.images,
         g.step \in {"encode", "wait"} =>
           \/ h.step \in {"encode", "wait"} /\ g.got = h.got
           \/ g.outputs = <<>>
  PROVE  Safe(m, cs, g, P, C)
<1>1. /\ Typed(m, cs, h, P, C) /\ Well(m) /\ OwnersOf(h, P, C) /\ Free(m, OwningOf(h, P, C))
      /\ UsersApart(m, cs, h, P, C) /\ KnownOf(cs, h, P)
  BY Zenon DEF Safe
<1>2. Typed(m, cs, g, P, C)
  BY <1>1, Zenon DEF Typed
<1>3. OwnersOf(g, P, C) /\ OwningOf(g, P, C) = OwningOf(h, P, C) /\ KnownOf(cs, g, P)
  BY <1>1, Zenon DEF OwnersOf, OwningOf, KnownOf
<1>4. UsersApart(m, cs, g, P, C)
  <2>1. SUFFICES ASSUME NEW c \in RunningOf(cs)
                 PROVE  /\ Uses(c, UseOf(cs, c), P, MineOf(g), g.images, C, PooledOf(m))
                        /\ OutputsOf(g, c, UseOf(cs, c))
    BY <1>1, UsersKept, Zenon
  <2>2. Uses(c, UseOf(cs, c), P, MineOf(g), g.images, C, PooledOf(m)) /\ OutputsOf(h, c, UseOf(cs, c))
    BY <1>1, <2>1, Zenon DEF UsersApart
  <2>3. ASSUME g.step \in {"encode", "wait"}
        PROVE  OutputsUsed(c, UseOf(cs, c), g.outputs, Len(g.got), MineOf(g))
    <3>1. CASE h.step \in {"encode", "wait"} /\ g.got = h.got
      BY <2>2, <3>1, Zenon DEF OutputsOf
    <3>2. CASE g.outputs = <<>>
      BY <3>2 DEF OutputsUsed
    <3>3. QED
      BY <2>3, <3>1, <3>2
  <2>4. QED
    BY <2>2, <2>3, Zenon DEF OutputsOf
<1>5. QED
  BY <1>1, <1>2, <1>3, <1>4, Zenon DEF Safe

\* Commands that complete use nothing any more.
LEMMA SafeRun ==
  ASSUME NEW m, NEW cs, NEW h, NEW P, NEW C, Safe(m, cs, h, P, C), NEW bs \in Seq(Commands), DOMAIN bs = DOMAIN cs,
         \A c \in DOMAIN cs : /\ bs[c].images = cs[c].images /\ bs[c].scratch = cs[c].scratch
                              /\ bs[c].state = "running" => cs[c].state = "running"
  PROVE  Safe(m, bs, h, P, C)
<1>1. /\ Typed(m, cs, h, P, C) /\ Well(m) /\ OwnersOf(h, P, C) /\ Free(m, OwningOf(h, P, C))
      /\ UsersApart(m, cs, h, P, C) /\ KnownOf(cs, h, P) /\ Shape(h)
  BY Zenon DEF Safe
<1>2. Typed(m, bs, h, P, C)
  BY <1>1, Zenon DEF Typed
<1>3. RunningOf(bs) \subseteq RunningOf(cs) /\ \A c \in DOMAIN cs : UseOf(bs, c) = UseOf(cs, c)
  BY DEF RunningOf, UseOf
<1>4. RunningOf(cs) \subseteq DOMAIN cs
  BY DEF RunningOf
<1>5. UsersApart(m, bs, h, P, C)
  <2>1. SUFFICES ASSUME NEW c \in RunningOf(bs)
                 PROVE  /\ UseOf(bs, c) \subseteq DOMAIN m.sizes
                        /\ \A d \in RunningOf(bs) : c # d => UseOf(bs, c) \cap UseOf(bs, d) = {}
                        /\ Uses(c, UseOf(bs, c), P, MineOf(h), h.images, C, PooledOf(m))
                        /\ OutputsOf(h, c, UseOf(bs, c))
    BY Zenon DEF UsersApart
  <2>2. /\ UseOf(cs, c) \subseteq DOMAIN m.sizes
        /\ \A d \in RunningOf(cs) : c # d => UseOf(cs, c) \cap UseOf(cs, d) = {}
        /\ Uses(c, UseOf(cs, c), P, MineOf(h), h.images, C, PooledOf(m))
        /\ OutputsOf(h, c, UseOf(cs, c))
    BY <1>1, <1>3, <2>1, Zenon DEF UsersApart
  <2>3. UseOf(bs, c) = UseOf(cs, c) /\ \A d \in RunningOf(bs) : UseOf(bs, d) = UseOf(cs, d) /\ d \in RunningOf(cs)
    BY <1>3, <1>4, <2>1
  <2>4. \A d \in RunningOf(bs) : c # d => UseOf(bs, c) \cap UseOf(bs, d) = {}
    BY <2>2, <2>3, Zenon
  <2>5. QED
    BY <2>2, <2>3, <2>4, Zenon
<1>6. \A subs : Known(cs, subs) => Known(bs, subs)
  BY DEF Known
<1>7. KnownOf(bs, h, P)
  BY <1>1, <1>6, Zenon DEF KnownOf
<1>8. QED
  BY <1>1, <1>2, <1>5, <1>7, Zenon DEF Safe

\* A call that has nothing left in its hands.
LEMMA IdleHas ==
  /\ Idle \in Hosts /\ MineOf(Idle) = <<>> /\ Shape(Idle)
  /\ Idle.step = "idle" /\ Idle.outputs = <<>> /\ Idle.images = <<>> /\ Idle.submissions = <<>> /\ Idle.encoded = <<>>
<1>1. /\ Idle.step = "idle" /\ Idle.outputs = <<>> /\ Idle.images = <<>> /\ Idle.submissions = <<>> /\ Idle.encoded = <<>>
      /\ Idle.got = <<>> /\ Idle.request.kind = "none" /\ Idle.todo = <<>>
  BY DEF Idle
<1>2. Idle \in Hosts
  BY DEF Idle, Hosts, Calls
<1>3. MineOf(Idle) = <<>>
  BY <1>1, <1>2, MineType
<1>4. Shape(Idle)
  BY <1>1 DEF Shape
<1>5. QED
  BY <1>1, <1>2, <1>3, <1>4

\* What a call owns once it gave all of it up.
LEMMA SafeIdle ==
  ASSUME NEW m, NEW cs, NEW h, NEW P, NEW C, Safe(m, cs, h, P, C)
  PROVE  Safe(m, cs, Idle, P, C)
<1>1. /\ Typed(m, cs, h, P, C) /\ Well(m) /\ OwnersOf(h, P, C) /\ Free(m, OwningOf(h, P, C))
      /\ UsersApart(m, cs, h, P, C) /\ KnownOf(cs, h, P)
  BY Zenon DEF Safe
<1>2. /\ Idle \in Hosts /\ MineOf(Idle) = <<>> /\ Shape(Idle)
      /\ Idle.step = "idle" /\ Idle.outputs = <<>> /\ Idle.images = <<>>
  BY IdleHas
<1>3. Typed(m, cs, Idle, P, C)
  BY <1>1, <1>2, Zenon DEF Typed
<1>4. /\ Batches(P) /\ (\A i, j \in C : i # j => i.buffer # j.buffer) /\ BatchBuffers(P) \cap ImageBuffers(C) = {}
  BY <1>1, Zenon DEF OwnersOf, Owners, Pairwise
<1>5. /\ Batches(<<>>) /\ Distinct(<<>>) /\ HostBuffers(<<>>) = {} /\ ToSet(<<>>) = {} /\ IsInjective(<<>>)
      /\ Scratches(<<>>) = {} /\ Apart(<<>>) /\ (\A c, U : Clear(<<>>, c, U))
  BY NothingOwned, SubsEmpty
<1>6. OwnersOf(Idle, P, C)
  <2>1. Owners(P, <<>>, <<>>, <<>>, C)
    BY <1>4, <1>5 DEF Owners, Pairwise
  <2>2. QED
    BY <1>2, <2>1, Zenon DEF OwnersOf
<1>7. OwningOf(Idle, P, C) \subseteq OwningOf(h, P, C)
  <2>1. OwningOf(Idle, P, C) = BatchBuffers(P) \cup ImageBuffers(C)
    BY <1>2, <1>5 DEF OwningOf, Owning
  <2>2. QED
    BY <2>1 DEF OwningOf, Owning
<1>8. Free(m, OwningOf(Idle, P, C))
  BY <1>1, <1>7 DEF Free
<1>9. UsersApart(m, cs, Idle, P, C)
  <2>1. SUFFICES ASSUME NEW c \in RunningOf(cs)
                 PROVE  /\ Uses(c, UseOf(cs, c), P, MineOf(Idle), Idle.images, C, PooledOf(m))
                        /\ OutputsOf(Idle, c, UseOf(cs, c))
    BY <1>1, UsersKept, Zenon
  <2>2. PICK U : U = UseOf(cs, c)
    OBVIOUS
  <2>3. Uses(c, U, P, MineOf(h), h.images, C, PooledOf(m))
    BY <1>1, <2>1, <2>2, Zenon DEF UsersApart
  <2>4. Uses(c, U, P, <<>>, <<>>, C, PooledOf(m))
    BY <1>5, <2>3 DEF Uses
  <2>5. OutputsOf(Idle, c, U)
    BY <1>2 DEF OutputsOf
  <2>6. QED
    BY <1>2, <2>2, <2>4, <2>5, Zenon
<1>10. KnownOf(cs, Idle, P)
  BY <1>1, <1>2 DEF KnownOf, Known
<1>11. QED
  BY <1>1, <1>2, <1>3, <1>6, <1>8, <1>9, <1>10, Zenon DEF Safe

\* A batch is waited for or dropped: its submissions are the call's now.
LEMMA SafeBegin ==
  ASSUME NEW m, NEW cs, NEW h, NEW P, NEW C, Safe(m, cs, h, P, C), h = Idle, NEW k \in DOMAIN P,
         NEW g \in Hosts, Shape(g), g.submissions = P[k].submissions, g.encoded = <<>>, g.outputs = <<>>, g.images = <<>>,
         NEW Q, Q = RemoveAt(P, k)
  PROVE  Safe(m, cs, g, Q, C)
<1> DEFINE s == P[k].submissions
<1>1. /\ Typed(m, cs, h, P, C) /\ Well(m) /\ OwnersOf(h, P, C) /\ Free(m, OwningOf(h, P, C))
      /\ UsersApart(m, cs, h, P, C) /\ KnownOf(cs, h, P)
  BY Zenon DEF Safe
<1>2. MineOf(h) = <<>> /\ h.outputs = <<>> /\ h.images = <<>>
  BY IdleHas
<1>3. MineOf(g) = s
  BY MineType
<1>4. P \in Seq(Handed) /\ k \in 1..Len(P) /\ Batches(P)
  BY <1>1 DEF Typed, OwnersOf, Owners
<1>5. /\ Q \in Seq(Handed) /\ Batches(Q) /\ Apart(s)
      /\ BatchBuffers(P) = BatchBuffers(Q) \cup Scratches(s)
      /\ BatchBuffers(Q) \cap Scratches(s) = {}
      /\ \A i \in DOMAIN Q : \E j \in DOMAIN P : Q[i] = P[j]
  <2>1. /\ Q \in Seq(Handed) /\ Batches(Q) /\ Apart(P[k].submissions)
        /\ BatchBuffers(P) = BatchBuffers(Q) \cup Scratches(P[k].submissions)
        /\ BatchBuffers(Q) \cap Scratches(P[k].submissions) = {}
        /\ \A i \in DOMAIN Q : \E j \in DOMAIN P : Q[i] = P[j]
    BY <1>4, BatchRemoved
  <2>2. QED
    BY <2>1, Zenon
<1> HIDE DEF s
<1>6. Typed(m, cs, g, Q, C)
  BY <1>1, <1>5, Zenon DEF Typed
<1>7. /\ (\A i, j \in C : i # j => i.buffer # j.buffer) /\ BatchBuffers(P) \cap ImageBuffers(C) = {}
  BY <1>1, Zenon DEF OwnersOf, Owners, Pairwise
<1>8. /\ Distinct(<<>>) /\ HostBuffers(<<>>) = {} /\ ToSet(<<>>) = {} /\ IsInjective(<<>>) /\ Scratches(<<>>) = {}
  BY NothingOwned, SubsEmpty
<1>9. OwnersOf(g, Q, C)
  <2>1. Owners(Q, s, <<>>, <<>>, C)
    BY <1>5, <1>7, <1>8 DEF Owners, Pairwise
  <2>2. QED
    BY <1>3, <2>1, Zenon DEF OwnersOf
<1>10. OwningOf(g, Q, C) = OwningOf(h, P, C)
  <2>1. OwningOf(g, Q, C) = BatchBuffers(Q) \cup Scratches(s) \cup ImageBuffers(C)
    BY <1>3, <1>8 DEF OwningOf, Owning
  <2>2. OwningOf(h, P, C) = BatchBuffers(P) \cup ImageBuffers(C)
    BY <1>2, <1>8 DEF OwningOf, Owning
  <2>3. QED
    BY <1>5, <2>1, <2>2
<1>11. UsersApart(m, cs, g, Q, C)
  <2>1. SUFFICES ASSUME NEW c \in RunningOf(cs)
                 PROVE  /\ Uses(c, UseOf(cs, c), Q, MineOf(g), g.images, C, PooledOf(m))
                        /\ OutputsOf(g, c, UseOf(cs, c))
    BY <1>1, UsersKept, Zenon
  <2>2. PICK U : U = UseOf(cs, c)
    OBVIOUS
  <2>3. Uses(c, U, P, MineOf(h), h.images, C, PooledOf(m))
    BY <1>1, <2>1, <2>2, Zenon DEF UsersApart
  <2>4. /\ U \cap (PooledOf(m) \cup HostBuffers(<<>>) \cup ImageBuffers(C)) = {}
        /\ \A j \in DOMAIN P : Clear(P[j].submissions, c, U)
    BY <1>2, <2>3, Zenon DEF Uses
  <2>5. Clear(s, c, U)
    BY <2>4, Zenon DEF s
  <2>6. \A i \in DOMAIN Q : Clear(Q[i].submissions, c, U)
    BY <1>5, <2>4, Zenon
  <2>7. Uses(c, U, Q, s, <<>>, C, PooledOf(m))
    BY <2>4, <2>5, <2>6, Zenon DEF Uses
  <2>8. OutputsUsed(c, U, <<>>, Len(g.got), MineOf(g))
    BY DEF OutputsUsed
  <2>9. QED
    BY <1>3, <2>2, <2>7, <2>8, Zenon DEF OutputsOf
<1>12. KnownOf(cs, g, Q)
  <2>1. \A j \in DOMAIN P : Known(cs, P[j].submissions)
    BY <1>1, Zenon DEF KnownOf
  <2>2. Known(cs, s)
    BY <2>1, Zenon DEF s
  <2>3. \A i \in DOMAIN Q : Known(cs, Q[i].submissions)
    BY <1>5, <2>1, Zenon
  <2>4. QED
    BY <1>3, <2>2, <2>3, Zenon DEF KnownOf
<1>13. QED
  BY <1>1, <1>6, <1>9, <1>10, <1>11, <1>12, Zenon DEF Safe

\* A pending batch is handed to the caller.
LEMMA SafeReturn ==
  ASSUME NEW m, NEW cs, NEW h, NEW P, NEW C, Safe(m, cs, h, P, C), h.step = "group",
         NEW b \in Handed, b.submissions = h.submissions, NEW Q, Q = Append(P, b)
  PROVE  Safe(m, cs, Idle, Q, C)
<1> DEFINE s == h.submissions
<1>1. /\ Typed(m, cs, h, P, C) /\ Well(m) /\ OwnersOf(h, P, C) /\ Free(m, OwningOf(h, P, C))
      /\ UsersApart(m, cs, h, P, C) /\ KnownOf(cs, h, P) /\ Shape(h)
  BY Zenon DEF Safe
<1>2. /\ Idle \in Hosts /\ MineOf(Idle) = <<>> /\ Shape(Idle)
      /\ Idle.step = "idle" /\ Idle.outputs = <<>> /\ Idle.images = <<>>
  BY IdleHas
<1>3. h \in Hosts /\ P \in Seq(Handed) /\ h.request \in Calls /\ s \in Seq(Subs) /\ h.encoded = <<>>
  BY <1>1 DEF Typed, Hosts, Shape
<1>4. MineOf(h) = s
  BY <1>3, MineType
<1>5. b.submissions = s
  OBVIOUS
<1> HIDE DEF s
<1>7. /\ Batches(P) /\ Apart(s) /\ (\A i, j \in C : i # j => i.buffer # j.buffer)
      /\ BatchBuffers(P) \cap Scratches(s) = {} /\ BatchBuffers(P) \cap ImageBuffers(C) = {}
      /\ Scratches(s) \cap ImageBuffers(C) = {}
  BY <1>1, <1>4, Zenon DEF OwnersOf, Owners, Pairwise
<1>8. /\ Q \in Seq(Handed) /\ Batches(Q) /\ BatchBuffers(Q) = BatchBuffers(P) \cup Scratches(s)
      /\ \A i \in DOMAIN Q : (i \in DOMAIN P /\ Q[i] = P[i]) \/ Q[i] = b
  <2>1. Apart(b.submissions) /\ BatchBuffers(P) \cap Scratches(b.submissions) = {}
    BY <1>5, <1>7
  <2>2. /\ Q \in Seq(Handed) /\ Batches(Q) /\ BatchBuffers(Q) = BatchBuffers(P) \cup Scratches(b.submissions)
        /\ \A i \in DOMAIN Q : (i \in DOMAIN P /\ Q[i] = P[i]) \/ Q[i] = b
    <3>1. P \in Seq(Handed) /\ Batches(P) /\ b \in Handed /\ Q = Append(P, b)
      BY <1>3, <1>7
    <3>2. Q \in Seq(Handed) /\ Batches(Q) /\ BatchBuffers(Q) = BatchBuffers(P) \cup Scratches(b.submissions)
      BY <2>1, <3>1, BatchAppended
    <3>3. \A i \in DOMAIN Q : (i \in DOMAIN P /\ Q[i] = P[i]) \/ Q[i] = b
      BY <2>1, <3>1, BatchAppended
    <3>4. QED
      BY <3>2, <3>3
  <2>3. QED
    BY <1>5, <2>2
<1>9. Typed(m, cs, Idle, Q, C)
  BY <1>1, <1>2, <1>8, Zenon DEF Typed
<1>10. /\ Batches(<<>>) /\ Distinct(<<>>) /\ HostBuffers(<<>>) = {} /\ ToSet(<<>>) = {} /\ IsInjective(<<>>)
       /\ Scratches(<<>>) = {} /\ Apart(<<>>) /\ (\A c, U : Clear(<<>>, c, U))
  BY NothingOwned, SubsEmpty
<1>11. OwnersOf(Idle, Q, C)
  <2>1. Owners(Q, <<>>, <<>>, <<>>, C)
    BY <1>7, <1>8, <1>10 DEF Owners, Pairwise
  <2>2. QED
    BY <1>2, <2>1, Zenon DEF OwnersOf
<1>12. Free(m, OwningOf(Idle, Q, C))
  <2>1. OwningOf(Idle, Q, C) = BatchBuffers(P) \cup Scratches(s) \cup ImageBuffers(C)
    BY <1>2, <1>8, <1>10 DEF OwningOf, Owning
  <2>2. OwningOf(Idle, Q, C) \subseteq OwningOf(h, P, C)
    BY <1>4, <2>1 DEF OwningOf, Owning
  <2>3. QED
    BY <1>1, <2>2 DEF Free
<1>13. UsersApart(m, cs, Idle, Q, C)
  <2>1. SUFFICES ASSUME NEW c \in RunningOf(cs)
                 PROVE  /\ Uses(c, UseOf(cs, c), Q, MineOf(Idle), Idle.images, C, PooledOf(m))
                        /\ OutputsOf(Idle, c, UseOf(cs, c))
    BY <1>1, UsersKept, Zenon
  <2>2. PICK U : U = UseOf(cs, c)
    OBVIOUS
  <2>3. Uses(c, U, P, s, h.images, C, PooledOf(m))
    BY <1>1, <1>4, <2>1, <2>2, Zenon DEF UsersApart
  <2>4. U \cap (PooledOf(m) \cup HostBuffers(<<>>) \cup ImageBuffers(C)) = {}
    BY <1>10, <2>3 DEF Uses
  <2>5. Clear(s, c, U) /\ \A j \in DOMAIN P : Clear(P[j].submissions, c, U)
    BY <2>3, Zenon DEF Uses
  <2>6. \A i \in DOMAIN Q : Clear(Q[i].submissions, c, U)
    BY <1>5, <1>8, <2>5, Zenon
  <2>7. Uses(c, U, Q, <<>>, <<>>, C, PooledOf(m))
    BY <1>10, <2>4, <2>6, Zenon DEF Uses
  <2>8. OutputsOf(Idle, c, U)
    BY <1>2 DEF OutputsOf
  <2>9. QED
    BY <1>2, <2>2, <2>7, <2>8, Zenon
<1>14. KnownOf(cs, Idle, Q)
  <2>1. Known(cs, s) /\ \A j \in DOMAIN P : Known(cs, P[j].submissions)
    BY <1>1, <1>4, Zenon DEF KnownOf
  <2>2. \A i \in DOMAIN Q : Known(cs, Q[i].submissions)
    BY <1>5, <1>8, <2>1, Zenon
  <2>3. Known(cs, <<>>)
    BY DEF Known
  <2>4. QED
    BY <1>2, <2>2, <2>3, Zenon DEF KnownOf
<1>15. QED
  BY <1>1, <1>2, <1>9, <1>11, <1>12, <1>13, <1>14, Zenon DEF Safe

\* Images are handed to the caller.
LEMMA SafeShare ==
  ASSUME NEW m, NEW cs, NEW h, NEW P, NEW C, Safe(m, cs, h, P, C), NEW D, D = C \cup ToSet(h.images)
  PROVE  Safe(m, cs, Idle, P, D)
<1> DEFINE H == h.images
<1>1. /\ Typed(m, cs, h, P, C) /\ Well(m) /\ OwnersOf(h, P, C) /\ Free(m, OwningOf(h, P, C))
      /\ UsersApart(m, cs, h, P, C) /\ KnownOf(cs, h, P) /\ Shape(h)
  BY Zenon DEF Safe
<1>2. /\ Idle \in Hosts /\ MineOf(Idle) = <<>> /\ Shape(Idle)
      /\ Idle.step = "idle" /\ Idle.outputs = <<>> /\ Idle.images = <<>>
  BY IdleHas
<1>3. H \in Seq(Shared) /\ C \in SUBSET Shared
  BY <1>1 DEF Typed, Hosts
<1>4. /\ Batches(P) /\ Distinct(H) /\ (\A i, j \in C : i # j => i.buffer # j.buffer)
      /\ BatchBuffers(P) \cap ImageBuffers(C) = {} /\ BatchBuffers(P) \cap HostBuffers(H) = {}
      /\ HostBuffers(H) \cap ImageBuffers(C) = {}
  BY <1>1, Zenon DEF OwnersOf, Owners, Pairwise
<1>5. \A i : i \in D <=> i \in C \/ \E k \in DOMAIN H : i = H[k]
  BY DEF ToSet
<1> HIDE DEF H
<1>6. ToSet(H) \subseteq Shared
  BY <1>3 DEF ToSet
<1>7. D \in SUBSET Shared
  BY <1>3, <1>6 DEF H
<1>8. ImageBuffers(D) = ImageBuffers(C) \cup HostBuffers(H)
  BY <1>5 DEF ImageBuffers, HostBuffers
<1>9. \A i, j \in D : i # j => i.buffer # j.buffer
  <2>1. SUFFICES ASSUME NEW i \in D, NEW j \in D, i # j PROVE i.buffer # j.buffer
    OBVIOUS
  <2>2. CASE i \in C /\ j \in C
    BY <1>4, <2>1, <2>2, Zenon
  <2>3. CASE i \in C /\ \E k \in DOMAIN H : j = H[k]
    BY <1>4, <2>3 DEF ImageBuffers, HostBuffers
  <2>4. CASE j \in C /\ \E k \in DOMAIN H : i = H[k]
    BY <1>4, <2>4 DEF ImageBuffers, HostBuffers
  <2>5. CASE (\E k \in DOMAIN H : i = H[k]) /\ \E k \in DOMAIN H : j = H[k]
    BY <1>4, <2>1, <2>5, Zenon DEF Distinct
  <2>6. QED
    BY <1>5, <2>1, <2>2, <2>3, <2>4, <2>5, Zenon
<1>10. Typed(m, cs, Idle, P, D)
  BY <1>1, <1>2, <1>7, Zenon DEF Typed
<1>11. /\ Distinct(<<>>) /\ HostBuffers(<<>>) = {} /\ ToSet(<<>>) = {} /\ IsInjective(<<>>)
       /\ Scratches(<<>>) = {} /\ Apart(<<>>) /\ (\A c, U : Clear(<<>>, c, U))
  BY NothingOwned, SubsEmpty
<1>12. OwnersOf(Idle, P, D)
  <2>1. Owners(P, <<>>, <<>>, <<>>, D)
    BY <1>4, <1>8, <1>9, <1>11 DEF Owners, Pairwise
  <2>2. QED
    BY <1>2, <2>1, Zenon DEF OwnersOf
<1>13. Free(m, OwningOf(Idle, P, D))
  <2>1. OwningOf(Idle, P, D) = BatchBuffers(P) \cup HostBuffers(H) \cup ImageBuffers(C)
    BY <1>2, <1>8, <1>11 DEF OwningOf, Owning
  <2>2. OwningOf(Idle, P, D) \subseteq OwningOf(h, P, C)
    BY <2>1 DEF OwningOf, Owning, H
  <2>3. QED
    BY <1>1, <2>2 DEF Free
<1>14. UsersApart(m, cs, Idle, P, D)
  <2>1. SUFFICES ASSUME NEW c \in RunningOf(cs)
                 PROVE  /\ Uses(c, UseOf(cs, c), P, MineOf(Idle), Idle.images, D, PooledOf(m))
                        /\ OutputsOf(Idle, c, UseOf(cs, c))
    BY <1>1, UsersKept, Zenon
  <2>2. PICK U : U = UseOf(cs, c)
    OBVIOUS
  <2>3. Uses(c, U, P, MineOf(h), H, C, PooledOf(m))
    BY <1>1, <2>1, <2>2, Zenon DEF UsersApart, H
  <2>4. U \cap (PooledOf(m) \cup HostBuffers(<<>>) \cup ImageBuffers(D)) = {}
    BY <1>8, <1>11, <2>3 DEF Uses
  <2>5. \A j \in DOMAIN P : Clear(P[j].submissions, c, U)
    BY <2>3, Zenon DEF Uses
  <2>6. Uses(c, U, P, <<>>, <<>>, D, PooledOf(m))
    BY <1>11, <2>4, <2>5, Zenon DEF Uses
  <2>7. OutputsOf(Idle, c, U)
    BY <1>2 DEF OutputsOf
  <2>8. QED
    BY <1>2, <2>2, <2>6, <2>7, Zenon
<1>15. KnownOf(cs, Idle, P)
  BY <1>1, <1>2 DEF KnownOf, Known
<1>16. QED
  BY <1>1, <1>2, <1>10, <1>12, <1>13, <1>14, <1>15, Zenon DEF Safe

-----------------------------------------------------------------------------
(***************************************************************************)
(* Buffers that are let go of.                                             *)
(***************************************************************************)
\* Buffers that nobody owns any more are given back or released.
LEMMA SafeGive ==
  ASSUME NEW m, NEW cs, NEW h, NEW P, NEW C, Safe(m, cs, h, P, C), NEW n, NEW X, GivenBack(m, n, X),
         X \cap OwningOf(h, P, C) = {}, \A c \in RunningOf(cs) : UseOf(cs, c) \cap PooledOf(n) = {}
  PROVE  Safe(n, cs, h, P, C)
<1>1. /\ Typed(m, cs, h, P, C) /\ Well(m) /\ OwnersOf(h, P, C) /\ Free(m, OwningOf(h, P, C))
      /\ UsersApart(m, cs, h, P, C) /\ KnownOf(cs, h, P) /\ Shape(h)
  BY Zenon DEF Safe
<1>2. /\ n \in Memories /\ Well(n) /\ n.sizes = m.sizes
      /\ PooledOf(n) \cup n.released = PooledOf(m) \cup m.released \cup X
  BY Zenon DEF GivenBack
<1>3. Typed(n, cs, h, P, C)
  BY <1>1, <1>2, Zenon DEF Typed
<1>4. Free(n, OwningOf(h, P, C))
  <2>1. PICK W : W = OwningOf(h, P, C)
    OBVIOUS
  <2>2. W \cap (PooledOf(m) \cup m.released) = {} /\ W \subseteq DOMAIN m.sizes /\ X \cap W = {}
    BY <1>1, <2>1 DEF Free
  <2>3. W \cap (PooledOf(n) \cup n.released) = {} /\ W \subseteq DOMAIN n.sizes
    BY <1>2, <2>2
  <2>4. QED
    BY <2>1, <2>3 DEF Free
<1>5. UsersApart(n, cs, h, P, C)
  <2>1. DOMAIN m.sizes \subseteq DOMAIN n.sizes
    BY <1>2
  <2>2. SUFFICES ASSUME NEW c \in RunningOf(cs)
                 PROVE  /\ Uses(c, UseOf(cs, c), P, MineOf(h), h.images, C, PooledOf(n))
                        /\ OutputsOf(h, c, UseOf(cs, c))
    BY <1>1, <2>1, UsersKept, Zenon
  <2>3. PICK U : U = UseOf(cs, c)
    OBVIOUS
  <2>4. Uses(c, U, P, MineOf(h), h.images, C, PooledOf(m)) /\ OutputsOf(h, c, U) /\ U \cap PooledOf(n) = {}
    BY <1>1, <2>2, <2>3, Zenon DEF UsersApart
  <2>5. U \cap (PooledOf(n) \cup HostBuffers(h.images) \cup ImageBuffers(C)) = {}
    BY <2>4 DEF Uses
  <2>6. Uses(c, U, P, MineOf(h), h.images, C, PooledOf(n))
    BY <2>4, <2>5, Zenon DEF Uses
  <2>7. QED
    BY <2>3, <2>4, <2>6, Zenon
<1>6. QED
  BY <1>1, <1>2, <1>3, <1>4, <1>5, Zenon DEF Safe

\* The first submission of the call is not its any more.
LEMMA SafeFirst ==
  ASSUME NEW m, NEW cs, NEW h, NEW P, NEW C, Safe(m, cs, h, P, C), h.step \in {"wait", "drop"},
         h.submissions # <<>>, Head(h.submissions).command \notin RunningOf(cs),
         NEW g \in Hosts, Shape(g), g.submissions = Tail(h.submissions), g.encoded = <<>>,
         g.outputs = h.outputs, g.images = h.images,
         g.step = "drop" \/ (g.step = "wait" /\ h.step = "wait" /\ Len(g.got) = Len(h.got) + 1)
  PROVE  /\ Safe(m, cs, g, P, C) /\ Own(Head(h.submissions)) \cap OwningOf(g, P, C) = {}
         /\ \A c \in RunningOf(cs) : UseOf(cs, c) \cap Own(Head(h.submissions)) = {}
         /\ Own(Head(h.submissions)) \subseteq OwningOf(h, P, C)
<1>1. /\ Typed(m, cs, h, P, C) /\ Well(m) /\ OwnersOf(h, P, C) /\ Free(m, OwningOf(h, P, C))
      /\ UsersApart(m, cs, h, P, C) /\ KnownOf(cs, h, P) /\ Shape(h)
  BY Zenon DEF Safe
<1>2. h \in Hosts /\ h.encoded = <<>>
  BY <1>1, Zenon DEF Typed, Shape
<1>3. PICK M, t, f : M = h.submissions /\ t = Tail(M) /\ f = Head(M)
  OBVIOUS
<1>4. MineOf(h) = M /\ MineOf(g) = t /\ M \in Seq(Subs) /\ M # <<>>
  BY <1>2, <1>3, MineType
<1>5. /\ f \in Subs /\ t \in Seq(Subs) /\ f = M[1] /\ 1 \in DOMAIN M
      /\ \A k \in DOMAIN t : t[k] = M[k + 1] /\ k + 1 \in DOMAIN M
      /\ Scratches(M) = Own(f) \cup Scratches(t)
      /\ Apart(M) => Apart(t) /\ Own(f) \cap Scratches(t) = {}
      /\ \A c, U : Clear(M, c, U) => Clear(t, c, U)
  BY <1>3, <1>4, SubsTail
<1>6. /\ Batches(P) /\ Apart(M) /\ IsInjective(h.outputs) /\ Distinct(h.images)
      /\ (\A i, j \in C : i # j => i.buffer # j.buffer)
      /\ Pairwise(BatchBuffers(P), Scratches(M), ToSet(h.outputs), HostBuffers(h.images), ImageBuffers(C))
  BY <1>1, <1>4, Zenon DEF OwnersOf, Owners
<1>7. Typed(m, cs, g, P, C)
  BY <1>1, Zenon DEF Typed
<1>8. OwnersOf(g, P, C)
  <2>1. Pairwise(BatchBuffers(P), Scratches(t), ToSet(h.outputs), HostBuffers(h.images), ImageBuffers(C))
    BY <1>5, <1>6 DEF Pairwise
  <2>2. QED
    BY <1>4, <1>5, <1>6, <2>1, Zenon DEF OwnersOf, Owners
<1>9. /\ OwningOf(g, P, C) \subseteq OwningOf(h, P, C) /\ Own(f) \cap OwningOf(g, P, C) = {}
      /\ Own(f) \subseteq OwningOf(h, P, C)
  <2>1. OwningOf(h, P, C) = BatchBuffers(P) \cup Scratches(M) \cup ToSet(h.outputs) \cup HostBuffers(h.images) \cup ImageBuffers(C)
    BY <1>4, Zenon DEF OwningOf, Owning
  <2>2. OwningOf(g, P, C) = BatchBuffers(P) \cup Scratches(t) \cup ToSet(h.outputs) \cup HostBuffers(h.images) \cup ImageBuffers(C)
    BY <1>4, Zenon DEF OwningOf, Owning
  <2>3. QED
    BY <1>5, <1>6, <2>1, <2>2 DEF Pairwise
<1>10. Free(m, OwningOf(g, P, C))
  BY <1>1, <1>9 DEF Free
<1>11. ASSUME NEW c \in RunningOf(cs)
       PROVE  /\ Uses(c, UseOf(cs, c), P, MineOf(g), g.images, C, PooledOf(m))
              /\ OutputsOf(g, c, UseOf(cs, c))
              /\ UseOf(cs, c) \cap Own(f) = {}
  <2>1. PICK U : U = UseOf(cs, c)
    OBVIOUS
  <2>2. Uses(c, U, P, M, h.images, C, PooledOf(m)) /\ OutputsOf(h, c, U)
    BY <1>1, <1>4, <1>11, <2>1, Zenon DEF UsersApart
  <2>3. Clear(M, c, U) /\ Clear(t, c, U)
    BY <1>5, <2>2, Zenon DEF Uses
  <2>4. Uses(c, U, P, t, h.images, C, PooledOf(m))
    BY <2>2, <2>3, Zenon DEF Uses
  <2>5. M[1].command # c
    BY <1>3, <1>5, <1>11
  <2>6. Own(M[1]) \cap U = {}
    BY <1>5, <2>3, <2>5, Zenon DEF Clear
  <2>7. ASSUME g.step \in {"encode", "wait"}
        PROVE  OutputsUsed(c, U, g.outputs, Len(g.got), t)
    <3>1. PICK O, i : O = h.outputs /\ i = Len(h.got)
      OBVIOUS
    <3>2. h.step = "wait" /\ Len(g.got) = i + 1 /\ g.outputs = O
      BY <2>7, <3>1
    <3>3. OutputsUsed(c, U, O, i, M)
      BY <1>4, <2>2, <3>1, <3>2, Zenon DEF OutputsOf
    <3>4. i \in Nat /\ O \in Seq(Nat)
      BY <1>2, <3>1 DEF Hosts
    <3>5. SUFFICES ASSUME NEW k \in DOMAIN O, O[k] \in U
                   PROVE  k > i + 1 /\ k - (i + 1) \in DOMAIN t /\ t[k - (i + 1)].command = c
      BY <3>2, Zenon DEF OutputsUsed
    <3>6. k > i /\ k - i \in DOMAIN M /\ M[k - i].command = c /\ k \in Nat
      BY <3>3, <3>4, <3>5 DEF OutputsUsed
    <3>7. k - i # 1
      BY <2>5, <3>6
    <3>8. k - (i + 1) \in DOMAIN t
      <4>1. DOMAIN t = 1..Len(M) - 1 /\ DOMAIN M = 1..Len(M) /\ Len(M) \in Nat
        BY <1>3, <1>4
      <4>2. PICK l : l = Len(M)
        OBVIOUS
      <4>3. QED
        BY <3>4, <3>6, <3>7, <4>1, <4>2
    <3>9. t[k - (i + 1)] = M[k - (i + 1) + 1]
      BY <1>5, <3>8
    <3>10. k - (i + 1) + 1 = k - i /\ k > i + 1
      BY <3>4, <3>6, <3>7
    <3>11. QED
      BY <3>6, <3>8, <3>9, <3>10
  <2>8. OutputsOf(g, c, U)
    BY <1>4, <2>7, Zenon DEF OutputsOf
  <2>9. QED
    BY <1>4, <1>5, <2>1, <2>4, <2>6, <2>8
<1>12. UsersApart(m, cs, g, P, C)
  BY <1>1, <1>11, UsersKept, Zenon
<1>13. KnownOf(cs, g, P)
  <2>1. Known(cs, M) /\ \A j \in DOMAIN P : Known(cs, P[j].submissions)
    BY <1>1, <1>4, Zenon DEF KnownOf
  <2>2. Known(cs, t)
    BY <1>5, <2>1, Zenon DEF Known
  <2>3. QED
    BY <1>4, <2>1, <2>2, Zenon DEF KnownOf
<1>14. Safe(m, cs, g, P, C)
  BY <1>1, <1>7, <1>8, <1>10, <1>12, <1>13, Zenon DEF Safe
<1>15. QED
  BY <1>3, <1>9, <1>11, <1>14, Zenon

\* A submission is settled: its buffers go back to the pools, or are released.
LEMMA SafeSettle ==
  ASSUME NEW m, NEW cs, NEW h, NEW P, NEW C, Safe(m, cs, h, P, C), h.step \in {"wait", "drop"},
         h.submissions # <<>>, Head(h.submissions).command \notin RunningOf(cs),
         NEW g \in Hosts, Shape(g), g.submissions = Tail(h.submissions), g.encoded = <<>>,
         g.outputs = h.outputs, g.images = h.images,
         g.step = "drop" \/ (g.step = "wait" /\ h.step = "wait" /\ Len(g.got) = Len(h.got) + 1),
         NEW n, GivenBack(m, n, Own(Head(h.submissions)))
  PROVE  Safe(n, cs, g, P, C)
<1>1. PICK X : X = Own(Head(h.submissions))
  OBVIOUS
<1>2. Safe(m, cs, g, P, C) /\ X \cap OwningOf(g, P, C) = {} /\ \A c \in RunningOf(cs) : UseOf(cs, c) \cap X = {}
  BY <1>1, SafeFirst
<1>3. PooledOf(n) \subseteq PooledOf(m) \cup X /\ GivenBack(m, n, X)
  BY <1>1 DEF GivenBack
<1>4. \A c \in RunningOf(cs) : UseOf(cs, c) \cap PooledOf(m) = {}
  BY <1>2 DEF Safe, UsersApart, Uses
<1>5. \A c \in RunningOf(cs) : UseOf(cs, c) \cap PooledOf(n) = {}
  BY <1>2, <1>3, <1>4
<1>6. QED
  BY <1>2, <1>3, <1>5, SafeGive, Zenon

\* Buffers that are released.
LEMMA ReleasedGives ==
  ASSUME NEW m \in Memories, Well(m), NEW X, X \subseteq DOMAIN m.sizes, X \cap PooledOf(m) = {},
         NEW n, n = [m EXCEPT !.released = @ \cup X]
  PROVE  GivenBack(m, n, X) /\ PooledOf(n) = PooledOf(m) /\ n.released = m.released \cup X
<1>1. /\ n.private = m.private /\ n.shared = m.shared /\ n.sizes = m.sizes /\ n.released = m.released \cup X
      /\ m.sizes \in Seq(Nat) /\ m.released \in SUBSET Nat
      /\ n = [private |-> m.private, shared |-> m.shared, sizes |-> m.sizes, released |-> m.released \cup X]
  BY DEF Memories
<1>2. X \in SUBSET Nat
  BY <1>1
<1>3. n \in Memories
  BY <1>1, <1>2 DEF Memories
<1>4. PooledOf(n) = PooledOf(m)
  BY <1>1 DEF PooledOf
<1>5. Well(n)
  BY <1>1, <1>4 DEF Well
<1>6. QED
  BY <1>1, <1>3, <1>4, <1>5 DEF GivenBack

\* The buffers of a submission are recycled.
LEMMA ScratchGives ==
  ASSUME MetalAssumption, NEW m \in Memories, Well(m), NEW s \in Subs, NEW M, NEW k \in DOMAIN M, s = M[k], Apart(M),
         Free(m, Own(s)), NEW n, n = RecycleAll(RecycleAll(m, "private", s.private), "shared", s.shared)
  PROVE  GivenBack(m, n, Own(s))
<1>1. PICK p, q : p = s.private /\ q = s.shared
  OBVIOUS
<1>2. p \in Seq(Nat) /\ q \in Seq(Nat)
  BY <1>1 DEF Subs
<1>3. IsInjective(p) /\ IsInjective(q) /\ ToSet(p) \cap ToSet(q) = {} /\ Own(s) = ToSet(p) \cup ToSet(q)
  BY <1>1 DEF Apart, Own
<1>4. \A b \in ToSet(p) \cup ToSet(q) : b \in DOMAIN m.sizes /\ b \notin PooledOf(m) \cup m.released
  BY <1>3 DEF Free
<1>5. Returnable(m, p)
  BY <1>2, <1>3, <1>4 DEF Returnable, Fit
<1>6. PICK l : l = RecycleAll(m, "private", p)
  OBVIOUS
<1>7. GivenBack(m, l, ToSet(p))
  BY <1>5, <1>6, RecycleAllGives
<1>8. /\ l \in Memories /\ Well(l) /\ l.sizes = m.sizes
      /\ PooledOf(l) \cup l.released = PooledOf(m) \cup m.released \cup ToSet(p)
  BY <1>7 DEF GivenBack
<1>9. Returnable(l, q)
  <2>1. \A b \in ToSet(q) : b \in DOMAIN l.sizes /\ b \notin PooledOf(l) \cup l.released
    BY <1>3, <1>4, <1>8
  <2>2. QED
    BY <1>2, <1>3, <1>8, <2>1 DEF Returnable, Fit
<1>10. n = RecycleAll(l, "shared", q)
  BY <1>1, <1>6
<1>11. GivenBack(l, n, ToSet(q))
  BY <1>9, <1>10, RecycleAllGives
<1>12. GivenBack(m, n, ToSet(p) \cup ToSet(q))
  BY <1>7, <1>11, GivenBackTrans
<1>13. QED
  BY <1>3, <1>12

\* What the session owns between calls.
LEMMA IdleOwns ==
  ASSUME NEW P, NEW C
  PROVE  OwningOf(Idle, P, C) = BatchBuffers(P) \cup ImageBuffers(C)
<1>1. MineOf(Idle) = <<>> /\ Idle.outputs = <<>> /\ Idle.images = <<>>
  BY IdleHas
<1>2. HostBuffers(<<>>) = {} /\ ToSet(<<>>) = {} /\ Scratches(<<>>) = {}
  BY NothingOwned, SubsEmpty
<1>3. QED
  BY <1>1, <1>2 DEF OwningOf, Owning

\* A call that fails lets go of its outputs, and its images are dropped.
LEMMA SafeDropped ==
  ASSUME MetalAssumption, NEW m, NEW cs, NEW h, NEW P, NEW C, Safe(m, cs, h, P, C),
         NEW l, l = [m EXCEPT !.released = @ \cup ToSet(h.outputs)], NEW n, n = RecycleImages(l, h.images)
  PROVE  Safe(n, cs, Idle, P, C) /\ n.sizes = m.sizes
<1>1. /\ Typed(m, cs, h, P, C) /\ Well(m) /\ OwnersOf(h, P, C) /\ Free(m, OwningOf(h, P, C))
      /\ UsersApart(m, cs, h, P, C)
  BY Zenon DEF Safe
<1>2. PICK O, H : O = ToSet(h.outputs) /\ H = h.images
  OBVIOUS
<1>3. m \in Memories /\ H \in Seq(Shared)
  BY <1>1, <1>2 DEF Typed, Hosts
<1>4. /\ Distinct(H) /\ O \cap HostBuffers(H) = {} /\ O \cap (BatchBuffers(P) \cup ImageBuffers(C)) = {}
      /\ HostBuffers(H) \cap (BatchBuffers(P) \cup ImageBuffers(C)) = {}
  BY <1>1, <1>2 DEF OwnersOf, Owners, Pairwise
<1>5. O \cup HostBuffers(H) \subseteq OwningOf(h, P, C)
  BY <1>2 DEF OwningOf, Owning
<1>6. O \cup HostBuffers(H) \subseteq DOMAIN m.sizes /\ (O \cup HostBuffers(H)) \cap (PooledOf(m) \cup m.released) = {}
  BY <1>1, <1>5 DEF Free
<1>7. GivenBack(m, l, O) /\ PooledOf(l) = PooledOf(m) /\ l.released = m.released \cup O
  <2>1. l = [m EXCEPT !.released = @ \cup O]
    BY <1>2
  <2>2. O \subseteq DOMAIN m.sizes /\ O \cap PooledOf(m) = {}
    BY <1>6
  <2>3. QED
    BY <1>1, <1>3, <2>1, <2>2, ReleasedGives
<1>8. Safe(m, cs, Idle, P, C) /\ OwningOf(Idle, P, C) = BatchBuffers(P) \cup ImageBuffers(C)
  BY SafeIdle, IdleOwns
<1>9. ASSUME NEW c \in RunningOf(cs) PROVE UseOf(cs, c) \cap (PooledOf(m) \cup HostBuffers(H)) = {}
  <2>1. Uses(c, UseOf(cs, c), P, MineOf(h), H, C, PooledOf(m))
    BY <1>1, <1>2, <1>9, Zenon DEF UsersApart
  <2>2. QED
    BY <2>1 DEF Uses
<1>10. Safe(l, cs, Idle, P, C)
  <2>1. O \cap OwningOf(Idle, P, C) = {} /\ \A c \in RunningOf(cs) : UseOf(cs, c) \cap PooledOf(l) = {}
    BY <1>4, <1>7, <1>8, <1>9
  <2>2. QED
    BY <1>7, <1>8, <2>1, SafeGive, Zenon
<1>11. PICK s : s = [k \in DOMAIN H |-> H[k].buffer]
  OBVIOUS
<1>12. /\ s \in Seq(Nat) /\ ToSet(s) = HostBuffers(H) /\ IsInjective(s)
  <2>1. DOMAIN H = 1..Len(H) /\ Len(H) \in Nat /\ \A k \in DOMAIN H : H[k].buffer \in Nat
    <3>1. \A k \in DOMAIN H : H[k] \in Shared
      BY <1>3
    <3>2. \A i \in Shared : i.buffer \in Nat
      BY DEF Shared
    <3>3. DOMAIN H = 1..Len(H) /\ Len(H) \in Nat
      BY <1>3
    <3>4. QED
      BY <3>1, <3>2, <3>3
  <2>2. s \in Seq(Nat) /\ DOMAIN s = DOMAIN H /\ \A k \in DOMAIN H : s[k] = H[k].buffer
    BY <1>11, <2>1
  <2>3. ToSet(s) = HostBuffers(H)
    BY <2>2 DEF ToSet, HostBuffers
  <2>4. IsInjective(s)
    BY <1>4, <2>2 DEF IsInjective, Distinct
  <2>5. QED
    BY <2>2, <2>3, <2>4
<1>13. l \in Memories /\ Well(l) /\ l.sizes = m.sizes
  BY <1>7 DEF GivenBack
<1>14. Returnable(l, s)
  <2>1. \A b \in ToSet(s) : b \in DOMAIN l.sizes /\ b \notin PooledOf(l) \cup l.released
    BY <1>4, <1>6, <1>7, <1>12, <1>13
  <2>2. QED
    BY <1>12, <1>13, <2>1 DEF Returnable, Fit
<1>15. n = RecycleAll(l, "shared", s)
  BY <1>2, <1>11, Zenon DEF RecycleImages
<1>16. GivenBack(l, n, HostBuffers(H))
  BY <1>12, <1>14, <1>15, RecycleAllGives
<1>17. HostBuffers(H) \cap OwningOf(Idle, P, C) = {}
  BY <1>4, <1>8
<1>18. \A c \in RunningOf(cs) : UseOf(cs, c) \cap PooledOf(n) = {}
  <2>1. PooledOf(n) \subseteq PooledOf(l) \cup HostBuffers(H)
    BY <1>16 DEF GivenBack
  <2>2. QED
    BY <1>7, <1>9, <2>1
<1>19. n.sizes = m.sizes
  BY <1>13, <1>16, Zenon DEF GivenBack
<1>20. Safe(n, cs, Idle, P, C)
  BY <1>10, <1>16, <1>17, <1>18, SafeGive, Zenon
<1>21. QED
  BY <1>19, <1>20

\* A caller drops an image.
LEMMA SafeDropImage ==
  ASSUME MetalAssumption, NEW m, NEW cs, NEW h, NEW P, NEW C, Safe(m, cs, h, P, C), h = Idle, NEW i \in C,
         NEW n, n = Recycle(m, "shared", i.buffer), NEW D, D = C \ {i}
  PROVE  Safe(n, cs, h, P, D) /\ n.sizes = m.sizes
<1>1. /\ Typed(m, cs, h, P, C) /\ Well(m) /\ OwnersOf(h, P, C) /\ Free(m, OwningOf(h, P, C))
      /\ UsersApart(m, cs, h, P, C) /\ KnownOf(cs, h, P) /\ Shape(h)
  BY Zenon DEF Safe
<1>2. PICK b : b = i.buffer
  OBVIOUS
<1>3. b \in ImageBuffers(C) /\ ImageBuffers(D) \subseteq ImageBuffers(C)
  BY <1>2 DEF ImageBuffers
<1>4. /\ Batches(P) /\ Apart(MineOf(h)) /\ IsInjective(h.outputs) /\ Distinct(h.images)
      /\ (\A j, k \in C : j # k => j.buffer # k.buffer)
      /\ Pairwise(BatchBuffers(P), Scratches(MineOf(h)), ToSet(h.outputs), HostBuffers(h.images), ImageBuffers(C))
  BY <1>1, Zenon DEF OwnersOf, Owners
<1>5. b \notin ImageBuffers(D)
  <2>1. \A j \in D : j \in C /\ j # i
    OBVIOUS
  <2>2. \A j \in D : j.buffer # i.buffer
    BY <1>4, <2>1, Zenon
  <2>3. QED
    BY <1>2, <2>2 DEF ImageBuffers
<1>6. OwnersOf(h, P, D)
  <2>1. Pairwise(BatchBuffers(P), Scratches(MineOf(h)), ToSet(h.outputs), HostBuffers(h.images), ImageBuffers(D))
    BY <1>3, <1>4 DEF Pairwise
  <2>2. \A j, k \in D : j # k => j.buffer # k.buffer
    BY <1>4
  <2>3. QED
    BY <1>4, <2>1, <2>2, Zenon DEF OwnersOf, Owners
<1>7. OwningOf(h, P, C) = BatchBuffers(P) \cup ImageBuffers(C) /\ OwningOf(h, P, D) = BatchBuffers(P) \cup ImageBuffers(D)
  BY IdleOwns
<1>8. /\ OwningOf(h, P, D) \subseteq OwningOf(h, P, C) /\ {b} \cap OwningOf(h, P, D) = {}
      /\ b \in DOMAIN m.sizes /\ b \notin PooledOf(m) \cup m.released
  <2>1. BatchBuffers(P) \cap ImageBuffers(C) = {}
    BY <1>4 DEF Pairwise
  <2>2. b \in DOMAIN m.sizes /\ b \notin PooledOf(m) \cup m.released
    BY <1>1, <1>3, <1>7 DEF Free
  <2>3. QED
    BY <1>3, <1>5, <1>7, <2>1, <2>2
<1>9. Free(m, OwningOf(h, P, D))
  BY <1>1, <1>8 DEF Free
<1>10. Typed(m, cs, h, P, D)
  BY <1>1 DEF Typed
<1>11. ASSUME NEW c \in RunningOf(cs)
       PROVE  /\ Uses(c, UseOf(cs, c), P, MineOf(h), h.images, D, PooledOf(m))
              /\ OutputsOf(h, c, UseOf(cs, c))
              /\ UseOf(cs, c) \cap (PooledOf(m) \cup {b}) = {}
  <2>1. PICK U : U = UseOf(cs, c)
    OBVIOUS
  <2>2. Uses(c, U, P, MineOf(h), h.images, C, PooledOf(m)) /\ OutputsOf(h, c, U)
    BY <1>1, <1>11, <2>1, Zenon DEF UsersApart
  <2>3. U \cap (PooledOf(m) \cup HostBuffers(h.images) \cup ImageBuffers(C)) = {}
    BY <2>2, Zenon DEF Uses
  <2>4. U \cap (PooledOf(m) \cup HostBuffers(h.images) \cup ImageBuffers(D)) = {} /\ U \cap (PooledOf(m) \cup {b}) = {}
    BY <1>3, <2>3
  <2>5. Uses(c, U, P, MineOf(h), h.images, D, PooledOf(m))
    BY <2>2, <2>4, Zenon DEF Uses
  <2>6. QED
    BY <2>1, <2>2, <2>4, <2>5, Zenon
<1>12. Safe(m, cs, h, P, D)
  <2>1. UsersApart(m, cs, h, P, D)
    BY <1>1, <1>11, UsersKept, Zenon
  <2>2. QED
    BY <1>1, <1>6, <1>9, <1>10, <2>1, Zenon DEF Safe
<1>13. GivenBack(m, n, {b})
  <2>1. m \in Memories
    BY <1>1 DEF Typed
  <2>2. QED
    BY <1>1, <1>2, <1>8, <2>1, RecycleStep
<1>14. \A c \in RunningOf(cs) : UseOf(cs, c) \cap PooledOf(n) = {}
  <2>1. PooledOf(n) \subseteq PooledOf(m) \cup {b}
    BY <1>13 DEF GivenBack
  <2>2. QED
    BY <1>11, <2>1
<1>15. n.sizes = m.sizes
  BY <1>13, Zenon DEF GivenBack
<1>16. Safe(n, cs, h, P, D)
  BY <1>8, <1>12, <1>13, <1>14, SafeGive, Zenon
<1>17. QED
  BY <1>15, <1>16

\* Buffers that are nobody's, in no pool and not released.
Unused(m, cs, h, P, C, X) ==
  /\ X \cap OwningOf(h, P, C) = {} /\ X \cap (PooledOf(m) \cup m.released) = {} /\ X \subseteq DOMAIN m.sizes
  /\ \A c \in RunningOf(cs) : UseOf(cs, c) \cap X = {}

\* Buffers that are taken are nobody's.
LEMMA SafeTook ==
  ASSUME NEW m, NEW cs, NEW h, NEW P, NEW C, Safe(m, cs, h, P, C), NEW k \in Nat, NEW t, Taken(m, t, k),
         NEW n, n = WithoutTaken(t)
  PROVE  /\ Safe(n, cs, h, P, C) /\ Unused(n, cs, h, P, C, ToSet(t.taken)) /\ n \in Memories
         /\ Len(n.sizes) >= Len(m.sizes)
<1>1. /\ Typed(m, cs, h, P, C) /\ Well(m) /\ OwnersOf(h, P, C) /\ Free(m, OwningOf(h, P, C))
      /\ UsersApart(m, cs, h, P, C) /\ KnownOf(cs, h, P) /\ Shape(h)
  BY Zenon DEF Safe
<1>2. m \in Memories
  BY <1>1, Zenon DEF Typed
<1>3. PICK X : X = ToSet(t.taken)
  OBVIOUS
<1>4. n.private = t.private /\ n.shared = t.shared /\ n.sizes = t.sizes /\ n.released = t.released
  BY DEF WithoutTaken
<1>5. /\ t \in Takings /\ Well(t) /\ t.released = m.released /\ Len(t.sizes) >= Len(m.sizes)
      /\ X \cap (PooledOf(t) \cup t.released) = {}
      /\ PooledOf(t) \cup X = PooledOf(m) \cup (Len(m.sizes) + 1..Len(t.sizes))
  BY <1>3, Zenon DEF Taken
<1>6. n \in Memories
  BY <1>5 DEF Takings, Memories, WithoutTaken
<1>7. PooledOf(n) = PooledOf(t) /\ Well(n)
  BY <1>4, <1>5 DEF PooledOf, Well
<1>8. PICK z0, z : z0 = Len(m.sizes) /\ z = Len(t.sizes)
  OBVIOUS
<1>9. z0 \in Nat /\ z \in Nat /\ z >= z0 /\ DOMAIN m.sizes = 1..z0 /\ DOMAIN n.sizes = 1..z
  BY <1>2, <1>4, <1>5, <1>8 DEF Memories, Takings
<1>10. X \subseteq 1..z
  BY <1>3, <1>2, <1>1, <1>8, TakenBuffers
<1>11. /\ DOMAIN m.sizes \subseteq DOMAIN n.sizes
       /\ \A V : V \subseteq DOMAIN m.sizes /\ V \cap PooledOf(m) = {} => V \cap X = {} /\ V \cap PooledOf(n) = {}
  <2>1. (1..z0) \cap (z0 + 1..z) = {} /\ 1..z0 \subseteq 1..z
    BY <1>9
  <2>2. PooledOf(n) \cup X = PooledOf(m) \cup (z0 + 1..z)
    BY <1>5, <1>7, <1>8
  <2>3. QED
    BY <1>9, <2>1, <2>2
<1>12. Free(n, OwningOf(h, P, C)) /\ X \cap OwningOf(h, P, C) = {}
  <2>1. PICK W : W = OwningOf(h, P, C)
    OBVIOUS
  <2>2. W \cap (PooledOf(m) \cup m.released) = {} /\ W \subseteq DOMAIN m.sizes
    BY <1>1, <2>1 DEF Free
  <2>3. W \cap PooledOf(m) = {}
    BY <2>2
  <2>4. W \cap X = {} /\ W \cap PooledOf(n) = {}
    BY <1>11, <2>2, <2>3
  <2>5. QED
    BY <1>4, <1>5, <1>11, <2>1, <2>2, <2>4 DEF Free
<1>13. ASSUME NEW c \in RunningOf(cs)
       PROVE  /\ Uses(c, UseOf(cs, c), P, MineOf(h), h.images, C, PooledOf(n))
              /\ OutputsOf(h, c, UseOf(cs, c))
              /\ UseOf(cs, c) \cap X = {}
  <2>1. PICK U : U = UseOf(cs, c)
    OBVIOUS
  <2>2. Uses(c, U, P, MineOf(h), h.images, C, PooledOf(m)) /\ OutputsOf(h, c, U) /\ U \subseteq DOMAIN m.sizes
    BY <1>1, <1>13, <2>1, Zenon DEF UsersApart
  <2>3. U \cap (PooledOf(m) \cup HostBuffers(h.images) \cup ImageBuffers(C)) = {}
    BY <2>2, Zenon DEF Uses
  <2>4. U \cap PooledOf(m) = {}
    BY <2>3
  <2>5. U \cap X = {} /\ U \cap PooledOf(n) = {}
    BY <1>11, <2>2, <2>4
  <2>6. U \cap (PooledOf(n) \cup HostBuffers(h.images) \cup ImageBuffers(C)) = {}
    BY <2>3, <2>5
  <2>7. Uses(c, U, P, MineOf(h), h.images, C, PooledOf(n))
    BY <2>2, <2>6, Zenon DEF Uses
  <2>8. QED
    BY <2>1, <2>2, <2>5, <2>7, Zenon
<1>14. UsersApart(n, cs, h, P, C)
  BY <1>1, <1>11, <1>13, UsersKept, Zenon
<1>15. Typed(n, cs, h, P, C)
  BY <1>1, <1>6, Zenon DEF Typed
<1>16. Safe(n, cs, h, P, C)
  BY <1>1, <1>7, <1>12, <1>14, <1>15, Zenon DEF Safe
<1>17. X \cap (PooledOf(n) \cup n.released) = {} /\ X \subseteq DOMAIN n.sizes
  BY <1>4, <1>5, <1>7, <1>9, <1>10
<1>18. Unused(n, cs, h, P, C, X)
  BY <1>12, <1>13, <1>17, Zenon DEF Unused
<1>19. QED
  BY <1>3, <1>4, <1>5, <1>6, <1>16, <1>18

\* The outputs of a group are the call's.
LEMMA SafeOutputs ==
  ASSUME NEW m, NEW cs, NEW h, NEW P, NEW C, Safe(m, cs, h, P, C), h.outputs = <<>>,
         NEW O \in Seq(Nat), IsInjective(O), Unused(m, cs, h, P, C, ToSet(O)),
         NEW g \in Hosts, Shape(g), g.outputs = O, g.images = h.images, MineOf(g) = MineOf(h)
  PROVE  Safe(m, cs, g, P, C)
<1>1. /\ Typed(m, cs, h, P, C) /\ Well(m) /\ OwnersOf(h, P, C) /\ Free(m, OwningOf(h, P, C))
      /\ UsersApart(m, cs, h, P, C) /\ KnownOf(cs, h, P) /\ Shape(h)
  BY Zenon DEF Safe
<1>2. PICK X, M, W : X = ToSet(O) /\ M = MineOf(h) /\ W = OwningOf(h, P, C)
  OBVIOUS
<1>3. /\ X \cap W = {} /\ X \cap (PooledOf(m) \cup m.released) = {} /\ X \subseteq DOMAIN m.sizes
      /\ \A c \in RunningOf(cs) : UseOf(cs, c) \cap X = {}
  BY <1>2, Zenon DEF Unused
<1>4. W = BatchBuffers(P) \cup Scratches(M) \cup HostBuffers(h.images) \cup ImageBuffers(C)
  <2>1. ToSet(<<>>) = {}
    BY NothingOwned
  <2>2. QED
    BY <1>2, <2>1 DEF OwningOf, Owning
<1>5. OwningOf(g, P, C) = W \cup X
  BY <1>2, <1>4 DEF OwningOf, Owning
<1>6. Free(m, OwningOf(g, P, C))
  BY <1>1, <1>2, <1>3, <1>5 DEF Free
<1>7. OwnersOf(g, P, C)
  <2>1. /\ Batches(P) /\ Apart(M) /\ Distinct(h.images) /\ (\A i, j \in C : i # j => i.buffer # j.buffer)
        /\ Pairwise(BatchBuffers(P), Scratches(M), ToSet(h.outputs), HostBuffers(h.images), ImageBuffers(C))
    BY <1>1, <1>2, Zenon DEF OwnersOf, Owners
  <2>2. Pairwise(BatchBuffers(P), Scratches(M), X, HostBuffers(h.images), ImageBuffers(C))
    BY <1>3, <1>4, <2>1 DEF Pairwise
  <2>3. QED
    BY <1>2, <2>1, <2>2, Zenon DEF OwnersOf, Owners
<1>8. UsersApart(m, cs, g, P, C)
  <2>1. SUFFICES ASSUME NEW c \in RunningOf(cs)
                 PROVE  /\ Uses(c, UseOf(cs, c), P, MineOf(g), g.images, C, PooledOf(m))
                        /\ OutputsOf(g, c, UseOf(cs, c))
    BY <1>1, UsersKept, Zenon
  <2>2. Uses(c, UseOf(cs, c), P, MineOf(g), g.images, C, PooledOf(m)) /\ UseOf(cs, c) \cap X = {}
    BY <1>1, <1>3, <2>1, Zenon DEF UsersApart
  <2>3. \A k \in DOMAIN O : O[k] \notin UseOf(cs, c)
    BY <1>2, <2>2 DEF ToSet
  <2>4. OutputsOf(g, c, UseOf(cs, c))
    BY <2>3, Zenon DEF OutputsOf, OutputsUsed
  <2>5. QED
    BY <2>2, <2>4
<1>9. Typed(m, cs, g, P, C) /\ KnownOf(cs, g, P)
  BY <1>1, Zenon DEF Typed, KnownOf
<1>10. QED
  BY <1>1, <1>6, <1>7, <1>8, <1>9, Zenon DEF Safe

\* Images that have buffers of their own.
LEMMA ImagesOfBuffers ==
  ASSUME NEW O, IsInjective(O), NEW K, DOMAIN K = DOMAIN O, \A k \in DOMAIN O : K[k].buffer = O[k]
  PROVE  HostBuffers(K) = ToSet(O) /\ Distinct(K)
<1>1. HostBuffers(K) = {O[k] : k \in DOMAIN O}
  BY DEF HostBuffers
<1>2. ToSet(O) = {O[k] : k \in DOMAIN O}
  BY Zenon DEF ToSet
<1>3. \A j, k \in DOMAIN O : O[j] = O[k] => j = k
  BY DEF IsInjective
<1>4. Distinct(K)
  BY <1>3 DEF Distinct
<1>5. QED
  BY <1>1, <1>2, <1>4

\* The outputs of a group are its images.
LEMMA SafeGroup ==
  ASSUME NEW m, NEW cs, NEW h, NEW P, NEW C, Safe(m, cs, h, P, C), h.step = "wait", h.submissions = <<>>,
         h.request.kind = "shared",
         NEW K, K = [k \in DOMAIN h.got |-> SharedImage(h.got[k], h.outputs[k])],
         NEW g \in Hosts, Shape(g), MineOf(g) = <<>>, g.outputs = <<>>, g.images = h.images \o K
  PROVE  Safe(m, cs, g, P, C)
<1>1. /\ Typed(m, cs, h, P, C) /\ Well(m) /\ OwnersOf(h, P, C) /\ Free(m, OwningOf(h, P, C))
      /\ UsersApart(m, cs, h, P, C) /\ KnownOf(cs, h, P) /\ Shape(h)
  BY Zenon DEF Safe
<1>2. PICK O, H, R : O = h.outputs /\ H = h.images /\ R = h.got
  OBVIOUS
<1>3. h \in Hosts /\ O \in Seq(Nat) /\ H \in Seq(Shared) /\ R \in Seq(Pictures)
  BY <1>1, <1>2 DEF Typed, Hosts
<1>4. MineOf(h) = <<>>
  BY <1>1, <1>3, MineType, Zenon DEF Shape
<1>5. Len(R) = Len(O)
  <2>1. Len(R) + Len(<<>>) = Len(O)
    BY <1>1, <1>2, <1>4 DEF Shape
  <2>2. QED
    BY <1>3, <2>1
<1>6. /\ Batches(P) /\ IsInjective(O) /\ Distinct(H) /\ (\A i, j \in C : i # j => i.buffer # j.buffer)
      /\ Pairwise(BatchBuffers(P), Scratches(<<>>), ToSet(O), HostBuffers(H), ImageBuffers(C))
  BY <1>1, <1>2, <1>4, Zenon DEF OwnersOf, Owners
<1>7. /\ DOMAIN R = DOMAIN O /\ K \in Seq(Shared) /\ DOMAIN K = DOMAIN O /\ \A k \in DOMAIN O : K[k].buffer = O[k]
  <2>1. DOMAIN R = 1..Len(O) /\ DOMAIN O = 1..Len(O) /\ Len(O) \in Nat
    BY <1>3, <1>5
  <2>2. \A k \in 1..Len(O) : R[k].plan \in Names /\ R[k].truth \in Seq(Nat) /\ O[k] \in Nat
    <3>1. \A k \in 1..Len(O) : R[k] \in Pictures
      BY <1>3, <1>5
    <3>2. \A p \in Pictures : p.plan \in Names /\ p.truth \in Seq(Nat)
      BY DEF Pictures
    <3>3. QED
      BY <1>3, <3>1, <3>2
  <2>3. \A k \in 1..Len(O) : SharedImage(R[k], O[k]) \in Shared /\ SharedImage(R[k], O[k]).buffer = O[k]
    BY <2>2 DEF SharedImage, Shared
  <2>4. K = [k \in 1..Len(O) |-> SharedImage(R[k], O[k])]
    BY <1>2, <2>1
  <2>5. PICK n : n = Len(O)
    OBVIOUS
  <2>6. /\ n \in Nat /\ K = [k \in 1..n |-> SharedImage(R[k], O[k])] /\ DOMAIN O = 1..n /\ DOMAIN R = 1..n
        /\ \A k \in 1..n : SharedImage(R[k], O[k]) \in Shared /\ SharedImage(R[k], O[k]).buffer = O[k]
    BY <2>1, <2>3, <2>4, <2>5
  <2>7. DOMAIN K = 1..n /\ \A k \in 1..n : K[k] \in Shared /\ K[k].buffer = O[k]
    BY <2>6
  <2>8. K \in Seq(Shared)
    BY <2>6
  <2>9. QED
    BY <2>6, <2>7, <2>8
<1>8. HostBuffers(K) = ToSet(O) /\ Distinct(K)
  BY <1>6, <1>7, ImagesOfBuffers, Zenon
<1>9. /\ H \o K \in Seq(Shared) /\ Distinct(H \o K) /\ HostBuffers(H \o K) = HostBuffers(H) \cup ToSet(O)
  <2>1. HostBuffers(H) \cap HostBuffers(K) = {}
    BY <1>6, <1>8 DEF Pairwise
  <2>2. H \in Seq(Shared) /\ Distinct(H) /\ K \in Seq(Shared) /\ Distinct(K)
    BY <1>3, <1>6, <1>7, <1>8
  <2>3. H \o K \in Seq(Shared) /\ Distinct(H \o K)
    BY <2>1, <2>2, HostBuffersMore
  <2>4. HostBuffers(H \o K) = HostBuffers(H) \cup HostBuffers(K)
    BY <2>1, <2>2, HostBuffersMore
  <2>5. QED
    BY <1>8, <2>3, <2>4
<1>10. g.images = H \o K
  BY <1>2
<1>11. ToSet(<<>>) = {} /\ IsInjective(<<>>) /\ Scratches(<<>>) = {} /\ Apart(<<>>)
  BY NothingOwned, SubsEmpty
<1>12. OwnersOf(g, P, C)
  <2>1. Pairwise(BatchBuffers(P), {}, {}, HostBuffers(H \o K), ImageBuffers(C))
    BY <1>6, <1>9 DEF Pairwise
  <2>2. Owners(P, <<>>, <<>>, H \o K, C)
    BY <1>6, <1>9, <1>11, <2>1, Zenon DEF Owners
  <2>3. QED
    BY <1>10, <2>2, Zenon DEF OwnersOf
<1>13. OwningOf(g, P, C) = OwningOf(h, P, C)
  BY <1>2, <1>4, <1>9, <1>10, <1>11 DEF OwningOf, Owning
<1>14. UsersApart(m, cs, g, P, C)
  <2>1. SUFFICES ASSUME NEW c \in RunningOf(cs)
                 PROVE  /\ Uses(c, UseOf(cs, c), P, MineOf(g), g.images, C, PooledOf(m))
                        /\ OutputsOf(g, c, UseOf(cs, c))
    BY <1>1, UsersKept, Zenon
  <2>2. PICK U : U = UseOf(cs, c)
    OBVIOUS
  <2>3. Uses(c, U, P, <<>>, H, C, PooledOf(m)) /\ OutputsOf(h, c, U)
    BY <1>1, <1>2, <1>4, <2>1, <2>2, Zenon DEF UsersApart
  <2>4. \A k \in DOMAIN O : O[k] \notin U
    <3>1. OutputsUsed(c, U, O, Len(R), <<>>)
      BY <1>2, <1>4, <2>3 DEF OutputsOf
    <3>2. QED
      BY <3>1 DEF OutputsUsed
  <2>5. ToSet(O) \cap U = {}
    BY <2>4 DEF ToSet
  <2>6. U \cap (PooledOf(m) \cup HostBuffers(H \o K) \cup ImageBuffers(C)) = {}
    BY <1>9, <2>3, <2>5 DEF Uses
  <2>7. Uses(c, U, P, <<>>, H \o K, C, PooledOf(m))
    BY <2>3, <2>6, Zenon DEF Uses
  <2>8. OutputsOf(g, c, U)
    BY DEF OutputsOf, OutputsUsed
  <2>9. QED
    BY <1>10, <2>2, <2>7, <2>8, Zenon
<1>15. Typed(m, cs, g, P, C) /\ KnownOf(cs, g, P)
  BY <1>1, <1>4, Zenon DEF Typed, KnownOf
<1>16. QED
  BY <1>1, <1>12, <1>13, <1>14, <1>15, Zenon DEF Safe

\* What a call that fails lets go of: buffers just taken, outputs of the group and
\* submissions encoded in it.
LEMMA SafeFail ==
  ASSUME NEW m, NEW cs, NEW h, NEW P, NEW C, Safe(m, cs, h, P, C), NEW X, Unused(m, cs, h, P, C, X),
         NEW g \in Hosts, Shape(g), g.step = "drop", g.outputs = <<>>, g.images = h.images,
         MineOf(g) = h.submissions,
         NEW n, n = [m EXCEPT !.released = @ \cup (X \cup ToSet(h.outputs) \cup Scratches(FlattenSeq(h.encoded)))]
  PROVE  Safe(n, cs, g, P, C)
<1>1. /\ Typed(m, cs, h, P, C) /\ Well(m) /\ OwnersOf(h, P, C) /\ Free(m, OwningOf(h, P, C))
      /\ UsersApart(m, cs, h, P, C) /\ KnownOf(cs, h, P) /\ Shape(h)
  BY Zenon DEF Safe
<1>2. PICK s, e, O, H : s = h.submissions /\ e = FlattenSeq(h.encoded) /\ O = h.outputs /\ H = h.images
  OBVIOUS
<1>3. /\ s \in Seq(Subs) /\ e \in Seq(Subs) /\ MineOf(h) = s \o e
  <2>1. h \in Hosts
    BY <1>1, Zenon DEF Typed
  <2>2. QED
    BY <1>2, <2>1, MineType DEF MineOf
<1>4. /\ Scratches(s \o e) = Scratches(s) \cup Scratches(e)
      /\ Apart(s \o e) <=> Apart(s) /\ Apart(e) /\ Scratches(s) \cap Scratches(e) = {}
      /\ \A c, U : Clear(s \o e, c, U) <=> Clear(s, c, U) /\ Clear(e, c, U)
  BY <1>3, SubsConcat
<1>5. /\ Batches(P) /\ Apart(s) /\ Distinct(H) /\ (\A i, j \in C : i # j => i.buffer # j.buffer)
      /\ Scratches(s) \cap Scratches(e) = {}
      /\ Pairwise(BatchBuffers(P), Scratches(s) \cup Scratches(e), ToSet(O), HostBuffers(H), ImageBuffers(C))
  <2>1. Owners(P, s \o e, O, H, C)
    BY <1>1, <1>2, <1>3, Zenon DEF OwnersOf
  <2>2. QED
    BY <1>4, <2>1 DEF Owners
<1>6. OwningOf(h, P, C) = BatchBuffers(P) \cup Scratches(s) \cup Scratches(e) \cup ToSet(O) \cup HostBuffers(H) \cup ImageBuffers(C)
  BY <1>2, <1>3, <1>4 DEF OwningOf, Owning
<1>7. IsInjective(<<>>) /\ ToSet(<<>>) = {}
  BY NothingOwned
<1>8. OwningOf(g, P, C) = BatchBuffers(P) \cup Scratches(s) \cup HostBuffers(H) \cup ImageBuffers(C)
  BY <1>2, <1>7 DEF OwningOf, Owning
<1>9. OwnersOf(g, P, C)
  <2>1. Pairwise(BatchBuffers(P), Scratches(s), {}, HostBuffers(H), ImageBuffers(C))
    BY <1>5 DEF Pairwise
  <2>2. Owners(P, s, <<>>, H, C)
    BY <1>5, <1>7, <2>1, Zenon DEF Owners
  <2>3. QED
    BY <1>2, <2>2, Zenon DEF OwnersOf
<1>10. Free(m, OwningOf(g, P, C))
  BY <1>1, <1>6, <1>8 DEF Free
<1>11. UsersApart(m, cs, g, P, C)
  <2>1. SUFFICES ASSUME NEW c \in RunningOf(cs)
                 PROVE  /\ Uses(c, UseOf(cs, c), P, MineOf(g), g.images, C, PooledOf(m))
                        /\ OutputsOf(g, c, UseOf(cs, c))
    BY <1>1, UsersKept, Zenon
  <2>2. PICK U : U = UseOf(cs, c)
    OBVIOUS
  <2>3. Uses(c, U, P, s \o e, H, C, PooledOf(m))
    BY <1>1, <1>2, <1>3, <2>1, <2>2, Zenon DEF UsersApart
  <2>4. Clear(s, c, U)
    BY <1>4, <2>3, Zenon DEF Uses
  <2>5. Uses(c, U, P, s, H, C, PooledOf(m))
    BY <2>3, <2>4, Zenon DEF Uses
  <2>6. OutputsOf(g, c, U)
    BY DEF OutputsOf
  <2>7. QED
    BY <1>2, <2>2, <2>5, <2>6, Zenon
<1>12. KnownOf(cs, g, P)
  <2>1. Known(cs, s \o e) /\ \A j \in DOMAIN P : Known(cs, P[j].submissions)
    BY <1>1, <1>3, Zenon DEF KnownOf
  <2>2. \A k \in DOMAIN s : k \in DOMAIN (s \o e) /\ (s \o e)[k] = s[k]
    BY <1>3
  <2>3. Known(cs, s)
    BY <2>1, <2>2, Zenon DEF Known
  <2>4. QED
    BY <1>2, <2>1, <2>3, Zenon DEF KnownOf
<1>13. Typed(m, cs, g, P, C)
  BY <1>1, Zenon DEF Typed
<1>14. Safe(m, cs, g, P, C)
  BY <1>1, <1>9, <1>10, <1>11, <1>12, <1>13, Zenon DEF Safe
<1>15. PICK Y : Y = X \cup ToSet(O) \cup Scratches(e)
  OBVIOUS
<1>16. /\ Y \subseteq DOMAIN m.sizes /\ Y \cap PooledOf(m) = {} /\ Y \cap OwningOf(g, P, C) = {}
  <2>1. /\ X \cap OwningOf(h, P, C) = {} /\ X \cap PooledOf(m) = {} /\ X \subseteq DOMAIN m.sizes
    BY DEF Unused
  <2>2. OwningOf(h, P, C) \subseteq DOMAIN m.sizes /\ OwningOf(h, P, C) \cap PooledOf(m) = {}
    BY <1>1 DEF Free
  <2>3. Y \subseteq DOMAIN m.sizes /\ Y \cap PooledOf(m) = {}
    BY <1>6, <1>15, <2>1, <2>2
  <2>4. (ToSet(O) \cup Scratches(e)) \cap OwningOf(g, P, C) = {}
    BY <1>5, <1>8 DEF Pairwise
  <2>5. QED
    BY <1>6, <1>8, <1>15, <2>1, <2>3, <2>4
<1>17. GivenBack(m, n, Y) /\ PooledOf(n) = PooledOf(m)
  <2>1. n = [m EXCEPT !.released = @ \cup Y]
    BY <1>2, <1>15
  <2>2. m \in Memories
    BY <1>1, Zenon DEF Typed
  <2>3. QED
    BY <1>1, <1>16, <2>1, <2>2, ReleasedGives
<1>18. \A c \in RunningOf(cs) : UseOf(cs, c) \cap PooledOf(n) = {}
  <2>1. \A c \in RunningOf(cs) : UseOf(cs, c) \cap PooledOf(m) = {}
    BY <1>1 DEF UsersApart, Uses
  <2>2. QED
    BY <1>17, <2>1
<1>19. QED
  BY <1>14, <1>16, <1>17, <1>18, SafeGive, Zenon

\* The command id, x, is encoded: e are the submissions of its images, and it
\* writes the outputs O that follow the first n.
Encodes(e, x, id, X, O, n) ==
  /\ e \in Seq(Subs) /\ Apart(e) /\ Scratches(e) \subseteq X
  /\ x \in Commands /\ x.scratch = X
  /\ \A k \in DOMAIN e : e[k].command = id /\ e[k].image \in DOMAIN x.images
  /\ \A k \in DOMAIN x.images :
       x.images[k].output # 0 => /\ n + k \in DOMAIN O /\ x.images[k].output = O[n + k]
                                 /\ k \in DOMAIN e

\* A command is committed.
LEMMA SafeCommit ==
  ASSUME NEW m, NEW cs, NEW h, NEW P, NEW C, Safe(m, cs, h, P, C), h.step = "encode",
         NEW X, Unused(m, cs, h, P, C, X), NEW e, NEW x, Encodes(e, x, Len(cs) + 1, X, h.outputs, Len(MineOf(h))),
         NEW bs, bs = Append(cs, x),
         NEW g \in Hosts, Shape(g), MineOf(g) = MineOf(h) \o e, g.step = "encode",
         g.outputs = h.outputs, g.images = h.images, g.got = h.got
  PROVE  Safe(m, bs, g, P, C)
<1>1. /\ Typed(m, cs, h, P, C) /\ Well(m) /\ OwnersOf(h, P, C) /\ Free(m, OwningOf(h, P, C))
      /\ UsersApart(m, cs, h, P, C) /\ KnownOf(cs, h, P) /\ Shape(h)
  BY Zenon DEF Safe
<1>2. PICK M, O, H, id, n : M = MineOf(h) /\ O = h.outputs /\ H = h.images /\ id = Len(cs) + 1 /\ n = Len(M)
  OBVIOUS
<1>3. /\ h \in Hosts /\ cs \in Seq(Commands) /\ h.got = <<>>
  BY <1>1, Zenon DEF Typed, Shape
<1>4. M \in Seq(Subs) /\ O \in Seq(Nat) /\ n \in Nat /\ id \in Nat /\ DOMAIN cs = 1..id - 1 /\ id \notin DOMAIN cs
      /\ DOMAIN M = 1..n
  <2>1. M \in Seq(Subs)
    BY <1>2, <1>3, MineType
  <2>2. O \in Seq(Nat)
    BY <1>2, <1>3 DEF Hosts
  <2>3. QED
    BY <1>2, <1>3, <2>1, <2>2
<1>5. /\ e \in Seq(Subs) /\ Apart(e) /\ Scratches(e) \subseteq X
      /\ x \in Commands /\ x.scratch = X
      /\ \A k \in DOMAIN e : e[k].command = id /\ e[k].image \in DOMAIN x.images
      /\ \A k \in DOMAIN x.images :
           x.images[k].output # 0 => /\ n + k \in DOMAIN O /\ x.images[k].output = O[n + k]
                                     /\ k \in DOMAIN e
  BY <1>2, Zenon DEF Encodes
<1>6. /\ bs \in Seq(Commands) /\ DOMAIN bs = DOMAIN cs \cup {id} /\ bs[id] = x /\ \A c \in DOMAIN cs : bs[c] = cs[c]
  BY <1>2, <1>3, <1>4, <1>5
<1>7. /\ Scratches(M \o e) = Scratches(M) \cup Scratches(e)
      /\ Apart(M \o e) <=> Apart(M) /\ Apart(e) /\ Scratches(M) \cap Scratches(e) = {}
      /\ \A c, U : Clear(M \o e, c, U) <=> Clear(M, c, U) /\ Clear(e, c, U)
  BY <1>4, <1>5, SubsConcat
<1>8. /\ X \cap OwningOf(h, P, C) = {} /\ X \cap (PooledOf(m) \cup m.released) = {} /\ X \subseteq DOMAIN m.sizes
      /\ \A c \in RunningOf(cs) : UseOf(cs, c) \cap X = {}
  BY Zenon DEF Unused
<1>9. OwningOf(h, P, C) = BatchBuffers(P) \cup Scratches(M) \cup ToSet(O) \cup HostBuffers(H) \cup ImageBuffers(C)
  BY <1>2, Zenon DEF OwningOf, Owning
<1>10. OwningOf(g, P, C) = OwningOf(h, P, C) \cup Scratches(e)
  BY <1>2, <1>7, <1>9 DEF OwningOf, Owning
<1>11. Free(m, OwningOf(g, P, C))
  BY <1>1, <1>5, <1>8, <1>10 DEF Free
<1>12. /\ Batches(P) /\ Apart(M) /\ IsInjective(O) /\ Distinct(H) /\ (\A i, j \in C : i # j => i.buffer # j.buffer)
       /\ Pairwise(BatchBuffers(P), Scratches(M), ToSet(O), HostBuffers(H), ImageBuffers(C))
  BY <1>1, <1>2, Zenon DEF OwnersOf, Owners
<1>13. OwnersOf(g, P, C)
  <2>1. Pairwise(BatchBuffers(P), Scratches(M \o e), ToSet(O), HostBuffers(H), ImageBuffers(C))
    BY <1>5, <1>7, <1>8, <1>9, <1>12 DEF Pairwise
  <2>2. Apart(M \o e)
    BY <1>5, <1>7, <1>8, <1>9, <1>12
  <2>3. QED
    BY <1>2, <1>12, <2>1, <2>2, Zenon DEF OwnersOf, Owners
<1>14. /\ RunningOf(bs) \subseteq RunningOf(cs) \cup {id} /\ RunningOf(cs) \subseteq DOMAIN cs
       /\ \A c \in DOMAIN cs : UseOf(bs, c) = UseOf(cs, c)
  BY <1>6 DEF RunningOf, UseOf
<1>15. PICK V : V = {x.images[k].output : k \in DOMAIN x.images} \ {0}
  OBVIOUS
<1>16. UseOf(bs, id) = X \cup V
  BY <1>5, <1>6, <1>15 DEF UseOf
<1>17. /\ V \subseteq ToSet(O)
       /\ \A k \in DOMAIN O : O[k] \in V => k - n \in DOMAIN e /\ k > n
  <2>1. ASSUME NEW v \in V PROVE \E k \in DOMAIN e : n + k \in DOMAIN O /\ v = O[n + k]
    BY <1>5, <1>15, <2>1
  <2>2. V \subseteq ToSet(O)
    BY <2>1, Zenon DEF ToSet
  <2>3. ASSUME NEW k \in DOMAIN O, O[k] \in V PROVE k - n \in DOMAIN e /\ k > n
    <3>1. PICK j \in DOMAIN e : n + j \in DOMAIN O /\ O[k] = O[n + j]
      BY <2>1, <2>3
    <3>2. k = n + j
      BY <1>12, <2>3, <3>1, Zenon DEF IsInjective
    <3>3. j \in Nat \ {0}
      BY <1>5
    <3>4. k - n = j /\ k > n
      BY <1>4, <3>2, <3>3
    <3>5. QED
      BY <3>4
  <2>4. QED
    BY <2>2, <2>3
<1>18. ASSUME NEW k \in DOMAIN O, k > n, k - n \in DOMAIN e
       PROVE  k - n + n \in DOMAIN (M \o e) /\ k \in DOMAIN (M \o e) /\ (M \o e)[k] = e[k - n] /\ (M \o e)[k].command = id
  <2>1. k \in Nat /\ DOMAIN e = 1..Len(e) /\ Len(e) \in Nat
    BY <1>4, <1>5
  <2>2. k \in 1..n + Len(e)
    <3>1. PICK l : l = Len(e)
      OBVIOUS
    <3>2. k \in Nat /\ n \in Nat /\ l \in Nat /\ k - n \in 1..l /\ k > n
      BY <1>4, <1>18, <2>1, <3>1
    <3>3. k \in 1..n + l
      BY <3>2
    <3>4. QED
      BY <3>1, <3>3
  <2>3. DOMAIN (M \o e) = 1..n + Len(e) /\ (M \o e)[k] = e[k - n]
    <3>1. PICK S : S = Subs
      OBVIOUS
    <3>2. M \in Seq(S) /\ e \in Seq(S) /\ n = Len(M)
      BY <1>2, <1>4, <1>5, <3>1
    <3>3. k - n \in 1..Len(e) /\ n + (k - n) = k
      BY <1>4, <1>18, <2>1
    <3>4. DOMAIN (M \o e) = 1..n + Len(e) /\ \A i \in 1..Len(e) : (M \o e)[n + i] = e[i]
      BY <3>2
    <3>5. QED
      BY <3>3, <3>4
  <2>4. k - n + n = k
    BY <1>4, <2>1
  <2>5. QED
    BY <1>5, <1>18, <2>2, <2>3, <2>4
<1>19. /\ Uses(id, X \cup V, P, M \o e, H, C, PooledOf(m)) /\ OutputsUsed(id, X \cup V, O, 0, M \o e) /\ X \cup V \subseteq DOMAIN m.sizes
  <2>1. OwningOf(h, P, C) \cap PooledOf(m) = {} /\ OwningOf(h, P, C) \subseteq DOMAIN m.sizes
    BY <1>1 DEF Free
  <2>2. X \cup V \subseteq DOMAIN m.sizes /\ (X \cup V) \cap PooledOf(m) = {}
    BY <1>8, <1>9, <1>17, <2>1
  <2>3. /\ (X \cup V) \cap HostBuffers(H) = {} /\ (X \cup V) \cap ImageBuffers(C) = {}
        /\ (X \cup V) \cap BatchBuffers(P) = {} /\ (X \cup V) \cap Scratches(M) = {}
    BY <1>8, <1>9, <1>12, <1>17 DEF Pairwise
  <2>4. \A k \in DOMAIN P : Clear(P[k].submissions, id, X \cup V)
    <3>1. \A k \in DOMAIN P : Scratches(P[k].submissions) \cap (X \cup V) = {}
      BY <2>3 DEF BatchBuffers
    <3>2. QED
      BY <3>1 DEF Clear, Scratches, Own
  <2>5. Clear(M, id, X \cup V)
    BY <2>3 DEF Clear, Scratches, Own
  <2>6. Clear(e, id, X \cup V)
    BY <1>5 DEF Clear
  <2>7. Uses(id, X \cup V, P, M \o e, H, C, PooledOf(m))
    <3>1. Clear(M \o e, id, X \cup V)
      BY <1>7, <2>5, <2>6
    <3>2. (X \cup V) \cap (PooledOf(m) \cup HostBuffers(H) \cup ImageBuffers(C)) = {}
      BY <2>2, <2>3
    <3>3. QED
      BY <2>4, <3>1, <3>2, Zenon DEF Uses
  <2>8. ASSUME NEW k \in DOMAIN O, O[k] \in X \cup V
        PROVE  k > 0 /\ k - 0 \in DOMAIN (M \o e) /\ (M \o e)[k - 0].command = id
    <3>1. O[k] \in ToSet(O)
      BY <2>8 DEF ToSet
    <3>2. O[k] \in V
      BY <1>8, <1>9, <2>8, <3>1
    <3>3. k - n \in DOMAIN e /\ k > n
      BY <1>17, <3>2
    <3>4. k \in DOMAIN (M \o e) /\ (M \o e)[k].command = id
      BY <1>18, <3>3
    <3>5. k - 0 = k /\ k > 0
      BY <1>4
    <3>6. QED
      BY <3>4, <3>5
  <2>9. OutputsUsed(id, X \cup V, O, 0, M \o e)
    BY <2>8, Zenon DEF OutputsUsed
  <2>10. QED
    BY <2>2, <2>7, <2>9
<1>20. ASSUME NEW c \in RunningOf(cs)
       PROVE  /\ Uses(c, UseOf(cs, c), P, M \o e, H, C, PooledOf(m)) /\ OutputsUsed(c, UseOf(cs, c), O, 0, M \o e)
              /\ UseOf(cs, c) \cap (X \cup V) = {}
  <2>1. PICK U : U = UseOf(cs, c)
    OBVIOUS
  <2>2. Uses(c, U, P, M, H, C, PooledOf(m)) /\ OutputsOf(h, c, U) /\ U \cap X = {}
    BY <1>1, <1>2, <1>8, <1>20, <2>1, Zenon DEF UsersApart
  <2>3. OutputsUsed(c, U, O, 0, M)
    <3>1. Len(h.got) = 0
      BY <1>3
    <3>2. QED
      BY <1>2, <2>2, <3>1, Zenon DEF OutputsOf
  <2>4. Clear(e, c, U)
    <3>1. Scratches(e) \cap U = {}
      BY <1>5, <2>2
    <3>2. QED
      BY <3>1 DEF Clear, Scratches, Own
  <2>5. Uses(c, U, P, M \o e, H, C, PooledOf(m))
    <3>1. Clear(M \o e, c, U)
      BY <1>7, <2>2, <2>4, Zenon DEF Uses
    <3>2. QED
      BY <2>2, <3>1, Zenon DEF Uses
  <2>6. \A k \in DOMAIN O : O[k] \in U => k \in DOMAIN M /\ M[k].command = c
    <3>1. \A k \in DOMAIN O : k \in Nat /\ k - 0 = k
      BY <1>4
    <3>2. QED
      BY <2>3, <3>1 DEF OutputsUsed
  <2>7. U \cap V = {}
    <3>1. SUFFICES ASSUME NEW v \in V, v \in U PROVE FALSE
      OBVIOUS
    <3>2. PICK k \in DOMAIN O : v = O[k]
      BY <1>17 DEF ToSet
    <3>3. k \in DOMAIN M /\ k > n
      BY <1>17, <2>6, <3>1, <3>2
    <3>4. QED
      BY <1>4, <3>3
  <2>8. OutputsUsed(c, U, O, 0, M \o e)
    <3>1. \A k \in DOMAIN M : k \in DOMAIN (M \o e) /\ (M \o e)[k] = M[k] /\ k - 0 = k /\ k > 0
      BY <1>4, <1>5
    <3>2. \A k \in DOMAIN O : k - 0 = k
      BY <1>4
    <3>3. QED
      BY <2>6, <3>1, <3>2 DEF OutputsUsed
  <2>9. QED
    BY <2>1, <2>2, <2>5, <2>7, <2>8
<1>21. UsersApart(m, bs, g, P, C)
  <2>1. \A c \in RunningOf(bs) : c \in RunningOf(cs) \/ c = id
    BY <1>14
  <2>2. \A c \in RunningOf(cs) : UseOf(bs, c) = UseOf(cs, c)
    BY <1>14
  <2>3. SUFFICES ASSUME NEW c \in RunningOf(bs)
                 PROVE  /\ UseOf(bs, c) \subseteq DOMAIN m.sizes
                        /\ \A d \in RunningOf(bs) : c # d => UseOf(bs, c) \cap UseOf(bs, d) = {}
                        /\ Uses(c, UseOf(bs, c), P, MineOf(g), g.images, C, PooledOf(m))
                        /\ OutputsOf(g, c, UseOf(bs, c))
    BY Zenon DEF UsersApart
  <2>4. Len(g.got) = 0
    BY <1>3
  <2>5. CASE c = id
    <3>1. UseOf(bs, c) = X \cup V
      BY <1>16, <2>5
    <3>2. \A d \in RunningOf(bs) : c # d => UseOf(bs, c) \cap UseOf(bs, d) = {}
      BY <1>20, <2>1, <2>2, <2>5, <3>1
    <3>3. Uses(c, UseOf(bs, c), P, MineOf(g), g.images, C, PooledOf(m))
      BY <1>2, <1>19, <2>5, <3>1, Zenon
    <3>4. OutputsOf(g, c, UseOf(bs, c))
      BY <1>2, <1>19, <2>4, <2>5, <3>1, Zenon DEF OutputsOf
    <3>5. QED
      BY <1>19, <3>1, <3>2, <3>3, <3>4, Zenon
  <2>6. CASE c \in RunningOf(cs)
    <3>1. UseOf(bs, c) = UseOf(cs, c)
      BY <2>2, <2>6
    <3>2. \A d \in RunningOf(bs) : c # d => UseOf(bs, c) \cap UseOf(bs, d) = {}
      <4>1. SUFFICES ASSUME NEW d \in RunningOf(bs), c # d PROVE UseOf(bs, c) \cap UseOf(bs, d) = {}
        OBVIOUS
      <4>2. CASE d = id
        BY <1>16, <1>20, <2>6, <3>1, <4>2
      <4>3. CASE d \in RunningOf(cs)
        BY <1>1, <2>2, <2>6, <3>1, <4>1, <4>3, Zenon DEF UsersApart
      <4>4. QED
        BY <2>1, <4>2, <4>3
    <3>3. Uses(c, UseOf(bs, c), P, MineOf(g), g.images, C, PooledOf(m))
      BY <1>2, <1>20, <2>6, <3>1, Zenon
    <3>4. OutputsOf(g, c, UseOf(bs, c))
      BY <1>2, <1>20, <2>4, <2>6, <3>1, Zenon DEF OutputsOf
    <3>5. UseOf(bs, c) \subseteq DOMAIN m.sizes
      BY <1>1, <2>6, <3>1, Zenon DEF UsersApart
    <3>6. QED
      BY <3>2, <3>3, <3>4, <3>5, Zenon
  <2>7. QED
    BY <2>1, <2>5, <2>6, Zenon
<1>22. KnownOf(bs, g, P)
  <2>1. \A subs : Known(cs, subs) => Known(bs, subs)
    BY <1>6 DEF Known
  <2>2. Known(bs, M) /\ \A k \in DOMAIN P : Known(bs, P[k].submissions)
    BY <1>1, <1>2, <2>1, Zenon DEF KnownOf
  <2>3. Known(bs, M \o e)
    <3>1. SUFFICES ASSUME NEW k \in DOMAIN (M \o e)
                   PROVE  (M \o e)[k].command \in DOMAIN bs /\ (M \o e)[k].image \in DOMAIN bs[(M \o e)[k].command].images
      BY Zenon DEF Known
    <3>2. CASE k \in DOMAIN M
      <4>1. (M \o e)[k] = M[k]
        BY <1>4, <1>5, <3>2
      <4>2. QED
        BY <2>2, <3>2, <4>1 DEF Known
    <3>3. CASE k \notin DOMAIN M
      <4>1. (M \o e)[k] = e[k - n] /\ k - n \in DOMAIN e
        BY <1>2, <1>4, <1>5, <3>1, <3>3
      <4>2. QED
        BY <1>5, <1>6, <4>1
    <3>4. QED
      BY <3>2, <3>3
  <2>4. QED
    BY <1>2, <2>2, <2>3, Zenon DEF KnownOf
<1>23. Typed(m, bs, g, P, C)
  BY <1>1, <1>6, Zenon DEF Typed
<1>24. QED
  BY <1>1, <1>11, <1>13, <1>21, <1>22, <1>23, Zenon DEF Safe

-----------------------------------------------------------------------------
(***************************************************************************)
(* Scratch of a command, and the group it is cut from.                     *)
(***************************************************************************)
-----------------------------------------------------------------------------
(***************************************************************************)
(* What a command takes and makes.                                         *)
(***************************************************************************)
\* Three more elements.
MoreBy(u, x, a, v) ==
  /\ \A i \in 1..a : v[i] = u[i]
  /\ v[a + 1] = x[1] /\ v[a + 2] = x[2] /\ v[a + 3] = x[3]

\* Three elements are appended in order.
LEMMA ThreeMore ==
  ASSUME NEW S, NEW u \in Seq(S), NEW x \in Seq(S), NEW a \in Nat, Len(u) = a, Len(x) = 3, NEW v, v = u \o x
  PROVE  MoreBy(u, x, a, v)
<1>1. /\ \A i \in 1..Len(u) : (u \o x)[i] = u[i]
      /\ \A i \in 1..Len(x) : (u \o x)[Len(u) + i] = x[i]
  BY ConcatAt
<1>2. 1 \in 1..Len(x) /\ 2 \in 1..Len(x) /\ 3 \in 1..Len(x)
  OBVIOUS
<1>3. QED
  BY <1>1, <1>2 DEF MoreBy

\* Sequences of three elements each, one after the other.
Thirds(q, u) ==
  /\ Len(u) = 3 * Len(q)
  /\ \A k \in 1..Len(q) : /\ u[3 * k - 2] = q[k][1] /\ u[3 * k - 1] = q[k][2] /\ u[3 * k] = q[k][3]

\* Element by element, triples that are concatenated.
LEMMA ThirdsOfFlatten ==
  ASSUME NEW S, NEW t \in Seq({q \in Seq(S) : Len(q) = 3})
  PROVE  FlattenSeq(t) \in Seq(S) /\ Thirds(t, FlattenSeq(t))
<1> DEFINE R == {q \in Seq(S) : Len(q) = 3}
           A == {q \in Seq(R) : FlattenSeq(q) \in Seq(S) /\ Thirds(q, FlattenSeq(q))}
<1>1. <<>> \in A
  <2>1. FlattenSeq(<<>>) = <<>>
    BY FlattenEmpty
  <2>2. <<>> \in Seq(R) /\ <<>> \in Seq(S) /\ Thirds(<<>>, <<>>)
    BY DEF Thirds
  <2>3. QED
    BY <2>1, <2>2
<1>2. ASSUME NEW q \in A \cap Seq(R), NEW x \in R PROVE Append(q, x) \in A
  <2>1. PICK u : u = FlattenSeq(q)
    OBVIOUS
  <2>2. q \in Seq(Seq(S)) /\ x \in Seq(S) /\ Len(x) = 3 /\ q \in Seq(R) /\ u \in Seq(S) /\ Thirds(q, u)
    <3>1. q \in Seq(R) /\ u \in Seq(S) /\ Thirds(q, u) /\ x \in Seq(S) /\ Len(x) = 3
      BY <1>2, <2>1
    <3>2. q \in Seq(Seq(S))
      BY <3>1
    <3>3. QED
      BY <3>1, <3>2
  <2>3. FlattenSeq(Append(q, x)) = u \o x
    BY <2>1, <2>2, FlattenAppend
  <2>4. Append(q, x) \in Seq(R) /\ u \o x \in Seq(S)
    BY <2>2
  <2>5. Thirds(Append(q, x), u \o x)
    <3>1. PICK n, w, v : n = Len(q) /\ w = Append(q, x) /\ v = u \o x
      OBVIOUS
    <3>2. n \in Nat /\ Len(u) = 3 * n /\ Len(w) = n + 1 /\ Len(v) = 3 * n + 3
      <4>1. Len(u) = 3 * n
        BY <2>2, <3>1 DEF Thirds
      <4>2. n \in Nat /\ Len(w) = n + 1 /\ Len(v) = Len(u) + 3 /\ Len(u) \in Nat
        <5>1. q \in Seq(Seq(S)) /\ x \in Seq(S) /\ Len(x) = 3 /\ u \in Seq(S)
          BY <2>2
        <5>2. Len(q) \in Nat /\ Len(Append(q, x)) = Len(q) + 1
          BY <5>1
        <5>3. Len(u \o x) = Len(u) + Len(x) /\ Len(u) \in Nat
          <6>1. u \in Seq(S) /\ x \in Seq(S)
            BY <5>1
          <6>2. QED
            BY <6>1
        <5>4. QED
          BY <3>1, <5>1, <5>2, <5>3
      <4>3. QED
        BY <4>1, <4>2
    <3>3. (\A k \in 1..n : w[k] = q[k]) /\ w[n + 1] = x
      BY <2>2, <3>1
    <3>4. /\ \A i \in 1..3 * n : v[i] = u[i]
          /\ v[3 * n + 1] = x[1] /\ v[3 * n + 2] = x[2] /\ v[3 * n + 3] = x[3]
      <4>1. u \in Seq(S) /\ x \in Seq(S) /\ Len(u) = 3 * n /\ Len(x) = 3 /\ v = u \o x
        BY <2>2, <3>1, <3>2
      <4>2. PICK a : a = 3 * n /\ a \in Nat
        BY <3>2
      <4>3. /\ \A i \in 1..a : v[i] = u[i]
            /\ v[a + 1] = x[1] /\ v[a + 2] = x[2] /\ v[a + 3] = x[3]
        <5>1. u \in Seq(S) /\ x \in Seq(S) /\ Len(u) = a /\ Len(x) = 3 /\ v = u \o x /\ a \in Nat
          BY <4>1, <4>2
        <5>2. MoreBy(u, x, a, v)
          BY <5>1, ThreeMore, Zenon
        <5>3. QED
          BY <5>2, Zenon DEF MoreBy
      <4>4. QED
        BY <4>2, <4>3
    <3>5. ASSUME NEW k \in 1..n + 1
          PROVE  v[3 * k - 2] = w[k][1] /\ v[3 * k - 1] = w[k][2] /\ v[3 * k] = w[k][3]
      <4>1. CASE k \in 1..n
        <5>1. u[3 * k - 2] = q[k][1] /\ u[3 * k - 1] = q[k][2] /\ u[3 * k] = q[k][3]
          BY <2>2, <3>1, <4>1 DEF Thirds
        <5>2. 3 * k - 2 \in 1..3 * n /\ 3 * k - 1 \in 1..3 * n /\ 3 * k \in 1..3 * n
          BY <3>2, <4>1
        <5>3. v[3 * k - 2] = u[3 * k - 2] /\ v[3 * k - 1] = u[3 * k - 1] /\ v[3 * k] = u[3 * k]
          BY <3>4, <5>2
        <5>4. QED
          BY <3>3, <4>1, <5>1, <5>3
      <4>2. CASE k = n + 1
        <5>1. 3 * k - 2 = 3 * n + 1 /\ 3 * k - 1 = 3 * n + 2 /\ 3 * k = 3 * n + 3
          BY <3>2, <4>2
        <5>2. QED
          BY <3>3, <3>4, <4>2, <5>1
      <4>3. QED
        BY <3>2, <4>1, <4>2
    <3>6. Len(v) = 3 * Len(w)
      BY <3>2
    <3>7. Thirds(w, v)
      BY <3>2, <3>5, <3>6 DEF Thirds
    <3>8. QED
      BY <3>1, <3>7
  <2>6. QED
    BY <2>3, <2>4, <2>5
<1> HIDE DEF A
<1>3. \A q \in A \cap Seq(R) : \A x \in R : Append(q, x) \in A
  BY <1>2
<1> HIDE DEF R
<1>4. Seq(R) \subseteq A
  BY <1>1, <1>3, SeqInduction, Zenon
<1>5. t \in A
  BY <1>4 DEF R
<1>6. QED
  BY <1>5 DEF A

\* The requests for the scratch of some plans.
Low     == [p \in Names |-> Plans[p].low]
Samples == [p \in Names |-> Plans[p].samples]

\* Plans encoded together ask for three buffers, of the sizes of their parts.
LEMMA ScratchSetType ==
  ASSUME MetalAssumption, NEW plans \in Seq(Names)
  PROVE  /\ ScratchSet(plans) \in Seq(Requested) /\ Len(ScratchSet(plans)) = 3
         /\ Weight(plans, Low) \in Nat /\ Weight(plans, Samples) \in Nat
         /\ ScratchSet(plans)[1] = BufferRequest("private", Weight(plans, Low))
         /\ ScratchSet(plans)[2] = BufferRequest("private", Weight(plans, Samples))
         /\ ScratchSet(plans)[3] = BufferRequest("shared", Len(plans))
<1>1. \A p \in Names : Low[p] \in Nat /\ Samples[p] \in Nat /\ Low[p] = Plans[p].low /\ Samples[p] = Plans[p].samples
  BY DEF Low, Samples, Names, MetalAssumption
<1>2. Weight(plans, Low) \in Nat /\ Weight(plans, Samples) \in Nat
  BY <1>1, WeightType
<1>3. \A k \in DOMAIN plans : Low[plans[k]] = Plans[plans[k]].low /\ Samples[plans[k]] = Plans[plans[k]].samples
  BY <1>1
<1>4. /\ [k \in DOMAIN plans |-> Plans[plans[k]].low] = Weights(plans, Low)
      /\ [k \in DOMAIN plans |-> Plans[plans[k]].samples] = Weights(plans, Samples)
  BY <1>3 DEF Weights
<1>5. PICK a, b, c : /\ a = BufferRequest("private", Weight(plans, Low)) /\ b = BufferRequest("private", Weight(plans, Samples))
                     /\ c = BufferRequest("shared", Len(plans))
  OBVIOUS
<1>6. ScratchSet(plans) = <<a, b, c>>
  BY <1>4, <1>5, Zenon DEF ScratchSet, Weight
<1>7. a \in Requested /\ b \in Requested /\ c \in Requested
  <2>1. Len(plans) \in Nat
    OBVIOUS
  <2>2. \A n \in Nat : \A kind \in {"private", "shared"} : BufferRequest(kind, n) \in Requested
    BY DEF BufferRequest, Requested
  <2>3. QED
    BY <1>2, <1>5, <2>1, <2>2
<1>8. QED
  BY <1>2, <1>5, <1>6, <1>7

\* A command takes three buffers for concatenated plans, three for each otherwise.
Alone(plans) == [k \in DOMAIN plans |-> ScratchSet(<<plans[k]>>)]

\* A command asks for the scratch of its images, in their order.
LEMMA ScratchOfType ==
  ASSUME MetalAssumption, NEW plans \in Seq(Names)
  PROVE  /\ ScratchOf(plans) \in Seq(Requested)
         /\ Concatenated(plans) => Len(ScratchOf(plans)) = 3
         /\ ~Concatenated(plans) => /\ Len(ScratchOf(plans)) = 3 * Len(plans)
                                    /\ Thirds(Alone(plans), ScratchOf(plans)) /\ Len(Alone(plans)) = Len(plans)
<1>1. CASE Concatenated(plans)
  <2>1. ScratchOf(plans) = ScratchSet(plans)
    BY <1>1 DEF ScratchOf
  <2>2. QED
    BY <1>1, <2>1, ScratchSetType
<1>2. CASE ~Concatenated(plans)
  <2>1. PICK t : t = Alone(plans)
    OBVIOUS
  <2>2. ScratchOf(plans) = FlattenSeq(t)
    BY <1>2, <2>1, Zenon DEF ScratchOf, Alone
  <2>3. \A k \in 1..Len(plans) : ScratchSet(<<plans[k]>>) \in {q \in Seq(Requested) : Len(q) = 3}
    <3>1. \A k \in 1..Len(plans) : <<plans[k]>> \in Seq(Names)
      OBVIOUS
    <3>2. QED
      BY <3>1, ScratchSetType
  <2>4. t \in Seq({q \in Seq(Requested) : Len(q) = 3}) /\ Len(t) = Len(plans)
    <3>1. PICK R : R = {q \in Seq(Requested) : Len(q) = 3}
      OBVIOUS
    <3>2. t = [k \in 1..Len(plans) |-> ScratchSet(<<plans[k]>>)] /\ Len(plans) \in Nat
      BY <2>1 DEF Alone
    <3>3. \A k \in 1..Len(plans) : ScratchSet(<<plans[k]>>) \in R
      BY <2>3, <3>1
    <3>4. t \in Seq(R) /\ Len(t) = Len(plans)
      BY <3>2, <3>3
    <3>5. QED
      BY <3>1, <3>4
  <2>5. FlattenSeq(t) \in Seq(Requested) /\ Thirds(t, FlattenSeq(t))
    BY <2>4, ThirdsOfFlatten
  <2>6. Len(FlattenSeq(t)) = 3 * Len(plans)
    BY <2>4, <2>5 DEF Thirds
  <2>7. QED
    BY <1>2, <2>1, <2>2, <2>4, <2>5, <2>6
<1>3. QED
  BY <1>1, <1>2

\* The submissions of a command own what was taken for it, each its own.
Submitted(plans, id, taken) == [k \in DOMAIN plans |-> Submission(id, k, Owned(plans, k, taken))]

\* The submissions of a command share out the buffers it took.
LEMMA SubmittedOwn ==
  ASSUME MetalAssumption, NEW plans \in Seq(Names), NEW id \in Nat, NEW taken \in Seq(Nat), IsInjective(taken),
         Len(taken) = Len(ScratchOf(plans))
  PROVE  /\ Submitted(plans, id, taken) \in Seq(Subs) /\ Len(Submitted(plans, id, taken)) = Len(plans)
         /\ Apart(Submitted(plans, id, taken)) /\ Scratches(Submitted(plans, id, taken)) \subseteq ToSet(taken)
         /\ \A k \in 1..Len(plans) : /\ Submitted(plans, id, taken)[k].command = id
                                     /\ Submitted(plans, id, taken)[k].image = k
<1>1. PICK e, n : e = Submitted(plans, id, taken) /\ n = Len(plans)
  OBVIOUS
<1>2. n \in Nat /\ DOMAIN plans = 1..n /\ DOMAIN taken = 1..Len(taken)
  BY <1>1
<1>3. e = [k \in 1..n |-> Submission(id, k, Owned(plans, k, taken))]
  BY <1>1, <1>2 DEF Submitted
<1>4. /\ \A i \in DOMAIN taken : taken[i] \in Nat /\ taken[i] \in ToSet(taken)
      /\ \A i, j \in DOMAIN taken : i # j => taken[i] # taken[j]
  BY DEF ToSet, IsInjective
<1>5. CASE Concatenated(plans)
  <2>1. Len(taken) = 3 /\ 1 \in DOMAIN taken /\ 2 \in DOMAIN taken /\ 3 \in DOMAIN taken
    <3>1. Len(taken) = 3
      BY <1>5, ScratchOfType
    <3>2. QED
      BY <1>2, <3>1
  <2>2. PICK a, b, c : a = taken[1] /\ b = taken[2] /\ c = taken[3]
    OBVIOUS
  <2>3. a \in Nat /\ b \in Nat /\ c \in Nat /\ a # b /\ {a, b, c} \subseteq ToSet(taken) /\ c # a /\ c # b
    BY <1>4, <2>1, <2>2
  <2>4. \A k \in 1..n : /\ k = 1 => e[k] = [command |-> id, image |-> k, private |-> <<a, b>>, shared |-> <<c>>]
                        /\ k # 1 => e[k] = [command |-> id, image |-> k, private |-> <<>>, shared |-> <<>>]
    BY <1>3, <1>5, <2>2 DEF Submission, Owned
  <2>5. ASSUME NEW k \in 1..n
        PROVE  /\ e[k] \in Subs /\ e[k].command = id /\ e[k].image = k
               /\ e[k].private = IF k = 1 THEN <<a, b>> ELSE <<>>
               /\ e[k].shared = IF k = 1 THEN <<c>> ELSE <<>>
    <3>1. PICK p, q : p = (IF k = 1 THEN <<a, b>> ELSE <<>>) /\ q = (IF k = 1 THEN <<c>> ELSE <<>>)
      OBVIOUS
    <3>2. p \in Seq(Nat) /\ q \in Seq(Nat) /\ k \in Nat
      BY <1>2, <2>3, <3>1
    <3>3. e[k] = [command |-> id, image |-> k, private |-> p, shared |-> q]
      BY <2>4, <3>1, Zenon
    <3>4. e[k].private = p /\ e[k].shared = q /\ e[k].command = id /\ e[k].image = k
      BY <3>3
    <3>5. e[k] \in Subs
      BY <3>2, <3>3 DEF Subs
    <3>6. QED
      BY <3>1, <3>4, <3>5, Zenon
  <2>6. e \in Seq(Subs) /\ Len(e) = n /\ DOMAIN e = 1..n
    <3>1. \A k \in 1..n : e[k] \in Subs
      BY <2>5
    <3>2. QED
      BY <1>2, <1>3, <3>1
  <2>7. ToSet(<<a, b>>) = {a, b} /\ ToSet(<<c>>) = {c} /\ ToSet(<<>>) = {} /\ IsInjective(<<a, b>>) /\ IsInjective(<<c>>)
        /\ IsInjective(<<>>)
    BY <2>3 DEF ToSet, IsInjective
  <2>8. \A k \in 1..n : /\ Own(e[k]) = IF k = 1 THEN {a, b, c} ELSE {}
                        /\ IsInjective(e[k].private) /\ IsInjective(e[k].shared)
                        /\ ToSet(e[k].private) \cap ToSet(e[k].shared) = {}
    <3>1. SUFFICES ASSUME NEW k \in 1..n
                   PROVE  /\ Own(e[k]) = IF k = 1 THEN {a, b, c} ELSE {}
                          /\ IsInjective(e[k].private) /\ IsInjective(e[k].shared)
                          /\ ToSet(e[k].private) \cap ToSet(e[k].shared) = {}
      OBVIOUS
    <3>2. CASE k = 1
      <4>1. e[k].private = <<a, b>> /\ e[k].shared = <<c>>
        BY <2>5, <3>2
      <4>2. QED
        BY <2>3, <2>7, <3>2, <4>1 DEF Own
    <3>3. CASE k # 1
      <4>1. e[k].private = <<>> /\ e[k].shared = <<>>
        BY <2>5, <3>3
      <4>2. QED
        BY <2>7, <3>3, <4>1 DEF Own
    <3>4. QED
      BY <3>2, <3>3
  <2>9. Apart(e)
    BY <2>6, <2>8 DEF Apart
  <2>10. Scratches(e) \subseteq ToSet(taken)
    <3>1. \A k \in DOMAIN e : Own(e[k]) \subseteq ToSet(taken)
      BY <2>3, <2>6, <2>8
    <3>2. QED
      BY <3>1 DEF Scratches, Own
  <2>11. \A k \in 1..n : e[k].command = id /\ e[k].image = k
    BY <2>5
  <2>12. QED
    BY <1>1, <2>6, <2>9, <2>10, <2>11
<1>6. CASE ~Concatenated(plans)
  <2>1. Len(taken) = 3 * n
    BY <1>1, <1>6, ScratchOfType
  <2>2. \A k \in 1..n : 3 * k - 2 \in DOMAIN taken /\ 3 * k - 1 \in DOMAIN taken /\ 3 * k \in DOMAIN taken
    BY <1>2, <2>1
  <2>3. \A k \in 1..n : e[k] = [command |-> id, image |-> k, private |-> <<taken[3 * k - 2], taken[3 * k - 1]>>,
                                shared |-> <<taken[3 * k]>>]
    BY <1>3, <1>6 DEF Submission, Owned
  <2>4. ASSUME NEW k \in 1..n
        PROVE  /\ e[k] \in Subs /\ e[k].command = id /\ e[k].image = k
               /\ Own(e[k]) = {taken[3 * k - 2], taken[3 * k - 1], taken[3 * k]} /\ Own(e[k]) \subseteq ToSet(taken)
               /\ IsInjective(e[k].private) /\ IsInjective(e[k].shared)
               /\ ToSet(e[k].private) \cap ToSet(e[k].shared) = {}
    <3>1. PICK a, b, c : a = taken[3 * k - 2] /\ b = taken[3 * k - 1] /\ c = taken[3 * k]
      OBVIOUS
    <3>2. 3 * k - 2 # 3 * k - 1 /\ 3 * k # 3 * k - 1 /\ 3 * k # 3 * k - 2
      BY <1>2
    <3>3. a \in Nat /\ b \in Nat /\ c \in Nat /\ a # b /\ {a, b, c} \subseteq ToSet(taken) /\ c # a /\ c # b
      BY <1>4, <2>2, <3>1, <3>2
    <3>4. e[k] = [command |-> id, image |-> k, private |-> <<a, b>>, shared |-> <<c>>]
      BY <2>3, <3>1
    <3>5. <<a, b>> \in Seq(Nat) /\ <<c>> \in Seq(Nat) /\ k \in Nat
      BY <3>3
    <3>6. e[k] \in Subs
      BY <3>4, <3>5 DEF Subs
    <3>7. ToSet(<<a, b>>) = {a, b} /\ ToSet(<<c>>) = {c} /\ IsInjective(<<a, b>>) /\ IsInjective(<<c>>)
      BY <3>3 DEF ToSet, IsInjective
    <3>8. e[k].private = <<a, b>> /\ e[k].shared = <<c>> /\ e[k].command = id /\ e[k].image = k
      BY <3>4
    <3>9. PICK p, q : p = e[k].private /\ q = e[k].shared
      OBVIOUS
    <3>10. ToSet(p) = {a, b} /\ ToSet(q) = {c} /\ IsInjective(p) /\ IsInjective(q) /\ Own(e[k]) = ToSet(p) \cup ToSet(q)
      BY <3>7, <3>8, <3>9 DEF Own
    <3>11. ToSet(p) \cap ToSet(q) = {} /\ Own(e[k]) = {a, b, c}
      BY <3>3, <3>10
    <3>12. QED
      BY <3>1, <3>3, <3>6, <3>8, <3>9, <3>10, <3>11
  <2>5. e \in Seq(Subs) /\ Len(e) = n /\ DOMAIN e = 1..n
    BY <1>2, <1>3, <2>4
  <2>6. \A j, k \in 1..n : j # k => Own(e[j]) \cap Own(e[k]) = {}
    <3>1. SUFFICES ASSUME NEW j \in 1..n, NEW k \in 1..n, j # k PROVE Own(e[j]) \cap Own(e[k]) = {}
      OBVIOUS
    <3>2. \A i \in {3 * j - 2, 3 * j - 1, 3 * j} : \A l \in {3 * k - 2, 3 * k - 1, 3 * k} : i # l
      BY <1>2, <3>1
    <3>3. {3 * j - 2, 3 * j - 1, 3 * j} \subseteq DOMAIN taken /\ {3 * k - 2, 3 * k - 1, 3 * k} \subseteq DOMAIN taken
      BY <2>2
    <3>4. \A i \in {3 * j - 2, 3 * j - 1, 3 * j} : \A l \in {3 * k - 2, 3 * k - 1, 3 * k} : taken[i] # taken[l]
      BY <1>4, <3>2, <3>3
    <3>5. /\ Own(e[j]) = {taken[3 * j - 2], taken[3 * j - 1], taken[3 * j]}
          /\ Own(e[k]) = {taken[3 * k - 2], taken[3 * k - 1], taken[3 * k]}
      BY <2>4
    <3>6. QED
      BY <3>4, <3>5
  <2>7. Apart(e)
    BY <2>4, <2>5, <2>6 DEF Apart
  <2>8. Scratches(e) \subseteq ToSet(taken)
    BY <2>4, <2>5 DEF Scratches, Own
  <2>9. \A k \in 1..n : e[k].command = id /\ e[k].image = k
    BY <2>4
  <2>10. QED
    BY <1>1, <2>5, <2>7, <2>8, <2>9
<1>7. QED
  BY <1>5, <1>6

\* The lengths of the parts.
Lens(t) == [k \in DOMAIN t |-> Len(t[k])]

\* The length of a concatenation is the sum of the lengths.
LEMMA FlattenLength ==
  ASSUME NEW S, NEW t \in Seq(Seq(S))
  PROVE  Lens(t) \in Seq(Nat) /\ Total(Lens(t)) = Len(FlattenSeq(t)) /\ Len(FlattenSeq(t)) \in Nat
<1> DEFINE R == Seq(S)
           A == {q \in Seq(R) : Lens(q) \in Seq(Nat) /\ Total(Lens(q)) = Len(FlattenSeq(q))}
<1>1. <<>> \in A
  <2>1. Lens(<<>>) = <<>>
    BY DEF Lens
  <2>2. Lens(<<>>) \in Seq(Nat) /\ <<>> \in Seq(R)
    <3>1. <<>> \in Seq(Nat) /\ <<>> \in Seq(Seq(S))
      OBVIOUS
    <3>2. QED
      BY <2>1, <3>1
  <2>3. Len(FlattenSeq(<<>>)) = 0
    BY FlattenEmpty
  <2>4. Total(Lens(<<>>)) = 0
    BY <2>1, TotalEmpty
  <2>5. QED
    BY <2>2, <2>3, <2>4
<1>2. ASSUME NEW q \in A \cap Seq(R), NEW x \in R PROVE Append(q, x) \in A
  <2>1. q \in Seq(Seq(S)) /\ x \in Seq(S) /\ Lens(q) \in Seq(Nat) /\ Total(Lens(q)) = Len(FlattenSeq(q)) /\ Append(q, x) \in Seq(R)
    BY <1>2
  <2>2. Len(x) \in Nat /\ FlattenSeq(q) \in Seq(S)
    BY <2>1, FlattenType
  <2>3. Len(FlattenSeq(q) \o x) = Len(FlattenSeq(q)) + Len(x)
    BY <2>1, <2>2
  <2>4. Len(FlattenSeq(Append(q, x))) = Len(FlattenSeq(q)) + Len(x)
    BY <2>1, <2>3, FlattenAppend
  <2>5. Lens(Append(q, x)) = Append(Lens(q), Len(x))
    <3>1. q \in Seq(Seq(S)) /\ x \in Seq(S)
      BY <2>1
    <3>2. QED
      BY <3>1 DEF Lens
  <2>6. Total(Append(Lens(q), Len(x))) = Total(Lens(q)) + Len(x) /\ Append(Lens(q), Len(x)) \in Seq(Nat)
    <3>1. PICK s : s = Lens(q)
      OBVIOUS
    <3>2. s \in Seq(Nat)
      BY <2>1, <3>1
    <3>3. Total(Append(s, Len(x))) = Total(s) + Len(x) /\ Append(s, Len(x)) \in Seq(Nat)
      BY <2>2, <3>2, TotalAppend
    <3>4. QED
      BY <3>1, <3>3
  <2>7. QED
    BY <2>1, <2>4, <2>5, <2>6
<1> HIDE DEF A
<1>3. \A q \in A \cap Seq(R) : \A x \in R : Append(q, x) \in A
  BY <1>2
<1> HIDE DEF R
<1>4. Seq(R) \subseteq A
  BY <1>1, <1>3, SeqInduction, Zenon
<1>5. t \in A
  BY <1>4 DEF R
<1>6. FlattenSeq(t) \in Seq(S)
  BY FlattenType
<1>7. QED
  BY <1>5, <1>6 DEF A

\* Where a part of a concatenation is.
Before(t, k) == Total([j \in 1..k - 1 |-> Len(t[j])])
SliceAt(b, p, f) ==
  b \in Nat /\ Len(p) \in Nat /\ b + Len(p) <= Len(f) /\ \A i \in 1..Len(p) : f[b + i] = p[i]

\* A sequence is found in the concatenation after all that comes before it.
LEMMA FlattenSlice ==
  ASSUME NEW S, NEW t \in Seq(Seq(S)), NEW k \in 1..Len(t)
  PROVE  SliceAt(Before(t, k), t[k], FlattenSeq(t))
<1> DEFINE p == SubSeq(t, 1, k - 1)
           v == SubSeq(t, k + 1, Len(t))
<1>1. Len(t) \in Nat /\ k \in Nat /\ k - 1 \in 0..Len(t) /\ k - 1 + 1 = k /\ t[k] \in Seq(S)
  OBVIOUS
<1>2. /\ p \in Seq(Seq(S)) /\ Len(p) = k - 1 /\ (\A i \in 1..k - 1 : p[i] = t[i])
      /\ t = p \o SubSeq(t, k - 1 + 1, Len(t))
  <2>1. PICK R : R = Seq(S)
    OBVIOUS
  <2>2. t \in Seq(R) /\ k - 1 \in 0..Len(t)
    BY <1>1, <2>1
  <2>3. PICK q, u : q = SubSeq(t, 1, k - 1) /\ u = SubSeq(t, k - 1 + 1, Len(t))
    OBVIOUS
  <2>4. q \in Seq(R) /\ Len(q) = k - 1 /\ (\A i \in 1..k - 1 : q[i] = t[i]) /\ t = q \o u
    BY <2>2, <2>3, Split
  <2>5. QED
    BY <2>1, <2>3, <2>4
<1>3. SubSeq(t, k, Len(t)) = <<t[k]>> \o v /\ v \in Seq(Seq(S)) /\ SubSeq(t, k, Len(t)) \in Seq(Seq(S))
  <2>1. PICK R : R = Seq(S)
    OBVIOUS
  <2>2. t \in Seq(R) /\ k \in 1..Len(t)
    BY <2>1
  <2>3. /\ SubSeq(t, k, Len(t)) = <<t[k]>> \o SubSeq(t, k + 1, Len(t))
        /\ SubSeq(t, k, Len(t)) \in Seq(R) /\ SubSeq(t, k + 1, Len(t)) \in Seq(R)
    BY <2>2, SplitHead, Zenon
  <2>4. QED
    BY <2>1, <2>3
<1> HIDE DEF p, v
<1>4. PICK x, u : x = t[k] /\ u = SubSeq(t, k, Len(t))
  OBVIOUS
<1>5. t = p \o u /\ u = <<x>> \o v /\ u \in Seq(Seq(S)) /\ x \in Seq(S) /\ <<x>> \in Seq(Seq(S))
  <2>1. t = p \o u
    <3>1. k - 1 + 1 = k
      BY <1>1
    <3>2. QED
      BY <1>2, <1>4, <3>1
  <2>2. u = <<x>> \o v /\ u \in Seq(Seq(S)) /\ x \in Seq(S)
    BY <1>1, <1>3, <1>4
  <2>3. <<x>> \in Seq(Seq(S))
    BY <2>2
  <2>4. QED
    BY <2>1, <2>2, <2>3
<1>6. FlattenSeq(t) = FlattenSeq(p) \o FlattenSeq(u)
  BY <1>2, <1>5, FlattenConcat
<1>7. FlattenSeq(u) = x \o FlattenSeq(v)
  <2>1. FlattenSeq(u) = FlattenSeq(<<x>>) \o FlattenSeq(v)
    BY <1>3, <1>5, FlattenConcat
  <2>2. QED
    BY <1>5, <2>1, FlattenSingle
<1>8. PICK a, c : a = FlattenSeq(p) /\ c = FlattenSeq(v)
  OBVIOUS
<1>9. a \in Seq(S) /\ c \in Seq(S) /\ FlattenSeq(t) = a \o (x \o c)
  BY <1>2, <1>3, <1>6, <1>7, <1>8, FlattenType
<1> DEFINE b == Before(t, k)
<1>10. b = Len(a)
  <2>1. Lens(p) = [j \in 1..k - 1 |-> Len(t[j])]
    <3>1. DOMAIN p = 1..k - 1
      BY <1>1, <1>2
    <3>2. QED
      BY <1>2, <3>1 DEF Lens
  <2>2. QED
    BY <1>2, <1>8, <2>1, FlattenLength DEF Before
<1> HIDE DEF b
<1>11. /\ Len(a \o (x \o c)) = Len(a) + (Len(x) + Len(c)) /\ Len(a) \in Nat /\ Len(x) \in Nat /\ Len(c) \in Nat
       /\ \A i \in 1..Len(x) : (a \o (x \o c))[Len(a) + i] = x[i]
  BY <1>5, <1>9
<1>12. PICK y : y = FlattenSeq(t)
  OBVIOUS
<1>13. b \in Nat /\ Len(x) \in Nat /\ b + Len(x) <= Len(y) /\ \A i \in 1..Len(x) : y[b + i] = x[i]
  <2>1. y = a \o (x \o c) /\ b = Len(a)
    BY <1>9, <1>10, <1>12
  <2>2. Len(y) = b + (Len(x) + Len(c)) /\ b \in Nat /\ Len(x) \in Nat /\ Len(c) \in Nat
    BY <1>11, <2>1
  <2>3. \A i \in 1..Len(x) : y[b + i] = x[i]
    BY <1>11, <2>1
  <2>4. b + Len(x) <= Len(y)
    BY <2>2
  <2>5. QED
    BY <2>2, <2>3, <2>4
<1>14. SliceAt(b, x, y)
  BY <1>13, Zenon DEF SliceAt
<1>15. QED
  BY <1>4, <1>12, <1>14 DEF b

\* The images of a command, and what they are made from.
LEMMA EncodedPictures ==
  ASSUME MetalAssumption, arenas \in [Addresses -> Nat], NEW plans \in Seq(Names), NEW taken \in Seq(Nat),
         Len(taken) = Len(ScratchOf(plans)), NEW outputs \in Seq(Nat), outputs = <<>> \/ Len(plans) <= Len(outputs),
         NEW found, found = Versions(LookedUp(plans, Len(plans))), NEW k \in 1..Len(plans)
  PROVE  /\ Encoded(plans, k, taken, found, outputs) \in Pictures
         /\ Encoded(plans, k, taken, found, outputs).output = IF outputs = <<>> THEN 0 ELSE outputs[k]
         /\ Encoded(plans, k, taken, found, outputs).status \in ToSet(taken)
         /\ Encoded(plans, k, taken, found, outputs).source = Encoded(plans, k, taken, found, outputs).truth
<1> DEFINE mine == Plans[plans[k]].arenas
           before == Total([j \in 1..k - 1 |-> Len(Plans[plans[j]].arenas)])
<1>1. PICK n : n = Len(plans)
  OBVIOUS
<1>2. n \in Nat /\ k \in 1..n /\ DOMAIN plans = 1..n /\ \A j \in 1..n : plans[j] \in Names /\ Plans[plans[j]].arenas \in Seq(Addresses)
  <2>1. \A p \in Names : Plans[p].arenas \in Seq(Addresses)
    BY DEF MetalAssumption, Names
  <2>2. n \in Nat /\ k \in 1..n /\ DOMAIN plans = 1..n /\ \A j \in 1..n : plans[j] \in Names
    BY <1>1
  <2>3. QED
    BY <2>1, <2>2
<1>3. mine \in Seq(Addresses) /\ Len(mine) \in Nat
  BY <1>2
<1>4. ASSUME NEW s \in Seq(Addresses)
      PROVE  Versions(s) \in Seq(Nat) /\ Len(Versions(s)) = Len(s) /\ \A i \in 1..Len(s) : Versions(s)[i] = arenas[s[i]]
  <2>1. Len(s) \in Nat /\ DOMAIN s = 1..Len(s) /\ \A i \in 1..Len(s) : s[i] \in Addresses
    BY <1>4
  <2>2. \A i \in 1..Len(s) : arenas[s[i]] \in Nat
    BY <2>1
  <2>3. Versions(s) = [i \in 1..Len(s) |-> arenas[s[i]]]
    BY <2>1 DEF Versions
  <2>4. QED
    BY <2>1, <2>2, <2>3
<1>5. Versions(mine) \in Seq(Nat)
  BY <1>3, <1>4
<1>6. PICK st, sl, so, ou :
        /\ st = IF Concatenated(plans) THEN taken[3] ELSE taken[3 * k]
        /\ sl = IF Concatenated(plans) THEN k ELSE 1
        /\ so = IF Concatenated(plans) THEN Versions(mine) ELSE SubSeq(found, before + 1, before + Len(mine))
        /\ ou = IF outputs = <<>> THEN 0 ELSE outputs[k]
  OBVIOUS
<1>7. Encoded(plans, k, taken, found, outputs) =
        [plan |-> plans[k], status |-> st, slot |-> sl, source |-> so, truth |-> Versions(mine), output |-> ou]
  BY <1>6, Zenon DEF Encoded
<1>8. st \in Nat /\ st \in ToSet(taken)
  <2>1. \A i \in 1..Len(taken) : taken[i] \in Nat /\ taken[i] \in ToSet(taken)
    BY DEF ToSet
  <2>2. CASE Concatenated(plans)
    <3>1. Len(taken) = 3
      BY <2>2, ScratchOfType
    <3>2. st = taken[3]
      BY <1>6, <2>2
    <3>3. QED
      BY <2>1, <3>1, <3>2
  <2>3. CASE ~Concatenated(plans)
    <3>1. Len(taken) = 3 * n
      BY <1>1, <2>3, ScratchOfType
    <3>2. st = taken[3 * k] /\ 3 * k \in 1..3 * n
      BY <1>2, <1>6, <2>3
    <3>3. QED
      BY <2>1, <3>1, <3>2
  <2>4. QED
    BY <2>2, <2>3
<1>9. sl \in Nat /\ ou \in Nat
  BY <1>1, <1>2, <1>6
<1>10. so = Versions(mine)
  <2>1. CASE Concatenated(plans)
    BY <1>6, <2>1
  <2>2. CASE ~Concatenated(plans)
    <3>1. PICK t : t = [j \in 1..n |-> Plans[plans[j]].arenas]
      OBVIOUS
    <3>2. t \in Seq(Seq(Addresses)) /\ Len(t) = n /\ \A j \in 1..n : t[j] = Plans[plans[j]].arenas
      <4>1. PICK R : R = Seq(Addresses)
        OBVIOUS
      <4>2. \A j \in 1..n : Plans[plans[j]].arenas \in R
        BY <1>2, <4>1
      <4>3. t \in Seq(R) /\ Len(t) = n /\ \A j \in 1..n : t[j] = Plans[plans[j]].arenas
        BY <1>2, <3>1, <4>2
      <4>4. QED
        BY <4>1, <4>3
    <3>3. PICK l : l = LookedUp(plans, n)
      OBVIOUS
    <3>4. l = FlattenSeq(t)
      BY <2>2, <3>1, <3>3 DEF LookedUp
    <3>5. before = Total([j \in 1..k - 1 |-> Len(t[j])])
      <4>1. \A j \in 1..k - 1 : t[j] = Plans[plans[j]].arenas
        BY <1>2, <3>2
      <4>2. [j \in 1..k - 1 |-> Len(t[j])] = [j \in 1..k - 1 |-> Len(Plans[plans[j]].arenas)]
        BY <4>1
      <4>3. QED
        BY <4>2
    <3>6. t[k] = mine
      BY <1>2, <3>2
    <3>7. PICK b, w : b = before /\ w = mine
      OBVIOUS
    <3> HIDE DEF before, mine
    <3>8. /\ b \in Nat /\ b + Len(w) <= Len(l) /\ \A i \in 1..Len(w) : l[b + i] = w[i]
      <4>1. b = Total([j \in 1..k - 1 |-> Len(t[j])])
        BY <3>5, <3>7, Zenon
      <4>2. k \in 1..Len(t) /\ t \in Seq(Seq(Addresses))
        BY <1>2, <3>2
      <4>3. SliceAt(b, t[k], FlattenSeq(t))
        BY <4>1, <4>2, FlattenSlice DEF Before
      <4>4. FlattenSeq(t) = l /\ t[k] = w
        BY <3>4, <3>6, <3>7
      <4>5. QED
        BY <4>3, <4>4 DEF SliceAt
    <3>9. l \in Seq(Addresses) /\ Len(l) \in Nat
      BY <3>2, <3>4, FlattenType
    <3>10. w \in Seq(Addresses) /\ Len(w) \in Nat
      BY <1>3, <3>7
    <3>11. /\ found \in Seq(Nat) /\ Len(found) = Len(l) /\ \A i \in 1..Len(l) : found[i] = arenas[l[i]]
      BY <1>1, <1>4, <3>3, <3>9
    <3>12. PICK y : y = Versions(w)
      OBVIOUS
    <3>13. y \in Seq(Nat) /\ Len(y) = Len(w) /\ \A i \in 1..Len(w) : y[i] = arenas[w[i]]
      BY <1>4, <3>10, <3>12
    <3>14. PICK c : c = Len(w)
      OBVIOUS
    <3>15. PICK z : z = SubSeq(found, b + 1, b + c)
      OBVIOUS
    <3>16. z \in Seq(Nat) /\ Len(z) = c /\ \A i \in 1..c : z[i] = found[b + i]
      <4>1. b \in Nat /\ c \in Nat /\ b + c <= Len(found) /\ found \in Seq(Nat)
        BY <3>8, <3>10, <3>11, <3>14
      <4>2. PICK f : f = found
        OBVIOUS
      <4>3. f \in Seq(Nat) /\ b + c <= Len(f) /\ z = SubSeq(f, b + 1, b + c) /\ Len(f) \in Nat
        BY <3>15, <4>1, <4>2
      <4>4. z \in Seq(Nat) /\ Len(z) = c /\ \A i \in 1..c : z[i] = f[b + i]
        <5>1. \A i \in b + 1..b + c : i \in 1..Len(f) /\ f[i] \in Nat
          <6>1. PICK a : a = Len(f)
            OBVIOUS
          <6>2. a \in Nat /\ b + c <= a /\ \A i \in 1..a : f[i] \in Nat
            BY <4>3, <6>1
          <6>3. \A i \in b + 1..b + c : i \in 1..a
            BY <4>1, <6>2
          <6>4. QED
            BY <6>1, <6>2, <6>3
        <5>2. Len(z) = b + c - (b + 1) + 1 /\ \A i \in 1..c : z[i] = f[i + (b + 1) - 1]
          BY <4>1, <4>3
        <5>3. b + c - (b + 1) + 1 = c /\ \A i \in 1..c : i + (b + 1) - 1 = b + i
          BY <4>1
        <5>4. z \in Seq(Nat)
          BY <4>1, <4>3, <5>1
        <5>5. QED
          BY <5>2, <5>3, <5>4
      <4>5. QED
        BY <4>2, <4>4
    <3>17. \A i \in 1..c : z[i] = y[i]
      <4>1. SUFFICES ASSUME NEW i \in 1..c PROVE z[i] = y[i]
        OBVIOUS
      <4>2. b + i \in 1..Len(l)
        <5>1. b \in Nat /\ c \in Nat /\ b + c <= Len(l) /\ Len(l) \in Nat
          BY <3>8, <3>9, <3>10, <3>14
        <5>2. QED
          BY <4>1, <5>1
      <4>3. z[i] = found[b + i] /\ found[b + i] = arenas[l[b + i]] /\ l[b + i] = w[i] /\ y[i] = arenas[w[i]]
        BY <3>8, <3>11, <3>13, <3>14, <3>16, <4>2
      <4>4. QED
        BY <4>3
    <3>18. z = y
      <4>1. z \in Seq(Nat) /\ y \in Seq(Nat) /\ Len(z) = Len(y) /\ \A i \in 1..Len(z) : z[i] = y[i]
        BY <3>13, <3>14, <3>16, <3>17
      <4>2. QED
        BY <4>1, SeqEqual
    <3>19. so = z
      BY <1>6, <2>2, <3>7, <3>14, <3>15
    <3>20. QED
      BY <3>7, <3>12, <3>18, <3>19
  <2>3. QED
    BY <2>1, <2>2
<1> HIDE DEF mine, before
<1>11. PICK tr : tr = Versions(mine)
  OBVIOUS
<1>12. tr \in Seq(Nat) /\ plans[k] \in Names
  BY <1>2, <1>5, <1>11
<1>13. PICK im : im = Encoded(plans, k, taken, found, outputs)
  OBVIOUS
<1>14. im = [plan |-> plans[k], status |-> st, slot |-> sl, source |-> tr, truth |-> tr, output |-> ou]
  BY <1>7, <1>10, <1>11, <1>13
<1>15. im \in Pictures
  BY <1>8, <1>9, <1>12, <1>14 DEF Pictures
<1>16. im.output = ou /\ im.status = st /\ im.source = im.truth
  BY <1>14
<1>17. QED
  BY <1>6, <1>8, <1>13, <1>15, <1>16

-----------------------------------------------------------------------------
(***************************************************************************)
(* The steps of a call.                                                    *)
(***************************************************************************)
-----------------------------------------------------------------------------
(***************************************************************************)
(* The actions.                                                            *)
(***************************************************************************)
Stays == Safe(memory', commands', host', pending', images')

\* The state of the session, by its parts.
LEMMA SafeParts ==
  ASSUME IInv
  PROVE  /\ Safe(memory, commands, host, pending, images)
         /\ memory \in Memories /\ commands \in Seq(Commands) /\ host \in Hosts /\ pending \in Seq(Handed)
         /\ images \in SUBSET Shared /\ Well(memory) /\ Shape(host)
         /\ OwnersOf(host, pending, images) /\ Free(memory, OwningOf(host, pending, images))
         /\ KnownOf(commands, host, pending)
         /\ host.step = "idle" => host = Idle
<1>1. Safe(memory, commands, host, pending, images)
  BY Zenon DEF IInv
<1>2. /\ Typed(memory, commands, host, pending, images) /\ Well(memory) /\ Shape(host)
      /\ OwnersOf(host, pending, images) /\ Free(memory, OwningOf(host, pending, images))
      /\ KnownOf(commands, host, pending)
  BY <1>1, Zenon DEF Safe
<1>3. host.step = "idle" => host = Idle
  BY <1>2, Zenon DEF Shape
<1>4. QED
  BY <1>1, <1>2, <1>3, Zenon DEF Typed

\* The fields of a call.
LEMMA HostFields ==
  ASSUME NEW h \in Hosts
  PROVE  /\ h.step \in {"idle", "group", "encode", "wait", "drop"} /\ h.request \in Calls
         /\ h.groups \in Seq(Seq(Seq(Names))) /\ h.todo \in Seq(Seq(Names)) /\ h.outputs \in Seq(Nat)
         /\ h.encoded \in Seq(Seq(Subs)) /\ h.submissions \in Seq(Subs) /\ h.got \in Seq(Pictures)
         /\ h.images \in Seq(Shared)
  BY DEF Hosts

\* A call made of such fields.
Call(st, rq, gr, td, ou, en, su, gt, im) ==
  [step |-> st, request |-> rq, groups |-> gr, todo |-> td, outputs |-> ou, encoded |-> en,
   submissions |-> su, got |-> gt, images |-> im]

\* A call with fields of their types is a state of the host.
LEMMA HostOf ==
  ASSUME NEW st \in {"idle", "group", "encode", "wait", "drop"}, NEW rq \in Calls,
         NEW gr \in Seq(Seq(Seq(Names))), NEW td \in Seq(Seq(Names)), NEW ou \in Seq(Nat),
         NEW en \in Seq(Seq(Subs)), NEW su \in Seq(Subs), NEW gt \in Seq(Pictures), NEW im \in Seq(Shared)
  PROVE  Call(st, rq, gr, td, ou, en, su, gt, im) \in Hosts
BY DEF Hosts, Call

\* A session that is idle.
LEMMA IdleFields ==
  /\ Idle = [step |-> "idle", request |-> [kind |-> "none", plans |-> <<>>], groups |-> <<>>,
             todo |-> <<>>, outputs |-> <<>>, encoded |-> <<>>, submissions |-> <<>>,
             got |-> <<>>, images |-> <<>>]
  /\ Idle.request \in Calls
  BY DEF Idle, Calls

\* A call begins.
LEMMA BeginCallStays ==
  ASSUME MetalAssumption, IInv, NEW r \in Requests, BeginRequest(r)
  PROVE  Stays
<1>1. /\ host.step = "idle" /\ host' = [Idle EXCEPT !.step = "group", !.request = r, !.groups = GroupsOf(r)]
      /\ memory' = memory /\ commands' = commands /\ pending' = pending /\ images' = images
  BY Zenon DEF BeginRequest
<1>2. /\ Safe(memory, commands, host, pending, images) /\ host = Idle
  BY <1>1, SafeParts
<1>3. r \in Calls /\ GroupsOf(r) \in Seq(Seq(Seq(Names)))
  <2>1. GroupsOf(r) \in Seq(Seq(Seq(Names)))
    BY GroupsOfRequest
  <2>2. QED
    BY <2>1 DEF MetalAssumption, Calls, Names
<1>4. PICK g, gr : g = host' /\ gr = GroupsOf(r)
  OBVIOUS
<1>5. g = [step |-> "group", request |-> r, groups |-> gr, todo |-> <<>>, outputs |-> <<>>, encoded |-> <<>>,
           submissions |-> <<>>, got |-> <<>>, images |-> <<>>]
  BY <1>1, <1>4 DEF Idle
<1>6. /\ g \in Hosts /\ g.step = "group" /\ g.outputs = <<>> /\ g.encoded = <<>> /\ g.submissions = <<>>
      /\ g.got = <<>> /\ g.images = <<>>
  BY <1>3, <1>4, <1>5 DEF Hosts
<1>7. Shape(g)
  BY <1>6 DEF Shape
<1>8. MineOf(g) = <<>> /\ MineOf(Idle) = <<>> /\ Idle.outputs = <<>> /\ Idle.images = <<>>
  BY <1>6, MineType, IdleHas
<1>9. Safe(memory, commands, g, pending, images)
  BY <1>2, <1>6, <1>7, <1>8, SafeHost
<1>10. QED
  BY <1>1, <1>4, <1>9 DEF Stays

\* The submissions of a group that is encoded join those of its call.
GroupEnded(h, g) ==
  /\ g.step = (IF h.request.kind = "shared" THEN "wait" ELSE "group") /\ g.request = h.request
  /\ g.groups = Tail(h.groups) /\ g.outputs = h.outputs /\ g.got = h.got /\ g.images = h.images
  /\ g.submissions = MineOf(h) /\ MineOf(g) = MineOf(h)

\* A group is encoded.
LEMMA EndGroupStays ==
  ASSUME MetalAssumption, IInv, EndGroup
  PROVE  Stays /\ GroupEnded(host, host')
<1>1. /\ host.step = "encode" /\ host.todo = <<>>
      /\ host' = [host EXCEPT !.step = IF host.request.kind = "shared" THEN "wait" ELSE "group",
                              !.groups = Tail(@),
                              !.submissions = @ \o FlattenSeq(host.encoded),
                              !.encoded = <<>>]
      /\ memory' = memory /\ commands' = commands /\ pending' = pending /\ images' = images
  BY Zenon DEF EndGroup
<1>2. Safe(memory, commands, host, pending, images) /\ host \in Hosts /\ Shape(host)
  BY SafeParts
<1>3. PICK g, st, tg, m : /\ g = host' /\ st = IF host.request.kind = "shared" THEN "wait" ELSE "group"
                         /\ tg = Tail(host.groups) /\ m = MineOf(host)
  OBVIOUS
<1>4. m \in Seq(Subs) /\ m = host.submissions \o FlattenSeq(host.encoded) /\ st \in {"wait", "group"}
  BY <1>2, <1>3, MineType DEF MineOf
<1>5. tg \in Seq(Seq(Seq(Names)))
  <2>1. PICK S, s : S = Seq(Seq(Names)) /\ s = host.groups
    OBVIOUS
  <2>2. s \in Seq(S) /\ s # <<>>
    BY <1>1, <1>2, <2>1 DEF Hosts, Shape
  <2>3. Tail(s) \in Seq(S)
    BY <2>2
  <2>4. QED
    BY <1>3, <2>1, <2>3
<1>6. g = [step |-> st, request |-> host.request, groups |-> tg, todo |-> host.todo, outputs |-> host.outputs,
           encoded |-> <<>>, submissions |-> m, got |-> host.got, images |-> host.images]
  BY <1>1, <1>2, <1>3, <1>4 DEF Hosts
<1>7. /\ g \in Hosts
      /\ g.step = st /\ g.request = host.request /\ g.groups = tg /\ g.todo = host.todo /\ g.outputs = host.outputs
      /\ g.encoded = <<>> /\ g.submissions = m /\ g.got = host.got /\ g.images = host.images
  <2>1. PICK rq, td, ou, gt, im, en : /\ rq = host.request /\ td = host.todo /\ ou = host.outputs
                                     /\ gt = host.got /\ im = host.images /\ en = <<>>
    OBVIOUS
  <2>2. /\ rq \in Calls /\ td \in Seq(Seq(Names)) /\ ou \in Seq(Nat) /\ gt \in Seq(Pictures)
        /\ im \in Seq(Shared) /\ en \in Seq(Seq(Subs))
    BY <1>2, <2>1, HostFields
  <2>3. st \in {"idle", "group", "encode", "wait", "drop"} /\ tg \in Seq(Seq(Seq(Names))) /\ m \in Seq(Subs)
    BY <1>4, <1>5
  <2>4. g = Call(st, rq, tg, td, ou, en, m, gt, im)
    BY <1>6, <2>1 DEF Call
  <2>5. g \in Hosts
    BY <2>2, <2>3, <2>4, HostOf, Zenon
  <2>6. QED
    BY <2>1, <2>4, <2>5 DEF Call
<1>8. MineOf(g) = m
  BY <1>7, MineType
<1>9. Shape(g)
  <2>1. FlattenSeq(<<>>) = <<>>
    BY FlattenEmpty
  <2>2. CASE host.request.kind = "shared"
    <3>1. Len(host.outputs) = Len(m) + Len(<<>>) /\ host.got = <<>>
      BY <1>1, <1>2, <1>3, <2>1, <2>2 DEF Shape
    <3>2. Len(g.got) + Len(MineOf(g)) = Len(g.outputs)
      BY <1>4, <1>7, <1>8, <3>1
    <3>3. QED
      BY <1>3, <1>7, <2>2, <3>2 DEF Shape
  <2>3. CASE host.request.kind # "shared"
    <3>1. host.outputs = <<>> /\ host.got = <<>>
      BY <1>1, <1>2, <2>3 DEF Shape
    <3>2. /\ g.step = "group" /\ g.encoded = <<>> /\ g.outputs = <<>> /\ g.got = <<>>
          /\ g.request.kind # "shared"
      BY <1>3, <1>7, <2>3, <3>1
    <3>3. QED
      BY <3>2 DEF Shape
  <2>4. QED
    BY <2>2, <2>3
<1>10. Safe(memory, commands, g, pending, images)
  <2>1. MineOf(g) = MineOf(host) /\ g.outputs = host.outputs /\ g.images = host.images
    BY <1>3, <1>7, <1>8
  <2>2. host.step \in {"encode", "wait"} /\ g.got = host.got
    BY <1>1, <1>7
  <2>3. QED
    BY <1>2, <1>7, <1>9, <2>1, <2>2, SafeHost
<1>11. GroupEnded(host, host')
  BY <1>3, <1>7, <1>8, Zenon DEF GroupEnded
<1>12. QED
  BY <1>1, <1>3, <1>10, <1>11 DEF Stays

\* The call returns its batch, or its images.
LEMMA EndCallStays ==
  ASSUME MetalAssumption, IInv, EndCall
  PROVE  Stays
<1>1. /\ host.step = "group" /\ host' = Idle /\ memory' = memory /\ commands' = commands
      /\ IF host.request.kind = "shared"
         THEN images' = images \cup ToSet(host.images) /\ pending' = pending
         ELSE /\ pending' = Append(pending, [request |-> host.request, submissions |-> host.submissions])
              /\ images' = images
  BY Zenon DEF EndCall
<1>2. Safe(memory, commands, host, pending, images) /\ host \in Hosts
  BY SafeParts
<1>3. CASE host.request.kind = "shared"
  <2>1. images' = images \cup ToSet(host.images) /\ pending' = pending
    BY <1>1, <1>3
  <2>2. Safe(memory, commands, Idle, pending, images')
    BY <1>2, <2>1, SafeShare
  <2>3. QED
    BY <1>1, <2>1, <2>2 DEF Stays
<1>4. CASE host.request.kind # "shared"
  <2>1. PICK b : b = [request |-> host.request, submissions |-> host.submissions]
    OBVIOUS
  <2>2. pending' = Append(pending, b) /\ images' = images
    BY <1>1, <1>4, <2>1
  <2>3. b \in Handed /\ b.submissions = host.submissions
    BY <1>2, <1>4, <2>1, HostFields DEF Handed
  <2>4. Safe(memory, commands, Idle, pending', images)
    BY <1>1, <1>2, <2>2, <2>3, SafeReturn
  <2>5. QED
    BY <1>1, <2>2, <2>4 DEF Stays
<1>5. QED
  BY <1>3, <1>4

\* A batch that was handed out has the type its request and submissions have.
LEMMA PendingFields ==
  ASSUME NEW P \in Seq(Handed), NEW k \in DOMAIN P
  PROVE  P[k].request \in Calls /\ P[k].request.kind # "shared" /\ P[k].submissions \in Seq(Subs)
<1>1. P[k] \in Handed
  BY ElementOfSeq
<1>2. QED
  BY <1>1 DEF Handed

\* A call that waits for submissions, or drops them.
LEMMA BeginsWith ==
  ASSUME NEW st \in {"wait", "drop"}, NEW rq \in Calls, rq.kind # "shared", NEW su \in Seq(Subs)
  PROVE  LET g == Call(st, rq, <<>>, <<>>, <<>>, <<>>, su, <<>>, <<>>)
         IN  /\ g \in Hosts /\ Shape(g) /\ g.submissions = su
             /\ g.encoded = <<>> /\ g.outputs = <<>> /\ g.images = <<>>
<1>1. PICK g : g = Call(st, rq, <<>>, <<>>, <<>>, <<>>, su, <<>>, <<>>)
  OBVIOUS
<1>2. g \in Hosts
  <2>1. /\ <<>> \in Seq(Seq(Seq(Names))) /\ <<>> \in Seq(Seq(Names)) /\ <<>> \in Seq(Nat) /\ <<>> \in Seq(Seq(Subs))
        /\ <<>> \in Seq(Pictures) /\ <<>> \in Seq(Shared)
    OBVIOUS
  <2>2. st \in {"idle", "group", "encode", "wait", "drop"}
    OBVIOUS
  <2>3. QED
    BY <1>1, <2>1, <2>2, HostOf, Zenon
<1>3. /\ g.step = st /\ g.request = rq /\ g.submissions = su /\ g.encoded = <<>> /\ g.outputs = <<>>
      /\ g.images = <<>> /\ g.got = <<>>
  BY <1>1 DEF Call
<1>4. Shape(g)
  BY <1>3 DEF Shape
<1>5. QED
  BY <1>1, <1>2, <1>3, <1>4

\* A batch is waited for.
LEMMA BeginWaitStays ==
  ASSUME MetalAssumption, IInv, NEW k \in DOMAIN pending, BeginWait(k)
  PROVE  Stays
<1>1. /\ host.step = "idle" /\ pending' = RemoveAt(pending, k)
      /\ host' = [Idle EXCEPT !.step = "wait", !.request = pending[k].request, !.submissions = pending[k].submissions]
      /\ memory' = memory /\ commands' = commands /\ images' = images
  BY Zenon DEF BeginWait
<1>2. /\ Safe(memory, commands, host, pending, images) /\ host = Idle /\ pending \in Seq(Handed)
  BY <1>1, SafeParts
<1>3. PICK rq, su : rq = pending[k].request /\ su = pending[k].submissions
  OBVIOUS
<1>4. rq \in Calls /\ rq.kind # "shared" /\ su \in Seq(Subs)
  BY <1>2, <1>3, PendingFields
<1>5. PICK g : g = host'
  OBVIOUS
<1>6. g = Call("wait", rq, <<>>, <<>>, <<>>, <<>>, su, <<>>, <<>>)
  BY <1>1, <1>3, <1>5 DEF Idle, Call
<1>7. g \in Hosts /\ Shape(g) /\ g.submissions = su /\ g.encoded = <<>> /\ g.outputs = <<>> /\ g.images = <<>>
  BY <1>4, <1>6, BeginsWith
<1>8. Safe(memory, commands, g, pending', images)
  BY <1>1, <1>2, <1>3, <1>7, SafeBegin
<1>9. QED
  BY <1>1, <1>5, <1>8 DEF Stays

\* A batch is dropped.
LEMMA BeginDropStays ==
  ASSUME MetalAssumption, IInv, NEW k \in DOMAIN pending, BeginDrop(k)
  PROVE  Stays
<1>1. /\ host.step = "idle" /\ pending' = RemoveAt(pending, k)
      /\ host' = [Idle EXCEPT !.step = "drop", !.submissions = pending[k].submissions]
      /\ memory' = memory /\ commands' = commands /\ images' = images
  BY Zenon DEF BeginDrop
<1>2. /\ Safe(memory, commands, host, pending, images) /\ host = Idle /\ pending \in Seq(Handed)
  BY <1>1, SafeParts
<1>3. PICK rq, su : rq = Idle.request /\ su = pending[k].submissions
  OBVIOUS
<1>4. rq \in Calls /\ rq.kind # "shared" /\ su \in Seq(Subs)
  <2>1. Idle.request.kind = "none"
    BY DEF Idle
  <2>2. QED
    BY <1>2, <1>3, <2>1, PendingFields, IdleFields
<1>5. PICK g : g = host'
  OBVIOUS
<1>6. g = Call("drop", rq, <<>>, <<>>, <<>>, <<>>, su, <<>>, <<>>)
  BY <1>1, <1>3, <1>5 DEF Idle, Call
<1>7. g \in Hosts /\ Shape(g) /\ g.submissions = su /\ g.encoded = <<>> /\ g.outputs = <<>> /\ g.images = <<>>
  BY <1>4, <1>6, BeginsWith
<1>8. Safe(memory, commands, g, pending', images)
  BY <1>1, <1>2, <1>3, <1>7, SafeBegin
<1>9. QED
  BY <1>1, <1>5, <1>8 DEF Stays

\* The outputs of a group become images.
Made(h) == [k \in DOMAIN h.got |-> SharedImage(h.got[k], h.outputs[k])]
ImagesMade(h, g) ==
  /\ Made(h) \in Seq(Shared) /\ Len(h.got) = Len(h.outputs)
  /\ g.step = "group" /\ g.request = h.request /\ MineOf(g) = <<>> /\ g.images = h.images \o Made(h)

\* A group has been waited for, or a batch.
LEMMA EndWaitStays ==
  ASSUME MetalAssumption, IInv, EndWait
  PROVE  Stays /\ (host.request.kind = "shared" => ImagesMade(host, host'))
<1> DEFINE K == [k \in DOMAIN host.got |-> SharedImage(host.got[k], host.outputs[k])]
<1>1. /\ host.step = "wait" /\ host.submissions = <<>>
      /\ IF host.request.kind = "shared"
         THEN host' = [host EXCEPT !.step = "group", !.outputs = <<>>, !.got = <<>>, !.images = @ \o K]
         ELSE host' = Idle
      /\ memory' = memory /\ commands' = commands /\ pending' = pending /\ images' = images
  BY Zenon DEF EndWait
<1>2. Safe(memory, commands, host, pending, images) /\ host \in Hosts /\ Shape(host)
  BY SafeParts
<1>3. CASE host.request.kind # "shared"
  <2>1. Safe(memory, commands, Idle, pending, images)
    BY <1>2, SafeIdle
  <2>2. QED
    BY <1>1, <1>3, <2>1 DEF Stays
<1>4. CASE host.request.kind = "shared"
  <2>1. host.encoded = <<>> /\ Len(host.got) = Len(host.outputs)
    <3>1. host.encoded = <<>>
      BY <1>1, <1>2 DEF Shape
    <3>2. MineOf(host) = <<>>
      BY <1>1, <1>2, <3>1, MineType
    <3>3. Len(host.got) + Len(MineOf(host)) = Len(host.outputs)
      BY <1>1, <1>2, <1>4 DEF Shape
    <3>4. Len(host.got) \in Nat
      BY <1>2, HostFields
    <3>5. QED
      BY <3>1, <3>2, <3>3, <3>4
  <2>2. K \in Seq(Shared)
    <3>1. PICK gt, ou : gt = host.got /\ ou = host.outputs
      OBVIOUS
    <3>2. gt \in Seq(Pictures) /\ ou \in Seq(Nat) /\ Len(gt) = Len(ou)
      BY <1>2, <2>1, <3>1, HostFields
    <3>3. \A k \in 1..Len(gt) : SharedImage(gt[k], ou[k]) \in Shared
      <4>1. SUFFICES ASSUME NEW k \in 1..Len(gt)
                     PROVE  SharedImage(gt[k], ou[k]) \in Shared
        OBVIOUS
      <4>2. gt[k] \in Pictures /\ ou[k] \in Nat
        BY <3>2
      <4>3. QED
        BY <4>2 DEF SharedImage, Pictures, Shared
    <3>4. [k \in 1..Len(gt) |-> SharedImage(gt[k], ou[k])] \in Seq(Shared)
      BY <3>2, <3>3
    <3>5. DOMAIN gt = 1..Len(gt)
      BY <3>2
    <3>6. QED
      BY <3>1, <3>4, <3>5
  <2> HIDE DEF K
  <2>3. PICK g, im, rq, gr, td, e, k : /\ g = host' /\ k = K /\ im = host.images \o k /\ rq = host.request
                                       /\ gr = host.groups /\ td = host.todo /\ e = <<>>
    OBVIOUS
  <2>4. /\ im \in Seq(Shared) /\ rq \in Calls /\ gr \in Seq(Seq(Seq(Names))) /\ td \in Seq(Seq(Names))
        /\ e \in Seq(Nat) /\ e \in Seq(Seq(Subs)) /\ e \in Seq(Subs) /\ e \in Seq(Pictures)
    <3>1. host.images \in Seq(Shared) /\ k \in Seq(Shared)
      BY <1>2, <2>2, <2>3, HostFields
    <3>2. im \in Seq(Shared)
      BY <2>3, <3>1
    <3>3. QED
      BY <1>2, <2>3, <3>2, HostFields
  <2>5. g = Call("group", rq, gr, td, e, e, e, e, im)
    <3>1. g = [host EXCEPT !.step = "group", !.outputs = <<>>, !.got = <<>>, !.images = @ \o k]
      BY <1>1, <1>4, <2>3
    <3>2. QED
      BY <1>1, <1>2, <2>1, <2>3, <3>1 DEF Hosts, Call
  <2>6. g \in Hosts /\ g.step = "group" /\ g.outputs = <<>> /\ g.encoded = <<>> /\ g.submissions = <<>> /\ g.got = <<>>
        /\ g.images = host.images \o K
    <3>1. g \in Hosts
      BY <2>4, <2>5, HostOf
    <3>2. QED
      BY <2>3, <2>5, <3>1 DEF Call
  <2>7. Shape(g) /\ MineOf(g) = <<>>
    BY <2>6, MineType DEF Shape
  <2>8. Safe(memory, commands, g, pending, images)
    <3>1. PICK kk : kk = K /\ kk = [j \in DOMAIN host.got |-> SharedImage(host.got[j], host.outputs[j])]
      BY DEF K
    <3>2. g.images = host.images \o kk /\ g.outputs = <<>> /\ g \in Hosts
      BY <2>6, <3>1
    <3>3. QED
      BY <1>1, <1>2, <1>4, <2>7, <3>1, <3>2, SafeGroup
  <2>9. ImagesMade(host, host')
    <3>1. K = Made(host)
      BY DEF K, Made
    <3>2. g.request = rq
      BY <2>5 DEF Call
    <3>3. QED
      BY <2>1, <2>2, <2>3, <2>6, <2>7, <3>1, <3>2, Zenon DEF ImagesMade
  <2>10. QED
    BY <1>1, <2>3, <2>8, <2>9 DEF Stays
<1>5. QED
  BY <1>3, <1>4

\* A call that failed, or a batch that was dropped, is done with.
LEMMA EndDropStays ==
  ASSUME MetalAssumption, IInv, EndDrop
  PROVE  Stays /\ memory'.sizes = memory.sizes
<1>1. PICK l : l = [memory EXCEPT !.released = @ \cup ToSet(host.outputs)]
  OBVIOUS
<1>2. /\ memory' = RecycleImages(l, host.images) /\ host' = Idle
      /\ commands' = commands /\ pending' = pending /\ images' = images
  BY <1>1, Zenon DEF EndDrop, ReleaseBuffers
<1>3. Safe(memory, commands, host, pending, images)
  BY SafeParts
<1>4. Safe(memory', commands, Idle, pending, images) /\ memory'.sizes = memory.sizes
  BY <1>1, <1>2, <1>3, SafeDropped
<1>5. QED
  BY <1>2, <1>4 DEF Stays

\* A caller drops an image.
LEMMA DropImageStays ==
  ASSUME MetalAssumption, IInv, NEW i \in images, DropImage(i)
  PROVE  Stays /\ memory'.sizes = memory.sizes
<1>1. /\ host.step = "idle" /\ memory' = Recycle(memory, "shared", i.buffer) /\ images' = images \ {i}
      /\ commands' = commands /\ pending' = pending /\ host' = host
  BY Zenon DEF DropImage
<1>2. Safe(memory, commands, host, pending, images) /\ host = Idle
  BY <1>1, SafeParts
<1>3. Safe(memory', commands, host, pending, images') /\ memory'.sizes = memory.sizes
  BY <1>1, <1>2, SafeDropImage
<1>4. QED
  BY <1>1, <1>3 DEF Stays

\* The first submission of a call that waits or drops: what it owns is in use, and
\* comes back to the pools or is let go of.
LEMMA FirstOf ==
  ASSUME MetalAssumption, IInv, host.step \in {"wait", "drop"}, host.submissions # <<>>
  PROVE  /\ First \in Subs /\ First.command \in DOMAIN commands /\ First.image \in DOMAIN commands[First.command].images
         /\ ImageOf(First) \in Pictures /\ Tail(host.submissions) \in Seq(Subs)
         /\ Len(Tail(host.submissions)) = Len(host.submissions) - 1
         /\ GivenBack(memory, ReleaseBuffers(Scratches(<<First>>)), Own(First))
         /\ GivenBack(memory, RecycleScratch(First), Own(First))
<1>1. /\ Safe(memory, commands, host, pending, images) /\ memory \in Memories /\ Well(memory) /\ host \in Hosts
      /\ commands \in Seq(Commands)
      /\ OwnersOf(host, pending, images) /\ Free(memory, OwningOf(host, pending, images))
      /\ KnownOf(commands, host, pending) /\ Shape(host)
  BY SafeParts
<1>2. PICK M, s, cs : M = host.submissions /\ s = Head(M) /\ cs = commands
  OBVIOUS
<1>3. M \in Seq(Subs) /\ M # <<>> /\ MineOf(host) = M
  <2>1. host.encoded = <<>>
    BY <1>1 DEF Shape
  <2>2. QED
    BY <1>1, <1>2, <2>1, MineType
<1>4. /\ s \in Subs /\ Tail(M) \in Seq(Subs) /\ s = M[1] /\ 1 \in DOMAIN M /\ Len(Tail(M)) = Len(M) - 1
      /\ Scratches(M) = Own(s) \cup Scratches(Tail(M))
  BY <1>2, <1>3, SubsTail
<1>5. s.command \in DOMAIN cs /\ s.image \in DOMAIN cs[s.command].images
  BY <1>1, <1>2, <1>3, <1>4 DEF KnownOf, Known
<1>6. cs[s.command].images[s.image] \in Pictures
  <2>1. cs[s.command] \in Commands
    BY <1>1, <1>2, <1>5, ElementOfSeq
  <2>2. cs[s.command].images \in Seq(Pictures)
    BY <2>1 DEF Commands
  <2>3. QED
    BY <1>5, <2>2, ElementOfSeq
<1>7. Apart(M) /\ Own(s) \subseteq OwningOf(host, pending, images)
  BY <1>1, <1>3, <1>4 DEF OwnersOf, Owners, OwningOf, Owning
<1>8. Free(memory, Own(s))
  BY <1>1, <1>7 DEF Free
<1>9. Scratches(<<s>>) = Own(s)
  BY DEF Scratches, Own
<1>10. GivenBack(memory, RecycleScratch(s), Own(s))
  <2>1. PICK n : n = RecycleAll(RecycleAll(memory, "private", s.private), "shared", s.shared)
    OBVIOUS
  <2>2. GivenBack(memory, n, Own(s))
    BY <1>1, <1>4, <1>7, <1>8, <2>1, ScratchGives
  <2>3. QED
    BY <2>1, <2>2 DEF RecycleScratch
<1>11. GivenBack(memory, ReleaseBuffers(Scratches(<<s>>)), Own(s))
  <2>1. PICK n, X : X = Own(s) /\ n = [memory EXCEPT !.released = @ \cup X]
    OBVIOUS
  <2>2. X \subseteq DOMAIN memory.sizes /\ X \cap PooledOf(memory) = {}
    BY <1>8, <2>1 DEF Free
  <2>3. GivenBack(memory, n, X)
    BY <1>1, <2>1, <2>2, ReleasedGives
  <2>4. QED
    BY <1>9, <2>1, <2>3 DEF ReleaseBuffers
<1>12. First = s /\ ImageOf(First) = cs[s.command].images[s.image]
  BY <1>2 DEF First, ImageOf
<1>13. QED
  BY <1>2, <1>4, <1>5, <1>6, <1>10, <1>11, <1>12

\* The call after its first submission was settled.
Settles(st, gt, g) ==
  /\ host.step \in {"wait", "drop"} /\ host.submissions # <<>> /\ Completed(First)
  /\ \/ st = "wait" /\ host.step = "wait" /\ gt = Append(host.got, ImageOf(First))
     \/ st = "drop" /\ gt = host.got
  /\ g = [host EXCEPT !.submissions = Tail(@), !.step = st, !.got = gt]

\* The first submission of a call is waited for or dropped.
LEMMA FirstSettled ==
  ASSUME MetalAssumption, IInv, NEW st, NEW gt, NEW g, Settles(st, gt, g), NEW n, GivenBack(memory, n, Own(First))
  PROVE  Safe(n, commands, g, pending, images)
<1>0. /\ host.step \in {"wait", "drop"} /\ host.submissions # <<>> /\ Completed(First)
      /\ \/ st = "wait" /\ host.step = "wait" /\ gt = Append(host.got, ImageOf(First))
         \/ st = "drop" /\ gt = host.got
      /\ g = [host EXCEPT !.submissions = Tail(@), !.step = st, !.got = gt]
  BY Zenon DEF Settles
<1>1. Safe(memory, commands, host, pending, images) /\ host \in Hosts /\ Shape(host) /\ commands \in Seq(Commands)
  BY SafeParts
<1>2. /\ First \in Subs /\ First.command \in DOMAIN commands
      /\ ImageOf(First) \in Pictures /\ Tail(host.submissions) \in Seq(Subs)
      /\ Len(Tail(host.submissions)) = Len(host.submissions) - 1
  BY <1>0, FirstOf
<1>3. First.command \notin RunningOf(commands)
  BY <1>0 DEF Completed, RunningOf
<1>4. PICK rq, gr, td, ou, en, im, su, pi, go : /\ rq = host.request /\ gr = host.groups /\ td = host.todo /\ ou = host.outputs
                                    /\ en = host.encoded /\ im = host.images /\ su = Tail(host.submissions)
                                    /\ pi = ImageOf(First) /\ go = host.got
  OBVIOUS
<1>5. /\ rq \in Calls /\ gr \in Seq(Seq(Seq(Names))) /\ td \in Seq(Seq(Names)) /\ ou \in Seq(Nat)
      /\ en \in Seq(Seq(Subs)) /\ im \in Seq(Shared) /\ su \in Seq(Subs) /\ go \in Seq(Pictures) /\ pi \in Pictures
  BY <1>1, <1>2, <1>4, HostFields
<1>7. gt \in Seq(Pictures) /\ (st = "wait" => Len(gt) = Len(go) + 1) /\ st \in {"wait", "drop"}
  <2>1. CASE st = "wait" /\ gt = Append(go, pi)
    BY <1>5, <2>1
  <2>2. CASE st = "drop" /\ gt = go
    BY <1>5, <2>2
  <2>3. QED
    BY <1>0, <1>4, <2>1, <2>2
<1>8. g = Call(st, rq, gr, td, ou, en, su, gt, im)
  BY <1>0, <1>1, <1>4 DEF Hosts, Call
<1>9. /\ g.step = st /\ g.request = rq /\ g.outputs = ou /\ g.encoded = en /\ g.submissions = su
      /\ g.got = gt /\ g.images = im
  BY <1>8 DEF Call
<1>10. g \in Hosts
  <2>1. st \in {"idle", "group", "encode", "wait", "drop"}
    BY <1>7
  <2>2. QED
    BY <1>5, <1>7, <1>8, <2>1, HostOf
<1>11. en = <<>> /\ MineOf(g) = su /\ MineOf(host) = host.submissions
  <2>1. en = <<>>
    BY <1>0, <1>1, <1>4 DEF Shape
  <2>2. QED
    BY <1>1, <1>4, <1>9, <1>10, <2>1, MineType
<1>13. Shape(g)
  <2>1. rq.kind # "shared" => ou = <<>>
    BY <1>1, <1>4 DEF Shape
  <2>2. st = "wait" /\ rq.kind = "shared" => Len(gt) + Len(su) = Len(ou)
    <3>1. SUFFICES ASSUME st = "wait", rq.kind = "shared"
                   PROVE  Len(gt) + Len(su) = Len(ou)
      OBVIOUS
    <3>2. Len(go) + Len(host.submissions) = Len(ou)
      BY <1>0, <1>1, <1>4, <1>11, <3>1 DEF Shape
    <3>3. Len(gt) = Len(go) + 1 /\ Len(su) = Len(host.submissions) - 1 /\ Len(go) \in Nat /\ Len(su) \in Nat
          /\ Len(host.submissions) \in Nat
      <4>1. host.submissions \in Seq(Subs)
        BY <1>1, HostFields
      <4>2. QED
        BY <1>2, <1>4, <1>5, <1>7, <3>1, <4>1
    <3>4. PICK a, b, c, x, y : /\ a = Len(go) /\ b = Len(host.submissions) /\ c = Len(ou)
                               /\ x = Len(gt) /\ y = Len(su)
      OBVIOUS
    <3>5. a \in Nat /\ b \in Nat /\ a + b = c /\ x = a + 1 /\ y = b - 1
      BY <3>2, <3>3, <3>4, Zenon
    <3>6. x + y = c
      BY <3>5
    <3>7. QED
      BY <3>4, <3>6, Zenon
  <2>3. QED
    BY <1>7, <1>9, <1>11, <2>1, <2>2 DEF Shape
<1>14. g.step = "drop" \/ (g.step = "wait" /\ host.step = "wait" /\ Len(g.got) = Len(host.got) + 1)
  BY <1>0, <1>4, <1>7, <1>9
<1>15. /\ g.submissions = Tail(host.submissions) /\ g.encoded = <<>> /\ g.outputs = host.outputs /\ g.images = host.images
       /\ First = Head(host.submissions)
  BY <1>4, <1>9, <1>11 DEF First
<1>16. QED
  BY <1>0, <1>1, <1>3, <1>10, <1>13, <1>14, <1>15, SafeSettle

\* A submission is waited for.
LEMMA WaitOneStays ==
  ASSUME MetalAssumption, IInv, WaitOne
  PROVE  Stays
<1> DEFINE lost == commands[First.command].state = "failed"
           bad  == contents[ImageOf(First).status][ImageOf(First).slot] # "ok"
<1>1. /\ host.step = "wait" /\ host.submissions # <<>> /\ Completed(First)
      /\ memory' = IF lost THEN ReleaseBuffers(Scratches(<<First>>)) ELSE RecycleScratch(First)
      /\ host' = [host EXCEPT !.submissions = Tail(@),
                              !.step = IF lost \/ bad THEN "drop" ELSE "wait",
                              !.got = IF lost \/ bad THEN @ ELSE Append(@, ImageOf(First))]
      /\ commands' = commands /\ pending' = pending /\ images' = images
  BY Zenon DEF WaitOne
<1> HIDE DEF lost, bad
<1>2. GivenBack(memory, memory', Own(First))
  BY <1>1, FirstOf
<1>3. host \in Hosts
  BY SafeParts
<1>4. CASE lost \/ bad
  <2>1. PICK g, gt : g = host' /\ gt = host.got
    OBVIOUS
  <2>2. g = [host EXCEPT !.submissions = Tail(@), !.step = "drop", !.got = gt]
    BY <1>1, <1>3, <1>4, <2>1 DEF Hosts
  <2>3. Settles("drop", gt, g)
    BY <1>1, <2>1, <2>2 DEF Settles
  <2>4. Safe(memory', commands, g, pending, images)
    BY <1>2, <2>3, FirstSettled
  <2>5. QED
    BY <1>1, <2>1, <2>4 DEF Stays
<1>5. CASE ~(lost \/ bad)
  <2>1. PICK g, gt : g = host' /\ gt = Append(host.got, ImageOf(First))
    OBVIOUS
  <2>2. g = [host EXCEPT !.submissions = Tail(@), !.step = "wait", !.got = gt]
    BY <1>1, <1>3, <1>5, <2>1 DEF Hosts
  <2>3. Settles("wait", gt, g)
    BY <1>1, <2>1, <2>2 DEF Settles
  <2>4. Safe(memory', commands, g, pending, images)
    BY <1>2, <2>3, FirstSettled
  <2>5. QED
    BY <1>1, <2>1, <2>4 DEF Stays
<1>6. QED
  BY <1>4, <1>5

\* A submission is dropped.
LEMMA DropOneStays ==
  ASSUME MetalAssumption, IInv, DropOne
  PROVE  Stays
<1>1. /\ host.step = "drop" /\ host.submissions # <<>> /\ Completed(First) /\ memory' = RecycleScratch(First)
      /\ host' = [host EXCEPT !.submissions = Tail(@)]
      /\ commands' = commands /\ pending' = pending /\ images' = images
  BY Zenon DEF DropOne
<1>2. GivenBack(memory, memory', Own(First))
  BY <1>1, FirstOf
<1>3. PICK g, gt : g = host' /\ gt = host.got
  OBVIOUS
<1>4. g = [host EXCEPT !.submissions = Tail(@), !.step = "drop", !.got = gt]
  <2>1. host \in Hosts
    BY SafeParts
  <2>2. QED
    BY <1>1, <1>3, <2>1 DEF Hosts
<1>5. Settles("drop", gt, g)
  BY <1>1, <1>3, <1>4 DEF Settles
<1>6. Safe(memory', commands, g, pending, images)
  BY <1>2, <1>5, FirstSettled
<1>7. QED
  BY <1>1, <1>3, <1>6 DEF Stays

\* A command is done, or has failed.
Ends(cs, id, bad, bs) ==
  \/ bs = [cs EXCEPT ![id].state = "done", ![id].bad = bad]
  \/ bs = [cs EXCEPT ![id].state = "failed"]

\* The same images and scratch, and no other command that runs.
Outlives(cs, bs) ==
  \A c \in DOMAIN cs : /\ bs[c].images = cs[c].images /\ bs[c].scratch = cs[c].scratch
                       /\ bs[c].state = "running" => cs[c].state = "running"

\* The commands once one of them is done or failed.
LEMMA Ended ==
  ASSUME NEW cs \in Seq(Commands), NEW id \in DOMAIN cs, NEW bad, bad \in SUBSET Nat,
         NEW bs, Ends(cs, id, bad, bs)
  PROVE  bs \in Seq(Commands) /\ DOMAIN bs = DOMAIN cs /\ Outlives(cs, bs)
<1>1. PICK n \in Nat : cs \in [1..n -> Commands]
  OBVIOUS
<1>2. id \in 1..n /\ cs[id] \in Commands /\ DOMAIN cs = 1..n
  BY <1>1
<1>3. DOMAIN bs = 1..n /\ bs = [c \in 1..n |-> bs[c]] /\ \A c \in 1..n : c # id => bs[c] = cs[c]
  BY <1>1, <1>2 DEF Ends
<1>4. /\ bs[id].images = cs[id].images /\ bs[id].scratch = cs[id].scratch /\ bs[id].state # "running"
      /\ bs[id] \in Commands
  <2>1. CASE bs = [cs EXCEPT ![id].state = "done", ![id].bad = bad]
    <3>1. bs[id] = [images |-> cs[id].images, scratch |-> cs[id].scratch, state |-> "done", bad |-> bad]
      BY <1>1, <1>2, <2>1 DEF Commands
    <3>2. QED
      BY <1>2, <3>1 DEF Commands
  <2>2. CASE bs = [cs EXCEPT ![id].state = "failed"]
    <3>1. bs[id] = [images |-> cs[id].images, scratch |-> cs[id].scratch, state |-> "failed", bad |-> cs[id].bad]
      BY <1>1, <1>2, <2>2 DEF Commands
    <3>2. QED
      BY <1>2, <3>1 DEF Commands
  <2>3. QED
    BY <2>1, <2>2 DEF Ends
<1>5. \A c \in 1..n : bs[c] \in Commands
  BY <1>1, <1>3, <1>4
<1>6. bs \in [1..n -> Commands]
  BY <1>3, <1>5
<1>7. bs \in Seq(Commands)
  BY <1>6
<1>8. QED
  BY <1>2, <1>3, <1>4, <1>7 DEF Outlives

\* The GPU finishes a command that was not committed: nothing changes.
LEMMA EndedNone ==
  ASSUME NEW cs \in Seq(Commands), NEW id, id \notin DOMAIN cs, NEW bad,
         NEW bs, Ends(cs, id, bad, bs)
  PROVE  bs = cs
<1>1. PICK n \in Nat : cs \in [1..n -> Commands]
  OBVIOUS
<1>2. id \notin 1..n
  BY <1>1
<1>3. DOMAIN bs = 1..n /\ bs = [c \in 1..n |-> bs[c]] /\ \A c \in 1..n : bs[c] = cs[c]
  BY <1>1, <1>2 DEF Ends
<1>4. QED
  BY <1>1, <1>3

\* The GPU finishes a command.
LEMMA RunStays ==
  ASSUME MetalAssumption, IInv, NEW q \in DOMAIN queues, Run(q)
  PROVE  Stays
<1>1. PICK id : id = Head(queues[q])
  OBVIOUS
<1>2. /\ \/ \E bad \in KernelFaults(id) : commands' = [commands EXCEPT ![id].state = "done", ![id].bad = bad]
         \/ commands' = [commands EXCEPT ![id].state = "failed"]
      /\ memory' = memory /\ host' = host /\ pending' = pending /\ images' = images
  BY <1>1, Zenon DEF Run
<1>3. /\ Safe(memory, commands, host, pending, images) /\ commands \in Seq(Commands)
  BY SafeParts
<1>4. PICK cs, bs : cs = commands /\ bs = commands'
  OBVIOUS
<1>5. \E bad : /\ bad = {} \/ \E k \in DOMAIN cs[id].images : bad = {k}
               /\ Ends(cs, id, bad, bs)
  <2>1. \A bad \in KernelFaults(id) : bad = {} \/ \E k \in DOMAIN cs[id].images : bad = {k}
    BY <1>4 DEF KernelFaults
  <2>2. QED
    BY <1>2, <1>4, <2>1, Zenon DEF Ends
<1>6. PICK bad : /\ bad = {} \/ \E k \in DOMAIN cs[id].images : bad = {k}
                 /\ Ends(cs, id, bad, bs)
  BY <1>5
<1>7. CASE id \notin DOMAIN cs
  <2>1. bs = cs
    BY <1>3, <1>4, <1>6, <1>7, EndedNone, Zenon
  <2>2. QED
    BY <1>2, <1>3, <1>4, <2>1 DEF Stays
<1>8. CASE id \in DOMAIN cs
  <2>1. bad \in SUBSET Nat
    <3>1. cs[id] \in Commands
      BY <1>3, <1>4, <1>8, ElementOfSeq
    <3>2. cs[id].images \in Seq(Pictures)
      BY <3>1 DEF Commands
    <3>3. DOMAIN cs[id].images \subseteq Nat
      BY <3>2
    <3>4. QED
      BY <1>6, <3>3
  <2>2. /\ bs \in Seq(Commands) /\ DOMAIN bs = DOMAIN cs
        /\ \A c \in DOMAIN cs : /\ bs[c].images = cs[c].images /\ bs[c].scratch = cs[c].scratch
                                /\ bs[c].state = "running" => cs[c].state = "running"
    <3>1. cs \in Seq(Commands) /\ id \in DOMAIN cs /\ bad \in SUBSET Nat /\ Ends(cs, id, bad, bs)
      BY <1>3, <1>4, <1>6, <1>8, <2>1, Zenon
    <3>2. bs \in Seq(Commands)
      BY <3>1, Ended, Zenon
    <3>3. DOMAIN bs = DOMAIN cs
      BY <3>1, Ended, Zenon
    <3>4. Outlives(cs, bs)
      BY <3>1, Ended, Zenon
    <3>5. QED
      BY <3>2, <3>3, <3>4, Zenon DEF Outlives
  <2>3. Safe(memory, bs, host, pending, images)
    BY <1>3, <1>4, <2>2, SafeRun
  <2>4. QED
    BY <1>2, <1>4, <2>3 DEF Stays
<1>9. QED
  BY <1>7, <1>8

\* A group begins: its outputs, if it has any, are taken from the shared pool.
LEMMA BeginGroupStays ==
  ASSUME MetalAssumption, IInv, BeginGroup
  PROVE  Stays
<1>1. PICK group, plans, rs : /\ group = Head(host.groups) /\ plans = FlattenSeq(group)
                              /\ rs = [k \in DOMAIN plans |-> BufferRequest("shared", Plans[plans[k]].output)]
  OBVIOUS
<1>2. PICK m : m = TakeAll(rs)
  OBVIOUS
<1>3. /\ host.step = "group" /\ host.groups # <<>>
      /\ commands' = commands /\ pending' = pending /\ images' = images
      /\ IF host.request.kind = "shared"
         THEN memory' = WithoutTaken(m) /\ host' = [host EXCEPT !.step = "encode", !.todo = group, !.outputs = m.taken]
         ELSE memory' = memory /\ host' = [host EXCEPT !.step = "encode", !.todo = group]
  BY <1>1, <1>2, Zenon DEF BeginGroup
<1>4. /\ Safe(memory, commands, host, pending, images) /\ memory \in Memories /\ Well(memory) /\ host \in Hosts /\ Shape(host)
  BY SafeParts
<1>5. group \in Seq(Seq(Names)) /\ plans \in Seq(Names)
  <2>1. PICK S, s : S = Seq(Seq(Names)) /\ s = host.groups
    OBVIOUS
  <2>2. s \in Seq(S) /\ s # <<>>
    BY <1>3, <1>4, <2>1, HostFields
  <2>3. Head(s) \in S
    BY <2>2
  <2>4. QED
    BY <1>1, <2>1, <2>3, FlattenType
<1>6. PICK rq, gr, go, im, su, en : /\ rq = host.request /\ gr = host.groups /\ go = host.got /\ im = host.images
                                    /\ su = host.submissions /\ en = host.encoded
  OBVIOUS
<1>7. /\ rq \in Calls /\ gr \in Seq(Seq(Seq(Names))) /\ go \in Seq(Pictures) /\ im \in Seq(Shared)
      /\ su \in Seq(Subs) /\ en \in Seq(Seq(Subs)) /\ host.outputs \in Seq(Nat)
  BY <1>4, <1>6, HostFields
<1>8. /\ en = <<>> /\ host.outputs = <<>> /\ go = <<>> /\ gr # <<>>
      /\ rq.kind = "shared" => su = <<>>
  BY <1>3, <1>4, <1>6 DEF Shape
<1>9. PICK g, ou : g = host' /\ ou = IF rq.kind = "shared" THEN m.taken ELSE <<>>
  OBVIOUS
<1>10. g = Call("encode", rq, gr, group, ou, en, su, go, im)
  <2>1. CASE rq.kind = "shared"
    BY <1>3, <1>4, <1>6, <1>9, <2>1 DEF Hosts, Call
  <2>2. CASE rq.kind # "shared"
    BY <1>3, <1>4, <1>6, <1>8, <1>9, <2>2 DEF Hosts, Call
  <2>3. QED
    BY <2>1, <2>2
<1>11. /\ g.step = "encode" /\ g.request = rq /\ g.groups = gr /\ g.todo = group /\ g.outputs = ou /\ g.encoded = en
       /\ g.submissions = su /\ g.got = go /\ g.images = im
  BY <1>10 DEF Call
<1>12. ou \in Seq(Nat) => g \in Hosts /\ MineOf(g) = su /\ MineOf(host) = su
  <2>1. SUFFICES ASSUME ou \in Seq(Nat)
                 PROVE  g \in Hosts /\ MineOf(g) = su /\ MineOf(host) = su
    OBVIOUS
  <2>2. g \in Hosts
    BY <1>5, <1>7, <1>10, <2>1, HostOf
  <2>3. QED
    BY <1>4, <1>6, <1>8, <1>11, <2>2, MineType
<1>13. CASE rq.kind # "shared"
  <2>1. ou = <<>> /\ g \in Hosts /\ MineOf(g) = su /\ MineOf(host) = su
    BY <1>9, <1>12, <1>13
  <2>2. Shape(g)
    BY <1>8, <1>11, <1>13, <2>1 DEF Shape
  <2>3. Safe(memory, commands, g, pending, images)
    BY <1>4, <1>6, <1>8, <1>11, <2>1, <2>2, SafeHost
  <2>4. QED
    BY <1>3, <1>6, <1>9, <1>13, <2>3 DEF Stays
<1>14. CASE rq.kind = "shared"
  <2>1. rs \in Seq(Requested) /\ Len(rs) = Len(plans) /\ Len(plans) \in Nat
    <3>1. \A k \in 1..Len(plans) : BufferRequest("shared", Plans[plans[k]].output) \in Requested
      <4>1. SUFFICES ASSUME NEW k \in 1..Len(plans)
                     PROVE  BufferRequest("shared", Plans[plans[k]].output) \in Requested
        OBVIOUS
      <4>2. plans[k] \in Names
        BY <1>5
      <4>3. Plans[plans[k]].output \in Nat
        BY <4>2 DEF MetalAssumption, Names
      <4>4. QED
        BY <4>3 DEF BufferRequest, Requested
    <3>2. DOMAIN plans = 1..Len(plans) /\ Len(plans) \in Nat
      BY <1>5
    <3>3. [k \in 1..Len(plans) |-> BufferRequest("shared", Plans[plans[k]].output)] \in Seq(Requested)
      BY <3>1, <3>2
    <3>4. QED
      BY <1>1, <3>2, <3>3
  <2>2. Taken(memory, m, Len(plans))
    <3>1. m = TakeFrom(memory, rs)
      BY <1>2 DEF TakeAll, TakeFrom
    <3>2. QED
      BY <1>4, <2>1, <3>1, TakeFromTakes DEF Took
  <2>3. PICK n : n = WithoutTaken(m)
    OBVIOUS
  <2>4. Safe(n, commands, host, pending, images) /\ Unused(n, commands, host, pending, images, ToSet(m.taken))
    BY <1>4, <2>1, <2>2, <2>3, SafeTook
  <2>5. ou = m.taken /\ m.taken \in Seq(Nat) /\ IsInjective(m.taken) /\ Len(ou) = Len(plans)
    <3>1. m.taken \in Seq(Nat)
      BY <1>4, <2>1, <2>2, TakenBuffers
    <3>2. QED
      BY <1>9, <1>14, <2>2, <3>1 DEF Taken
  <2>6. g \in Hosts /\ MineOf(g) = su /\ MineOf(host) = su
    BY <1>12, <2>5
  <2>7. Shape(g)
    <3>1. Len(ou) = Len(su) + Len(FlattenSeq(group))
      BY <1>1, <1>8, <1>14, <2>1, <2>5
    <3>2. QED
      BY <1>8, <1>11, <1>14, <2>6, <3>1 DEF Shape
  <2>8. Safe(n, commands, g, pending, images)
    BY <1>6, <1>8, <1>11, <2>4, <2>5, <2>6, <2>7, SafeOutputs
  <2>9. QED
    BY <1>3, <1>6, <1>9, <1>14, <2>3, <2>8 DEF Stays
<1>15. QED
  BY <1>13, <1>14

\* The upload cache after a step.
CacheStays ==
  /\ arenas' \in [Addresses -> Nat]
  /\ cache' \in [entries : Seq(Entries), bytes : Int] /\ Cached(cache.entries)'

\* The arenas of the first plans of a command.
LEMMA LookedUpType ==
  ASSUME MetalAssumption, NEW plans \in Seq(Names), NEW n \in 0..Len(plans)
  PROVE  LookedUp(plans, n) \in Seq(Addresses)
<1>1. \A k \in 1..n : Plans[plans[k]].arenas \in Seq(Addresses)
  <2>1. SUFFICES ASSUME NEW k \in 1..n
                 PROVE  Plans[plans[k]].arenas \in Seq(Addresses)
    OBVIOUS
  <2>2. plans[k] \in Names
    OBVIOUS
  <2>3. QED
    BY <2>2 DEF MetalAssumption, Names
<1>2. PICK S : S = Seq(Addresses)
  OBVIOUS
<1>3. [k \in 1..n |-> Plans[plans[k]].arenas] \in Seq(S)
  BY <1>1, <1>2
<1>4. FlattenSeq([k \in 1..n |-> Plans[plans[k]].arenas]) \in Seq(Addresses)
  BY <1>2, <1>3, FlattenType
<1>5. <<>> \in Seq(Addresses)
  OBVIOUS
<1>6. QED
  BY <1>4, <1>5 DEF LookedUp

\* Looking arenas up leaves the cache what it says it is.
LEMMA UploadStays ==
  ASSUME MetalAssumption, IInv, NEW s \in Seq(Addresses), NEW c, c = UploadAll(s),
         cache' = [entries |-> c.entries, bytes |-> c.bytes], arenas' = arenas
  PROVE  CacheStays /\ c.found = Versions(s)
<1>1. /\ arenas \in [Addresses -> Nat] /\ cache \in [entries : Seq(Entries), bytes : Int] /\ Cached(cache.entries)
  BY Zenon DEF IInv
<1>2. UploadAll(s) \in Lookups /\ UploadAll(s).found = Versions(s)
  BY <1>1, UploadAllFinds
<1>3. c.entries \in Seq(Entries) /\ c.bytes \in Int /\ Cached(c.entries)
  BY <1>2 DEF Lookups
<1>4. cache'.entries = c.entries
  OBVIOUS
<1>5. Cached(cache.entries)'
  BY <1>3, <1>4 DEF Cached
<1>6. QED
  BY <1>1, <1>2, <1>3, <1>5 DEF CacheStays

\* The command that is encoded next, and the outputs that are left for it.
LEMMA NextCommand ==
  ASSUME MetalAssumption, IInv, host.step = "encode", host.todo # <<>>,
         NEW plans, plans = Head(host.todo)
  PROVE  /\ plans \in Seq(Names) /\ Tail(host.todo) \in Seq(Seq(Names)) /\ Len(plans) \in Nat
         /\ Len(FlattenSeq(host.todo)) = Len(plans) + Len(FlattenSeq(Tail(host.todo)))
         /\ FlattenSeq(host.todo) = plans \o FlattenSeq(Tail(host.todo))
         /\ NextOutputs \in Seq(Nat)
         /\ NextOutputs = <<>> \/ Len(plans) <= Len(NextOutputs)
         /\ \A k \in 1..Len(plans) : NextOutputs # <<>> =>
              /\ Len(MineOf(host)) + k \in DOMAIN host.outputs
              /\ NextOutputs[k] = host.outputs[Len(MineOf(host)) + k]
<1>1. host \in Hosts /\ Shape(host)
  BY SafeParts
<1>2. PICK S, todo, t : S = Seq(Names) /\ todo = host.todo /\ t = Tail(todo)
  OBVIOUS
<1>3. todo \in Seq(S) /\ todo # <<>>
  BY <1>1, <1>2, HostFields
<1>4. plans \in S /\ t \in Seq(S) /\ todo = <<plans>> \o t
  <2>1. PICK q : q = todo /\ q \in Seq(S) /\ q # <<>>
    BY <1>3
  <2>2. Head(q) \in S /\ Tail(q) \in Seq(S) /\ Len(q) \in Nat \ {0}
    BY <2>1
  <2>3. q = <<Head(q)>> \o Tail(q)
    BY <2>1, <2>2
  <2>4. QED
    BY <1>2, <2>1, <2>2, <2>3
<1>5. FlattenSeq(todo) = plans \o FlattenSeq(t) /\ FlattenSeq(t) \in Seq(Names)
  <2>1. <<plans>> \in Seq(Seq(Names)) /\ t \in Seq(Seq(Names)) /\ plans \in Seq(Names)
    BY <1>2, <1>4
  <2>2. FlattenSeq(<<plans>> \o t) = FlattenSeq(<<plans>>) \o FlattenSeq(t)
    BY <2>1, FlattenConcat
  <2>3. FlattenSeq(<<plans>>) = plans
    BY <2>1, FlattenSingle
  <2>4. QED
    BY <1>4, <2>1, <2>2, <2>3, FlattenType
<1>6. plans \in Seq(Names) /\ Tail(host.todo) \in Seq(Seq(Names)) /\ Len(plans) \in Nat
      /\ Len(FlattenSeq(host.todo)) = Len(plans) + Len(FlattenSeq(Tail(host.todo)))
      /\ Len(FlattenSeq(Tail(host.todo))) \in Nat
      /\ FlattenSeq(host.todo) = plans \o FlattenSeq(Tail(host.todo))
  <2>1. plans \in Seq(Names) /\ Tail(host.todo) \in Seq(Seq(Names))
    BY <1>2, <1>4
  <2>2. PICK f : f = FlattenSeq(t) /\ f \in Seq(Names)
    BY <1>5
  <2>3. Len(plans \o f) = Len(plans) + Len(f) /\ Len(plans) \in Nat /\ Len(f) \in Nat
    BY <2>1, <2>2
  <2>4. QED
    BY <1>2, <1>5, <2>1, <2>2, <2>3
<1>7. CASE host.outputs = <<>>
  <2>1. NextOutputs = <<>>
    BY <1>7 DEF NextOutputs
  <2>2. <<>> \in Seq(Nat)
    OBVIOUS
  <2>3. QED
    BY <1>6, <2>1, <2>2
<1>8. CASE host.outputs # <<>>
  <2>1. host.request.kind = "shared"
    BY <1>1, <1>8 DEF Shape
  <2>2. host.submissions = <<>> /\ Len(host.outputs) = Len(MineOf(host)) + Len(FlattenSeq(host.todo))
    BY <1>1, <2>1 DEF Shape
  <2>3. MineOf(host) = FlattenSeq(host.encoded) /\ MineOf(host) \in Seq(Subs)
    BY <1>1, <2>2, MineType
  <2>4. PICK ou, n, l, r : ou = host.outputs /\ n = Len(MineOf(host)) /\ l = Len(plans) /\ r = Len(FlattenSeq(Tail(host.todo)))
    OBVIOUS
  <2>5. ou \in Seq(Nat) /\ n \in Nat /\ l \in Nat /\ r \in Nat /\ Len(ou) = n + (l + r)
    <3>1. ou \in Seq(Nat)
      BY <1>1, <2>4, HostFields
    <3>2. n \in Nat
      BY <2>3, <2>4
    <3>3. l \in Nat /\ r \in Nat
      BY <1>6, <2>4
    <3>4. Len(ou) = n + (l + r)
      BY <1>6, <2>2, <2>4, Zenon
    <3>5. QED
      BY <3>1, <3>2, <3>3, <3>4
  <2>6. NextOutputs = SubSeq(ou, n + 1, Len(ou))
    BY <1>8, <2>3, <2>4 DEF NextOutputs, Rest
  <2>7. n \in 0..Len(ou) /\ Len(ou) \in Nat
    BY <2>5
  <2>8. PICK v : v = SubSeq(ou, n + 1, Len(ou))
    OBVIOUS
  <2>9. v \in Seq(Nat) /\ Len(v) = Len(ou) - n /\ \A i \in 1..Len(ou) - n : v[i] = ou[n + i]
    BY <2>5, <2>7, <2>8, Split
  <2>10. Len(v) >= l
    BY <2>5, <2>9
  <2>11. ASSUME NEW k \in 1..l
         PROVE  n + k \in DOMAIN ou /\ v[k] = ou[n + k]
    <3>1. k \in 1..Len(ou) - n /\ n + k \in 1..Len(ou)
      BY <2>5
    <3>2. QED
      BY <2>5, <2>9, <3>1
  <2>12. QED
    BY <1>6, <2>4, <2>6, <2>8, <2>9, <2>10, <2>11
<1>9. QED
  BY <1>7, <1>8

\* The first of the buffers that a command needs are taken.
LEMMA TakesScratch ==
  ASSUME MetalAssumption, IInv, NEW plans \in Seq(Names), NEW n \in 0..Len(ScratchOf(plans)),
         NEW m, m = TakeAll(SubSeq(ScratchOf(plans), 1, n))
  PROVE  /\ Taken(memory, m, n) /\ m.taken \in Seq(Nat)
         /\ Safe(WithoutTaken(m), commands, host, pending, images)
         /\ Unused(WithoutTaken(m), commands, host, pending, images, ToSet(m.taken))
<1>1. PICK s, rs : s = ScratchOf(plans) /\ rs = SubSeq(s, 1, n)
  OBVIOUS
<1>2. s \in Seq(Requested) /\ n \in 0..Len(s)
  BY <1>1, ScratchOfType
<1>3. rs \in Seq(Requested) /\ Len(rs) = n /\ n \in Nat
  BY <1>1, <1>2, Split
<1>4. Safe(memory, commands, host, pending, images) /\ memory \in Memories /\ Well(memory)
  BY SafeParts
<1>5. m = TakeFrom(memory, rs)
  BY <1>1 DEF TakeAll, TakeFrom
<1>6. Taken(memory, m, n)
  BY <1>3, <1>4, <1>5, TakeFromTakes DEF Took
<1>7. m.taken \in Seq(Nat)
  BY <1>3, <1>4, <1>6, TakenBuffers
<1>8. PICK l : l = WithoutTaken(m)
  OBVIOUS
<1>9. Safe(l, commands, host, pending, images) /\ Unused(l, commands, host, pending, images, ToSet(m.taken))
  BY <1>3, <1>4, <1>6, <1>8, SafeTook
<1>10. QED
  BY <1>6, <1>7, <1>8, <1>9

\* A command cannot be encoded.
LEMMA FailEncodeStays ==
  ASSUME MetalAssumption, IInv, FailEncode
  PROVE  Stays /\ CacheStays
<1>1. PICK plans : plans = Head(host.todo)
  OBVIOUS
<1>2. /\ host.step = "encode" /\ host.todo # <<>>
      /\ \E n \in 0..Len(ScratchOf(plans)) : \E looked \in {k \in 0..Len(plans) : k = n \div 3 + 1 \/ 3 * k = n} :
           LET m == TakeAll(SubSeq(ScratchOf(plans), 1, n))
               c == UploadAll(LookedUp(plans, looked))
           IN  /\ memory' = [WithoutTaken(m) EXCEPT !.released = @ \cup ToSet(m.taken)
                               \cup ToSet(host.outputs) \cup Scratches(FlattenSeq(host.encoded))]
               /\ cache' = [entries |-> c.entries, bytes |-> c.bytes]
      /\ host' = [host EXCEPT !.step = "drop", !.todo = <<>>, !.encoded = <<>>, !.outputs = <<>>]
      /\ arenas' = arenas /\ commands' = commands /\ pending' = pending /\ images' = images
  BY <1>1, Zenon DEF FailEncode
<1>3. PICK n \in 0..Len(ScratchOf(plans)), looked \in 0..Len(plans) :
           LET m == TakeAll(SubSeq(ScratchOf(plans), 1, n))
               c == UploadAll(LookedUp(plans, looked))
           IN  /\ memory' = [WithoutTaken(m) EXCEPT !.released = @ \cup ToSet(m.taken)
                               \cup ToSet(host.outputs) \cup Scratches(FlattenSeq(host.encoded))]
               /\ cache' = [entries |-> c.entries, bytes |-> c.bytes]
  BY <1>2, Zenon
<1>4. PICK m, c : m = TakeAll(SubSeq(ScratchOf(plans), 1, n)) /\ c = UploadAll(LookedUp(plans, looked))
  OBVIOUS
<1>5. /\ memory' = [WithoutTaken(m) EXCEPT !.released = @ \cup ToSet(m.taken)
                       \cup ToSet(host.outputs) \cup Scratches(FlattenSeq(host.encoded))]
      /\ cache' = [entries |-> c.entries, bytes |-> c.bytes]
  BY <1>3, <1>4, Zenon
<1>6. plans \in Seq(Names)
  BY <1>1, <1>2, NextCommand
<1>7. CacheStays
  <2>1. LookedUp(plans, looked) \in Seq(Addresses)
    BY <1>6, LookedUpType
  <2>2. QED
    BY <1>2, <1>4, <1>5, <2>1, UploadStays
<1>8. PICK l, X : l = WithoutTaken(m) /\ X = ToSet(m.taken)
  OBVIOUS
<1>9. Safe(l, commands, host, pending, images) /\ Unused(l, commands, host, pending, images, X)
  BY <1>4, <1>6, <1>8, TakesScratch
<1>10. memory' = [l EXCEPT !.released = @ \cup (X \cup ToSet(host.outputs) \cup Scratches(FlattenSeq(host.encoded)))]
  <2>1. PICK Y, Z : Y = ToSet(host.outputs) /\ Z = Scratches(FlattenSeq(host.encoded))
    OBVIOUS
  <2>2. l.released \cup X \cup Y \cup Z = l.released \cup (X \cup Y \cup Z)
    OBVIOUS
  <2>3. memory' = [l EXCEPT !.released = l.released \cup X \cup Y \cup Z]
    BY <1>5, <1>8, <2>1
  <2>4. QED
    BY <2>1, <2>2, <2>3
<1>11. host \in Hosts /\ Shape(host)
  BY SafeParts
<1>12. PICK g, rq, gr, su, go, im : /\ g = host' /\ rq = host.request /\ gr = host.groups /\ su = host.submissions
                                    /\ go = host.got /\ im = host.images
  OBVIOUS
<1>13. /\ rq \in Calls /\ gr \in Seq(Seq(Seq(Names))) /\ su \in Seq(Subs) /\ go \in Seq(Pictures) /\ im \in Seq(Shared)
       /\ <<>> \in Seq(Seq(Names)) /\ <<>> \in Seq(Nat) /\ <<>> \in Seq(Seq(Subs))
  BY <1>11, <1>12, HostFields
<1>14. g = Call("drop", rq, gr, <<>>, <<>>, <<>>, su, go, im)
  BY <1>2, <1>11, <1>12 DEF Hosts, Call
<1>15. g \in Hosts
  BY <1>13, <1>14, HostOf
<1>16. /\ g.step = "drop" /\ g.outputs = <<>> /\ g.encoded = <<>> /\ g.images = host.images /\ g.submissions = su
  BY <1>12, <1>14 DEF Call
<1>17. Shape(g) /\ MineOf(g) = host.submissions
  <2>1. Shape(g)
    BY <1>16 DEF Shape
  <2>2. MineOf(g) = su
    BY <1>15, <1>16, MineType
  <2>3. QED
    BY <1>12, <2>1, <2>2
<1>18. Safe(memory', commands, g, pending, images)
  <2>1. PICK nn : nn = memory'
    OBVIOUS
  <2>2. Safe(nn, commands, g, pending, images)
    BY <1>9, <1>10, <1>15, <1>16, <1>17, <2>1, SafeFail
  <2>3. QED
    BY <2>1, <2>2
<1>19. Stays
  BY <1>2, <1>12, <1>18 DEF Stays
<1>20. QED
  BY <1>7, <1>19

\* A command that is committed: its images and submissions.
Committed(plans, m, found, made, x, e) ==
  /\ plans = Head(host.todo) /\ m = TakeAll(ScratchOf(plans))
  /\ found = Versions(LookedUp(plans, Len(plans)))
  /\ made = [k \in DOMAIN plans |-> Encoded(plans, k, m.taken, found, NextOutputs)]
  /\ x = [images |-> made, scratch |-> ToSet(m.taken), state |-> "running", bad |-> {}]
  /\ e = Submitted(plans, Len(commands) + 1, m.taken)

\* What a command that is committed takes, holds and writes is its own.
LEMMA CommandCommitted ==
  ASSUME MetalAssumption, IInv, host.step = "encode", host.todo # <<>>,
         NEW plans, NEW m, NEW found, NEW made, NEW x, NEW e, Committed(plans, m, found, made, x, e)
  PROVE  /\ Encodes(e, x, Len(commands) + 1, ToSet(m.taken), host.outputs, Len(MineOf(host)))
         /\ e \in Seq(Subs) /\ Len(e) = Len(plans) /\ x \in Commands
         /\ Safe(WithoutTaken(m), commands, host, pending, images)
         /\ Unused(WithoutTaken(m), commands, host, pending, images, ToSet(m.taken))
<1>0. /\ plans = Head(host.todo) /\ m = TakeAll(ScratchOf(plans))
      /\ found = Versions(LookedUp(plans, Len(plans)))
      /\ made = [k \in DOMAIN plans |-> Encoded(plans, k, m.taken, found, NextOutputs)]
      /\ x = [images |-> made, scratch |-> ToSet(m.taken), state |-> "running", bad |-> {}]
      /\ e = Submitted(plans, Len(commands) + 1, m.taken)
  BY Zenon DEF Committed
<1>1. /\ plans \in Seq(Names) /\ Len(plans) \in Nat
      /\ NextOutputs \in Seq(Nat) /\ (NextOutputs = <<>> \/ Len(plans) <= Len(NextOutputs))
  BY <1>0, NextCommand
<1>2. \A k \in 1..Len(plans) : NextOutputs # <<>> =>
              /\ Len(MineOf(host)) + k \in DOMAIN host.outputs
              /\ NextOutputs[k] = host.outputs[Len(MineOf(host)) + k]
  BY <1>0, NextCommand
<1>3. /\ Taken(memory, m, Len(ScratchOf(plans))) /\ m.taken \in Seq(Nat)
      /\ Safe(WithoutTaken(m), commands, host, pending, images)
      /\ Unused(WithoutTaken(m), commands, host, pending, images, ToSet(m.taken))
  <2>1. PICK s : s = ScratchOf(plans) /\ s \in Seq(Requested)
    BY <1>1, ScratchOfType
  <2>2. SubSeq(s, 1, Len(s)) = s /\ Len(s) \in 0..Len(s)
    BY <2>1
  <2>3. m = TakeAll(SubSeq(ScratchOf(plans), 1, Len(ScratchOf(plans)))) /\ Len(ScratchOf(plans)) \in 0..Len(ScratchOf(plans))
    BY <1>0, <2>1, <2>2
  <2>4. QED
    BY <1>1, <2>3, TakesScratch
<1>4. PICK taken, outputs, id : taken = m.taken /\ outputs = NextOutputs /\ id = Len(commands) + 1
  OBVIOUS
<1>5. taken \in Seq(Nat) /\ Len(taken) = Len(ScratchOf(plans)) /\ IsInjective(taken)
  BY <1>3, <1>4 DEF Taken
<1>6. outputs \in Seq(Nat) /\ (outputs = <<>> \/ Len(plans) <= Len(outputs))
  BY <1>1, <1>4
<1>7. id \in Nat
  <2>1. commands \in Seq(Commands)
    BY SafeParts
  <2>2. QED
    BY <1>4, <2>1
<1>8. /\ made = [k \in 1..Len(plans) |-> Encoded(plans, k, taken, found, outputs)]
       /\ DOMAIN plans = 1..Len(plans)
  BY <1>0, <1>1, <1>4
<1>9. /\ e \in Seq(Subs) /\ Len(e) = Len(plans) /\ Apart(e) /\ Scratches(e) \subseteq ToSet(taken)
      /\ \A k \in 1..Len(plans) : e[k].command = id /\ e[k].image = k
  <2>1. e = Submitted(plans, id, taken)
    BY <1>0, <1>4
  <2>2. QED
    <3>1. plans \in Seq(Names) /\ id \in Nat /\ taken \in Seq(Nat) /\ IsInjective(taken) /\ Len(taken) = Len(ScratchOf(plans))
      BY <1>1, <1>5, <1>7
    <3>2. PICK f : f = Submitted(plans, id, taken)
      OBVIOUS
    <3>3. f \in Seq(Subs) /\ Len(f) = Len(plans)
      BY <3>1, <3>2, SubmittedOwn, Zenon
    <3>4. Apart(f) /\ Scratches(f) \subseteq ToSet(taken)
      BY <3>1, <3>2, SubmittedOwn, Zenon
    <3>5. \A k \in 1..Len(plans) : f[k].command = id /\ f[k].image = k
      BY <1>8, <3>2 DEF Submitted, Submission
    <3>6. QED
      BY <2>1, <3>2, <3>3, <3>4, <3>5, Zenon
<1>10. \A k \in 1..Len(plans) :
        /\ Encoded(plans, k, taken, found, outputs) \in Pictures
        /\ Encoded(plans, k, taken, found, outputs).output = IF outputs = <<>> THEN 0 ELSE outputs[k]
  <2>1. arenas \in [Addresses -> Nat]
    BY Zenon DEF IInv
  <2>2. SUFFICES ASSUME NEW k \in 1..Len(plans)
                 PROVE  /\ Encoded(plans, k, taken, found, outputs) \in Pictures
                        /\ Encoded(plans, k, taken, found, outputs).output = IF outputs = <<>> THEN 0 ELSE outputs[k]
    OBVIOUS
  <2>3. found = Versions(LookedUp(plans, Len(plans)))
    BY <1>0
  <2>4. PICK i : i = Encoded(plans, k, taken, found, outputs)
    OBVIOUS
  <2>5. i \in Pictures /\ i.output = IF outputs = <<>> THEN 0 ELSE outputs[k]
    BY <1>1, <1>5, <1>6, <2>1, <2>3, <2>4, EncodedPictures
  <2>6. QED
    BY <2>4, <2>5, Zenon
<1>11. /\ made \in Seq(Pictures) /\ DOMAIN made = 1..Len(plans)
       /\ \A k \in 1..Len(plans) : made[k].output = IF outputs = <<>> THEN 0 ELSE outputs[k]
  BY <1>1, <1>10, <1>8
<1>12. ToSet(taken) \in SUBSET Nat
  BY <1>5 DEF ToSet
<1>13. x \in Commands /\ x.images = made /\ x.scratch = ToSet(taken)
  BY <1>0, <1>4, <1>11, <1>12 DEF Commands
<1>14. PICK n, O : n = Len(MineOf(host)) /\ O = host.outputs
  OBVIOUS
<1>15. \A k \in 1..Len(plans) : outputs # <<>> => n + k \in DOMAIN O /\ outputs[k] = O[n + k]
  BY <1>2, <1>4, <1>14
<1>16. DOMAIN e = 1..Len(plans)
  BY <1>1, <1>9
<1>17. Encodes(e, x, id, ToSet(taken), O, n)
  <2>1. \A k \in DOMAIN e : e[k].command = id /\ e[k].image \in DOMAIN x.images
    BY <1>9, <1>11, <1>13, <1>16
  <2>2. \A k \in DOMAIN x.images : x.images[k].output # 0 => /\ n + k \in DOMAIN O /\ x.images[k].output = O[n + k]
                                                            /\ k \in DOMAIN e
    <3>1. SUFFICES ASSUME NEW k \in 1..Len(plans), made[k].output # 0
                   PROVE  n + k \in DOMAIN O /\ made[k].output = O[n + k] /\ k \in DOMAIN e
      BY <1>11, <1>13
    <3>2. made[k].output = IF outputs = <<>> THEN 0 ELSE outputs[k]
      BY <1>11
    <3>3. outputs # <<>> /\ made[k].output = outputs[k]
      BY <3>1, <3>2
    <3>4. QED
      BY <1>15, <1>16, <3>3
  <2>3. QED
    BY <1>9, <1>13, <2>1, <2>2 DEF Encodes
<1>18. QED
  BY <1>3, <1>4, <1>9, <1>13, <1>14, <1>17

\* The call once a command of its group is committed.
Going(g, e) ==
  /\ g.step = "encode" /\ g.request = host.request /\ g.groups = host.groups /\ g.todo = Tail(host.todo)
  /\ g.outputs = host.outputs /\ g.submissions = host.submissions /\ g.got = host.got /\ g.images = host.images
  /\ MineOf(g) = MineOf(host) \o e
LEMMA CommitCall ==
  ASSUME MetalAssumption, IInv, host.step = "encode", host.todo # <<>>, NEW e \in Seq(Subs),
         NEW g, g = [host EXCEPT !.todo = Tail(@), !.encoded = Append(@, e)]
  PROVE  g \in Hosts /\ Going(g, e) /\ MineOf(host) \in Seq(Subs)
<1>1. Tail(host.todo) \in Seq(Seq(Names))
  BY NextCommand
<1>2. host \in Hosts /\ Shape(host)
  BY SafeParts
<1>3. PICK rq, gr, td, ou, en, su, go, im :
         /\ rq = host.request /\ gr = host.groups /\ td = Tail(host.todo) /\ ou = host.outputs
         /\ en = Append(host.encoded, e) /\ su = host.submissions /\ go = host.got /\ im = host.images
  OBVIOUS
<1>4. /\ rq \in Calls /\ gr \in Seq(Seq(Seq(Names))) /\ td \in Seq(Seq(Names)) /\ ou \in Seq(Nat)
       /\ su \in Seq(Subs) /\ go \in Seq(Pictures) /\ im \in Seq(Shared) /\ host.encoded \in Seq(Seq(Subs))
  BY <1>1, <1>2, <1>3, HostFields
<1>5. en \in Seq(Seq(Subs)) /\ FlattenSeq(en) = FlattenSeq(host.encoded) \o e /\ FlattenSeq(host.encoded) \in Seq(Subs)
  <2>1. PICK S, s : S = Seq(Subs) /\ s = host.encoded
    OBVIOUS
  <2>2. s \in Seq(S) /\ e \in S
    BY <1>4, <2>1
  <2>3. Append(s, e) \in Seq(S)
    BY <2>2
  <2>4. FlattenSeq(Append(s, e)) = FlattenSeq(s) \o e
    BY <1>4, <2>1, FlattenAppend
  <2>5. QED
    BY <1>3, <1>4, <2>1, <2>3, <2>4, FlattenType
<1>6. g = Call("encode", rq, gr, td, ou, en, su, go, im)
  BY <1>2, <1>3 DEF Hosts, Call
<1>7. g \in Hosts
  BY <1>4, <1>5, <1>6, HostOf
<1>8. /\ g.step = "encode" /\ g.request = rq /\ g.groups = gr /\ g.todo = td /\ g.outputs = ou /\ g.encoded = en
       /\ g.submissions = su /\ g.got = go /\ g.images = im
  <2>1. PICK q : q = Call("encode", rq, gr, td, ou, en, su, go, im)
    OBVIOUS
  <2>2. /\ q.step = "encode" /\ q.request = rq /\ q.groups = gr /\ q.todo = td /\ q.outputs = ou /\ q.encoded = en
        /\ q.submissions = su /\ q.got = go /\ q.images = im
    BY <2>1, Zenon DEF Call
  <2>3. QED
    BY <1>6, <2>1, <2>2, Zenon
<1>9. MineOf(g) = MineOf(host) \o e /\ MineOf(host) \in Seq(Subs)
  <2>1. PICK f : f = FlattenSeq(host.encoded) /\ f \in Seq(Subs)
    BY <1>5
  <2>2. su \o (f \o e) = (su \o f) \o e /\ su \o f \in Seq(Subs)
    <3>1. PICK S : S = Subs
      OBVIOUS
    <3>2. su \in Seq(S) /\ f \in Seq(S) /\ e \in Seq(S)
      BY <1>4, <2>1, <3>1
    <3>3. su \o f \in Seq(S)
      BY <3>2
    <3>4. su \o (f \o e) = (su \o f) \o e
      BY <3>2, ConcatAssociative
    <3>5. QED
      BY <3>1, <3>3, <3>4
  <2>3. QED
    BY <1>3, <1>5, <1>8, <2>1, <2>2 DEF MineOf
<1>10. QED
  BY <1>3, <1>7, <1>8, <1>9, Zenon DEF Going

\* A command is encoded and committed.
LEMMA CommitStays ==
  ASSUME MetalAssumption, IInv, Commit
  PROVE  Stays /\ CacheStays
<1>1. PICK plans : plans = Head(host.todo)
  OBVIOUS
<1>2. PICK m, c : m = TakeAll(ScratchOf(plans)) /\ c = UploadAll(LookedUp(plans, Len(plans)))
  OBVIOUS
<1>3. PICK made, x, e, X :
        /\ made = [k \in DOMAIN plans |-> Encoded(plans, k, m.taken, c.found, NextOutputs)]
        /\ x = [images |-> made, scratch |-> ToSet(m.taken), state |-> "running", bad |-> {}]
        /\ e = [k \in DOMAIN plans |-> Submission(Len(commands) + 1, k, Owned(plans, k, m.taken))]
        /\ X = ToSet(m.taken)
  OBVIOUS
<1>4. /\ host.step = "encode" /\ host.todo # <<>> /\ memory' = WithoutTaken(m)
      /\ cache' = [entries |-> c.entries, bytes |-> c.bytes]
      /\ commands' = Append(commands, x)
      /\ host' = [host EXCEPT !.todo = Tail(@), !.encoded = Append(@, e)]
      /\ arenas' = arenas /\ pending' = pending /\ images' = images
  BY <1>1, <1>2, <1>3, Zenon DEF Commit
<1>5. /\ plans \in Seq(Names) /\ Tail(host.todo) \in Seq(Seq(Names)) /\ Len(plans) \in Nat
      /\ Len(FlattenSeq(host.todo)) = Len(plans) + Len(FlattenSeq(Tail(host.todo)))
  BY <1>1, <1>4, NextCommand
<1>6. CacheStays /\ c.found = Versions(LookedUp(plans, Len(plans)))
  <2>1. LookedUp(plans, Len(plans)) \in Seq(Addresses)
    BY <1>5, LookedUpType
  <2>2. QED
    BY <1>2, <1>4, <2>1, UploadStays
<1>7. e = Submitted(plans, Len(commands) + 1, m.taken)
  BY <1>3 DEF Submitted
<1>8. /\ Encodes(e, x, Len(commands) + 1, X, host.outputs, Len(MineOf(host)))
      /\ e \in Seq(Subs) /\ Len(e) = Len(plans) /\ x \in Commands
      /\ Safe(memory', commands, host, pending, images) /\ Unused(memory', commands, host, pending, images, X)
  <2>1. Committed(plans, m, c.found, made, x, e)
    BY <1>1, <1>2, <1>3, <1>6, <1>7, Zenon DEF Committed
  <2>2. /\ Encodes(e, x, Len(commands) + 1, ToSet(m.taken), host.outputs, Len(MineOf(host)))
        /\ e \in Seq(Subs) /\ Len(e) = Len(plans) /\ x \in Commands
        /\ Safe(WithoutTaken(m), commands, host, pending, images)
        /\ Unused(WithoutTaken(m), commands, host, pending, images, ToSet(m.taken))
    BY <1>4, <2>1, CommandCommitted
  <2>3. QED
    BY <1>3, <1>4, <2>2, Zenon
<1>9. host \in Hosts /\ Shape(host)
  BY SafeParts
<1>10. PICK g, rq, gr, td, ou, go : /\ g = host' /\ rq = host.request /\ gr = host.groups /\ td = Tail(host.todo)
                                    /\ ou = host.outputs /\ go = host.got
  OBVIOUS
<1>11. td \in Seq(Seq(Names))
  BY <1>5, <1>10
<1>12. g \in Hosts /\ Going(g, e) /\ MineOf(host) \in Seq(Subs)
  BY <1>4, <1>8, <1>10, CommitCall, Zenon
<1>15. /\ g.step = "encode" /\ g.request = rq /\ g.groups = gr /\ g.todo = td /\ g.outputs = ou
       /\ g.submissions = host.submissions /\ g.got = go /\ g.images = host.images
  BY <1>10, <1>12 DEF Going
<1>16. MineOf(g) = MineOf(host) \o e /\ MineOf(host) \in Seq(Subs)
  BY <1>12 DEF Going
<1>17. Shape(g)
  <2>1. gr # <<>> /\ go = <<>> /\ (rq.kind # "shared" => ou = <<>>) /\ (rq.kind = "shared" => host.submissions = <<>>)
    BY <1>4, <1>9, <1>10 DEF Shape
  <2>2. rq.kind = "shared" => Len(ou) = Len(MineOf(g)) + Len(FlattenSeq(td))
    <3>1. SUFFICES ASSUME rq.kind = "shared"
                   PROVE  Len(ou) = Len(MineOf(g)) + Len(FlattenSeq(td))
      OBVIOUS
    <3>2. Len(ou) = Len(MineOf(host)) + Len(FlattenSeq(host.todo))
      BY <1>4, <1>9, <1>10, <3>1 DEF Shape
    <3>3. PICK a, b, q, r, o, f : /\ a = Len(MineOf(host)) /\ b = Len(plans) /\ q = Len(FlattenSeq(td)) /\ o = Len(ou)
                               /\ r = Len(MineOf(g)) /\ f = Len(FlattenSeq(host.todo))
      OBVIOUS
    <3>4. r = a + b /\ a \in Nat
      <4>1. PICK mi : mi = MineOf(host) /\ mi \in Seq(Subs)
        BY <1>16
      <4>2. Len(mi \o e) = Len(mi) + Len(e) /\ Len(mi) \in Nat
        BY <1>8, <4>1
      <4>3. QED
        BY <1>8, <1>16, <3>3, <4>1, <4>2
    <3>5. b \in Nat /\ q \in Nat
      <4>1. FlattenSeq(td) \in Seq(Names)
        BY <1>11, FlattenType
      <4>2. QED
        BY <1>5, <3>3, <4>1
    <3>6. o = a + f /\ f = b + q
      BY <1>5, <1>10, <3>2, <3>3, Zenon
    <3>7. o = r + q
      BY <3>4, <3>5, <3>6
    <3>8. QED
      BY <3>3, <3>7, Zenon
  <2>3. QED
    BY <1>15, <2>1, <2>2 DEF Shape
<1>18. Safe(memory', commands', g, pending, images)
  <2>1. PICK n, bs : n = memory' /\ bs = commands'
    OBVIOUS
  <2>2. /\ Safe(n, commands, host, pending, images) /\ Unused(n, commands, host, pending, images, X)
        /\ bs = Append(commands, x)
    BY <1>4, <1>8, <2>1
  <2>3. /\ g.outputs = host.outputs /\ g.images = host.images /\ g.got = host.got /\ MineOf(g) = MineOf(host) \o e
    BY <1>10, <1>15, <1>16
  <2>4. Safe(n, bs, g, pending, images)
    BY <1>4, <1>8, <1>12, <1>15, <1>17, <2>2, <2>3, SafeCommit
  <2>5. QED
    BY <2>1, <2>4
<1>19. Stays
  BY <1>4, <1>10, <1>18 DEF Stays
<1>20. QED
  BY <1>6, <1>19

-----------------------------------------------------------------------------
(***************************************************************************)
(* Buffers stay apart.                                                     *)
(***************************************************************************)
\* The upload cache does not change.
LEMMA CacheKept ==
  ASSUME IInv, arenas' = arenas, cache' = cache
  PROVE  CacheStays
<1>1. /\ arenas \in [Addresses -> Nat] /\ cache \in [entries : Seq(Entries), bytes : Int] /\ Cached(cache.entries)
  BY Zenon DEF IInv
<1>2. Cached(cache.entries)'
  BY <1>1 DEF Cached
<1>3. QED
  BY <1>1, <1>2 DEF CacheStays

\* An arena that is replaced is none that the cache retains.
LEMMA ReplaceArenaStays ==
  ASSUME MetalAssumption, IInv, NEW a \in Addresses, ReplaceArena(a)
  PROVE  Stays /\ CacheStays
<1>1. /\ ~IsCached(a) /\ arenas' = [arenas EXCEPT ![a] = @ + 1]
      /\ cache' = cache /\ memory' = memory /\ commands' = commands /\ host' = host
      /\ pending' = pending /\ images' = images
  BY Zenon DEF ReplaceArena
<1>2. /\ arenas \in [Addresses -> Nat] /\ cache \in [entries : Seq(Entries), bytes : Int] /\ Cached(cache.entries)
      /\ Safe(memory, commands, host, pending, images)
  BY Zenon DEF IInv
<1>3. Stays
  BY <1>1, <1>2 DEF Stays
<1>4. arenas' \in [Addresses -> Nat]
  BY <1>1, <1>2
<1>5. PICK s : s = cache.entries /\ s \in Seq(Entries) /\ cache'.entries = s
  BY <1>1, <1>2
<1>6. \A k \in 1..Len(s) : s[k].version = arenas'[s[k].address]
  <2>1. SUFFICES ASSUME NEW k \in 1..Len(s)
                 PROVE  s[k].version = arenas'[s[k].address]
    OBVIOUS
  <2>2. s[k] \in Entries
    BY <1>5, ElementOfSeq
  <2>3. s[k].address # a
    BY <1>1, <1>5 DEF IsCached
  <2>4. s[k].address \in Addresses
    BY <2>2 DEF Entries
  <2>5. s[k].version = arenas[s[k].address]
    BY <1>2, <1>5 DEF Cached
  <2>6. QED
    BY <1>1, <1>2, <2>3, <2>4, <2>5
<1>7. Cached(cache.entries)'
  BY <1>5, <1>6 DEF Cached
<1>8. QED
  BY <1>1, <1>2, <1>3, <1>4, <1>7 DEF CacheStays

\* A session that was just made.
LEMMA InitSafe ==
  ASSUME MetalAssumption, SessionInit
  PROVE  IInv
<1>1. /\ memory = [private |-> EmptyPool, shared |-> EmptyPool, sizes |-> <<>>, released |-> {}]
      /\ arenas = [a \in Addresses |-> 1] /\ cache = [entries |-> <<>>, bytes |-> 0]
      /\ commands = <<>> /\ host = Idle /\ pending = <<>> /\ images = {}
  BY Zenon DEF SessionInit
<1>2. arenas \in [Addresses -> Nat] /\ cache \in [entries : Seq(Entries), bytes : Int] /\ Cached(cache.entries)
  <2>1. cache.entries = <<>> /\ <<>> \in Seq(Entries)
    BY <1>1
  <2>2. Cached(cache.entries)
    BY <2>1 DEF Cached
  <2>3. QED
    BY <1>1, <2>1, <2>2
<1>3. PICK e : e = <<>>
  OBVIOUS
<1>4. /\ memory.private.entries = e /\ memory.shared.entries = e /\ memory.sizes = e /\ memory.released = {}
      /\ memory \in Memories
  <2>1. <<>> \in Seq(Nat)
    OBVIOUS
  <2>2. EmptyPool \in Pools /\ EmptyPool.entries = <<>>
    BY <2>1 DEF EmptyPool, Pools
  <2>3. QED
    BY <1>1, <1>3, <2>1, <2>2 DEF Memories
<1>5. PooledOf(memory) = {} /\ Well(memory)
  <2>1. ToSet(e) = {} /\ IsInjective(e)
    BY <1>3, NothingOwned
  <2>2. PooledOf(memory) = {}
    BY <1>4, <2>1 DEF PooledOf
  <2>3. QED
    BY <1>4, <2>1, <2>2 DEF Well
<1>6. Typed(memory, commands, host, pending, images)
  <2>1. <<>> \in Seq(Commands) /\ <<>> \in Seq(Handed)
    OBVIOUS
  <2>2. QED
    BY <1>1, <1>4, <2>1, IdleHas DEF Typed
<1>7. /\ MineOf(host) = <<>> /\ host.outputs = <<>> /\ host.images = <<>> /\ Shape(host)
  BY <1>1, IdleHas
<1>8. Scratches(<<>>) = {} /\ Apart(<<>>)
  BY SubsEmpty
<1>9. OwnersOf(host, pending, images)
  <2>1. Batches(<<>>) /\ Distinct(<<>>) /\ BatchBuffers(<<>>) = {} /\ HostBuffers(<<>>) = {}
        /\ ToSet(<<>>) = {} /\ IsInjective(<<>>) /\ ImageBuffers({}) = {}
    BY NothingOwned
  <2>2. QED
    BY <1>1, <1>7, <1>8, <2>1 DEF OwnersOf, Owners, Pairwise
<1>10. Free(memory, OwningOf(host, pending, images))
  <2>1. OwningOf(host, pending, images) = {}
    BY <1>1, <1>7, <1>8, NothingOwned DEF OwningOf, Owning
  <2>2. QED
    BY <2>1 DEF Free
<1>11. UsersApart(memory, commands, host, pending, images)
  <2>1. RunningOf(commands) = {}
    BY <1>1 DEF RunningOf
  <2>2. QED
    BY <2>1 DEF UsersApart
<1>12. KnownOf(commands, host, pending)
  BY <1>1, <1>7 DEF KnownOf, Known
<1>13. Safe(memory, commands, host, pending, images)
  BY <1>5, <1>6, <1>7, <1>9, <1>10, <1>11, <1>12 DEF Safe
<1>14. QED
  BY <1>2, <1>13, Zenon DEF IInv

\* Every step keeps buffers apart.
LEMMA NextSafe ==
  ASSUME MetalAssumption, IInv, [SessionNext]_sessionVars
  PROVE  IInv'
<1>1. SUFFICES Stays /\ CacheStays
  BY Zenon DEF Stays, CacheStays, IInv
<1>2. CASE UNCHANGED sessionVars
  <2>1. /\ arenas' = arenas /\ cache' = cache /\ memory' = memory /\ commands' = commands /\ host' = host
        /\ pending' = pending /\ images' = images
    BY <1>2, Zenon DEF sessionVars
  <2>2. Safe(memory, commands, host, pending, images)
    BY SafeParts
  <2>3. QED
    BY <2>1, <2>2, CacheKept DEF Stays
<1>3. ASSUME NEW r \in Requests, BeginRequest(r)
      PROVE  Stays /\ CacheStays
  BY <1>3, BeginCallStays, CacheKept DEF BeginRequest
<1>4. CASE BeginGroup
  BY <1>4, BeginGroupStays, CacheKept DEF BeginGroup
<1>5. CASE Commit
  BY <1>5, CommitStays
<1>6. CASE FailEncode
  BY <1>6, FailEncodeStays
<1>7. CASE EndGroup
  BY <1>7, EndGroupStays, CacheKept DEF EndGroup
<1>8. CASE EndCall
  BY <1>8, EndCallStays, CacheKept DEF EndCall
<1>9. ASSUME NEW k \in DOMAIN pending, BeginWait(k)
      PROVE  Stays /\ CacheStays
  BY <1>9, BeginWaitStays, CacheKept DEF BeginWait
<1>10. ASSUME NEW k \in DOMAIN pending, BeginDrop(k)
       PROVE  Stays /\ CacheStays
  BY <1>10, BeginDropStays, CacheKept DEF BeginDrop
<1>11. CASE WaitOne
  BY <1>11, WaitOneStays, CacheKept DEF WaitOne
<1>12. CASE DropOne
  BY <1>12, DropOneStays, CacheKept DEF DropOne
<1>13. CASE EndWait
  BY <1>13, EndWaitStays, CacheKept DEF EndWait
<1>14. CASE EndDrop
  BY <1>14, EndDropStays, CacheKept DEF EndDrop
<1>15. ASSUME NEW i \in images, DropImage(i)
       PROVE  Stays /\ CacheStays
  BY <1>15, DropImageStays, CacheKept DEF DropImage
<1>16. ASSUME NEW a \in Addresses, ReplaceArena(a)
       PROVE  Stays /\ CacheStays
  BY <1>16, ReplaceArenaStays
<1>17. ASSUME NEW q \in DOMAIN queues, Run(q)
       PROVE  Stays /\ CacheStays
  BY <1>17, RunStays, CacheKept DEF Run
<1>18. CASE Quiet
  BY <1>2, <1>18, Zenon DEF Quiet
<1>19. QED
  BY <1>2, <1>3, <1>4, <1>5, <1>6, <1>7, <1>8, <1>9, <1>10, <1>11, <1>12, <1>13, <1>14, <1>15, <1>16, <1>17, <1>18,
     Zenon DEF SessionNext

\* The invariant says that buffers are apart.
LEMMA SafeApart ==
  ASSUME IInv
  PROVE  BuffersApart
<1>1. /\ Safe(memory, commands, host, pending, images) /\ host \in Hosts /\ Well(memory)
      /\ Free(memory, OwningOf(host, pending, images))
  BY SafeParts
<1>2. UsersApart(memory, commands, host, pending, images)
  BY <1>1, Zenon DEF Safe
<1>3. Pooled = PooledOf(memory) /\ {i.buffer : i \in images} = ImageBuffers(images)
  BY DEF Pooled, PooledOf, ImageBuffers
<1>4. ASSUME NEW c \in DOMAIN commands, commands[c].state = "running"
      PROVE  /\ InUse(c) \cap (Pooled \cup {i.buffer : i \in images}) = {}
             /\ \A d \in DOMAIN commands :
                  c # d /\ commands[d].state = "running" => InUse(c) \cap InUse(d) = {}
  <2>1. \A d : UseOf(commands, d) = InUse(d)
    BY DEF UseOf, InUse
  <2>2. c \in RunningOf(commands) /\ \A d \in DOMAIN commands : commands[d].state = "running" => d \in RunningOf(commands)
    BY <1>4 DEF RunningOf
  <2>3. UseOf(commands, c) \cap (PooledOf(memory) \cup HostBuffers(host.images) \cup ImageBuffers(images)) = {}
    BY <1>2, <2>2 DEF UsersApart, Uses
  <2>4. \A d \in RunningOf(commands) : c # d => UseOf(commands, c) \cap UseOf(commands, d) = {}
    BY <1>2, <2>2, Zenon DEF UsersApart
  <2>5. InUse(c) \cap (Pooled \cup {i.buffer : i \in images}) = {}
    BY <1>3, <2>1, <2>3
  <2>6. \A d \in DOMAIN commands : c # d /\ commands[d].state = "running" => InUse(c) \cap InUse(d) = {}
    BY <2>1, <2>2, <2>4, Zenon
  <2>7. QED
    BY <2>5, <2>6
<1>5. Held \cup {i.buffer : i \in images} \subseteq OwningOf(host, pending, images)
  <2>1. Held = BatchBuffers(pending) \cup (Scratches(host.submissions) \cup Scratches(FlattenSeq(host.encoded)))
    <3>1. PICK v, w, u : v = Scratches(host.submissions) /\ w = Scratches(FlattenSeq(host.encoded)) /\ u = BatchBuffers(pending)
      OBVIOUS
    <3>2. Held = BatchBuffers(pending) \cup Scratches(host.submissions) \cup Scratches(FlattenSeq(host.encoded))
      BY DEF Held, BatchBuffers
    <3>3. u \cup v \cup w = u \cup (v \cup w)
      OBVIOUS
    <3>4. QED
      BY <3>1, <3>2, <3>3, Zenon
  <2>2. Scratches(host.submissions) \cup Scratches(FlattenSeq(host.encoded)) = Scratches(MineOf(host))
    <3>1. PICK s, t : s = host.submissions /\ t = FlattenSeq(host.encoded)
      OBVIOUS
    <3>2. s \in Seq(Subs) /\ t \in Seq(Subs)
      BY <1>1, <3>1, MineType
    <3>3. Scratches(s \o t) = Scratches(s) \cup Scratches(t)
      BY <3>2, SubsConcat
    <3>4. QED
      BY <3>1, <3>3 DEF MineOf
  <2>3. QED
    BY <1>3, <2>1, <2>2 DEF OwningOf, Owning
<1>6. (Held \cup {i.buffer : i \in images}) \cap (Pooled \cup memory.released) = {}
  BY <1>1, <1>3, <1>5 DEF Free
<1>7. Pooled \cap memory.released = {}
  BY <1>1, <1>3 DEF Well
<1>8. QED
  BY <1>4, <1>6, <1>7, Zenon DEF BuffersApart

\* No buffer has two users: of the commands that run, the pools, the submissions
\* and images that callers hold, and those let go of, none has a buffer of another.
THEOREM BuffersStayApart ==
  ASSUME MetalAssumption
  PROVE  SessionSpec => []BuffersApart
<1>1. SessionInit => IInv
  BY InitSafe
<1>2. IInv /\ [SessionNext]_sessionVars => IInv'
  BY NextSafe
<1>3. IInv => BuffersApart
  BY SafeApart
<1>4. QED
  BY <1>1, <1>2, <1>3, PTL DEF SessionSpec

-----------------------------------------------------------------------------
(***************************************************************************)
(* The scratch that submissions hold.                                      *)
(***************************************************************************)
InBounds(z) == {s \in Subs : Own(s) \subseteq DOMAIN z}
BytesHeld(z, s) == BytesOf(z, s.private \o s.shared)
HeldBy(z, subs) == Total([k \in DOMAIN subs |-> BytesHeld(z, subs[k])])
HeldIn(z) == [s \in InBounds(z) |-> BytesHeld(z, s)]

\* A submission holds some bytes, as many when more buffers were allocated since.
LEMMA BytesHeldType ==
  ASSUME NEW z \in Seq(Nat), NEW s \in InBounds(z)
  PROVE  /\ BytesHeld(z, s) \in Nat
         /\ \A y \in Seq(Nat) : Len(y) >= Len(z) /\ (\A i \in 1..Len(z) : y[i] = z[i]) => BytesHeld(y, s) = BytesHeld(z, s)
<1>1. PICK p, q, b : p = s.private /\ q = s.shared /\ b = p \o q
  OBVIOUS
<1>2. p \in Seq(Nat) /\ q \in Seq(Nat) /\ ToSet(p) \cup ToSet(q) \subseteq DOMAIN z
  BY <1>1 DEF InBounds, Subs, Own
<1>3. b \in Seq(Nat) /\ ToSet(b) = ToSet(p) \cup ToSet(q)
  BY <1>1, <1>2, ConcatSet
<1>4. BytesHeld(z, s) \in Nat
  BY <1>1, <1>2, <1>3, BytesType DEF BytesHeld
<1>5. ASSUME NEW y \in Seq(Nat), \A i \in 1..Len(z) : y[i] = z[i]
      PROVE  BytesHeld(y, s) = BytesHeld(z, s)
  <2>1. \A k \in DOMAIN b : b[k] \in 1..Len(z)
    <3>1. \A k \in DOMAIN b : b[k] \in ToSet(b)
      BY DEF ToSet
    <3>2. DOMAIN z = 1..Len(z)
      OBVIOUS
    <3>3. QED
      BY <1>2, <1>3, <3>1, <3>2
  <2>2. [k \in DOMAIN b |-> y[b[k]]] = [k \in DOMAIN b |-> z[b[k]]]
    BY <1>5, <2>1
  <2>3. QED
    BY <1>1, <2>2 DEF BytesHeld, BytesOf
<1>6. QED
  BY <1>4, <1>5

\* What submissions hold is the weight of each, added up.
LEMMA HeldWeight ==
  ASSUME NEW z \in Seq(Nat), NEW s \in Seq(InBounds(z))
  PROVE  HeldBy(z, s) = Weight(s, HeldIn(z)) /\ HeldBy(z, s) \in Nat
<1>1. \A x \in InBounds(z) : HeldIn(z)[x] = BytesHeld(z, x) /\ HeldIn(z)[x] \in Nat
  BY BytesHeldType DEF HeldIn
<1>2. \A k \in DOMAIN s : s[k] \in InBounds(z)
  BY ElementOfSeq
<1>3. [k \in DOMAIN s |-> BytesHeld(z, s[k])] = Weights(s, HeldIn(z))
  BY <1>1, <1>2 DEF Weights
<1>4. HeldBy(z, s) = Weight(s, HeldIn(z))
  BY <1>3 DEF HeldBy, Weight
<1>5. Weight(s, HeldIn(z)) \in Nat
  BY <1>1, WeightType
<1>6. QED
  BY <1>4, <1>5

\* Submissions of two sequences hold what each holds.
LEMMA HeldConcat ==
  ASSUME NEW z \in Seq(Nat), NEW s \in Seq(InBounds(z)), NEW t \in Seq(InBounds(z))
  PROVE  HeldBy(z, s \o t) = HeldBy(z, s) + HeldBy(z, t) /\ s \o t \in Seq(InBounds(z))
<1>1. PICK S : S = InBounds(z)
  OBVIOUS
<1>2. s \o t \in Seq(S) /\ s \in Seq(S) /\ t \in Seq(S)
  BY <1>1, ConcatSet
<1>3. \A x \in S : HeldIn(z)[x] \in Nat
  BY <1>1, BytesHeldType DEF HeldIn
<1>4. Weight(s \o t, HeldIn(z)) = Weight(s, HeldIn(z)) + Weight(t, HeldIn(z))
  BY <1>2, <1>3, WeightConcat
<1>5. QED
  BY <1>1, <1>2, <1>4, HeldWeight

\* They hold as much when more buffers were allocated since.
LEMMA HeldAgree ==
  ASSUME NEW z \in Seq(Nat), NEW s \in Seq(InBounds(z)), NEW y \in Seq(Nat), Len(y) >= Len(z),
         \A i \in 1..Len(z) : y[i] = z[i]
  PROVE  HeldBy(y, s) = HeldBy(z, s) /\ s \in Seq(InBounds(y))
<1>1. \A k \in DOMAIN s : s[k] \in InBounds(z)
  BY ElementOfSeq
<1>2. \A x \in InBounds(z) : BytesHeld(y, x) = BytesHeld(z, x)
  BY BytesHeldType
<1>3. [k \in DOMAIN s |-> BytesHeld(y, s[k])] = [k \in DOMAIN s |-> BytesHeld(z, s[k])]
  BY <1>1, <1>2
<1>4. InBounds(z) \subseteq InBounds(y)
  <2>1. 1..Len(z) \subseteq 1..Len(y) /\ DOMAIN z = 1..Len(z) /\ DOMAIN y = 1..Len(y)
    OBVIOUS
  <2>2. QED
    BY <2>1 DEF InBounds
<1>5. s \in Seq(InBounds(y))
  <2>1. PICK S, R : S = InBounds(z) /\ R = InBounds(y)
    OBVIOUS
  <2>2. S \subseteq R /\ s \in Seq(S)
    BY <1>4, <2>1
  <2>3. \A k \in 1..Len(s) : s[k] \in R
    BY <2>2
  <2>4. s \in Seq(R)
    BY <2>2, <2>3
  <2>5. QED
    BY <2>1, <2>4
<1>6. QED
  BY <1>3, <1>5 DEF HeldBy

\* Submissions whose buffers are buffers.
LEMMA BoundedSubs ==
  ASSUME NEW z, NEW s \in Seq(Subs), Scratches(s) \subseteq DOMAIN z
  PROVE  s \in Seq(InBounds(z))
<1>1. \A k \in 1..Len(s) : s[k] \in InBounds(z)
  <2>1. SUFFICES ASSUME NEW k \in 1..Len(s)
                 PROVE  s[k] \in InBounds(z)
    OBVIOUS
  <2>2. s[k] \in Subs /\ k \in DOMAIN s
    OBVIOUS
  <2>3. Own(s[k]) \subseteq Scratches(s)
    BY <2>2 DEF Own, Scratches
  <2>4. QED
    BY <2>2, <2>3 DEF InBounds
<1>2. PICK R : R = InBounds(z)
  OBVIOUS
<1>3. s \in Seq(R)
  BY <1>1, <1>2
<1>4. QED
  BY <1>2, <1>3

-----------------------------------------------------------------------------
(***************************************************************************)
(* The scratch of a command.                                               *)
(***************************************************************************)
\* What plans need is what their parts need, and no part is empty.
NeedParts(q) ==
  /\ Weight(q, Need) = Weight(q, Low) + Weight(q, Samples) + Len(q)
  /\ Weight(q, Low) >= Len(q) /\ Weight(q, Samples) >= Len(q)

\* What plans need is what their bands, samples and statuses take.
LEMMA NeedOfParts ==
  ASSUME MetalAssumption, NEW plans \in Seq(Names)
  PROVE  NeedParts(plans)
<1>1. \A p \in Names : /\ Need[p] \in Nat /\ Low[p] \in Nat /\ Samples[p] \in Nat
                       /\ Need[p] = Low[p] + Samples[p] + 1 /\ Low[p] >= 1 /\ Samples[p] >= 1
  <2>1. SUFFICES ASSUME NEW p \in Names
                 PROVE  /\ Need[p] \in Nat /\ Low[p] \in Nat /\ Samples[p] \in Nat
                        /\ Need[p] = Low[p] + Samples[p] + 1 /\ Low[p] >= 1 /\ Samples[p] >= 1
    OBVIOUS
  <2>2. PICK l, s : l = Plans[p].low /\ s = Plans[p].samples
    OBVIOUS
  <2>3. l \in Nat \ {0} /\ s \in Nat \ {0}
    BY <2>2 DEF MetalAssumption, Names
  <2>4. Need[p] = l + s + 1 /\ Low[p] = l /\ Samples[p] = s
    BY <2>2 DEF Need, ScratchBytes, Low, Samples
  <2>5. QED
    BY <2>3, <2>4
<1>2. PICK N, P : N = Names /\ P = {q \in Seq(N) : NeedParts(q)}
  OBVIOUS
<1>3. <<>> \in P
  <2>1. Weight(<<>>, Need) = 0 /\ Weight(<<>>, Low) = 0 /\ Weight(<<>>, Samples) = 0
    BY WeightEmpty
  <2>2. <<>> \in Seq(N) /\ Len(<<>>) = 0
    OBVIOUS
  <2>3. QED
    BY <1>2, <2>1, <2>2 DEF NeedParts
<1>4. \A q \in P \cap Seq(N) : \A x \in N : Append(q, x) \in P
  <2>1. SUFFICES ASSUME NEW q \in P \cap Seq(N), NEW x \in N
                 PROVE  Append(q, x) \in P
    OBVIOUS
  <2>2. q \in Seq(N) /\ NeedParts(q) /\ Len(q) \in Nat
    BY <1>2, <2>1
  <2>3. Append(q, x) \in Seq(N) /\ Len(Append(q, x)) = Len(q) + 1
    BY <2>2
  <2>4. /\ Weight(Append(q, x), Need) = Weight(q, Need) + Need[x] /\ Weight(q, Need) \in Nat
        /\ Weight(Append(q, x), Low) = Weight(q, Low) + Low[x] /\ Weight(q, Low) \in Nat
        /\ Weight(Append(q, x), Samples) = Weight(q, Samples) + Samples[x] /\ Weight(q, Samples) \in Nat
    <3>1. \A p \in N : Need[p] \in Nat /\ Low[p] \in Nat /\ Samples[p] \in Nat
      BY <1>1, <1>2
    <3>2. QED
      BY <2>2, <3>1, WeightAppend, WeightType
  <2>5. /\ Need[x] = Low[x] + Samples[x] + 1 /\ Low[x] >= 1 /\ Samples[x] >= 1
        /\ Need[x] \in Nat /\ Low[x] \in Nat /\ Samples[x] \in Nat
    BY <1>1, <1>2
  <2>6. PICK a, b, c, d, e, f, n :
          /\ a = Weight(q, Need) /\ b = Weight(q, Low) /\ c = Weight(q, Samples) /\ n = Len(q)
          /\ d = Need[x] /\ e = Low[x] /\ f = Samples[x]
    OBVIOUS
  <2>7. a = b + c + n /\ b >= n /\ c >= n /\ a \in Nat /\ b \in Nat /\ c \in Nat /\ n \in Nat
    BY <2>2, <2>4, <2>6 DEF NeedParts
  <2>8. d = e + f + 1 /\ e >= 1 /\ f >= 1 /\ d \in Nat /\ e \in Nat /\ f \in Nat
    BY <2>5, <2>6
  <2>9. a + d = (b + e) + (c + f) + (n + 1) /\ b + e >= n + 1 /\ c + f >= n + 1
    BY <2>7, <2>8
  <2>10. NeedParts(Append(q, x))
    BY <2>3, <2>4, <2>6, <2>9 DEF NeedParts
  <2>11. QED
    BY <1>2, <2>3, <2>10
<1>5. Seq(N) \subseteq P
  BY <1>3, <1>4, SeqInduction
<1>6. QED
  BY <1>2, <1>5

\* Three buffers of the sizes a set of scratch asks for.
LEMMA SetBytes ==
  ASSUME MetalAssumption, NEW plans \in Seq(Names), Len(plans) >= 1, NEW z \in Seq(Nat),
         NEW a \in Nat, NEW b \in Nat, NEW c \in Nat,
         z[a] = ScratchSet(plans)[1].size, z[b] = ScratchSet(plans)[2].size, z[c] = ScratchSet(plans)[3].size
  PROVE  BytesOf(z, <<a, b, c>>) = Weight(plans, Need)
<1>1. PICK l, s, n : l = Weight(plans, Low) /\ s = Weight(plans, Samples) /\ n = Len(plans)
  OBVIOUS
<1>2. l \in Nat /\ s \in Nat /\ n \in Nat /\ l >= 1 /\ s >= 1 /\ n >= 1 /\ Weight(plans, Need) = l + s + n
  <2>1. Weight(plans, Low) \in Nat /\ Weight(plans, Samples) \in Nat /\ Len(plans) \in Nat
    BY ScratchSetType
  <2>2. NeedParts(plans)
    BY NeedOfParts
  <2>3. l >= n /\ s >= n /\ Weight(plans, Need) = l + s + n
    BY <1>1, <2>2 DEF NeedParts
  <2>4. QED
    BY <1>1, <2>1, <2>3
<1>3. \A kind, k : k \in Nat /\ k >= 1 => BufferRequest(kind, k).size = k
  BY DEF BufferRequest
<1>4. z[a] = l /\ z[b] = s /\ z[c] = n
  <2>1. /\ ScratchSet(plans)[1] = BufferRequest("private", l) /\ ScratchSet(plans)[2] = BufferRequest("private", s)
        /\ ScratchSet(plans)[3] = BufferRequest("shared", n)
    BY <1>1, ScratchSetType
  <2>2. BufferRequest("private", l).size = l /\ BufferRequest("private", s).size = s /\ BufferRequest("shared", n).size = n
    BY <1>2, <1>3
  <2>3. QED
    BY <2>1, <2>2
<1>5. BytesOf(z, <<a, b, c>>) = Total(<<l, s, n>>)
  <2>1. [k \in DOMAIN <<a, b, c>> |-> z[<<a, b, c>>[k]]] = <<l, s, n>>
    BY <1>4
  <2>2. QED
    BY <2>1 DEF BytesOf
<1>6. Total(<<l, s, n>>) = l + s + n
  <2>1. <<>> \in Seq(Nat) /\ <<l>> \in Seq(Nat) /\ <<l, s>> \in Seq(Nat)
    BY <1>2
  <2>2. <<l>> = Append(<<>>, l) /\ <<l, s>> = Append(<<l>>, s) /\ <<l, s, n>> = Append(<<l, s>>, n)
    OBVIOUS
  <2>3. Total(<<l>>) = 0 + l
    BY <1>2, <2>1, <2>2, TotalAppend, TotalEmpty
  <2>4. Total(<<l, s>>) = Total(<<l>>) + s
    BY <1>2, <2>1, <2>2, TotalAppend
  <2>5. Total(<<l, s, n>>) = Total(<<l, s>>) + n
    BY <1>2, <2>1, <2>2, TotalAppend
  <2>6. QED
    BY <1>2, <2>3, <2>4, <2>5
<1>7. QED
  BY <1>2, <1>5, <1>6

\* Numbers that are all zero but the first add up to the first.
LEMMA TotalFirst ==
  ASSUME NEW b \in Seq(Nat), b # <<>>, \A k \in 2..Len(b) : b[k] = 0
  PROVE  Total(b) = b[1]
<1>1. Len(b) \in Nat \ {0} /\ b[1] \in Nat
  OBVIOUS
<1>2. PICK P : P = {k \in 0..Len(b) : k = 0 \/ UpTo(b, k) = b[1]}
  OBVIOUS
<1>3. 0 \in P
  BY <1>1, <1>2
<1>4. \A k \in 0..Len(b) - 1 : k \in P => k + 1 \in P
  <2>1. SUFFICES ASSUME NEW k \in 0..Len(b) - 1, k \in P
                 PROVE  k + 1 \in P
    OBVIOUS
  <2>2. k + 1 \in 1..Len(b) /\ (k + 1) - 1 = k
    BY <1>1
  <2>3. UpTo(b, k + 1) = UpTo(b, k) + b[k + 1]
    BY <2>2, UpToStep
  <2>4. CASE k = 0
    <3>1. UpTo(b, 0) = 0
      BY UpToZero
    <3>2. UpTo(b, k + 1) = 0 + b[1]
      BY <2>3, <2>4, <3>1
    <3>3. QED
      BY <1>1, <1>2, <2>2, <3>2
  <2>5. CASE k # 0
    <3>1. b[k + 1] = 0 /\ UpTo(b, k) = b[1]
      BY <1>1, <1>2, <2>1, <2>5
    <3>2. UpTo(b, k + 1) = b[1]
      BY <1>1, <2>3, <3>1
    <3>3. QED
      BY <1>2, <2>2, <3>2
  <2>6. QED
    BY <2>4, <2>5
<1>5. Len(b) \in P
  <2>1. \A k \in 0..Len(b) : k \in P
    BY <1>1, <1>3, <1>4, UpToInduction
  <2>2. QED
    BY <1>1, <2>1
<1>6. UpTo(b, Len(b)) = b[1]
  BY <1>1, <1>2, <1>5
<1>7. QED
  BY <1>6 DEF Total

\* Two private buffers and a shared one.
LEMMA Three ==
  ASSUME NEW i, NEW j, NEW l
  PROVE  <<i, j, l>> = <<i, j>> \o <<l>>
  OBVIOUS

\* The buffers a command takes are of the sizes its plans need.
Serves(z, taken, plans) ==
  /\ z \in Seq(Nat) /\ taken \in Seq(Nat) /\ Len(taken) = Len(ScratchOf(plans))
  /\ \A j \in 1..Len(taken) : z[taken[j]] = ScratchOf(plans)[j].size

\* The submissions of plans that are not concatenated hold what each plan needs.
LEMMA HeldAlone ==
  ASSUME MetalAssumption, NEW plans \in Seq(Names), NEW id \in Nat, NEW z, NEW taken, Serves(z, taken, plans),
         ~Concatenated(plans)
  PROVE  HeldBy(z, Submitted(plans, id, taken)) = Scratch(plans)
<1>1. PICK s, a, n : s = ScratchOf(plans) /\ a = Alone(plans) /\ n = Len(plans)
  OBVIOUS
<1>2. /\ n \in Nat /\ Len(s) = 3 * n /\ Thirds(a, s) /\ Len(a) = n /\ DOMAIN plans = 1..n
  BY <1>1, ScratchOfType
<1>3. \A k \in 1..n : a[k] = ScratchSet(<<plans[k]>>)
  BY <1>1, <1>2 DEF Alone
<1>4. /\ z \in Seq(Nat) /\ taken \in Seq(Nat) /\ Len(taken) = 3 * n
      /\ \A j \in 1..3 * n : z[taken[j]] = s[j].size
  BY <1>1, <1>2 DEF Serves
<1>5. PICK f : f = Submitted(plans, id, taken)
  OBVIOUS
<1>6. ASSUME NEW k \in 1..n
      PROVE  BytesHeld(z, f[k]) = ScratchBytes(plans[k])
  <2>1. f[k].private = <<taken[3 * k - 2], taken[3 * k - 1]>> /\ f[k].shared = <<taken[3 * k]>>
    BY <1>2, <1>5 DEF Submitted, Submission, Owned
  <2>2. PICK i, j, l : i = taken[3 * k - 2] /\ j = taken[3 * k - 1] /\ l = taken[3 * k]
    OBVIOUS
  <2>3. 3 * k - 2 \in 1..3 * n /\ 3 * k - 1 \in 1..3 * n /\ 3 * k \in 1..3 * n
    BY <1>2
  <2>4. i \in Nat /\ j \in Nat /\ l \in Nat
    BY <1>4, <2>2, <2>3
  <2>5. z[i] = s[3 * k - 2].size /\ z[j] = s[3 * k - 1].size /\ z[l] = s[3 * k].size
    BY <1>4, <2>2, <2>3
  <2>6. s[3 * k - 2] = a[k][1] /\ s[3 * k - 1] = a[k][2] /\ s[3 * k] = a[k][3]
    BY <1>2 DEF Thirds
  <2>7. PICK one : one = <<plans[k]>>
    OBVIOUS
  <2>8. one \in Seq(Names) /\ Len(one) = 1 /\ plans[k] \in Names
    BY <1>1, <2>7
  <2>9. BytesOf(z, <<i, j, l>>) = Weight(one, Need)
    <3>1. z[i] = ScratchSet(one)[1].size /\ z[j] = ScratchSet(one)[2].size /\ z[l] = ScratchSet(one)[3].size
      BY <1>3, <2>5, <2>6, <2>7
    <3>2. Len(one) >= 1
      BY <2>8
    <3>3. QED
      <4>1. z \in Seq(Nat) /\ one \in Seq(Names) /\ i \in Nat /\ j \in Nat /\ l \in Nat
        BY <1>4, <2>4, <2>8
      <4>2. QED
        BY <3>1, <3>2, <4>1, SetBytes
  <2>10. Weight(one, Need) = ScratchBytes(plans[k])
    <3>1. one = Append(<<>>, plans[k]) /\ <<>> \in Seq(Names)
      BY <2>7
    <3>2. \A p \in Names : Need[p] \in Nat
      BY NeedType
    <3>3. Weight(one, Need) = 0 + Need[plans[k]]
      <4>1. PICK e, p : e = <<>> /\ p = plans[k]
        OBVIOUS
      <4>2. e \in Seq(Names) /\ p \in Names
        BY <2>8, <3>1, <4>1
      <4>3. Weight(Append(e, p), Need) = Weight(e, Need) + Need[p]
        BY <3>2, <4>2, WeightAppend, Zenon
      <4>4. QED
        BY <3>1, <4>1, <4>3, WeightEmpty
    <3>4. Need[plans[k]] \in Nat /\ Need[plans[k]] = ScratchBytes(plans[k])
      BY <2>8, <3>2 DEF Need
    <3>5. QED
      BY <3>3, <3>4
  <2>11. f[k].private \o f[k].shared = <<i, j, l>>
    <3>1. PICK p, q : p = f[k].private /\ q = f[k].shared
      OBVIOUS
    <3>2. p = <<i, j>> /\ q = <<l>>
      BY <2>1, <2>2, <3>1
    <3>3. p \o q = <<i, j>> \o <<l>>
      BY <3>2, Zenon
    <3>4. <<i, j>> \o <<l>> = <<i, j, l>>
      BY Three, Zenon
    <3>5. QED
      BY <3>1, <3>3, <3>4, Zenon
  <2>12. QED
    BY <2>9, <2>10, <2>11 DEF BytesHeld
<1>7. DOMAIN f = 1..n
  BY <1>2, <1>5 DEF Submitted
<1>8. [k \in DOMAIN f |-> BytesHeld(z, f[k])] = [k \in DOMAIN plans |-> ScratchBytes(plans[k])]
  BY <1>2, <1>6, <1>7
<1>9. QED
  BY <1>5, <1>8 DEF HeldBy, Scratch

\* The first submission of concatenated plans holds what they need together.
LEMMA HeldFirst ==
  ASSUME MetalAssumption, NEW plans \in Seq(Names), NEW id \in Nat, NEW z, NEW taken, Serves(z, taken, plans),
         Concatenated(plans)
  PROVE  HeldBy(z, Submitted(plans, id, taken)) = Scratch(plans)
<1>1. PICK s, n : s = ScratchOf(plans) /\ n = Len(plans)
  OBVIOUS
<1>2. s = ScratchSet(plans) /\ Len(s) = 3 /\ n \in Nat /\ n > 1 /\ DOMAIN plans = 1..n
  <2>1. ScratchOf(plans) = ScratchSet(plans) /\ Len(plans) > 1
    BY DEF ScratchOf, Concatenated
  <2>2. QED
    BY <1>1, <2>1, ScratchSetType
<1>3. /\ z \in Seq(Nat) /\ taken \in Seq(Nat) /\ Len(taken) = 3
      /\ \A j \in 1..3 : z[taken[j]] = s[j].size
  BY <1>1, <1>2 DEF Serves
<1>4. PICK f : f = Submitted(plans, id, taken)
  OBVIOUS
<1>5. DOMAIN f = 1..n
  BY <1>2, <1>4 DEF Submitted
<1>6. BytesHeld(z, f[1]) = Scratch(plans)
  <2>1. f[1].private = <<taken[1], taken[2]>> /\ f[1].shared = <<taken[3]>>
    BY <1>2, <1>4 DEF Submitted, Submission, Owned
  <2>2. PICK i, j, l : i = taken[1] /\ j = taken[2] /\ l = taken[3]
    OBVIOUS
  <2>3. i \in Nat /\ j \in Nat /\ l \in Nat
    <3>1. 1 \in DOMAIN taken /\ 2 \in DOMAIN taken /\ 3 \in DOMAIN taken
      BY <1>3
    <3>2. taken \in Seq(Nat)
      BY <1>3
    <3>3. \A k \in DOMAIN taken : taken[k] \in Nat
      BY <3>2, ElementOfSeq
    <3>4. QED
      BY <2>2, <3>1, <3>3
  <2>4. z[i] = ScratchSet(plans)[1].size /\ z[j] = ScratchSet(plans)[2].size /\ z[l] = ScratchSet(plans)[3].size
    BY <1>2, <1>3, <2>2
  <2>5. BytesOf(z, <<i, j, l>>) = Weight(plans, Need)
    <3>1. Len(plans) >= 1
      BY <1>1, <1>2
    <3>2. QED
      BY <1>3, <2>3, <2>4, <3>1, SetBytes
  <2>6. Weight(plans, Need) = Scratch(plans)
    BY NeedType
  <2>7. f[1].private \o f[1].shared = <<i, j, l>>
    <3>1. PICK p, q : p = f[1].private /\ q = f[1].shared
      OBVIOUS
    <3>2. p = <<i, j>> /\ q = <<l>>
      BY <2>1, <2>2, <3>1
    <3>3. p \o q = <<i, j>> \o <<l>>
      BY <3>2, Zenon
    <3>4. <<i, j>> \o <<l>> = <<i, j, l>>
      BY Three, Zenon
    <3>5. QED
      BY <3>1, <3>3, <3>4, Zenon
  <2>8. QED
    BY <2>5, <2>6, <2>7 DEF BytesHeld
<1>7. ASSUME NEW k \in 2..n
      PROVE  BytesHeld(z, f[k]) = 0
  <2>1. f[k].private = <<>> /\ f[k].shared = <<>>
    BY <1>2, <1>4 DEF Submitted, Submission, Owned
  <2>2. BytesOf(z, <<>>) = Total(<<>>)
    <3>1. [j \in DOMAIN <<>> |-> z[<<>>[j]]] = <<>>
      OBVIOUS
    <3>2. QED
      BY <3>1 DEF BytesOf
  <2>3. f[k].private \o f[k].shared = <<>>
    BY <2>1
  <2>4. QED
    BY <2>2, <2>3, TotalEmpty DEF BytesHeld
<1>8. PICK b : b = [k \in 1..n |-> BytesHeld(z, f[k])]
  OBVIOUS
<1>9. b \in Seq(Nat) /\ b # <<>> /\ Len(b) = n /\ b[1] = Scratch(plans) /\ \A k \in 2..Len(b) : b[k] = 0
  <2>1. Scratch(plans) \in Nat
    BY NeedType
  <2>2. \A k \in 1..n : BytesHeld(z, f[k]) \in Nat
    BY <1>2, <1>6, <1>7, <2>1
  <2>3. b \in Seq(Nat) /\ Len(b) = n
    BY <1>2, <1>8, <2>2
  <2>4. b # <<>>
    BY <1>2, <2>3
  <2>5. b[1] = Scratch(plans)
    BY <1>2, <1>6, <1>8
  <2>6. \A k \in 2..Len(b) : b[k] = 0
    BY <1>2, <1>7, <1>8, <2>3
  <2>7. QED
    BY <2>3, <2>4, <2>5, <2>6
<1>10. Total(b) = Scratch(plans)
  BY <1>9, TotalFirst
<1>11. QED
  BY <1>4, <1>5, <1>8, <1>10 DEF HeldBy

-----------------------------------------------------------------------------
(***************************************************************************)
(* The scratch budget.                                                     *)
(***************************************************************************)
\* What the commands of a group hold, and what those not encoded yet will take.
Keeps(z, kind, en, td) ==
  IF kind = "dense"
  THEN /\ \A k \in 1..Len(td) : Whole(td[k])
       /\ \A k \in 1..Len(en) : Len(en[k]) > 1 => HeldBy(z, en[k]) <= Budget
  ELSE Len(FlattenSeq(en)) + Len(FlattenSeq(td)) > 1 =>
         HeldBy(z, FlattenSeq(en)) + Scratch(FlattenSeq(td)) <= Budget

\* The groups of a call keep to the budget, and so does what its group holds.
Budgeted(z, h) ==
  /\ \A k \in 1..Len(h.groups) : Sized(h.request.kind, h.groups[k])
  /\ h.step = "encode" => Keeps(z, h.request.kind, h.encoded, h.todo)
BInv == IInv /\ Budgeted(memory.sizes, host)

\* A buffer allocated since.
Grown(z, y) ==
  z \in Seq(Nat) /\ y \in Seq(Nat) /\ Len(y) >= Len(z) /\ \A i \in 1..Len(z) : y[i] = z[i]

\* The parts of concatenated submissions have buffers that are buffers too.
LEMMA PartsBounded ==
  ASSUME NEW z, NEW t \in Seq(Seq(Subs)), Scratches(FlattenSeq(t)) \subseteq DOMAIN z
  PROVE  /\ FlattenSeq(t) \in Seq(Subs) /\ FlattenSeq(t) \in Seq(InBounds(z))
         /\ \A k \in 1..Len(t) : t[k] \in Seq(InBounds(z))
<1>1. FlattenSeq(t) \in Seq(Subs) /\ FlattenSeq(t) \in Seq(InBounds(z))
  BY FlattenType, BoundedSubs
<1>2. ASSUME NEW k \in 1..Len(t)
      PROVE  t[k] \in Seq(InBounds(z))
  <2>1. PICK f, p, b : f = FlattenSeq(t) /\ p = t[k] /\ b = Before(t, k)
    OBVIOUS
  <2>2. p \in Seq(Subs)
    <3>1. PICK S : S = Seq(Subs)
      OBVIOUS
    <3>2. t \in Seq(S)
      BY <3>1
    <3>3. t[k] \in S
      BY <3>2
    <3>4. QED
      BY <2>1, <3>1, <3>3
  <2>3. b \in Nat /\ b + Len(p) <= Len(f) /\ \A i \in 1..Len(p) : f[b + i] = p[i]
    <3>1. SliceAt(Before(t, k), t[k], FlattenSeq(t))
      BY FlattenSlice
    <3>2. SliceAt(b, p, f)
      BY <2>1, <3>1
    <3>3. QED
      BY <3>2, Zenon DEF SliceAt
  <2>4. \A i \in 1..Len(p) : p[i] \in InBounds(z)
    <3>1. PICK R : R = InBounds(z)
      OBVIOUS
    <3>2. f \in Seq(R) /\ Len(f) \in Nat /\ Len(p) \in Nat
      BY <1>1, <2>1, <2>2, <3>1
    <3>3. \A i \in 1..Len(p) : b + i \in 1..Len(f)
      <4>1. PICK n, l : n = Len(p) /\ l = Len(f)
        OBVIOUS
      <4>2. n \in Nat /\ l \in Nat /\ b \in Nat /\ b + n <= l
        BY <2>3, <3>2, <4>1
      <4>3. \A i \in 1..n : b + i \in 1..l
        BY <4>2
      <4>4. QED
        BY <4>1, <4>3
    <3>4. \A i \in 1..Len(p) : p[i] \in R
      <4>1. \A j \in 1..Len(f) : f[j] \in R
        BY <3>2
      <4>2. QED
        BY <2>3, <3>3, <4>1, Zenon
    <3>5. QED
      BY <3>1, <3>4
  <2>5. PICK R : R = InBounds(z)
    OBVIOUS
  <2>6. p \in Seq(R)
    BY <2>2, <2>4, <2>5
  <2>7. QED
    BY <2>1, <2>5, <2>6
<1>3. QED
  BY <1>1, <1>2

\* A command is encoded: its submissions hold the scratch its plans need.
Adds(z, y, en, td, plans, e) ==
  /\ Grown(z, y)
  /\ en \in Seq(Seq(Subs)) /\ Scratches(FlattenSeq(en)) \subseteq DOMAIN z
  /\ td \in Seq(Seq(Names)) /\ td # <<>> /\ plans = Head(td)
  /\ e \in Seq(Subs) /\ Scratches(e) \subseteq DOMAIN y
  /\ Len(e) = Len(plans) /\ HeldBy(y, e) = Scratch(plans)

\* A command of a dense call keeps to the budget by itself.
LEMMA DenseAdded ==
  ASSUME MetalAssumption, NEW z, NEW y, NEW en, NEW td, NEW plans, NEW e, Adds(z, y, en, td, plans, e),
         Keeps(z, "dense", en, td)
  PROVE  Keeps(y, "dense", Append(en, e), Tail(td))
<1>1. PICK S, N : S = Seq(Subs) /\ N = Seq(Names)
  OBVIOUS
<1>2. /\ en \in Seq(S) /\ e \in S /\ td \in Seq(N) /\ td # <<>> /\ plans = Head(td)
      /\ Grown(z, y) /\ Len(e) = Len(plans) /\ HeldBy(y, e) = Scratch(plans)
  BY <1>1, Zenon DEF Adds
<1>3. /\ \A k \in 1..Len(td) : Whole(td[k])
      /\ \A k \in 1..Len(en) : Len(en[k]) > 1 => HeldBy(z, en[k]) <= Budget
  BY Zenon DEF Keeps
<1>4. Whole(plans) /\ \A k \in 1..Len(Tail(td)) : Whole(Tail(td)[k])
  <2>1. Len(td) \in Nat \ {0} /\ Head(td) = td[1] /\ Len(Tail(td)) = Len(td) - 1
        /\ \A k \in 1..Len(Tail(td)) : Tail(td)[k] = td[k + 1]
    BY <1>2
  <2>2. 1 \in 1..Len(td) /\ \A k \in 1..Len(Tail(td)) : k + 1 \in 1..Len(td)
    BY <2>1
  <2>3. QED
    BY <1>2, <1>3, <2>1, <2>2
<1>5. \A k \in 1..Len(en) : HeldBy(y, en[k]) = HeldBy(z, en[k])
  <2>1. \A k \in 1..Len(en) : en[k] \in Seq(InBounds(z))
    BY PartsBounded DEF Adds
  <2>2. z \in Seq(Nat) /\ y \in Seq(Nat) /\ Len(y) >= Len(z) /\ \A i \in 1..Len(z) : y[i] = z[i]
    BY <1>2 DEF Grown
  <2>3. QED
    BY <2>1, <2>2, HeldAgree
<1>6. PICK ap : ap = Append(en, e)
  OBVIOUS
<1>7. /\ Len(ap) = Len(en) + 1 /\ ap[Len(en) + 1] = e /\ Len(en) \in Nat
      /\ \A k \in 1..Len(en) : ap[k] = en[k]
  BY <1>2, <1>6
<1>8. ASSUME NEW k \in 1..Len(ap), Len(ap[k]) > 1
      PROVE  HeldBy(y, ap[k]) <= Budget
  <2>1. CASE k \in 1..Len(en)
    <3>1. Len(en[k]) > 1 /\ ap[k] = en[k]
      BY <1>7, <1>8, <2>1
    <3>2. HeldBy(z, en[k]) <= Budget
      BY <1>3, <2>1, <3>1
    <3>3. QED
      BY <1>5, <2>1, <3>1, <3>2
  <2>2. CASE k = Len(en) + 1
    <3>1. ap[k] = e /\ Len(plans) > 1
      BY <1>2, <1>7, <1>8, <2>2
    <3>2. Scratch(plans) <= Budget
      BY <1>4, <3>1 DEF Whole
    <3>3. QED
      BY <1>2, <3>1, <3>2
  <2>3. QED
    BY <1>7, <2>1, <2>2
<1>9. QED
  BY <1>4, <1>6, <1>8, Zenon DEF Keeps

\* Commands of another call keep to it together.
LEMMA GroupAdded ==
  ASSUME MetalAssumption, NEW z, NEW y, NEW en, NEW td, NEW plans, NEW e, Adds(z, y, en, td, plans, e),
         NEW kind, kind # "dense", Keeps(z, kind, en, td)
  PROVE  Keeps(y, kind, Append(en, e), Tail(td))
<1>1. PICK f, r, t : f = FlattenSeq(en) /\ r = Tail(td) /\ t = FlattenSeq(r)
  OBVIOUS
<1>2. /\ en \in Seq(Seq(Subs)) /\ e \in Seq(Subs) /\ td \in Seq(Seq(Names)) /\ td # <<>> /\ plans = Head(td)
      /\ Scratches(f) \subseteq DOMAIN z /\ Scratches(e) \subseteq DOMAIN y
      /\ Grown(z, y) /\ Len(e) = Len(plans) /\ HeldBy(y, e) = Scratch(plans)
  BY <1>1, Zenon DEF Adds
<1>3. plans \in Seq(Names) /\ r \in Seq(Seq(Names)) /\ FlattenSeq(td) = plans \o t /\ t \in Seq(Names)
  <2>1. PICK S : S = Seq(Names)
    OBVIOUS
  <2>2. td \in Seq(S) /\ td # <<>> /\ plans = Head(td) /\ r = Tail(td)
    BY <1>1, <1>2, <2>1
  <2>3. plans \in S /\ r \in Seq(S) /\ td = <<plans>> \o r /\ <<plans>> \in Seq(S)
    BY <2>2
  <2>4. FlattenSeq(<<plans>> \o r) = FlattenSeq(<<plans>>) \o FlattenSeq(r)
    BY <2>1, <2>3, FlattenConcat
  <2>5. FlattenSeq(<<plans>>) = plans
    BY <2>1, <2>3, FlattenSingle
  <2>6. FlattenSeq(r) \in Seq(Names)
    BY <2>1, <2>3, FlattenType
  <2>7. FlattenSeq(td) = plans \o FlattenSeq(r)
    BY <2>3, <2>4, <2>5, Zenon
  <2>8. QED
    BY <1>1, <2>1, <2>3, <2>6, <2>7
<1>4. Len(f) + Len(FlattenSeq(td)) > 1 => HeldBy(z, f) + Scratch(FlattenSeq(td)) <= Budget
  BY <1>1, Zenon DEF Keeps
<1>5. Scratch(FlattenSeq(td)) = Scratch(plans) + Scratch(t) /\ Scratch(plans) \in Nat /\ Scratch(t) \in Nat
      /\ Len(FlattenSeq(td)) = Len(plans) + Len(t) /\ Len(plans) \in Nat /\ Len(t) \in Nat
  <2>1. \A p \in Names : Need[p] \in Nat
    BY NeedType
  <2>2. Weight(plans \o t, Need) = Weight(plans, Need) + Weight(t, Need)
    BY <1>3, <2>1, WeightConcat
  <2>3. plans \o t \in Seq(Names) /\ Len(plans \o t) = Len(plans) + Len(t) /\ Len(plans) \in Nat /\ Len(t) \in Nat
    BY <1>3
  <2>4. /\ Scratch(plans) = Weight(plans, Need) /\ Scratch(t) = Weight(t, Need)
        /\ Scratch(plans \o t) = Weight(plans \o t, Need) /\ Scratch(plans) \in Nat /\ Scratch(t) \in Nat
    BY <1>3, <2>3, NeedType
  <2>5. QED
    BY <1>3, <2>2, <2>3, <2>4
<1>6. FlattenSeq(Append(en, e)) = f \o e
  BY <1>1, <1>2, FlattenAppend
<1>7. f \in Seq(Subs) /\ f \in Seq(InBounds(z)) /\ e \in Seq(InBounds(y))
  BY <1>1, <1>2, PartsBounded, BoundedSubs
<1>8. z \in Seq(Nat) /\ y \in Seq(Nat) /\ Len(y) >= Len(z) /\ \A i \in 1..Len(z) : y[i] = z[i]
  BY <1>2 DEF Grown
<1>9. HeldBy(y, f) = HeldBy(z, f) /\ f \in Seq(InBounds(y))
  BY <1>7, <1>8, HeldAgree
<1>10. HeldBy(y, f \o e) = HeldBy(y, f) + HeldBy(y, e)
  BY <1>7, <1>8, <1>9, HeldConcat
<1>11. HeldBy(z, f) \in Nat
  BY <1>7, <1>8, HeldWeight
<1>12. Len(f \o e) = Len(f) + Len(e) /\ Len(f) \in Nat /\ Len(e) \in Nat
  <2>1. PICK S : S = Subs
    OBVIOUS
  <2>2. f \in Seq(S) /\ e \in Seq(S)
    BY <1>2, <1>7, <2>1
  <2>3. QED
    BY <2>2
<1>13. PICK hf, sp, st, lf, lp, lt :
         /\ hf = HeldBy(z, f) /\ sp = Scratch(plans) /\ st = Scratch(t)
         /\ lf = Len(f) /\ lp = Len(plans) /\ lt = Len(t)
  OBVIOUS
<1>14. lf + (lp + lt) > 1 => hf + (sp + st) <= Budget
  BY <1>4, <1>5, <1>13
<1>15. hf \in Nat /\ sp \in Nat /\ st \in Nat /\ lf \in Nat /\ lp \in Nat /\ lt \in Nat /\ Budget \in Nat
  BY <1>5, <1>11, <1>12, <1>13 DEF MetalAssumption
<1>16. (lf + lp) + lt > 1 => (hf + sp) + st <= Budget
  BY <1>14, <1>15
<1>17. HeldBy(y, f \o e) = hf + sp /\ Len(f \o e) = lf + lp
  BY <1>2, <1>9, <1>10, <1>12, <1>13
<1>18. Len(f \o e) + Len(t) > 1 => HeldBy(y, f \o e) + Scratch(t) <= Budget
  BY <1>13, <1>16, <1>17
<1>19. QED
  BY <1>1, <1>6, <1>18, Zenon DEF Keeps

BudgetStays == Budgeted(memory'.sizes, host')

\* Nothing is encoded, and no group is added.
Calmer(h, g) ==
  /\ g.step # "encode"
  /\ \/ g.groups = <<>>
     \/ g.groups = h.groups /\ g.request = h.request

\* A call that stops encoding and adds no groups keeps to the budget.
LEMMA BudgetKept ==
  ASSUME Budgeted(memory.sizes, host), Calmer(host, host')
  PROVE  BudgetStays
<1>1. PICK g : g = host'
  OBVIOUS
<1>2. g.step # "encode" /\ (g.groups = <<>> \/ (g.groups = host.groups /\ g.request = host.request))
  BY <1>1 DEF Calmer
<1>3. \A k \in 1..Len(host.groups) : Sized(host.request.kind, host.groups[k])
  BY Zenon DEF Budgeted
<1>4. \A k \in 1..Len(g.groups) : Sized(g.request.kind, g.groups[k])
  <2>1. CASE g.groups = <<>>
    <3>1. Len(g.groups) = 0 /\ 1..0 = {}
      BY <2>1
    <3>2. QED
      BY <3>1
  <2>2. CASE g.groups = host.groups /\ g.request = host.request
    BY <1>3, <2>2, Zenon
  <2>3. QED
    BY <1>2, <2>1, <2>2
<1>5. QED
  BY <1>1, <1>2, <1>4, Zenon DEF Budgeted, BudgetStays

\* A call begins with the groups of its request.
LEMMA BeginCallBudget ==
  ASSUME MetalAssumption, NEW r \in Requests, BeginRequest(r)
  PROVE  BudgetStays
<1>1. host' = [Idle EXCEPT !.step = "group", !.request = r, !.groups = GroupsOf(r)]
  BY Zenon DEF BeginRequest
<1>2. PICK g, gr : g = host' /\ gr = GroupsOf(r)
  OBVIOUS
<1>3. g.step = "group" /\ g.request = r /\ g.groups = gr
  BY <1>1, <1>2 DEF Idle
<1>4. \A k \in 1..Len(gr) : Sized(r.kind, gr[k])
  BY <1>2, GroupsOfRequest, Zenon
<1>5. QED
  BY <1>2, <1>3, <1>4, Zenon DEF Budgeted, BudgetStays

\* A group begins with nothing encoded.
LEMMA BeginGroupBudget ==
  ASSUME MetalAssumption, IInv, Budgeted(memory.sizes, host), BeginGroup
  PROVE  BudgetStays
<1>1. PICK group : group = Head(host.groups)
  OBVIOUS
<1>2. PICK g, ou : /\ g = host' /\ ou = host'.outputs
  OBVIOUS
<1>3. host \in Hosts /\ Shape(host)
  BY SafeParts
<1>4. /\ host.step = "group" /\ host.groups # <<>>
      /\ \E o : g = [host EXCEPT !.step = "encode", !.todo = group, !.outputs = o]
  <2>1. /\ host.step = "group" /\ host.groups # <<>>
        /\ \/ \E m : host' = [host EXCEPT !.step = "encode", !.todo = group, !.outputs = m.taken]
           \/ host' = [host EXCEPT !.step = "encode", !.todo = group]
    BY <1>1, Zenon DEF BeginGroup
  <2>2. [host EXCEPT !.step = "encode", !.todo = group]
          = [host EXCEPT !.step = "encode", !.todo = group, !.outputs = host.outputs]
    BY <1>3 DEF Hosts
  <2>3. QED
    BY <1>2, <2>1, <2>2, Zenon
<1>5. /\ g.step = "encode" /\ g.todo = group /\ g.groups = host.groups /\ g.request = host.request
      /\ g.encoded = <<>>
  BY <1>3, <1>4 DEF Hosts, Shape
<1>6. \A k \in 1..Len(host.groups) : Sized(host.request.kind, host.groups[k])
  BY Zenon DEF Budgeted
<1>7. Sized(host.request.kind, group) /\ group \in Seq(Seq(Names))
  <2>1. PICK S, s : S = Seq(Seq(Names)) /\ s = host.groups
    OBVIOUS
  <2>2. s \in Seq(S) /\ s # <<>>
    BY <1>3, <1>4, <2>1, HostFields
  <2>3. Head(s) = s[1] /\ 1 \in 1..Len(s) /\ s[1] \in S
    BY <2>2
  <2>4. QED
    BY <1>1, <1>6, <2>1, <2>3
<1>8. PICK z, kind : z = memory'.sizes /\ kind = host.request.kind
  OBVIOUS
<1>9. CASE kind = "dense"
  <2>1. \A k \in 1..Len(group) : Whole(group[k])
    BY <1>7, <1>8, <1>9 DEF Sized
  <2>2. 1..Len(<<>>) = {}
    OBVIOUS
  <2>3. Keeps(z, kind, <<>>, group)
    BY <1>9, <2>1, <2>2 DEF Keeps
  <2>4. QED
    BY <1>2, <1>5, <1>6, <1>8, <2>3, Zenon DEF Budgeted, BudgetStays
<1>10. CASE kind # "dense"
  <2>1. Whole(FlattenSeq(group)) /\ FlattenSeq(group) \in Seq(Names)
    BY <1>7, <1>8, <1>10, FlattenType DEF Sized
  <2>2. PICK f : f = FlattenSeq(group)
    OBVIOUS
  <2>3. Len(f) \in Nat /\ Scratch(f) \in Nat /\ (Len(f) > 1 => Scratch(f) <= Budget)
    BY <2>1, <2>2, NeedType DEF Whole
  <2>4. HeldBy(z, <<>>) = 0 /\ FlattenSeq(<<>>) = <<>> /\ Len(<<>>) = 0
    <3>1. [k \in DOMAIN <<>> |-> BytesHeld(z, <<>>[k])] = <<>>
      OBVIOUS
    <3>2. HeldBy(z, <<>>) = Total(<<>>)
      BY <3>1 DEF HeldBy
    <3>3. QED
      BY <3>2, TotalEmpty, FlattenEmpty
  <2>5. 0 + Len(f) > 1 => 0 + Scratch(f) <= Budget
    BY <2>3
  <2>6. Keeps(z, kind, <<>>, group)
    BY <1>10, <2>2, <2>4, <2>5, Zenon DEF Keeps
  <2>7. QED
    BY <1>2, <1>5, <1>6, <1>8, <2>6, Zenon DEF Budgeted, BudgetStays
<1>11. QED
  BY <1>9, <1>10

\* A group is encoded.
LEMMA EndGroupBudget ==
  ASSUME MetalAssumption, IInv, Budgeted(memory.sizes, host), EndGroup
  PROVE  BudgetStays
<1>1. /\ host.step = "encode"
      /\ host' = [host EXCEPT !.step = IF host.request.kind = "shared" THEN "wait" ELSE "group",
                              !.groups = Tail(@),
                              !.submissions = @ \o FlattenSeq(host.encoded),
                              !.encoded = <<>>]
  BY Zenon DEF EndGroup
<1>2. host \in Hosts /\ Shape(host)
  BY SafeParts
<1>3. PICK g, st, s, kind : /\ g = host' /\ st = IF host.request.kind = "shared" THEN "wait" ELSE "group"
                            /\ s = host.groups /\ kind = host.request.kind
  OBVIOUS
<1>4. g.step = st /\ st # "encode" /\ g.groups = Tail(s) /\ g.request = host.request
  BY <1>1, <1>2, <1>3 DEF Hosts
<1>5. \A k \in 1..Len(s) : Sized(kind, s[k])
  BY <1>3, Zenon DEF Budgeted
<1>6. \A k \in 1..Len(Tail(s)) : Sized(kind, Tail(s)[k])
  <2>1. PICK S : S = Seq(Seq(Names))
    OBVIOUS
  <2>2. s \in Seq(S) /\ s # <<>>
    BY <1>1, <1>2, <1>3, <2>1, HostFields DEF Shape
  <2>3. Len(s) \in Nat \ {0} /\ Len(Tail(s)) = Len(s) - 1 /\ \A k \in 1..Len(Tail(s)) : Tail(s)[k] = s[k + 1]
    BY <2>2
  <2>4. \A k \in 1..Len(Tail(s)) : k + 1 \in 1..Len(s)
    BY <2>3
  <2>5. QED
    BY <1>5, <2>3, <2>4
<1>7. \A k \in 1..Len(g.groups) : Sized(g.request.kind, g.groups[k])
  BY <1>3, <1>4, <1>6
<1>8. QED
  BY <1>3, <1>4, <1>7, Zenon DEF Budgeted, BudgetStays

\* A command is encoded.
LEMMA CommitBudget ==
  ASSUME MetalAssumption, IInv, Budgeted(memory.sizes, host), Commit
  PROVE  BudgetStays
<1>1. PICK plans : plans = Head(host.todo)
  OBVIOUS
<1>2. PICK m : m = TakeAll(ScratchOf(plans))
  OBVIOUS
<1>3. PICK e, id : e = Submitted(plans, id, m.taken) /\ id = Len(commands) + 1
  OBVIOUS
<1>4. /\ host.step = "encode" /\ host.todo # <<>> /\ memory' = WithoutTaken(m)
      /\ host' = [host EXCEPT !.todo = Tail(@), !.encoded = Append(@, e)]
  BY <1>1, <1>2, <1>3, Zenon DEF Commit, Submitted
<1>5. PICK z, y, en, td, kind : /\ z = memory.sizes /\ y = memory'.sizes /\ en = host.encoded /\ td = host.todo
                                /\ kind = host.request.kind
  OBVIOUS
<1>6. host \in Hosts /\ Shape(host) /\ memory \in Memories /\ Well(memory) /\ commands \in Seq(Commands)
  BY SafeParts
<1>7. plans \in Seq(Names) /\ Len(plans) \in Nat /\ id \in Nat
  <2>1. id \in Nat
    BY <1>3, <1>6
  <2>2. QED
    BY <1>1, <1>4, <2>1, NextCommand
<1>8. PICK rs : rs = ScratchOf(plans) /\ rs \in Seq(Requested)
  BY <1>7, ScratchOfType
<1>9. Took(memory, m, rs)
  <2>1. m = TakeFrom(memory, rs)
    BY <1>2, <1>8 DEF TakeAll, TakeFrom
  <2>2. QED
    BY <1>6, <1>8, <2>1, TakeFromTakes
<1>10. Taken(memory, m, Len(rs)) /\ \A j \in 1..Len(rs) : m.sizes[m.taken[j]] = rs[j].size
  BY <1>9, Zenon DEF Took
<1>11. y = m.sizes /\ Grown(z, y)
  <2>1. y = m.sizes
    BY <1>4, <1>5 DEF WithoutTaken
  <2>2. m \in Takings
    BY <1>10, Zenon DEF Taken
  <2>3. m.sizes \in Seq(Nat) /\ memory.sizes \in Seq(Nat)
    BY <1>6, <2>2 DEF Takings, Memories
  <2>4. Len(m.sizes) >= Len(memory.sizes) /\ \A i \in 1..Len(memory.sizes) : m.sizes[i] = memory.sizes[i]
    BY <1>10, Zenon DEF Taken
  <2>5. QED
    BY <1>5, <2>1, <2>3, <2>4 DEF Grown
<1>12. m.taken \in Seq(Nat) /\ Len(m.taken) = Len(rs) /\ IsInjective(m.taken) /\ ToSet(m.taken) \subseteq 1..Len(m.sizes)
  <2>1. Len(rs) \in Nat
    BY <1>8
  <2>2. m.taken \in Seq(Nat) /\ ToSet(m.taken) \subseteq 1..Len(m.sizes)
    BY <1>6, <1>10, <2>1, TakenBuffers
  <2>3. QED
    BY <1>10, <2>2 DEF Taken
<1>13. Serves(y, m.taken, plans)
  BY <1>8, <1>10, <1>11, <1>12, Zenon DEF Serves, Grown
<1>14. HeldBy(y, e) = Scratch(plans)
  BY <1>3, <1>7, <1>13, HeldAlone, HeldFirst
<1>15. e \in Seq(Subs) /\ Len(e) = Len(plans) /\ Scratches(e) \subseteq DOMAIN y
  <2>1. PICK t : t = m.taken /\ t \in Seq(Nat) /\ Len(t) = Len(ScratchOf(plans)) /\ IsInjective(t)
    BY <1>8, <1>12
  <2>2. e \in Seq(Subs) /\ Len(e) = Len(plans)
    BY <1>3, <1>7, <2>1, SubmittedOwn, Zenon
  <2>3. Scratches(e) \subseteq ToSet(t)
    BY <1>3, <1>7, <2>1, SubmittedOwn, Zenon
  <2>4. DOMAIN y = 1..Len(y)
    BY <1>11 DEF Grown
  <2>5. QED
    BY <1>11, <1>12, <2>1, <2>2, <2>3, <2>4
<1>16. en \in Seq(Seq(Subs)) /\ td \in Seq(Seq(Names)) /\ Scratches(FlattenSeq(en)) \subseteq DOMAIN z
  <2>1. en \in Seq(Seq(Subs)) /\ td \in Seq(Seq(Names)) /\ host.submissions \in Seq(Subs)
    BY <1>5, <1>6, HostFields
  <2>2. Scratches(MineOf(host)) \subseteq DOMAIN memory.sizes
    <3>1. Free(memory, OwningOf(host, pending, images))
      BY SafeParts
    <3>2. Scratches(MineOf(host)) \subseteq OwningOf(host, pending, images)
      BY DEF OwningOf, Owning
    <3>3. QED
      BY <3>1, <3>2 DEF Free
  <2>3. Scratches(FlattenSeq(en)) \subseteq Scratches(MineOf(host))
    <3>1. PICK s, f : s = host.submissions /\ f = FlattenSeq(en)
      OBVIOUS
    <3>2. s \in Seq(Subs) /\ f \in Seq(Subs)
      BY <2>1, <3>1, FlattenType
    <3>3. Scratches(s \o f) = Scratches(s) \cup Scratches(f)
      BY <3>2, SubsConcat
    <3>4. QED
      BY <1>5, <3>1, <3>3 DEF MineOf
  <2>4. QED
    BY <1>5, <2>1, <2>2, <2>3
<1>17. Adds(z, y, en, td, plans, e)
  BY <1>1, <1>4, <1>5, <1>11, <1>14, <1>15, <1>16, Zenon DEF Adds
<1>18. Keeps(z, kind, en, td) /\ \A k \in 1..Len(host.groups) : Sized(kind, host.groups[k])
  BY <1>4, <1>5, Zenon DEF Budgeted
<1>19. Keeps(y, kind, Append(en, e), Tail(td))
  <2>1. CASE kind = "dense"
    BY <1>17, <1>18, <2>1, DenseAdded, Zenon
  <2>2. CASE kind # "dense"
    BY <1>17, <1>18, <2>2, GroupAdded, Zenon
  <2>3. QED
    BY <2>1, <2>2
<1>20. PICK g : g = host'
  OBVIOUS
<1>21. /\ g.step = "encode" /\ g.encoded = Append(en, e) /\ g.todo = Tail(td) /\ g.request = host.request
       /\ g.groups = host.groups
  BY <1>4, <1>5, <1>6, <1>20 DEF Hosts
<1>22. Budgeted(y, g)
  BY <1>5, <1>18, <1>19, <1>21, Zenon DEF Budgeted
<1>23. QED
  BY <1>5, <1>20, <1>22, Zenon DEF BudgetStays

\* Every step keeps to the budget.
LEMMA NextBudget ==
  ASSUME MetalAssumption, BInv, [SessionNext]_sessionVars
  PROVE  BudgetStays
<1>1. IInv /\ Budgeted(memory.sizes, host)
  BY Zenon DEF BInv
<1>2. host \in Hosts /\ Shape(host)
  BY <1>1, SafeParts
<1>3. Calmer(host, host') => BudgetStays
  BY <1>1, BudgetKept
<1>4. ASSUME host.step = "idle", host' = host
      PROVE  BudgetStays
  <2>1. Idle.step = "idle" /\ Idle.groups = <<>>
    BY DEF Idle
  <2>2. Calmer(host, host')
    BY <1>4 DEF Calmer
  <2>3. QED
    BY <1>3, <2>2
<1>5. CASE memory' = memory /\ host' = host
  BY <1>1, <1>5, Zenon DEF BudgetStays
<1>6. ASSUME NEW r \in Requests, BeginRequest(r)
      PROVE  BudgetStays
  BY <1>6, BeginCallBudget
<1>7. CASE BeginGroup
  BY <1>1, <1>7, BeginGroupBudget
<1>8. CASE Commit
  BY <1>1, <1>8, CommitBudget
<1>9. CASE FailEncode
  <2>1. host' = [host EXCEPT !.step = "drop", !.todo = <<>>, !.encoded = <<>>, !.outputs = <<>>]
    BY <1>9, Zenon DEF FailEncode
  <2>2. Calmer(host, host')
    BY <1>2, <2>1 DEF Hosts, Calmer
  <2>3. QED
    BY <1>3, <2>2
<1>10. CASE EndGroup
  BY <1>1, <1>10, EndGroupBudget
<1>11. CASE EndCall
  <2>1. host' = Idle
    BY <1>11, Zenon DEF EndCall
  <2>2. Calmer(host, host')
    BY <2>1 DEF Calmer, Idle
  <2>3. QED
    BY <1>3, <2>2
<1>12. ASSUME NEW k \in DOMAIN pending, BeginWait(k)
       PROVE  BudgetStays
  <2>1. host' = [Idle EXCEPT !.step = "wait", !.request = pending[k].request, !.submissions = pending[k].submissions]
    BY <1>12, Zenon DEF BeginWait
  <2>2. Calmer(host, host')
    BY <2>1 DEF Calmer, Idle
  <2>3. QED
    BY <1>3, <2>2
<1>13. ASSUME NEW k \in DOMAIN pending, BeginDrop(k)
       PROVE  BudgetStays
  <2>1. host' = [Idle EXCEPT !.step = "drop", !.submissions = pending[k].submissions]
    BY <1>13, Zenon DEF BeginDrop
  <2>2. Calmer(host, host')
    BY <2>1 DEF Calmer, Idle
  <2>3. QED
    BY <1>3, <2>2
<1>14. CASE WaitOne
  <2>1. PICK off, gt : host' = [host EXCEPT !.submissions = Tail(@), !.step = IF off THEN "drop" ELSE "wait", !.got = gt]
    BY <1>14, Zenon DEF WaitOne
  <2>2. Calmer(host, host')
    BY <1>2, <2>1 DEF Hosts, Calmer
  <2>3. QED
    BY <1>3, <2>2
<1>15. CASE DropOne
  <2>1. host.step = "drop" /\ host' = [host EXCEPT !.submissions = Tail(@)]
    BY <1>15, Zenon DEF DropOne
  <2>2. Calmer(host, host')
    BY <1>2, <2>1 DEF Hosts, Calmer
  <2>3. QED
    BY <1>3, <2>2
<1>16. CASE EndWait
  <2>1. host' = Idle \/ \E im : host' = [host EXCEPT !.step = "group", !.outputs = <<>>, !.got = <<>>, !.images = im]
    BY <1>16, Zenon DEF EndWait
  <2>2. Calmer(host, Idle)
    BY DEF Calmer, Idle
  <2>3. \A im : Calmer(host, [host EXCEPT !.step = "group", !.outputs = <<>>, !.got = <<>>, !.images = im])
    BY <1>2 DEF Hosts, Calmer
  <2>4. Calmer(host, host')
    BY <2>1, <2>2, <2>3, Zenon
  <2>5. QED
    BY <1>3, <2>4
<1>17. CASE EndDrop
  <2>1. host' = Idle
    BY <1>17, Zenon DEF EndDrop
  <2>2. Calmer(host, host')
    BY <2>1 DEF Calmer, Idle
  <2>3. QED
    BY <1>3, <2>2
<1>18. ASSUME NEW i \in images, DropImage(i)
       PROVE  BudgetStays
  <2>1. host.step = "idle" /\ host' = host
    BY <1>18, Zenon DEF DropImage
  <2>2. QED
    BY <1>4, <2>1
<1>19. ASSUME NEW a \in Addresses, ReplaceArena(a)
       PROVE  BudgetStays
  BY <1>5, <1>19, Zenon DEF ReplaceArena
<1>20. ASSUME NEW q \in DOMAIN queues, Run(q)
       PROVE  BudgetStays
  BY <1>5, <1>20, Zenon DEF Run
<1>21. CASE Quiet
  BY <1>5, <1>21, Zenon DEF Quiet, sessionVars
<1>22. CASE UNCHANGED sessionVars
  BY <1>5, <1>22, Zenon DEF sessionVars
<1>23. QED
  BY <1>6, <1>7, <1>8, <1>9, <1>10, <1>11, <1>12, <1>13, <1>14, <1>15, <1>16, <1>17, <1>18, <1>19, <1>20, <1>21, <1>22,
     Zenon DEF SessionNext

\* The invariant says that commands encoded together keep to the budget.
LEMMA BudgetWithin ==
  ASSUME MetalAssumption, BInv
  PROVE  WithinBudget
<1>1. host \in Hosts /\ Shape(host) /\ memory \in Memories
  BY SafeParts DEF BInv
<1>2. PICK z, en, td, kind : z = memory.sizes /\ en = host.encoded /\ td = host.todo /\ kind = host.request.kind
  OBVIOUS
<1>3. en \in Seq(Seq(Subs)) /\ td \in Seq(Seq(Names)) /\ z \in Seq(Nat)
  BY <1>1, <1>2, HostFields DEF Memories
<1>4. \A s : ScratchHeld(s) = HeldBy(z, s)
  BY <1>2 DEF ScratchHeld, HeldBy, BytesHeld
<1>5. CASE host.step # "encode"
  <2>1. en = <<>>
    BY <1>1, <1>2, <1>5 DEF Shape
  <2>2. ASSUME NEW group \in EncodedTogether
        PROVE  FlattenSeq(group) = <<>>
    <3>1. ToSet(<<>>) = {}
      BY DEF ToSet
    <3>2. group = <<>>
      BY <1>2, <2>1, <2>2, <3>1 DEF EncodedTogether
    <3>3. QED
      BY <3>2, FlattenEmpty
  <2>3. ~(Len(<<>>) > 1)
    OBVIOUS
  <2>4. QED
    BY <2>2, <2>3 DEF WithinBudget
<1>6. CASE host.step = "encode" /\ kind = "dense"
  <2>1. \A k \in 1..Len(en) : Len(en[k]) > 1 => HeldBy(z, en[k]) <= Budget
    BY <1>2, <1>6, Zenon DEF BInv, Budgeted, Keeps
  <2>2. ASSUME NEW group \in EncodedTogether, Len(FlattenSeq(group)) > 1
        PROVE  ScratchHeld(FlattenSeq(group)) <= Budget
    <3>1. PICK s \in ToSet(en) : group = <<s>>
      BY <1>2, <1>6, <2>2 DEF EncodedTogether
    <3>2. PICK S : S = Seq(Subs)
      OBVIOUS
    <3>3. en \in Seq(S)
      BY <1>3, <3>2
    <3>4. PICK k \in 1..Len(en) : s = en[k]
      BY <3>3 DEF ToSet
    <3>5. s \in S
      BY <3>3, <3>4
    <3>6. FlattenSeq(group) = s
      BY <3>1, <3>2, <3>5, FlattenSingle
    <3>7. QED
      BY <1>4, <2>1, <2>2, <3>4, <3>6
  <2>3. QED
    BY <2>2, Zenon DEF WithinBudget
<1>7. CASE host.step = "encode" /\ kind # "dense"
  <2>1. PICK f, g : f = FlattenSeq(en) /\ g = FlattenSeq(td)
    OBVIOUS
  <2>2. Len(f) + Len(g) > 1 => HeldBy(z, f) + Scratch(g) <= Budget
    BY <1>2, <1>7, <2>1, Zenon DEF BInv, Budgeted, Keeps
  <2>3. f \in Seq(Subs) /\ g \in Seq(Names) /\ Len(f) \in Nat /\ Len(g) \in Nat /\ Scratch(g) \in Nat
    <3>1. f \in Seq(Subs) /\ g \in Seq(Names)
      BY <1>3, <2>1, FlattenType
    <3>2. QED
      BY <3>1, NeedType
  <2>4. HeldBy(z, f) \in Nat
    <3>1. Scratches(MineOf(host)) \subseteq DOMAIN z
      <4>1. Free(memory, OwningOf(host, pending, images))
        BY SafeParts DEF BInv
      <4>2. Scratches(MineOf(host)) \subseteq OwningOf(host, pending, images)
        BY DEF OwningOf, Owning
      <4>3. QED
        BY <1>2, <4>1, <4>2 DEF Free
    <3>2. Scratches(f) \subseteq DOMAIN z
      <4>1. PICK s : s = host.submissions /\ s \in Seq(Subs)
        BY <1>1, HostFields
      <4>2. Scratches(s \o f) = Scratches(s) \cup Scratches(f)
        BY <2>3, <4>1, SubsConcat
      <4>3. QED
        BY <1>2, <2>1, <3>1, <4>1, <4>2 DEF MineOf
    <3>3. QED
      BY <1>3, <2>3, <3>2, BoundedSubs, HeldWeight
  <2>5. Len(f) > 1 => HeldBy(z, f) <= Budget
    <3>1. PICK a, b, c, d : a = Len(f) /\ b = Len(g) /\ c = HeldBy(z, f) /\ d = Scratch(g)
      OBVIOUS
    <3>2. a \in Nat /\ b \in Nat /\ c \in Nat /\ d \in Nat /\ Budget \in Nat /\ (a + b > 1 => c + d <= Budget)
      BY <2>2, <2>3, <2>4, <3>1 DEF MetalAssumption
    <3>3. a > 1 => c <= Budget
      BY <3>2
    <3>4. QED
      BY <3>1, <3>3
  <2>6. EncodedTogether = {en}
    BY <1>2, <1>7 DEF EncodedTogether
  <2>7. QED
    BY <1>4, <2>1, <2>5, <2>6 DEF WithinBudget
<1>8. QED
  BY <1>5, <1>6, <1>7

\* Buffers have one user each, and commands encoded together keep to the budget of
\* scratch, one large image excepted.
THEOREM RunningStayApart ==
  ASSUME MetalAssumption
  PROVE  SessionSpec => []RunningApart
<1>1. SessionInit => BInv
  <2>1. SUFFICES ASSUME SessionInit
                 PROVE  BInv
    OBVIOUS
  <2>2. IInv
    BY <2>1, InitSafe
  <2>3. host.step = "idle" /\ host.groups = <<>>
    BY <2>1 DEF SessionInit, Idle
  <2>4. Len(<<>>) = 0 /\ 1..0 = {}
    OBVIOUS
  <2>5. Budgeted(memory.sizes, host)
    BY <2>3, <2>4 DEF Budgeted
  <2>6. QED
    BY <2>2, <2>5 DEF BInv
<1>2. BInv /\ [SessionNext]_sessionVars => BInv'
  <2>1. SUFFICES ASSUME BInv, [SessionNext]_sessionVars
                 PROVE  BInv'
    OBVIOUS
  <2>2. IInv'
    BY <2>1, NextSafe DEF BInv
  <2>3. BudgetStays
    BY <2>1, NextBudget
  <2>4. QED
    BY <2>2, <2>3, Zenon DEF BInv, BudgetStays
<1>3. BInv => RunningApart
  BY SafeApart, BudgetWithin DEF BInv, RunningApart
<1>4. QED
  BY <1>1, <1>2, <1>3, PTL DEF SessionSpec
=============================================================================
