------------------------- MODULE MetalResultsProofs -------------------------
(***************************************************************************)
(* Proofs about what a Metal session tells its callers, for any plans,     *)
(* calls, queues, limits and failures, upon MetalSessionProofs: a wait     *)
(* returns the images of its plans, in order and from the arenas they      *)
(* name, exactly when the kernels of none of them failed, and the bytes of *)
(* a shared image stay its own.                                            *)
(*                                                                         *)
(* The invariant adds, to buffers that are apart, what they hold.  A       *)
(* status word tells whether the kernels of its image failed, and nothing  *)
(* running writes it: its buffer is owned by a submission that is waited   *)
(* for first, and a sibling that is waited for later reads it while it     *)
(* lies in the pool, before a command can take it.  The submissions a call *)
(* holds are of the plans that were encoded, in order, and of a wait those *)
(* that are done and those that are left make up what it began with.  The  *)
(* outputs of a group follow its submissions, and those that are waited    *)
(* for hold the samples of their images.                                   *)
(***************************************************************************)
EXTENDS MetalSessionProofs

-----------------------------------------------------------------------------
(***************************************************************************)
(* What the buffers show.                                                  *)
(***************************************************************************)
Words == Seq(Nat \cup {"ok", "bad"})
Picture(cs, s) == cs[s.command].images[s.image]

\* The GPU has every running command in a queue, once.
Queued(cs, qs) ==
  /\ qs \in [0..Queues - 1 -> Seq(Nat)]
  /\ \A q \in 0..Queues - 1 : \A k \in DOMAIN qs[q] : qs[q][k] \in RunningOf(cs)
  /\ \A q, r \in 0..Queues - 1 : \A j \in DOMAIN qs[q], k \in DOMAIN qs[r] :
       qs[q][j] = qs[r][k] => q = r /\ j = k

\* The images of a command have status words and outputs of their own.
Formed(x) ==
  \A k \in DOMAIN x.images :
    /\ x.images[k].status \in x.scratch /\ x.images[k].source = x.images[k].truth
    /\ x.images[k].output # 0 => x.images[k].output \notin x.scratch
    /\ \A j \in DOMAIN x.images : j # k =>
         /\ x.images[j].status = x.images[k].status => x.images[j].slot # x.images[k].slot
         /\ x.images[j].output = x.images[k].output => x.images[k].output = 0
Machine(w, z, cs, qs) ==
  w \in Seq(Words) /\ Len(w) = Len(z) /\ Queued(cs, qs) /\ \A c \in DOMAIN cs : Formed(cs[c])

\* The status word of a submission tells whether the kernels of its image failed,
\* and no other command writes it.
Verdict(x, k) == IF x.state = "done" /\ k \in x.bad THEN "bad" ELSE "ok"
Tells(cs, w, s) ==
  LET i == Picture(cs, s)
  IN  /\ i.status \in DOMAIN w
      /\ cs[s.command].state # "failed" =>
           i.slot \in DOMAIN w[i.status] /\ w[i.status][i.slot] = Verdict(cs[s.command], s.image)
      /\ \A d \in RunningOf(cs) : d # s.command => i.status \notin UseOf(cs, d)
Read(cs, w, subs) == \A k \in DOMAIN subs : Tells(cs, w, subs[k])

\* A submission of the command owns its status word.
Backed(cs, subs) ==
  \A k \in DOMAIN subs : \E j \in DOMAIN subs :
    subs[j].command = subs[k].command /\ Picture(cs, subs[k]).status \in Own(subs[j])

\* Images show the samples they are of, and so do the outputs of a group once its
\* commands are done.
Shows(w, i) == i.buffer \in DOMAIN w /\ w[i.buffer] = i.truth
Shown(cs, w, s, b) ==
  Picture(cs, s).output = b /\ (cs[s.command].state = "done" => w[b] = Picture(cs, s).source)
Outputs(cs, w, h) ==
  h.request.kind = "shared" /\ h.step \in {"encode", "wait"} =>
    /\ \A j \in DOMAIN MineOf(h) : Shown(cs, w, MineOf(h)[j], h.outputs[Len(h.got) + j])
    /\ \A k \in DOMAIN h.got : w[h.outputs[k]] = h.got[k].truth

\* The submissions of a call are of its plans, in order.
PlansOf(cs, subs) == [k \in DOMAIN subs |-> Picture(cs, subs[k]).plan]
Flat(gs) == FlattenSeq(FlattenSeq(gs))
Planned(cs, h) ==
  h.request.kind # "shared" =>
    /\ h.step = "group" => PlansOf(cs, MineOf(h)) \o Flat(h.groups) = h.request.plans
    /\ h.step = "encode" =>
         PlansOf(cs, MineOf(h)) \o (FlattenSeq(h.todo) \o Flat(Tail(h.groups))) = h.request.plans
Ordered(cs, P) == \A k \in DOMAIN P : PlansOf(cs, P[k].submissions) = P[k].request.plans

\* What was waited for, and what is still to be.
GoodIn(cs, s) == cs[s.command].state = "done" /\ s.image \notin cs[s.command].bad
Waiting(cs, h, r) ==
  h.step = "wait" /\ h.request.kind # "shared" =>
    /\ ~r.failed /\ r.got = <<>> /\ PlansOf(cs, r.submissions) = r.asked
    /\ Len(r.submissions) = Len(h.got) + Len(h.submissions)
    /\ \A j \in DOMAIN h.submissions : h.submissions[j] = r.submissions[Len(h.got) + j]
    /\ \A k \in DOMAIN h.got :
         h.got[k] = Picture(cs, r.submissions[k]) /\ GoodIn(cs, r.submissions[k])
Settled(cs, r) ==
  /\ r.failed => \E k \in DOMAIN r.submissions :
       cs[r.submissions[k].command].state # "running" /\ ~GoodIn(cs, r.submissions[k])
  /\ r.got # <<>> =>
       /\ [k \in DOMAIN r.got |-> r.got[k].plan] = r.asked
       /\ \A k \in DOMAIN r.got : r.got[k].source = r.got[k].truth
       /\ \A k \in DOMAIN r.submissions : GoodIn(cs, r.submissions[k])
Answers == [asked : Seq(Names), submissions : Seq(Subs), got : Seq(Pictures), failed : BOOLEAN]

\* What holds of the batches, images and results that callers have, and of the
\* call that is under way.
Handling(cs, w, subs) == Backed(cs, subs) /\ Read(cs, w, subs)
Results(cs, r) == r \in Answers /\ Known(cs, r.submissions) /\ Settled(cs, r)
Standing(cs, w, P, C, r) ==
  /\ \A k \in DOMAIN P : Handling(cs, w, P[k].submissions)
  /\ \A i \in C : Shows(w, i)
  /\ Ordered(cs, P) /\ Results(cs, r)
Mine(cs, w, h) ==
  /\ h.step \in {"group", "encode"} => Backed(cs, MineOf(h))
  /\ h.step \in {"group", "encode", "wait"} => Read(cs, w, MineOf(h))
Displayed(w, H) == \A k \in DOMAIN H : Shows(w, H[k])
Underway(cs, w, h, r) ==
  Mine(cs, w, h) /\ Displayed(w, h.images) /\ Outputs(cs, w, h) /\ Planned(cs, h) /\ Waiting(cs, h, r)

RInv ==
  /\ IInv
  /\ Machine(contents, memory.sizes, commands, queues)
  /\ Standing(commands, contents, pending, images, returned)
  /\ Underway(commands, contents, host, returned)
RStays ==
  /\ Machine(contents', memory'.sizes, commands', queues')
  /\ Standing(commands', contents', pending', images', returned')
  /\ Underway(commands', contents', host', returned')

\* The parts of the invariant.
LEMMA TrueParts ==
  ASSUME RInv
  PROVE  /\ IInv /\ Machine(contents, memory.sizes, commands, queues)
         /\ Standing(commands, contents, pending, images, returned)
         /\ Underway(commands, contents, host, returned)
         /\ commands \in Seq(Commands) /\ host \in Hosts /\ pending \in Seq(Handed) /\ images \in SUBSET Shared
         /\ Shape(host) /\ KnownOf(commands, host, pending)
         /\ returned \in Answers
<1>1. IInv
  BY Zenon DEF RInv
<1>2. commands \in Seq(Commands) /\ host \in Hosts /\ pending \in Seq(Handed) /\ images \in SUBSET Shared
      /\ Shape(host) /\ KnownOf(commands, host, pending)
  BY <1>1, SafeParts
<1>3. QED
  BY <1>1, <1>2, Zenon DEF RInv, Standing, Results

\* Nothing is said of a session that is idle, or drops what it has.
LEMMA UnderwayIdle ==
  ASSUME NEW cs, NEW w, NEW h, h.step = "idle" \/ h.step = "drop", Displayed(w, h.images), NEW r
  PROVE  Underway(cs, w, h, r)
<1>1. h.step # "group" /\ h.step # "encode" /\ h.step # "wait"
  OBVIOUS
<1>2. Mine(cs, w, h)
  BY <1>1, Zenon DEF Mine
<1>3. Outputs(cs, w, h)
  BY <1>1, Zenon DEF Outputs
<1>4. Planned(cs, h)
  BY <1>1, Zenon DEF Planned
<1>5. Waiting(cs, h, r)
  BY <1>1, Zenon DEF Waiting
<1>6. QED
  BY <1>2, <1>3, <1>4, <1>5, Zenon DEF Underway

\* No submissions are read.
LEMMA NothingRead ==
  /\ \A cs, w : Handling(cs, w, <<>>) /\ PlansOf(cs, <<>>) = <<>>
  /\ \A w : Displayed(w, <<>>) /\ Displayed(w, Idle.images)
<1>1. Idle.images = <<>>
  BY IdleHas
<1>2. QED
  BY <1>1 DEF Handling, Backed, Read, PlansOf, Displayed

\* The plans of submissions, of some and of more.
LEMMA PlansType ==
  ASSUME NEW cs \in Seq(Commands), NEW s \in Seq(Subs), Known(cs, s)
  PROVE  /\ PlansOf(cs, s) \in Seq(Names) /\ Len(PlansOf(cs, s)) = Len(s)
         /\ \A k \in DOMAIN s : /\ Picture(cs, s[k]) \in Pictures /\ PlansOf(cs, s)[k] = Picture(cs, s[k]).plan
                                /\ cs[s[k].command] \in Commands
<1>1. ASSUME NEW k \in DOMAIN s
      PROVE  Picture(cs, s[k]) \in Pictures /\ cs[s[k].command] \in Commands
  <2>1. s[k].command \in DOMAIN cs /\ s[k].image \in DOMAIN cs[s[k].command].images
    BY DEF Known
  <2>2. cs[s[k].command] \in Commands
    BY <2>1, ElementOfSeq
  <2>3. cs[s[k].command].images \in Seq(Pictures)
    BY <2>2 DEF Commands
  <2>4. QED
    BY <2>1, <2>2, <2>3, ElementOfSeq DEF Picture
<1>2. \A p \in Pictures : p.plan \in Names
  BY DEF Pictures
<1>3. DOMAIN s = 1..Len(s) /\ Len(s) \in Nat
  OBVIOUS
<1>4. PICK n, f : n = Len(s) /\ f = PlansOf(cs, s)
  OBVIOUS
<1>5. f = [k \in 1..n |-> Picture(cs, s[k]).plan] /\ n \in Nat /\ \A k \in 1..n : Picture(cs, s[k]).plan \in Names
  BY <1>1, <1>2, <1>3, <1>4 DEF PlansOf
<1>6. f \in Seq(Names) /\ Len(f) = n /\ \A k \in 1..n : f[k] = Picture(cs, s[k]).plan
  BY <1>5
<1>7. QED
  BY <1>1, <1>3, <1>4, <1>6

\* Plans of submissions, one after the other.
LEMMA PlansConcat ==
  ASSUME NEW cs \in Seq(Commands), NEW s \in Seq(Subs), Known(cs, s), NEW t \in Seq(Subs), Known(cs, t)
  PROVE  PlansOf(cs, s \o t) = PlansOf(cs, s) \o PlansOf(cs, t)
<1>1. PICK a, b, u : a = PlansOf(cs, s) /\ b = PlansOf(cs, t) /\ u = s \o t
  OBVIOUS
<1>2. /\ a \in Seq(Names) /\ Len(a) = Len(s) /\ b \in Seq(Names) /\ Len(b) = Len(t)
      /\ (\A k \in DOMAIN s : a[k] = Picture(cs, s[k]).plan) /\ \A k \in DOMAIN t : b[k] = Picture(cs, t[k]).plan
  BY <1>1, PlansType
<1>3. /\ Len(u) = Len(s) + Len(t) /\ u \in Seq(Subs) /\ Len(s) \in Nat /\ Len(t) \in Nat
      /\ DOMAIN s = 1..Len(s) /\ DOMAIN t = 1..Len(t) /\ DOMAIN u = 1..Len(s) + Len(t)
      /\ (\A k \in 1..Len(s) : u[k] = s[k]) /\ \A k \in 1..Len(t) : u[Len(s) + k] = t[k]
  BY <1>1
<1>4. PICK v : v = a \o b
  OBVIOUS
<1>5. /\ v \in Seq(Names) /\ Len(v) = Len(s) + Len(t) /\ DOMAIN v = 1..Len(s) + Len(t)
      /\ (\A k \in 1..Len(s) : v[k] = a[k]) /\ \A k \in 1..Len(t) : v[Len(s) + k] = b[k]
  <2>1. a \o b \in Seq(Names)
    BY <1>2
  <2>2. /\ Len(a \o b) = Len(a) + Len(b) /\ (\A i \in 1..Len(a) : (a \o b)[i] = a[i])
        /\ \A i \in 1..Len(b) : (a \o b)[Len(a) + i] = b[i]
    <3>1. PICK S : S = Names
      OBVIOUS
    <3>2. a \in Seq(S) /\ b \in Seq(S)
      BY <1>2, <3>1
    <3>3. QED
      BY <3>2, ConcatAt
  <2>3. QED
    BY <1>2, <1>3, <1>4, <2>1, <2>2
<1>6. PICK p : p = PlansOf(cs, u)
  OBVIOUS
<1>7. p = [k \in 1..Len(s) + Len(t) |-> Picture(cs, u[k]).plan]
  BY <1>3, <1>6 DEF PlansOf
<1>8. ASSUME NEW k \in 1..Len(s) + Len(t) PROVE p[k] = v[k]
  <2>1. CASE k \in 1..Len(s)
    BY <1>2, <1>3, <1>5, <1>7, <2>1
  <2>2. CASE k \notin 1..Len(s)
    <3>1. PICK l : l = k - Len(s)
      OBVIOUS
    <3>2. l \in 1..Len(t) /\ k = Len(s) + l
      BY <1>3, <2>2, <3>1
    <3>3. QED
      BY <1>2, <1>3, <1>5, <1>7, <3>2
  <2>3. QED
    BY <2>1, <2>2
<1>9. v = [k \in 1..Len(s) + Len(t) |-> v[k]]
  BY <1>5
<1>10. p = v
  BY <1>7, <1>8, <1>9
<1>11. QED
  BY <1>1, <1>4, <1>6, <1>10

\* A session that was just made.
LEMMA InitTrue ==
  ASSUME MetalAssumption, SessionInit
  PROVE  RInv
<1>1. /\ memory = [private |-> EmptyPool, shared |-> EmptyPool, sizes |-> <<>>, released |-> {}]
      /\ contents = <<>> /\ commands = <<>> /\ queues = [q \in 0..Queues - 1 |-> <<>>]
      /\ host = Idle /\ pending = <<>> /\ images = {}
      /\ returned = [asked |-> <<>>, submissions |-> <<>>, got |-> <<>>, failed |-> FALSE]
  BY Zenon DEF SessionInit
<1>2. Machine(contents, memory.sizes, commands, queues)
  <2>1. Queued(commands, queues)
    BY <1>1 DEF Queued
  <2>2. memory.sizes = <<>> /\ <<>> \in Seq(Words)
    BY <1>1
  <2>3. QED
    BY <1>1, <2>1, <2>2 DEF Machine
<1>3. Results(commands, returned)
  <2>1. /\ returned.asked = <<>> /\ returned.submissions = <<>> /\ returned.got = <<>> /\ returned.failed = FALSE
        /\ returned \in Answers
    BY <1>1 DEF Answers
  <2>2. QED
    BY <2>1 DEF Results, Known, Settled
<1>4. Standing(commands, contents, pending, images, returned)
  BY <1>1, <1>3 DEF Standing, Ordered
<1>5. Underway(commands, contents, host, returned)
  BY <1>1, IdleHas, NothingRead, UnderwayIdle
<1>6. QED
  BY <1>2, <1>4, <1>5, InitSafe, Zenon DEF RInv

\* What callers are told is true.
LEMMA TrueResults ==
  ASSUME RInv
  PROVE  ResultsTrue /\ ImagesStable
<1>1. Standing(commands, contents, pending, images, returned)
  BY TrueParts
<1>2. Settled(commands, returned) /\ \A i \in images : Shows(contents, i)
  BY <1>1, Zenon DEF Standing, Results
<1>3. \A s : Good(s) <=> GoodIn(commands, s)
  BY DEF Good, GoodIn
<1>4. ResultsTrue
  BY <1>2, <1>3 DEF Settled, ResultsTrue
<1>5. ImagesStable
  BY <1>2 DEF Shows, ImagesStable
<1>6. QED
  BY <1>4, <1>5

-----------------------------------------------------------------------------
(***************************************************************************)
(* Steps of the host that touch no contents.                               *)
(***************************************************************************)
Unmoved == contents' = contents /\ memory'.sizes = memory.sizes /\ commands' = commands /\ queues' = queues
Unheard == pending' = pending /\ images' = images /\ returned' = returned

\* Contents, commands and queues stay.
LEMMA UnmovedStays ==
  ASSUME RInv, Unmoved, Standing(commands, contents, pending', images', returned'),
         Underway(commands, contents, host', returned')
  PROVE  RStays
<1>1. contents' = contents /\ memory'.sizes = memory.sizes /\ commands' = commands /\ queues' = queues
  BY Zenon DEF Unmoved
<1>2. Machine(contents, memory.sizes, commands, queues)
  BY TrueParts
<1>3. QED
  BY <1>1, <1>2, Zenon DEF RStays

\* So do batches, images and results.
LEMMA UnheardStays ==
  ASSUME RInv, Unmoved, Unheard, Underway(commands, contents, host', returned)
  PROVE  RStays
<1>1. pending' = pending /\ images' = images /\ returned' = returned
  BY Zenon DEF Unheard
<1>2. Standing(commands, contents, pending, images, returned)
  BY TrueParts
<1>3. QED
  BY <1>1, <1>2, UnmovedStays, Zenon

\* A call begins.
LEMMA BeginCallTrue ==
  ASSUME MetalAssumption, RInv, NEW r \in Requests, BeginRequest(r)
  PROVE  RStays
<1>1. /\ host' = [Idle EXCEPT !.step = "group", !.request = r, !.groups = GroupsOf(r)]
      /\ memory' = memory /\ commands' = commands /\ contents' = contents /\ queues' = queues
      /\ Unheard
  BY Zenon DEF BeginRequest, Unheard
<1>2. /\ GroupsOf(r) \in Seq(Seq(Seq(Names))) /\ FlattenSeq(FlattenSeq(GroupsOf(r))) = r.plans
      /\ r.plans \in Seq(Names)
  BY GroupsOfRequest
<1>3. PICK g, gr : g = host' /\ gr = GroupsOf(r)
  OBVIOUS
<1>4. g = Call("group", r, gr, <<>>, <<>>, <<>>, <<>>, <<>>, <<>>)
  BY <1>1, <1>3 DEF Idle, Call
<1>5. /\ g.step = "group" /\ g.request = r /\ g.groups = gr /\ g.encoded = <<>> /\ g.submissions = <<>> /\ g.images = <<>>
  BY <1>4 DEF Call
<1>6. MineOf(g) = <<>>
  <2>1. FlattenSeq(<<>>) = <<>> /\ <<>> \o <<>> = <<>>
    BY FlattenEmpty
  <2>2. QED
    BY <1>5, <2>1, Zenon DEF MineOf
<1>7. Handling(commands, contents, <<>>) /\ PlansOf(commands, <<>>) = <<>> /\ Displayed(contents, <<>>)
  BY NothingRead, Zenon
<1>8. Mine(commands, contents, g)
  BY <1>6, <1>7, Zenon DEF Mine, Handling
<1>9. Planned(commands, g)
  <2>1. Flat(gr) = r.plans
    BY <1>2, <1>3, Zenon DEF Flat
  <2>2. <<>> \o r.plans = r.plans
    BY <1>2
  <2>3. PlansOf(commands, MineOf(g)) \o Flat(g.groups) = g.request.plans
    BY <1>5, <1>6, <1>7, <2>1, <2>2, Zenon
  <2>4. g.step # "encode"
    BY <1>5
  <2>5. QED
    BY <2>3, <2>4, Zenon DEF Planned
<1>10. Outputs(commands, contents, g) /\ Waiting(commands, g, returned)
  BY <1>5 DEF Outputs, Waiting
<1>11. Underway(commands, contents, g, returned)
  BY <1>5, <1>7, <1>8, <1>9, <1>10, Zenon DEF Underway
<1>12. QED
  BY <1>1, <1>3, <1>11, UnheardStays, Zenon DEF Unmoved

\* A call that goes on to other submissions.
LEMMA IdleTrue ==
  ASSUME RInv, Unmoved, host'.step = "idle" \/ host'.step = "drop", Displayed(contents, host'.images),
         Standing(commands, contents, pending', images', returned')
  PROVE  RStays
<1>1. Underway(commands, contents, host', returned')
  BY UnderwayIdle, Zenon
<1>2. QED
  BY <1>1, UnmovedStays, Zenon

\* A batch is waited for.
LEMMA BatchOf ==
  ASSUME RInv, NEW k \in DOMAIN pending
  PROVE  /\ pending[k].submissions \in Seq(Subs) /\ pending[k].request \in Calls /\ pending[k].request.kind # "shared"
         /\ Handling(commands, contents, pending[k].submissions)
         /\ Known(commands, pending[k].submissions)
         /\ PlansOf(commands, pending[k].submissions) = pending[k].request.plans
<1>1. /\ pending \in Seq(Handed) /\ KnownOf(commands, host, pending)
      /\ Standing(commands, contents, pending, images, returned)
  BY TrueParts
<1>2. Ordered(commands, pending) /\ Handling(commands, contents, pending[k].submissions)
  BY <1>1, Zenon DEF Standing
<1>3. QED
  BY <1>1, <1>2, PendingFields, Zenon DEF KnownOf, Ordered

\* The batches that are left.
LEMMA BatchesLeft ==
  ASSUME RInv, NEW k \in DOMAIN pending, NEW Q, Q = RemoveAt(pending, k), NEW r, Results(commands, r)
  PROVE  Standing(commands, contents, Q, images, r)
<1>1. pending \in Seq(Handed) /\ Standing(commands, contents, pending, images, returned)
  BY TrueParts
<1>2. \A i \in DOMAIN Q : \E j \in DOMAIN pending : Q[i] = pending[j]
  <2>1. PICK S, P : S = Handed /\ P = pending
    OBVIOUS
  <2>2. P \in Seq(S) /\ k \in 1..Len(P) /\ DOMAIN P = 1..Len(P) /\ Len(P) \in Nat /\ Q = RemoveAt(P, k)
    BY <1>1, <2>1
  <2>3. /\ Q \in Seq(S) /\ Len(Q) = Len(P) - 1
        /\ \A i \in 1..Len(P) - 1 : Q[i] = IF i < k THEN P[i] ELSE P[i + 1]
    BY <2>2, Removed
  <2>4. DOMAIN Q = 1..Len(P) - 1
    BY <2>3
  <2>5. ASSUME NEW i \in DOMAIN Q PROVE \E j \in DOMAIN P : Q[i] = P[j]
    <3>1. i \in DOMAIN P /\ i + 1 \in DOMAIN P
      BY <2>2, <2>4
    <3>2. QED
      BY <2>3, <2>4, <3>1
  <2>6. QED
    BY <2>1, <2>5, Zenon
<1>3. \A i \in DOMAIN Q : Handling(commands, contents, Q[i].submissions)
  BY <1>1, <1>2, Zenon DEF Standing
<1>4. Ordered(commands, Q)
  <2>1. Ordered(commands, pending)
    BY <1>1, Zenon DEF Standing
  <2>2. QED
    BY <1>2, <2>1, Zenon DEF Ordered
<1>5. QED
  BY <1>1, <1>3, <1>4, Zenon DEF Standing

\* A batch is waited for.
LEMMA BeginWaitTrue ==
  ASSUME MetalAssumption, RInv, NEW k \in DOMAIN pending, BeginWait(k)
  PROVE  RStays
<1>1. /\ pending' = RemoveAt(pending, k)
      /\ host' = [Idle EXCEPT !.step = "wait", !.request = pending[k].request, !.submissions = pending[k].submissions]
      /\ returned' = [returned EXCEPT !.asked = pending[k].request.plans, !.got = <<>>, !.failed = FALSE,
                                      !.submissions = pending[k].submissions]
      /\ memory' = memory /\ commands' = commands /\ images' = images /\ contents' = contents /\ queues' = queues
  BY Zenon DEF BeginWait
<1>2. PICK rq, su : rq = pending[k].request /\ su = pending[k].submissions
  OBVIOUS
<1>3. /\ su \in Seq(Subs) /\ rq \in Calls /\ rq.kind # "shared" /\ Handling(commands, contents, su) /\ Known(commands, su)
      /\ PlansOf(commands, su) = rq.plans
  BY <1>2, BatchOf
<1>4. PICK g, r : g = host' /\ r = returned'
  OBVIOUS
<1>5. g = Call("wait", rq, <<>>, <<>>, <<>>, <<>>, su, <<>>, <<>>)
  BY <1>1, <1>2, <1>4 DEF Idle, Call
<1>6. /\ g.step = "wait" /\ g.request = rq /\ g.submissions = su /\ g.encoded = <<>> /\ g.got = <<>> /\ g.images = <<>>
  BY <1>5 DEF Call
<1>7. returned \in Answers
  BY TrueParts
<1>8. /\ r.asked = rq.plans /\ r.got = <<>> /\ r.failed = FALSE /\ r.submissions = su /\ r \in Answers
  <2>1. rq.plans \in Seq(Names)
    BY <1>3 DEF Calls
  <2>2. r = [asked |-> rq.plans, submissions |-> su, got |-> <<>>, failed |-> FALSE]
    BY <1>1, <1>2, <1>4, <1>7 DEF Answers
  <2>3. <<>> \in Seq(Pictures)
    OBVIOUS
  <2>4. QED
    BY <1>3, <2>1, <2>2, <2>3 DEF Answers
<1>9. Results(commands, r)
  BY <1>3, <1>8 DEF Results, Settled
<1>10. Standing(commands, contents, pending', images, r)
  BY <1>1, <1>9, BatchesLeft
<1>11. MineOf(g) = su
  <2>1. FlattenSeq(<<>>) = <<>> /\ su \o <<>> = su
    BY <1>3, FlattenEmpty
  <2>2. QED
    BY <1>6, <2>1, Zenon DEF MineOf
<1>12. Mine(commands, contents, g)
  BY <1>3, <1>6, <1>11 DEF Mine, Handling
<1>13. Outputs(commands, contents, g) /\ Planned(commands, g)
  BY <1>3, <1>6 DEF Outputs, Planned
<1>14. Waiting(commands, g, r)
  <2>1. DOMAIN g.got = {} /\ Len(g.got) = 0 /\ Len(su) \in Nat /\ \A j \in DOMAIN su : 0 + j = j
    BY <1>3, <1>6
  <2>2. QED
    BY <1>3, <1>6, <1>8, <2>1 DEF Waiting
<1>15. Underway(commands, contents, g, r)
  BY <1>6, <1>12, <1>13, <1>14, NothingRead, Zenon DEF Underway
<1>16. QED
  BY <1>1, <1>4, <1>10, <1>15, UnmovedStays, Zenon DEF Unmoved

\* A batch is dropped.
LEMMA BeginDropTrue ==
  ASSUME MetalAssumption, RInv, NEW k \in DOMAIN pending, BeginDrop(k)
  PROVE  RStays
<1>1. /\ pending' = RemoveAt(pending, k)
      /\ host' = [Idle EXCEPT !.step = "drop", !.submissions = pending[k].submissions]
      /\ memory' = memory /\ commands' = commands /\ images' = images /\ contents' = contents /\ queues' = queues
      /\ returned' = returned
  BY Zenon DEF BeginDrop
<1>2. host'.step = "drop" /\ host'.images = Idle.images
  BY <1>1 DEF Idle
<1>3. Displayed(contents, host'.images)
  BY <1>2, NothingRead
<1>4. Results(commands, returned)
  BY TrueParts, Zenon DEF Standing
<1>5. Standing(commands, contents, pending', images', returned')
  BY <1>1, <1>4, BatchesLeft
<1>6. QED
  BY <1>1, <1>2, <1>3, <1>5, IdleTrue, Zenon DEF Unmoved

\* A call that failed is done with.
LEMMA EndDropTrue ==
  ASSUME MetalAssumption, RInv, EndDrop
  PROVE  RStays
<1>1. host' = Idle /\ commands' = commands /\ contents' = contents /\ queues' = queues /\ Unheard
  BY Zenon DEF EndDrop, Unheard
<1>2. memory'.sizes = memory.sizes
  BY TrueParts, EndDropStays
<1>3. Underway(commands, contents, host', returned)
  BY <1>1, IdleHas, NothingRead, UnderwayIdle
<1>4. QED
  BY <1>1, <1>2, <1>3, UnheardStays, Zenon DEF Unmoved

\* A caller drops an image.
LEMMA DropImageTrue ==
  ASSUME MetalAssumption, RInv, NEW i \in images, DropImage(i)
  PROVE  RStays
<1>1. /\ host' = host /\ commands' = commands /\ contents' = contents /\ queues' = queues
      /\ images' = images \ {i} /\ pending' = pending /\ returned' = returned
  BY Zenon DEF DropImage
<1>2. memory'.sizes = memory.sizes
  BY TrueParts, DropImageStays
<1>3. /\ Standing(commands, contents, pending, images, returned) /\ Underway(commands, contents, host, returned)
  BY TrueParts
<1>4. \A j \in images \ {i} : Shows(contents, j)
  BY <1>3 DEF Standing
<1>5. Standing(commands, contents, pending', images', returned')
  BY <1>1, <1>3, <1>4, Zenon DEF Standing
<1>6. QED
  BY <1>1, <1>2, <1>3, <1>5, UnmovedStays, Zenon DEF Unmoved

\* Nothing happens that the invariant is about.
LEMMA StillTrue ==
  ASSUME RInv, contents' = contents, memory' = memory, commands' = commands, queues' = queues, host' = host, Unheard
  PROVE  RStays
<1>1. Underway(commands, contents, host', returned)
  BY TrueParts, Zenon
<1>2. memory'.sizes = memory.sizes
  OBVIOUS
<1>3. QED
  BY <1>1, <1>2, UnheardStays, Zenon DEF Unmoved

\* A submission is dropped.
LEMMA DropOneTrue ==
  ASSUME MetalAssumption, RInv, DropOne
  PROVE  RStays
<1>1. /\ host.step = "drop" /\ host.submissions # <<>>
      /\ memory' = RecycleScratch(First) /\ host' = [host EXCEPT !.submissions = Tail(@)]
      /\ commands' = commands /\ contents' = contents /\ queues' = queues /\ Unheard
  BY Zenon DEF DropOne, Unheard
<1>2. IInv /\ host \in Hosts
  BY TrueParts
<1>3. GivenBack(memory, memory', Own(First))
  BY <1>1, <1>2, FirstOf
<1>4. memory'.sizes = memory.sizes
  BY <1>3, Zenon DEF GivenBack
<1>5. host'.step = "drop" /\ host'.images = host.images
  BY <1>1, <1>2 DEF Hosts
<1>6. Displayed(contents, host.images)
  BY TrueParts, Zenon DEF Underway
<1>7. Underway(commands, contents, host', returned)
  BY <1>5, <1>6, UnderwayIdle
<1>8. QED
  BY <1>1, <1>4, <1>7, UnheardStays, Zenon DEF Unmoved

\* A group is encoded.
LEMMA EndGroupTrue ==
  ASSUME MetalAssumption, RInv, EndGroup
  PROVE  RStays
<1>1. /\ host.step = "encode" /\ host.todo = <<>>
      /\ memory' = memory /\ commands' = commands /\ contents' = contents /\ queues' = queues /\ Unheard
  BY Zenon DEF EndGroup, Unheard
<1>2. /\ IInv /\ host \in Hosts /\ Shape(host) /\ Underway(commands, contents, host, returned)
      /\ commands \in Seq(Commands)
  BY TrueParts
<1>3. GroupEnded(host, host')
  BY <1>2, EndGroupStays
<1>4. PICK g : g = host'
  OBVIOUS
<1>5. /\ g.step = (IF host.request.kind = "shared" THEN "wait" ELSE "group") /\ g.request = host.request
      /\ g.groups = Tail(host.groups) /\ g.outputs = host.outputs /\ g.got = host.got /\ g.images = host.images
      /\ MineOf(g) = MineOf(host)
  BY <1>3, <1>4, Zenon DEF GroupEnded
<1>6. /\ Mine(commands, contents, host) /\ Displayed(contents, host.images) /\ Outputs(commands, contents, host)
      /\ Planned(commands, host)
  BY <1>2, Zenon DEF Underway
<1>7. Mine(commands, contents, g)
  BY <1>1, <1>5, <1>6 DEF Mine
<1>8. Outputs(commands, contents, g)
  BY <1>1, <1>5, <1>6 DEF Outputs
<1>9. Planned(commands, g)
  <2>1. SUFFICES ASSUME host.request.kind # "shared"
                 PROVE  PlansOf(commands, MineOf(host)) \o Flat(Tail(host.groups)) = host.request.plans
    BY <1>5 DEF Planned
  <2>2. PlansOf(commands, MineOf(host)) \o (FlattenSeq(<<>>) \o Flat(Tail(host.groups))) = host.request.plans
    BY <1>1, <1>6, <2>1 DEF Planned
  <2>3. Tail(host.groups) \in Seq(Seq(Seq(Names)))
    <3>1. PICK S, s : S = Seq(Seq(Names)) /\ s = host.groups
      OBVIOUS
    <3>2. s \in Seq(S) /\ s # <<>>
      BY <1>1, <1>2, <3>1, HostFields DEF Shape
    <3>3. Tail(s) \in Seq(S)
      BY <3>2
    <3>4. QED
      BY <3>1, <3>3
  <2>4. PICK f : f = Flat(Tail(host.groups))
    OBVIOUS
  <2>5. f \in Seq(Names)
    BY <2>3, <2>4, FlattenType DEF Flat
  <2>6. FlattenSeq(<<>>) \o f = f
    BY <2>5, FlattenEmpty
  <2>7. QED
    BY <2>2, <2>4, <2>6, Zenon
<1>10. Waiting(commands, g, returned)
  BY <1>5 DEF Waiting
<1>11. Underway(commands, contents, g, returned)
  BY <1>5, <1>6, <1>7, <1>8, <1>9, <1>10, Zenon DEF Underway
<1>12. QED
  BY <1>1, <1>4, <1>11, UnheardStays, Zenon DEF Unmoved

\* The call returns its batch, or its images.
LEMMA EndCallTrue ==
  ASSUME MetalAssumption, RInv, EndCall
  PROVE  RStays
<1>1. /\ host.step = "group" /\ host.groups = <<>> /\ host' = Idle
      /\ memory' = memory /\ commands' = commands /\ contents' = contents /\ queues' = queues /\ returned' = returned
      /\ IF host.request.kind = "shared"
         THEN images' = images \cup ToSet(host.images) /\ pending' = pending
         ELSE /\ pending' = Append(pending, [request |-> host.request, submissions |-> host.submissions])
              /\ images' = images
  BY Zenon DEF EndCall
<1>2. /\ host \in Hosts /\ Shape(host) /\ Underway(commands, contents, host, returned) /\ pending \in Seq(Handed)
      /\ Standing(commands, contents, pending, images, returned) /\ commands \in Seq(Commands)
      /\ KnownOf(commands, host, pending)
  BY TrueParts
<1>3. /\ Mine(commands, contents, host) /\ Displayed(contents, host.images) /\ Planned(commands, host)
  BY <1>2, Zenon DEF Underway
<1>4. Standing(commands, contents, pending', images', returned')
  <2>1. CASE host.request.kind = "shared"
    <3>1. images' = images \cup ToSet(host.images) /\ pending' = pending
      BY <1>1, <2>1
    <3>2. \A i \in ToSet(host.images) : Shows(contents, i)
      BY <1>3 DEF Displayed, ToSet
    <3>3. \A i \in images \cup ToSet(host.images) : Shows(contents, i)
      BY <1>2, <3>2 DEF Standing
    <3>4. QED
      BY <1>1, <1>2, <3>1, <3>3, Zenon DEF Standing
  <2>2. CASE host.request.kind # "shared"
    <3>1. PICK b, P, Q, s : /\ b = [request |-> host.request, submissions |-> s] /\ P = pending /\ Q = pending'
                            /\ s = host.submissions
      OBVIOUS
    <3>2. Q = Append(P, b) /\ images' = images
      BY <1>1, <2>2, <3>1
    <3>3. DOMAIN Q = 1..Len(P) + 1 /\ DOMAIN P = 1..Len(P) /\ Len(P) \in Nat /\ Q[Len(P) + 1] = b /\ \A k \in 1..Len(P) : Q[k] = P[k]
      BY <1>2, <3>1, <3>2
    <3>4. \A k \in DOMAIN Q : (k \in DOMAIN P /\ Q[k] = P[k]) \/ Q[k] = b
      BY <3>3
    <3>5. MineOf(host) = s /\ s \in Seq(Subs)
      <4>1. host.encoded = <<>>
        BY <1>1, <1>2 DEF Shape
      <4>2. QED
        BY <1>2, <3>1, <4>1, MineType
    <3>6. Handling(commands, contents, s)
      BY <1>1, <1>3, <3>5 DEF Mine, Handling
    <3>7. PlansOf(commands, s) = host.request.plans
      <4>1. PlansOf(commands, s) \o Flat(<<>>) = host.request.plans
        BY <1>1, <1>3, <2>2, <3>5 DEF Planned
      <4>2. Flat(<<>>) = <<>>
        BY FlattenEmpty DEF Flat
      <4>3. PlansOf(commands, s) \in Seq(Names)
        BY <1>2, <3>5, PlansType DEF KnownOf
      <4>4. \A q \in Seq(Names) : q \o <<>> = q
        OBVIOUS
      <4>5. QED
        BY <4>1, <4>2, <4>3, <4>4, Zenon
    <3>8. b.submissions = s /\ b.request = host.request
      BY <3>1
    <3>9. \A k \in DOMAIN Q : Handling(commands, contents, Q[k].submissions)
      <4>1. \A k \in DOMAIN P : Handling(commands, contents, P[k].submissions)
        BY <1>2, <3>1, Zenon DEF Standing
      <4>2. QED
        BY <3>4, <3>6, <3>8, <4>1, Zenon
    <3>10. Ordered(commands, Q)
      <4>1. Ordered(commands, P)
        BY <1>2, <3>1, Zenon DEF Standing
      <4>2. QED
        BY <3>4, <3>7, <3>8, <4>1, Zenon DEF Ordered
    <3>11. QED
      BY <1>1, <1>2, <3>1, <3>2, <3>9, <3>10, Zenon DEF Standing
  <2>3. QED
    BY <2>1, <2>2
<1>5. QED
  <2>1. host'.step = "idle" /\ Displayed(contents, host'.images)
    BY <1>1, IdleHas, NothingRead
  <2>2. QED
    BY <1>1, <1>4, <2>1, IdleTrue, Zenon DEF Unmoved

\* What a command made is what its image stands for.
LEMMA PictureTrue ==
  ASSUME RInv, NEW s \in Subs, s.command \in DOMAIN commands, s.image \in DOMAIN commands[s.command].images
  PROVE  Picture(commands, s).source = Picture(commands, s).truth
<1>1. Machine(contents, memory.sizes, commands, queues)
  BY TrueParts
<1>2. Formed(commands[s.command])
  BY <1>1, Zenon DEF Machine
<1>3. QED
  BY <1>2 DEF Formed, Picture

\* Every submission of a batch, or of a group, has been waited for.
LEMMA EndWaitTrue ==
  ASSUME MetalAssumption, RInv, EndWait
  PROVE  RStays
<1>1. /\ host.step = "wait" /\ host.submissions = <<>>
      /\ IF host.request.kind = "shared" THEN returned' = returned
         ELSE returned' = [returned EXCEPT !.got = host.got] /\ host' = Idle
      /\ memory' = memory /\ commands' = commands /\ contents' = contents /\ queues' = queues
      /\ pending' = pending /\ images' = images
  BY Zenon DEF EndWait
<1>2. /\ host \in Hosts /\ Shape(host) /\ Underway(commands, contents, host, returned) /\ IInv
      /\ Standing(commands, contents, pending, images, returned) /\ commands \in Seq(Commands)
      /\ returned \in Answers
  BY TrueParts
<1>3. /\ Mine(commands, contents, host) /\ Displayed(contents, host.images) /\ Outputs(commands, contents, host)
      /\ Waiting(commands, host, returned)
  BY <1>2, Zenon DEF Underway
<1>4. CASE host.request.kind = "shared"
  <2>1. PICK g, H, K : g = host' /\ H = host.images /\ K = Made(host)
    OBVIOUS
  <2>2. ImagesMade(host, host')
    BY <1>2, <1>4, EndWaitStays
  <2>3. /\ K \in Seq(Shared) /\ Len(host.got) = Len(host.outputs)
        /\ g.step = "group" /\ g.request = host.request /\ MineOf(g) = <<>> /\ g.images = H \o K
    BY <2>1, <2>2, Zenon DEF ImagesMade
  <2>4. Mine(commands, contents, g)
    <3>1. Handling(commands, contents, <<>>)
      BY NothingRead
    <3>2. QED
      BY <2>3, <3>1, Zenon DEF Mine, Handling
  <2>5. Outputs(commands, contents, g) /\ Planned(commands, g) /\ Waiting(commands, g, returned)
    BY <1>4, <2>3 DEF Outputs, Planned, Waiting
  <2>6. \A k \in DOMAIN host.got : contents[host.outputs[k]] = host.got[k].truth
    BY <1>1, <1>3, <1>4 DEF Outputs
  <2>7. ToSet(host.outputs) \subseteq DOMAIN contents
    <3>1. Free(memory, OwningOf(host, pending, images)) /\ memory \in Memories
      BY <1>2, SafeParts
    <3>2. ToSet(host.outputs) \subseteq DOMAIN memory.sizes
      BY <3>1 DEF Free, OwningOf, Owning
    <3>3. Machine(contents, memory.sizes, commands, queues)
      BY TrueParts
    <3>4. contents \in Seq(Words) /\ Len(contents) = Len(memory.sizes) /\ memory.sizes \in Seq(Nat)
      BY <3>1, <3>3 DEF Machine, Memories
    <3>5. DOMAIN contents = DOMAIN memory.sizes
      BY <3>4
    <3>6. QED
      BY <3>2, <3>5
  <2>8. Displayed(contents, K)
    <3>1. SUFFICES ASSUME NEW k \in DOMAIN host.got
                   PROVE  Shows(contents, SharedImage(host.got[k], host.outputs[k]))
      BY <2>1 DEF Displayed, Made
    <3>2. host.outputs[k] \in ToSet(host.outputs)
      <4>1. PICK gt, ou : gt = host.got /\ ou = host.outputs
        OBVIOUS
      <4>2. gt \in Seq(Pictures) /\ ou \in Seq(Nat) /\ Len(gt) = Len(ou)
        BY <1>2, <2>3, <4>1, HostFields
      <4>3. DOMAIN gt = DOMAIN ou
        BY <4>2
      <4>4. QED
        BY <4>1, <4>3 DEF ToSet
    <3>3. QED
      BY <2>6, <2>7, <3>2 DEF Shows, SharedImage
  <2>9. Displayed(contents, H \o K)
    <3>1. H \in Seq(Shared) /\ K \in Seq(Shared)
      BY <1>2, <2>1, <2>3, HostFields
    <3>2. \A i \in ToSet(H) \cup ToSet(K) : Shows(contents, i)
      BY <1>3, <2>1, <2>8 DEF Displayed, ToSet
    <3>3. ToSet(H \o K) = ToSet(H) \cup ToSet(K)
      BY <3>1, ConcatSet
    <3>4. \A k \in DOMAIN (H \o K) : (H \o K)[k] \in ToSet(H \o K)
      BY DEF ToSet
    <3>5. QED
      BY <3>2, <3>3, <3>4, Zenon DEF Displayed
  <2>10. Underway(commands, contents, g, returned)
    BY <2>3, <2>4, <2>5, <2>9, Zenon DEF Underway
  <2>11. QED
    BY <1>1, <1>4, <2>1, <2>10, UnheardStays, Zenon DEF Unmoved, Unheard
<1>5. CASE host.request.kind # "shared"
  <2>1. PICK r, t, got, subs : r = returned /\ t = returned' /\ got = host.got /\ subs = r.submissions
    OBVIOUS
  <2>2. t = [r EXCEPT !.got = got] /\ host' = Idle
    BY <1>1, <1>5, <2>1
  <2>3. got \in Seq(Pictures) /\ r \in Answers /\ subs \in Seq(Subs)
    BY <1>2, <2>1, HostFields DEF Answers
  <2>4. t \in Answers /\ t.asked = r.asked /\ t.submissions = subs /\ t.got = got /\ t.failed = r.failed
    BY <2>1, <2>2, <2>3 DEF Answers
  <2>5. /\ ~r.failed /\ PlansOf(commands, subs) = r.asked
        /\ Len(subs) = Len(got) + Len(host.submissions)
        /\ \A k \in DOMAIN got : got[k] = Picture(commands, subs[k]) /\ GoodIn(commands, subs[k])
    BY <1>1, <1>3, <1>5, <2>1 DEF Waiting
  <2>6. DOMAIN subs = DOMAIN got
    <3>1. Len(host.submissions) = 0
      BY <1>1
    <3>2. QED
      BY <2>3, <2>5, <3>1
  <2>7. Known(commands, subs)
    BY <1>2, <2>1, Zenon DEF Standing, Results
  <2>8. [k \in DOMAIN got |-> got[k].plan] = t.asked
    BY <2>4, <2>5, <2>6 DEF PlansOf
  <2>9. \A k \in DOMAIN got : got[k].source = got[k].truth
    <3>1. SUFFICES ASSUME NEW k \in DOMAIN got PROVE got[k].source = got[k].truth
      OBVIOUS
    <3>2. subs[k] \in Subs
      BY <2>3, <2>6, ElementOfSeq
    <3>3. subs[k].command \in DOMAIN commands /\ subs[k].image \in DOMAIN commands[subs[k].command].images
      BY <2>6, <2>7 DEF Known
    <3>4. QED
      BY <2>5, <3>2, <3>3, PictureTrue
  <2>10. Results(commands, t)
    BY <2>4, <2>5, <2>6, <2>7, <2>8, <2>9, Zenon DEF Results, Settled
  <2>11. Standing(commands, contents, pending', images', returned')
    BY <1>1, <1>2, <2>1, <2>10, Zenon DEF Standing
  <2>12. host'.step = "idle" /\ Displayed(contents, host'.images)
    BY <2>2, IdleHas, NothingRead
  <2>13. QED
    BY <1>1, <2>11, <2>12, IdleTrue, Zenon DEF Unmoved
<1>6. QED
  BY <1>4, <1>5

\* The status word tells whether the first submission is good.
LEMMA FirstTold ==
  ASSUME MetalAssumption, RInv, host.step = "wait", host.submissions # <<>>, Completed(First)
  PROVE  /\ First \in Subs /\ First.command \in DOMAIN commands /\ First.image \in DOMAIN commands[First.command].images
         /\ ImageOf(First) = Picture(commands, First)
         /\ commands[First.command].state # "running"
         /\ ~GoodIn(commands, First) <=>
              \/ commands[First.command].state = "failed"
              \/ contents[ImageOf(First).status][ImageOf(First).slot] # "ok"
<1>1. /\ IInv /\ commands \in Seq(Commands) /\ host \in Hosts /\ Shape(host)
      /\ Underway(commands, contents, host, returned)
  BY TrueParts
<1>2. /\ First \in Subs /\ First.command \in DOMAIN commands /\ First.image \in DOMAIN commands[First.command].images
  BY <1>1, FirstOf
<1>3. MineOf(host) = host.submissions /\ host.submissions \in Seq(Subs)
  <2>1. host.encoded = <<>>
    BY <1>1 DEF Shape
  <2>2. QED
    BY <1>1, <2>1, MineType
<1>4. Tells(commands, contents, First)
  <2>1. Read(commands, contents, host.submissions)
    BY <1>1, <1>3 DEF Underway, Mine
  <2>2. First = host.submissions[1] /\ 1 \in DOMAIN host.submissions
    BY <1>3 DEF First
  <2>3. QED
    BY <2>1, <2>2, Zenon DEF Read
<1>5. PICK x, i, b : x = commands[First.command] /\ i = Picture(commands, First) /\ b = contents[i.status][i.slot]
  OBVIOUS
<1>6. ImageOf(First) = i
  BY <1>5 DEF ImageOf, Picture
<1>7. x.state \in {"running", "done", "failed"}
  <2>1. x \in Commands
    BY <1>1, <1>2, <1>5, ElementOfSeq
  <2>2. QED
    BY <2>1 DEF Commands
<1>8. x.state # "running"
  BY <1>5 DEF Completed
<1>9. x.state # "failed" => b = Verdict(x, First.image)
  BY <1>4, <1>5 DEF Tells
<1>10. GoodIn(commands, First) <=> x.state = "done" /\ First.image \notin x.bad
  BY <1>5 DEF GoodIn
<1>11. ~GoodIn(commands, First) <=> x.state = "failed" \/ b # "ok"
  <2>1. CASE x.state = "failed"
    BY <1>10, <2>1
  <2>2. CASE x.state = "done"
    BY <1>9, <1>10, <2>2 DEF Verdict
  <2>3. QED
    BY <1>7, <1>8, <2>1, <2>2
<1>12. QED
  BY <1>2, <1>5, <1>6, <1>8, <1>11

\* A submission that is not good ends the wait.
LEMMA WaitEnds ==
  ASSUME MetalAssumption, RInv, host.step = "wait", host.submissions # <<>>,
         commands[First.command].state # "running", ~GoodIn(commands, First),
         NEW t, t = IF host.request.kind # "shared" THEN [returned EXCEPT !.failed = TRUE] ELSE returned
  PROVE  Results(commands, t)
<1>1. /\ host \in Hosts /\ Underway(commands, contents, host, returned)
      /\ Standing(commands, contents, pending, images, returned)
  BY TrueParts
<1>2. Results(commands, returned)
  BY <1>1, Zenon DEF Standing
<1>3. CASE host.request.kind = "shared"
  BY <1>2, <1>3
<1>4. CASE host.request.kind # "shared"
  <2>1. PICK r, M, g : r = returned /\ M = host.submissions /\ g = Len(host.got)
    OBVIOUS
  <2>2. Waiting(commands, host, r)
    BY <1>1, <2>1, Zenon DEF Underway
  <2>3. /\ r.got = <<>> /\ Len(r.submissions) = g + Len(M)
        /\ \A j \in DOMAIN M : M[j] = r.submissions[g + j]
    BY <1>4, <2>1, <2>2 DEF Waiting
  <2>4. t = [r EXCEPT !.failed = TRUE] /\ r \in Answers /\ Known(commands, r.submissions)
    BY <1>2, <1>4, <2>1 DEF Results
  <2>5. t \in Answers /\ t.submissions = r.submissions /\ t.got = <<>>
    BY <2>3, <2>4 DEF Answers
  <2>6. g + 1 \in DOMAIN r.submissions /\ r.submissions[g + 1] = First
    <3>1. M \in Seq(Subs) /\ M # <<>> /\ g \in Nat /\ r.submissions \in Seq(Subs)
      BY <1>1, <2>1, <2>4, HostFields DEF Answers
    <3>2. 1 \in DOMAIN M /\ M[1] = First /\ Len(M) \in Nat \ {0}
      BY <2>1, <3>1 DEF First
    <3>3. QED
      BY <2>3, <3>1, <3>2
  <2>7. Settled(commands, t)
    BY <2>5, <2>6 DEF Settled
  <2>8. QED
    BY <2>4, <2>5, <2>7, Zenon DEF Results
<1>5. QED
  BY <1>3, <1>4

\* The next submission of a wait, once the first is good.
LEMMA WaitGoesOn ==
  ASSUME MetalAssumption, RInv, host.step = "wait", host.submissions # <<>>, GoodIn(commands, First),
         First \in Subs, First.command \in DOMAIN commands, First.image \in DOMAIN commands[First.command].images,
         NEW g, g.step = "wait", g.request = host.request, g.outputs = host.outputs, g.images = host.images,
         g.encoded = <<>>, g.submissions = Tail(host.submissions), g.got = Append(host.got, Picture(commands, First))
  PROVE  Underway(commands, contents, g, returned)
<1>1. /\ host \in Hosts /\ Shape(host) /\ Underway(commands, contents, host, returned) /\ commands \in Seq(Commands)
      /\ returned \in Answers
  BY TrueParts
<1>2. PICK M, T, n, p, q : /\ M = host.submissions /\ T = Tail(M) /\ n = Len(host.got) /\ p = Picture(commands, First)
                           /\ q = host.got
  OBVIOUS
<1>3. M \in Seq(Subs) /\ M # <<>> /\ MineOf(host) = M /\ q \in Seq(Pictures) /\ n \in Nat
  <2>1. host.encoded = <<>>
    BY <1>1 DEF Shape
  <2>2. QED
    BY <1>1, <1>2, <2>1, MineType, HostFields
<1>4. /\ T \in Seq(Subs) /\ Len(T) = Len(M) - 1 /\ Len(M) \in Nat /\ (\A j \in DOMAIN T : T[j] = M[j + 1] /\ j + 1 \in DOMAIN M /\ j \in Nat)
      /\ 1 \in DOMAIN M /\ M[1] = First
  <2>1. 1 \in DOMAIN M /\ M[1] = First /\ Len(M) \in Nat
    BY <1>2, <1>3 DEF First
  <2>2. T \in Seq(Subs) /\ Len(T) = Len(M) - 1 /\ \A j \in 1..Len(M) - 1 : T[j] = M[j + 1]
    BY <1>2, <1>3
  <2>3. DOMAIN T = 1..Len(M) - 1 /\ DOMAIN M = 1..Len(M)
    BY <1>3, <2>1, <2>2
  <2>4. QED
    BY <2>1, <2>2, <2>3
<1>5. MineOf(g) = T
  <2>1. FlattenSeq(<<>>) = <<>> /\ T \o <<>> = T
    BY <1>4, FlattenEmpty
  <2>2. QED
    BY <1>2, <2>1, Zenon DEF MineOf
<1>6. PICK got : got = g.got
  OBVIOUS
<1>7. p \in Pictures
  <2>1. commands[First.command] \in Commands
    BY <1>1, ElementOfSeq
  <2>2. commands[First.command].images \in Seq(Pictures)
    BY <2>1 DEF Commands
  <2>3. QED
    BY <1>2, <2>2, ElementOfSeq DEF Picture
<1>8. /\ Len(got) = n + 1 /\ DOMAIN got = 1..n + 1 /\ got[n + 1] = p /\ (\A k \in 1..n : got[k] = q[k]) /\ DOMAIN q = 1..n
  BY <1>2, <1>3, <1>6, <1>7
<1>9. Mine(commands, contents, g)
  <2>1. Read(commands, contents, M)
    BY <1>1, <1>3 DEF Underway, Mine
  <2>2. Read(commands, contents, T)
    BY <1>4, <2>1 DEF Read
  <2>3. QED
    BY <1>5, <2>2 DEF Mine
<1>10. Outputs(commands, contents, g)
  <2>1. SUFFICES ASSUME host.request.kind = "shared"
                 PROVE  /\ \A j \in DOMAIN T : Shown(commands, contents, T[j], host.outputs[n + 1 + j])
                        /\ \A k \in 1..n + 1 : contents[host.outputs[k]] = got[k].truth
    BY <1>5, <1>6, <1>8 DEF Outputs
  <2>2. /\ \A j \in DOMAIN M : Shown(commands, contents, M[j], host.outputs[n + j])
        /\ \A k \in DOMAIN q : contents[host.outputs[k]] = q[k].truth
    BY <1>1, <1>2, <1>3, <2>1 DEF Underway, Outputs
  <2>3. ASSUME NEW j \in DOMAIN T PROVE Shown(commands, contents, T[j], host.outputs[n + 1 + j])
    <3>1. T[j] = M[j + 1] /\ j + 1 \in DOMAIN M /\ n + (j + 1) = n + 1 + j
      BY <1>3, <1>4
    <3>2. Shown(commands, contents, M[j + 1], host.outputs[n + (j + 1)])
      BY <2>2, <3>1, Zenon
    <3>3. QED
      BY <3>1, <3>2, Zenon
  <2>4. contents[host.outputs[n + 1]] = p.truth
    <3>1. Shown(commands, contents, First, host.outputs[n + 1])
      BY <1>4, <2>2
    <3>2. contents[host.outputs[n + 1]] = p.source
      BY <1>2, <3>1 DEF Shown, GoodIn
    <3>3. p.source = p.truth
      BY <1>2, PictureTrue
    <3>4. QED
      BY <3>2, <3>3
  <2>5. \A k \in 1..n + 1 : k \in 1..n \/ k = n + 1
    BY <1>3
  <2>6. QED
    BY <1>8, <2>2, <2>3, <2>4, <2>5
<1>11. Planned(commands, g)
  BY DEF Planned
<1>12. Waiting(commands, g, returned)
  <2>1. PICK r, u : r = returned /\ u = r.submissions
    OBVIOUS
  <2>2. SUFFICES ASSUME host.request.kind # "shared"
                 PROVE  /\ ~r.failed /\ r.got = <<>> /\ PlansOf(commands, u) = r.asked
                        /\ Len(u) = n + 1 + Len(T)
                        /\ \A j \in DOMAIN T : T[j] = u[n + 1 + j]
                        /\ \A k \in 1..n + 1 : got[k] = Picture(commands, u[k]) /\ GoodIn(commands, u[k])
    BY <1>2, <1>6, <1>8, <2>1 DEF Waiting
  <2>3. /\ ~r.failed /\ r.got = <<>> /\ PlansOf(commands, u) = r.asked
        /\ Len(u) = n + Len(M)
        /\ \A j \in DOMAIN M : M[j] = u[n + j]
        /\ \A k \in DOMAIN q : q[k] = Picture(commands, u[k]) /\ GoodIn(commands, u[k])
    BY <1>1, <1>2, <2>1, <2>2 DEF Underway, Waiting
  <2>4. Len(u) = n + 1 + Len(T)
    BY <1>3, <1>4, <2>3
  <2>5. ASSUME NEW j \in DOMAIN T PROVE T[j] = u[n + 1 + j]
    <3>1. T[j] = M[j + 1] /\ j + 1 \in DOMAIN M /\ n + (j + 1) = n + 1 + j
      BY <1>3, <1>4
    <3>2. M[j + 1] = u[n + (j + 1)]
      BY <2>3, <3>1, Zenon
    <3>3. QED
      BY <3>1, <3>2, Zenon
  <2>6. u[n + 1] = First
    BY <1>4, <2>3
  <2>7. ASSUME NEW k \in 1..n + 1 PROVE got[k] = Picture(commands, u[k]) /\ GoodIn(commands, u[k])
    <3>1. CASE k \in 1..n
      BY <1>8, <2>3, <3>1
    <3>2. CASE k = n + 1
      BY <1>2, <1>8, <2>6, <3>2
    <3>3. QED
      BY <1>3, <3>1, <3>2
  <2>8. QED
    BY <2>3, <2>4, <2>5, <2>7
<1>13. Displayed(contents, g.images)
  BY <1>1, Zenon DEF Underway
<1>14. QED
  BY <1>9, <1>10, <1>11, <1>12, <1>13, Zenon DEF Underway

\* A submission is waited for.
LEMMA WaitOneTrue ==
  ASSUME MetalAssumption, RInv, WaitOne
  PROVE  RStays
<1> DEFINE lost == commands[First.command].state = "failed"
           bad  == contents[ImageOf(First).status][ImageOf(First).slot] # "ok"
<1>1. /\ host.step = "wait" /\ host.submissions # <<>> /\ Completed(First)
      /\ memory' = IF lost THEN ReleaseBuffers(Scratches(<<First>>)) ELSE RecycleScratch(First)
      /\ host' = [host EXCEPT !.submissions = Tail(@),
                              !.step = IF lost \/ bad THEN "drop" ELSE "wait",
                              !.got = IF lost \/ bad THEN @ ELSE Append(@, ImageOf(First))]
      /\ returned' = IF (lost \/ bad) /\ host.request.kind # "shared"
                     THEN [returned EXCEPT !.failed = TRUE] ELSE returned
      /\ commands' = commands /\ contents' = contents /\ queues' = queues /\ pending' = pending /\ images' = images
  BY Zenon DEF WaitOne
<1>2. /\ First \in Subs /\ First.command \in DOMAIN commands /\ First.image \in DOMAIN commands[First.command].images
      /\ ImageOf(First) = Picture(commands, First)
      /\ commands[First.command].state # "running"
      /\ ~GoodIn(commands, First) <=> lost \/ bad
  BY <1>1, FirstTold
<1> HIDE DEF lost, bad
<1>3. /\ IInv /\ host \in Hosts /\ Shape(host) /\ Standing(commands, contents, pending, images, returned)
      /\ Underway(commands, contents, host, returned)
  BY TrueParts
<1>4. GivenBack(memory, memory', Own(First))
  BY <1>1, <1>3, FirstOf
<1>5. memory'.sizes = memory.sizes
  BY <1>4, Zenon DEF GivenBack
<1>6. Unmoved
  BY <1>1, <1>5, Zenon DEF Unmoved
<1>7. Displayed(contents, host.images)
  BY <1>3, Zenon DEF Underway
<1>8. CASE lost \/ bad
  <2>1. host'.step = "drop" /\ host'.images = host.images
    BY <1>1, <1>3, <1>8 DEF Hosts
  <2>2. Results(commands, returned')
    <3>1. PICK t : t = returned'
      OBVIOUS
    <3>2. t = IF host.request.kind # "shared" THEN [returned EXCEPT !.failed = TRUE] ELSE returned
      BY <1>1, <1>8, <3>1
    <3>3. QED
      BY <1>1, <1>2, <1>8, <3>1, <3>2, WaitEnds
  <2>3. Standing(commands, contents, pending', images', returned')
    BY <1>1, <1>3, <2>2, Zenon DEF Standing
  <2>4. QED
    BY <1>6, <1>7, <2>1, <2>3, IdleTrue, Zenon
<1>9. CASE ~(lost \/ bad)
  <2>1. PICK g : g = host'
    OBVIOUS
  <2>2. /\ g.step = "wait" /\ g.request = host.request /\ g.outputs = host.outputs /\ g.images = host.images
        /\ g.encoded = host.encoded /\ g.submissions = Tail(host.submissions)
        /\ g.got = Append(host.got, ImageOf(First))
    BY <1>1, <1>3, <1>9, <2>1 DEF Hosts
  <2>3. g.encoded = <<>>
    BY <1>1, <1>3, <2>2 DEF Shape
  <2>4. GoodIn(commands, First) /\ g.got = Append(host.got, Picture(commands, First))
    BY <1>2, <1>9, <2>2
  <2>5. Underway(commands, contents, g, returned)
    BY <1>1, <1>2, <2>2, <2>3, <2>4, WaitGoesOn, Zenon
  <2>6. Unheard
    BY <1>1, <1>9, Zenon DEF Unheard
  <2>7. QED
    BY <1>6, <2>1, <2>5, <2>6, UnheardStays, Zenon
<1>10. QED
  BY <1>8, <1>9

-----------------------------------------------------------------------------
(***************************************************************************)
(* Steps that take buffers.                                                *)
(***************************************************************************)
\* Buffers in Z are written to, and commands are added that use no other; what
\* was there stays.
Changed(cs, bs, w, v, Z) ==
  /\ DOMAIN cs \subseteq DOMAIN bs /\ \A c \in DOMAIN cs : bs[c] = cs[c]
  /\ DOMAIN w \subseteq DOMAIN v /\ \A b \in DOMAIN w \ Z : v[b] = w[b]
  /\ \A d \in RunningOf(bs) : d \in RunningOf(cs) \/ UseOf(bs, d) \subseteq Z

\* Submissions of buffers that are not written to read what they did.
LEMMA ReadKept ==
  ASSUME NEW cs, NEW bs, NEW w, NEW v, NEW Z, Changed(cs, bs, w, v, Z), NEW subs, Known(cs, subs),
         Handling(cs, w, subs), Scratches(subs) \cap Z = {}
  PROVE  Handling(bs, v, subs) /\ PlansOf(bs, subs) = PlansOf(cs, subs) /\ Known(bs, subs)
<1>1. /\ DOMAIN cs \subseteq DOMAIN bs /\ \A c \in DOMAIN cs : bs[c] = cs[c]
      /\ DOMAIN w \subseteq DOMAIN v /\ \A b \in DOMAIN w \ Z : v[b] = w[b]
      /\ \A d \in RunningOf(bs) : d \in RunningOf(cs) \/ UseOf(bs, d) \subseteq Z
  BY DEF Changed
<1>2. ASSUME NEW k \in DOMAIN subs
      PROVE  /\ subs[k].command \in DOMAIN cs /\ bs[subs[k].command] = cs[subs[k].command]
             /\ Picture(bs, subs[k]) = Picture(cs, subs[k])
  BY <1>1, <1>2 DEF Known, Picture
<1>3. Known(bs, subs)
  BY <1>1, <1>2 DEF Known
<1>4. PlansOf(bs, subs) = PlansOf(cs, subs)
  BY <1>2 DEF PlansOf
<1>5. Backed(bs, subs)
  <2>1. Backed(cs, subs)
    BY DEF Handling
  <2>2. QED
    BY <1>2, <2>1 DEF Backed
<1>6. ASSUME NEW k \in DOMAIN subs PROVE Tells(bs, v, subs[k])
  <2>1. PICK s, i : s = subs[k] /\ i = Picture(cs, subs[k])
    OBVIOUS
  <2>2. Tells(cs, w, s)
    BY <2>1, Zenon DEF Handling, Read
  <2>3. i.status \notin Z
    <3>1. PICK j \in DOMAIN subs : i.status \in Own(subs[j])
      BY <2>1 DEF Handling, Backed
    <3>2. i.status \in Scratches(subs)
      BY <3>1 DEF Own, Scratches
    <3>3. QED
      BY <3>2
  <2>4. s.command \in DOMAIN cs /\ bs[s.command] = cs[s.command] /\ Picture(bs, s) = i /\ Picture(cs, s) = i
    BY <1>2, <2>1
  <2>5. i.status \in DOMAIN w
    BY <2>2, <2>4 DEF Tells
  <2>6. i.status \in DOMAIN v /\ v[i.status] = w[i.status]
    BY <1>1, <2>3, <2>5
  <2>7. ASSUME NEW d \in RunningOf(bs), d # s.command PROVE i.status \notin UseOf(bs, d)
    <3>1. CASE d \in RunningOf(cs)
      <4>1. UseOf(bs, d) = UseOf(cs, d)
        BY <1>1, <3>1 DEF RunningOf, UseOf
      <4>2. i.status \notin UseOf(cs, d)
        BY <2>2, <2>4, <2>7, <3>1, Zenon DEF Tells
      <4>3. QED
        BY <4>1, <4>2
    <3>2. CASE UseOf(bs, d) \subseteq Z
      BY <2>3, <3>2
    <3>3. QED
      BY <1>1, <3>1, <3>2
  <2>8. Verdict(bs[s.command], s.image) = Verdict(cs[s.command], s.image)
    BY <2>4
  <2>9. cs[s.command].state # "failed" => i.slot \in DOMAIN w[i.status] /\ w[i.status][i.slot] = Verdict(cs[s.command], s.image)
    BY <2>2, <2>4 DEF Tells
  <2>10. Tells(bs, v, s)
    BY <2>4, <2>6, <2>7, <2>9 DEF Tells
  <2>11. QED
    BY <2>1, <2>10
<1>7. QED
  BY <1>3, <1>4, <1>5, <1>6 DEF Handling, Read

\* What callers have and were told stays true.
LEMMA StandingKept ==
  ASSUME NEW cs, NEW bs, NEW w, NEW v, NEW Z, Changed(cs, bs, w, v, Z), NEW P, NEW C, NEW r,
         Standing(cs, w, P, C, r), \A k \in DOMAIN P : Known(cs, P[k].submissions),
         (BatchBuffers(P) \cup ImageBuffers(C)) \cap Z = {}
  PROVE  Standing(bs, v, P, C, r)
<1>1. /\ DOMAIN cs \subseteq DOMAIN bs /\ \A c \in DOMAIN cs : bs[c] = cs[c]
      /\ DOMAIN w \subseteq DOMAIN v /\ \A b \in DOMAIN w \ Z : v[b] = w[b]
  BY DEF Changed
<1>2. /\ \A k \in DOMAIN P : Handling(cs, w, P[k].submissions)
      /\ \A i \in C : Shows(w, i)
      /\ Ordered(cs, P) /\ Results(cs, r)
  BY Zenon DEF Standing
<1>3. ASSUME NEW k \in DOMAIN P
      PROVE  Handling(bs, v, P[k].submissions) /\ PlansOf(bs, P[k].submissions) = PlansOf(cs, P[k].submissions)
  <2>1. Scratches(P[k].submissions) \subseteq BatchBuffers(P)
    BY DEF BatchBuffers
  <2>2. Scratches(P[k].submissions) \cap Z = {}
    BY <2>1
  <2>3. QED
    BY <1>2, <2>2, ReadKept
<1>4. \A i \in C : Shows(v, i)
  BY <1>1, <1>2 DEF Shows, ImageBuffers
<1>5. Ordered(bs, P)
  BY <1>2, <1>3 DEF Ordered
<1>6. Results(bs, r)
  <2>1. r \in Answers /\ Known(cs, r.submissions) /\ Settled(cs, r)
    BY <1>2, Zenon DEF Results
  <2>2. ASSUME NEW k \in DOMAIN r.submissions
        PROVE  bs[r.submissions[k].command] = cs[r.submissions[k].command]
    BY <1>1, <2>1 DEF Known
  <2>3. Known(bs, r.submissions)
    BY <1>1, <2>1, <2>2 DEF Known
  <2>4. Settled(bs, r)
    BY <2>1, <2>2 DEF Settled, GoodIn
  <2>5. QED
    BY <2>1, <2>3, <2>4, Zenon DEF Results
<1>7. QED
  BY <1>3, <1>4, <1>5, <1>6, Zenon DEF Standing

\* Images of the call show what they did.
LEMMA DisplayedKept ==
  ASSUME NEW cs, NEW bs, NEW w, NEW v, NEW Z, Changed(cs, bs, w, v, Z), NEW H, Displayed(w, H), HostBuffers(H) \cap Z = {}
  PROVE  Displayed(v, H)
  BY DEF Displayed, Shows, HostBuffers, Changed

\* There are contents for the buffers that are new.
LEMMA ContentsGrown ==
  ASSUME NEW w \in Seq(Words), NEW n \in Nat, n >= Len(w), NEW v, v = w \o [k \in 1..n - Len(w) |-> <<>>]
  PROVE  v \in Seq(Words) /\ Len(v) = n /\ DOMAIN w \subseteq DOMAIN v /\ \A b \in DOMAIN w : v[b] = w[b]
<1>1. PICK S, l, t : S = Words /\ l = n - Len(w) /\ t = [k \in 1..n - Len(w) |-> <<>>]
  OBVIOUS
<1>2. <<>> \in S
  BY <1>1 DEF Words
<1>3. w \in Seq(S) /\ Len(w) \in Nat /\ l \in Nat /\ t = [k \in 1..l |-> <<>>]
  BY <1>1
<1>4. t \in Seq(S) /\ Len(t) = l
  BY <1>2, <1>3
<1>5. v = w \o t
  BY <1>1
<1>6. Len(v) = Len(w) + l /\ \A i \in 1..Len(w) : v[i] = w[i]
  BY <1>3, <1>4, <1>5, ConcatAt
<1>7. v \in Seq(S) /\ DOMAIN w = 1..Len(w) /\ DOMAIN v = 1..Len(v)
  <2>1. v \in Seq(S)
    <3>1. w \o t \in Seq(S)
      BY <1>3, <1>4
    <3>2. QED
      BY <1>5, <3>1, Zenon
  <2>2. QED
    BY <1>3, <2>1
<1>8. QED
  BY <1>1, <1>3, <1>6, <1>7

\* What grows has changed nowhere.
LEMMA GrownChanged ==
  ASSUME NEW cs, NEW w, NEW v, DOMAIN w \subseteq DOMAIN v, \A b \in DOMAIN w : v[b] = w[b]
  PROVE  Changed(cs, cs, w, v, {})
  BY DEF Changed

\* The contents of a memory from which buffers were taken.
LEMMA TakenContents ==
  ASSUME RInv, NEW m, NEW k, Taken(memory, m, k),
         NEW v, v = contents \o [j \in 1..Len(m.sizes) - Len(contents) |-> <<>>]
  PROVE  /\ v \in Seq(Words) /\ Len(v) = Len(m.sizes)
         /\ DOMAIN contents \subseteq DOMAIN v /\ (\A b \in DOMAIN contents : v[b] = contents[b])
         /\ Machine(v, m.sizes, commands, queues)
<1>1. Machine(contents, memory.sizes, commands, queues)
  BY TrueParts
<1>2. contents \in Seq(Words) /\ Len(contents) = Len(memory.sizes)
  BY <1>1 DEF Machine
<1>3. Len(m.sizes) >= Len(memory.sizes) /\ m.sizes \in Seq(Nat)
  BY DEF Taken, Takings
<1>4. Len(m.sizes) \in Nat /\ Len(m.sizes) >= Len(contents)
  BY <1>2, <1>3
<1>5. /\ v \in Seq(Words) /\ Len(v) = Len(m.sizes)
      /\ DOMAIN contents \subseteq DOMAIN v /\ \A b \in DOMAIN contents : v[b] = contents[b]
  <2>1. PICK w, n : w = contents /\ n = Len(m.sizes)
    OBVIOUS
  <2>2. w \in Seq(Words) /\ n \in Nat /\ n >= Len(w) /\ v = w \o [j \in 1..n - Len(w) |-> <<>>]
    BY <1>2, <1>4, <2>1
  <2>3. v \in Seq(Words) /\ Len(v) = n /\ DOMAIN w \subseteq DOMAIN v /\ \A b \in DOMAIN w : v[b] = w[b]
    BY <2>2, ContentsGrown
  <2>4. QED
    BY <2>1, <2>3
<1>6. QED
  BY <1>1, <1>5 DEF Machine

\* A command cannot be encoded.
LEMMA FailEncodeTrue ==
  ASSUME MetalAssumption, RInv, FailEncode
  PROVE  RStays
<1>1. PICK plans : plans = Head(host.todo)
  OBVIOUS
<1>2. /\ host.step = "encode" /\ host.todo # <<>>
      /\ \E n \in 0..Len(ScratchOf(plans)) : \E looked \in {k \in 0..Len(plans) : k = n \div 3 + 1 \/ 3 * k = n} :
           LET m == TakeAll(SubSeq(ScratchOf(plans), 1, n))
           IN  /\ memory' = [WithoutTaken(m) EXCEPT !.released = @ \cup ToSet(m.taken)
                               \cup ToSet(host.outputs) \cup Scratches(FlattenSeq(host.encoded))]
               /\ contents' = contents \o [k \in 1..Len(m.sizes) - Len(contents) |-> <<>>]
      /\ host' = [host EXCEPT !.step = "drop", !.todo = <<>>, !.encoded = <<>>, !.outputs = <<>>]
      /\ commands' = commands /\ pending' = pending /\ images' = images /\ queues' = queues /\ returned' = returned
  BY <1>1, Zenon DEF FailEncode
<1>3. PICK n \in 0..Len(ScratchOf(plans)) :
           LET m == TakeAll(SubSeq(ScratchOf(plans), 1, n))
           IN  /\ memory' = [WithoutTaken(m) EXCEPT !.released = @ \cup ToSet(m.taken)
                               \cup ToSet(host.outputs) \cup Scratches(FlattenSeq(host.encoded))]
               /\ contents' = contents \o [k \in 1..Len(m.sizes) - Len(contents) |-> <<>>]
  BY <1>2, Zenon
<1>4. PICK m : m = TakeAll(SubSeq(ScratchOf(plans), 1, n))
  OBVIOUS
<1>5. /\ memory' = [WithoutTaken(m) EXCEPT !.released = @ \cup ToSet(m.taken)
                               \cup ToSet(host.outputs) \cup Scratches(FlattenSeq(host.encoded))]
      /\ contents' = contents \o [k \in 1..Len(m.sizes) - Len(contents) |-> <<>>]
  BY <1>3, <1>4, Zenon
<1>6. IInv /\ host \in Hosts /\ KnownOf(commands, host, pending) /\ Standing(commands, contents, pending, images, returned)
      /\ Displayed(contents, host.images)
  BY TrueParts, Zenon DEF Underway
<1>7. plans \in Seq(Names)
  BY <1>1, <1>2, <1>6, NextCommand
<1>8. Taken(memory, m, n)
  BY <1>4, <1>6, <1>7, TakesScratch
<1>9. memory'.sizes = m.sizes
  BY <1>5 DEF WithoutTaken
<1>10. /\ DOMAIN contents \subseteq DOMAIN contents' /\ (\A b \in DOMAIN contents : contents'[b] = contents[b])
       /\ Machine(contents', m.sizes, commands, queues)
  BY <1>5, <1>8, TakenContents
<1>11. Changed(commands, commands, contents, contents', {})
  BY <1>10, GrownChanged
<1>12. Standing(commands, contents', pending, images, returned)
  BY <1>6, <1>11, StandingKept DEF KnownOf
<1>13. Displayed(contents', host.images)
  BY <1>6, <1>11, DisplayedKept
<1>14. host'.step = "drop" /\ host'.images = host.images
  BY <1>2, <1>6 DEF Hosts
<1>15. Underway(commands, contents', host', returned)
  BY <1>13, <1>14, UnderwayIdle
<1>16. QED
  BY <1>2, <1>9, <1>10, <1>12, <1>15, Zenon DEF RStays

\* The plans of the group that begins come next.
LEMMA GroupPlanned ==
  ASSUME RInv, host.step = "group", host.groups # <<>>,
         NEW g, g.step = "encode", g.request = host.request, g.groups = host.groups, g.todo = Head(host.groups),
         MineOf(g) = MineOf(host)
  PROVE  Planned(commands, g)
<1>1. host \in Hosts /\ Planned(commands, host)
  BY TrueParts, Zenon DEF Underway
<1>2. PICK S, s, x, t : S = Seq(Seq(Names)) /\ s = host.groups /\ x = Head(host.groups) /\ t = Tail(host.groups)
  OBVIOUS
<1>3. s \in Seq(S) /\ s # <<>> /\ x = Head(s) /\ t = Tail(s)
  BY <1>1, <1>2, HostFields
<1>4. x \in S /\ t \in Seq(S) /\ s = <<x>> \o t
  <2>1. x \in S /\ t \in Seq(S)
    BY <1>3
  <2>2. s = <<Head(s)>> \o Tail(s)
    BY <1>3
  <2>3. QED
    BY <1>3, <2>1, <2>2
<1>5. FlattenSeq(s) = x \o FlattenSeq(t) /\ FlattenSeq(t) \in S
  <2>1. <<x>> \in Seq(Seq(Seq(Names))) /\ t \in Seq(Seq(Seq(Names))) /\ x \in Seq(Seq(Names))
    BY <1>2, <1>4
  <2>2. FlattenSeq(<<x>> \o t) = FlattenSeq(<<x>>) \o FlattenSeq(t)
    BY <2>1, FlattenConcat
  <2>3. FlattenSeq(<<x>>) = x
    BY <2>1, FlattenSingle
  <2>4. QED
    BY <1>2, <1>4, <2>1, <2>2, <2>3, FlattenType
<1>6. Flat(s) = FlattenSeq(x) \o Flat(t)
  <2>1. x \in Seq(Seq(Names)) /\ FlattenSeq(t) \in Seq(Seq(Names))
    BY <1>2, <1>4, <1>5
  <2>2. FlattenSeq(x \o FlattenSeq(t)) = FlattenSeq(x) \o FlattenSeq(FlattenSeq(t))
    BY <2>1, FlattenConcat
  <2>3. QED
    BY <1>5, <2>2, Zenon DEF Flat
<1>7. g.step # "group"
  OBVIOUS
<1>8. host.request.kind # "shared" => PlansOf(commands, MineOf(host)) \o Flat(s) = host.request.plans
  BY <1>1, <1>2 DEF Planned
<1>9. QED
  BY <1>2, <1>6, <1>7, <1>8, Zenon DEF Planned

\* A group begins.
LEMMA BeginGroupTrue ==
  ASSUME MetalAssumption, RInv, BeginGroup
  PROVE  RStays
<1>1. PICK group, plans, rs : /\ group = Head(host.groups) /\ plans = FlattenSeq(group)
                              /\ rs = [k \in DOMAIN plans |-> BufferRequest("shared", Plans[plans[k]].output)]
  OBVIOUS
<1>2. PICK m : m = TakeAll(rs)
  OBVIOUS
<1>3. /\ host.step = "group" /\ host.groups # <<>>
      /\ commands' = commands /\ queues' = queues /\ pending' = pending /\ images' = images /\ returned' = returned
      /\ IF host.request.kind = "shared"
         THEN /\ memory' = WithoutTaken(m) /\ host' = [host EXCEPT !.step = "encode", !.todo = group, !.outputs = m.taken]
              /\ contents' = contents \o [k \in 1..Len(m.sizes) - Len(contents) |-> <<>>]
         ELSE memory' = memory /\ host' = [host EXCEPT !.step = "encode", !.todo = group] /\ contents' = contents
  BY <1>1, <1>2, Zenon DEF BeginGroup
<1>4. /\ IInv /\ host \in Hosts /\ Shape(host) /\ KnownOf(commands, host, pending)
      /\ Standing(commands, contents, pending, images, returned)
      /\ Mine(commands, contents, host) /\ Displayed(contents, host.images)
      /\ Machine(contents, memory.sizes, commands, queues)
  BY TrueParts, Zenon DEF Underway
<1>5. group \in Seq(Seq(Names)) /\ plans \in Seq(Names)
  <2>1. PICK S, s : S = Seq(Seq(Names)) /\ s = host.groups
    OBVIOUS
  <2>2. s \in Seq(S) /\ s # <<>>
    BY <1>3, <1>4, <2>1, HostFields
  <2>3. Head(s) \in S
    BY <2>2
  <2>4. QED
    BY <1>1, <2>1, <2>3, FlattenType
<1>6. PICK g : g = host'
  OBVIOUS
<1>7. /\ g.step = "encode" /\ g.request = host.request /\ g.groups = host.groups /\ g.todo = group /\ g.encoded = host.encoded
      /\ g.submissions = host.submissions /\ g.got = host.got /\ g.images = host.images
  <2>1. CASE host.request.kind = "shared"
    BY <1>3, <1>4, <1>6, <2>1 DEF Hosts
  <2>2. CASE host.request.kind # "shared"
    BY <1>3, <1>4, <1>6, <2>2 DEF Hosts
  <2>3. QED
    BY <2>1, <2>2
<1>8. MineOf(g) = MineOf(host)
  BY <1>7 DEF MineOf
<1>9. /\ DOMAIN contents \subseteq DOMAIN contents' /\ (\A b \in DOMAIN contents : contents'[b] = contents[b])
      /\ Machine(contents', memory'.sizes, commands, queues)
  <2>1. CASE host.request.kind # "shared"
    <3>1. contents' = contents /\ memory' = memory
      BY <1>3, <2>1
    <3>2. QED
      BY <1>4, <3>1
  <2>2. CASE host.request.kind = "shared"
    <3>1. memory \in Memories /\ Well(memory)
      BY <1>4, SafeParts
    <3>2. rs \in Seq(Requested)
      <4>1. \A k \in 1..Len(plans) : BufferRequest("shared", Plans[plans[k]].output) \in Requested
        <5>1. SUFFICES ASSUME NEW k \in 1..Len(plans)
                       PROVE  BufferRequest("shared", Plans[plans[k]].output) \in Requested
          OBVIOUS
        <5>2. plans[k] \in Names
          BY <1>5
        <5>3. Plans[plans[k]].output \in Nat
          BY <5>2 DEF MetalAssumption, Names
        <5>4. QED
          BY <5>3 DEF BufferRequest, Requested
      <4>2. DOMAIN plans = 1..Len(plans) /\ Len(plans) \in Nat
        BY <1>5
      <4>3. [k \in 1..Len(plans) |-> BufferRequest("shared", Plans[plans[k]].output)] \in Seq(Requested)
        BY <4>1, <4>2
      <4>4. QED
        BY <1>1, <4>2, <4>3
    <3>3. m = TakeFrom(memory, rs)
      BY <1>2 DEF TakeAll, TakeFrom
    <3>4. Taken(memory, m, Len(rs))
      BY <3>1, <3>2, <3>3, TakeFromTakes DEF Took
    <3>5. memory'.sizes = m.sizes /\ contents' = contents \o [k \in 1..Len(m.sizes) - Len(contents) |-> <<>>]
      <4>1. /\ memory' = WithoutTaken(m)
            /\ contents' = contents \o [k \in 1..Len(m.sizes) - Len(contents) |-> <<>>]
        BY <1>3, <2>2, Zenon
      <4>2. WithoutTaken(m).sizes = m.sizes
        BY DEF WithoutTaken
      <4>3. QED
        BY <4>1, <4>2
    <3>6. QED
      BY <3>4, <3>5, TakenContents
  <2>3. QED
    BY <2>1, <2>2
<1>10. Changed(commands, commands, contents, contents', {})
  BY <1>9, GrownChanged
<1>11. Standing(commands, contents', pending, images, returned)
  BY <1>4, <1>10, StandingKept DEF KnownOf
<1>12. Displayed(contents', g.images)
  BY <1>4, <1>7, <1>10, DisplayedKept
<1>13. Mine(commands, contents', g)
  <2>1. Handling(commands, contents, MineOf(host))
    BY <1>3, <1>4 DEF Mine, Handling
  <2>2. Handling(commands, contents', MineOf(host))
    BY <1>4, <1>10, <2>1, ReadKept DEF KnownOf
  <2>3. QED
    BY <1>8, <2>2, Zenon DEF Mine, Handling
<1>14. Outputs(commands, contents', g)
  <2>1. SUFFICES ASSUME host.request.kind = "shared" PROVE MineOf(host) = <<>> /\ host.got = <<>>
    BY <1>7, <1>8 DEF Outputs
  <2>2. host.submissions = <<>> /\ host.encoded = <<>> /\ host.got = <<>>
    BY <1>3, <1>4, <2>1 DEF Shape
  <2>3. FlattenSeq(<<>>) = <<>> /\ <<>> \o <<>> = <<>>
    BY FlattenEmpty
  <2>4. QED
    BY <2>2, <2>3, Zenon DEF MineOf
<1>15. Planned(commands, g)
  BY <1>1, <1>3, <1>7, <1>8, GroupPlanned
<1>16. Waiting(commands, g, returned)
  BY <1>7 DEF Waiting
<1>17. Underway(commands, contents', g, returned)
  BY <1>12, <1>13, <1>14, <1>15, <1>16, Zenon DEF Underway
<1>18. QED
  BY <1>3, <1>6, <1>9, <1>11, <1>17, Zenon DEF RStays

-----------------------------------------------------------------------------
(***************************************************************************)
(* The GPU.                                                                *)
(***************************************************************************)
\* The command id ended; only what it uses was written.
Ran(cs, bs, w, v, id) ==
  /\ id \in RunningOf(cs) /\ DOMAIN bs = DOMAIN cs /\ \A c \in DOMAIN cs : c # id => bs[c] = cs[c]
  /\ bs[id].images = cs[id].images /\ bs[id].scratch = cs[id].scratch /\ bs[id].state \in {"done", "failed"}
  /\ DOMAIN v = DOMAIN w /\ \A b \in DOMAIN w : b \notin UseOf(cs, id) => v[b] = w[b]
\* It wrote the verdict on each of its images, and its samples.
Wrote(x, y, w, v) ==
  y.state = "done" => \A k \in DOMAIN x.images :
    LET i == x.images[k]
    IN  /\ i.status \in DOMAIN w /\ i.slot \in DOMAIN w[i.status] /\ w[i.status][i.slot] = "ok" =>
             i.slot \in DOMAIN v[i.status] /\ v[i.status][i.slot] = Verdict(y, k)
        /\ i.output \in DOMAIN w => v[i.output] = i.source

\* What a command that is done wrote.
LEMMA WritesOwn ==
  ASSUME contents \in Seq(Words), NEW x \in Commands, Formed(x), NEW bad, bad \subseteq DOMAIN x.images,
         NEW y, y.state = "done", y.bad = bad,
         NEW v, v = [b \in DOMAIN contents |-> Written(x, bad, b)]
  PROVE  /\ v \in Seq(Words) /\ Len(v) = Len(contents) /\ DOMAIN v = DOMAIN contents
         /\ \A b \in DOMAIN contents :
              b \notin x.scratch \cup ({x.images[k].output : k \in DOMAIN x.images} \ {0}) => v[b] = contents[b]
         /\ Wrote(x, y, contents, v)
<1>1. PICK w, im : w = contents /\ im = x.images
  OBVIOUS
<1>2. /\ w \in Seq(Words) /\ DOMAIN w = 1..Len(w) /\ Len(w) \in Nat /\ im \in Seq(Pictures) /\ bad \subseteq DOMAIN im
  BY <1>1 DEF Commands
<1>3. \A k \in DOMAIN im :
        /\ im[k].status \in x.scratch
        /\ im[k].output # 0 => im[k].output \notin x.scratch
        /\ \A j \in DOMAIN im : j # k =>
             /\ im[j].status = im[k].status => im[j].slot # im[k].slot
             /\ im[j].output = im[k].output => im[k].output = 0
  BY <1>1 DEF Formed
<1> DEFINE St(b) == {k \in bad : im[k].status = b}
           Ou(b) == {k \in DOMAIN im : im[k].output = b}
<1>4. ASSUME NEW b \in DOMAIN w
      PROVE  /\ v[b] = IF St(b) # {}
                       THEN [j \in DOMAIN w[b] |-> IF \E k \in St(b) : im[k].slot = j THEN "bad" ELSE w[b][j]]
                       ELSE IF Ou(b) # {} THEN im[CHOOSE k \in Ou(b) : TRUE].source ELSE w[b]
  BY <1>1, <1>4 DEF Written
<1>5. v = [b \in 1..Len(w) |-> v[b]] /\ DOMAIN v = DOMAIN w
  BY <1>1, <1>2
<1>6. ASSUME NEW b \in DOMAIN w PROVE v[b] \in Words
  <2>1. w[b] \in Words
    BY <1>2, <1>6
  <2>2. CASE St(b) # {}
    <3>1. PICK S, u, f, T : S = Nat \cup {"ok", "bad"} /\ u = w[b] /\ f = v[b] /\ T = St(b)
      OBVIOUS
    <3>2. u \in Seq(S) /\ "bad" \in S
      BY <2>1, <3>1 DEF Words
    <3>3. f = [j \in DOMAIN u |-> IF \E k \in T : im[k].slot = j THEN "bad" ELSE u[j]]
      <4>1. f = IF T # {} THEN [j \in DOMAIN w[b] |-> IF \E k \in T : im[k].slot = j THEN "bad" ELSE w[b][j]]
                ELSE IF Ou(b) # {} THEN im[CHOOSE k \in Ou(b) : TRUE].source ELSE w[b]
        BY <1>4, <1>6, <3>1, Zenon
      <4>2. QED
        BY <2>2, <3>1, <4>1
    <3>4. f \in Seq(S)
      <4>1. PICK n \in Nat : u \in [1..n -> S]
        BY <3>2
      <4>2. DOMAIN u = 1..n /\ \A j \in 1..n : u[j] \in S
        BY <4>1
      <4>3. \A j \in 1..n : (IF \E k \in T : im[k].slot = j THEN "bad" ELSE u[j]) \in S
        BY <3>2, <4>2
      <4>4. f \in [1..n -> S]
        BY <3>3, <4>2, <4>3
      <4>5. QED
        BY <4>4
    <3>5. QED
      BY <3>1, <3>4 DEF Words
  <2>3. CASE St(b) = {} /\ Ou(b) # {}
    <3>1. PICK k : k = (CHOOSE l \in Ou(b) : TRUE)
      OBVIOUS
    <3>2. k \in DOMAIN im
      BY <2>3, <3>1
    <3>3. v[b] = im[k].source
      BY <1>4, <1>6, <2>3, <3>1
    <3>4. im[k] \in Pictures
      BY <1>2, <3>2, ElementOfSeq
    <3>5. v[b] \in Seq(Nat)
      BY <3>3, <3>4 DEF Pictures
    <3>6. \A f \in Seq(Nat) : f \in Seq(Nat \cup {"ok", "bad"})
      OBVIOUS
    <3>7. QED
      BY <3>5, <3>6 DEF Words
  <2>4. CASE St(b) = {} /\ Ou(b) = {}
    <3>1. v[b] = w[b]
      BY <1>4, <1>6, <2>4
    <3>2. QED
      BY <2>1, <3>1
  <2>5. QED
    BY <2>2, <2>3, <2>4
<1>7. v \in Seq(Words) /\ Len(v) = Len(w)
  <2>1. PICK S, n : S = Words /\ n = Len(w)
    OBVIOUS
  <2>2. n \in Nat /\ v = [b \in 1..n |-> v[b]] /\ \A b \in 1..n : v[b] \in S
    BY <1>2, <1>5, <1>6, <2>1
  <2>3. QED
    BY <2>1, <2>2
<1>8. ASSUME NEW b \in DOMAIN w, b \notin x.scratch \cup ({im[k].output : k \in DOMAIN im} \ {0})
      PROVE  v[b] = w[b]
  <2>1. St(b) = {}
    BY <1>2, <1>3, <1>8
  <2>2. b # 0
    BY <1>2, <1>8
  <2>3. Ou(b) = {}
    BY <1>8, <2>2
  <2>4. QED
    BY <1>4, <1>8, <2>1, <2>3
<1>9. ASSUME NEW k \in DOMAIN im, im[k].status \in DOMAIN w, im[k].slot \in DOMAIN w[im[k].status],
             w[im[k].status][im[k].slot] = "ok"
      PROVE  im[k].slot \in DOMAIN v[im[k].status] /\ v[im[k].status][im[k].slot] = Verdict(y, k)
  <2>1. PICK b, s : b = im[k].status /\ s = im[k].slot
    OBVIOUS
  <2>2. b \in DOMAIN w /\ b \in x.scratch /\ b # 0 /\ s \in DOMAIN w[b] /\ w[b][s] = "ok"
    BY <1>2, <1>3, <1>9, <2>1
  <2>3. Verdict(y, k) = IF k \in bad THEN "bad" ELSE "ok"
    BY DEF Verdict
  <2>4. CASE St(b) # {}
    <3>1. v[b] = [j \in DOMAIN w[b] |-> IF \E l \in St(b) : im[l].slot = j THEN "bad" ELSE w[b][j]]
      BY <1>4, <2>2, <2>4
    <3>2. (\E l \in St(b) : im[l].slot = s) <=> k \in bad
      <4>1. k \in bad => k \in St(b)
        BY <2>1
      <4>2. ASSUME NEW l \in St(b), im[l].slot = s PROVE l = k
        <5>1. l \in DOMAIN im /\ im[l].status = b
          BY <1>2, <4>2
        <5>2. QED
          BY <1>3, <1>9, <2>1, <4>2, <5>1
      <4>3. \A l \in St(b) : l \in bad
        OBVIOUS
      <4>4. QED
        BY <2>1, <4>1, <4>2, <4>3
    <3> HIDE DEF St
    <3>3. s \in DOMAIN v[b] /\ v[b][s] = IF \E l \in St(b) : im[l].slot = s THEN "bad" ELSE w[b][s]
      BY <2>2, <3>1
    <3>4. QED
      BY <2>1, <2>2, <2>3, <3>2, <3>3
  <2>5. CASE St(b) = {}
    <3>1. k \notin bad
      BY <2>1, <2>5
    <3>2. Ou(b) = {}
      BY <1>3, <2>2
    <3>3. v[b] = w[b]
      BY <1>4, <2>2, <2>5, <3>2
    <3>4. QED
      BY <2>1, <2>2, <2>3, <3>1, <3>3
  <2>6. QED
    BY <2>4, <2>5
<1>10. ASSUME NEW k \in DOMAIN im, im[k].output \in DOMAIN w PROVE v[im[k].output] = im[k].source
  <2>1. PICK b : b = im[k].output
    OBVIOUS
  <2>2. b \in DOMAIN w /\ b # 0 /\ b \notin x.scratch
    BY <1>2, <1>3, <1>10, <2>1
  <2>3. St(b) = {}
    BY <1>2, <1>3, <2>2
  <2>4. Ou(b) = {k}
    BY <1>3, <1>10, <2>1, <2>2
  <2>5. (CHOOSE l \in {k} : TRUE) = k
    OBVIOUS
  <2>6. v[b] = im[CHOOSE l \in Ou(b) : TRUE].source
    BY <1>4, <2>2, <2>3, <2>4
  <2>7. QED
    BY <2>1, <2>4, <2>5, <2>6, Zenon
<1>11. Wrote(x, y, w, v)
  BY <1>1, <1>9, <1>10 DEF Wrote
<1>12. QED
  BY <1>1, <1>5, <1>7, <1>8, <1>11

\* The command that the GPU ends first in a queue, and the rest of the queue.
LEMMA QueueEnds ==
  ASSUME MetalAssumption, NEW cs, NEW qs, Queued(cs, qs), NEW q \in DOMAIN qs, qs[q] # <<>>, NEW id, id = Head(qs[q]),
         NEW bs, \A c \in RunningOf(cs) : c # id => c \in RunningOf(bs),
         NEW rs, rs = [qs EXCEPT ![q] = Tail(@)]
  PROVE  id \in RunningOf(cs) /\ Queued(bs, rs)
<1>1. /\ qs \in [0..Queues - 1 -> Seq(Nat)]
      /\ \A p \in 0..Queues - 1 : \A k \in DOMAIN qs[p] : qs[p][k] \in RunningOf(cs)
      /\ \A p, r \in 0..Queues - 1 : \A j \in DOMAIN qs[p], k \in DOMAIN qs[r] :
           qs[p][j] = qs[r][k] => p = r /\ j = k
  BY DEF Queued
<1>2. PICK s, t : s = qs[q] /\ t = Tail(qs[q])
  OBVIOUS
<1>3. /\ q \in 0..Queues - 1 /\ s \in Seq(Nat) /\ s # <<>> /\ t = Tail(s) /\ id = Head(s)
  BY <1>1, <1>2
<1>4. /\ 1 \in DOMAIN s /\ s[1] = id /\ t \in Seq(Nat)
      /\ \A k \in DOMAIN t : k \in Nat /\ k + 1 \in DOMAIN s /\ k + 1 # 1 /\ t[k] = s[k + 1]
  <2>1. 1 \in DOMAIN s /\ s[1] = id /\ Len(s) \in Nat \ {0}
    BY <1>3
  <2>2. t \in Seq(Nat) /\ Len(t) = Len(s) - 1 /\ \A j \in 1..Len(s) - 1 : t[j] = s[j + 1]
    BY <1>3
  <2>3. DOMAIN t = 1..Len(s) - 1 /\ DOMAIN s = 1..Len(s)
    BY <1>3, <2>1, <2>2
  <2>4. QED
    BY <2>1, <2>2, <2>3
<1>5. id \in RunningOf(cs)
  BY <1>1, <1>2, <1>3, <1>4
<1>6. /\ rs \in [0..Queues - 1 -> Seq(Nat)] /\ rs[q] = t /\ \A p \in 0..Queues - 1 : p # q => rs[p] = qs[p]
  BY <1>1, <1>2, <1>3, <1>4
\* Every element of a queue was there, and is not the first of this one.
<1>7. ASSUME NEW p \in 0..Queues - 1, NEW k \in DOMAIN rs[p]
      PROVE  \E l \in DOMAIN qs[p] : rs[p][k] = qs[p][l] /\ (p = q => l = k + 1 /\ k \in Nat) /\ (p # q => l = k)
  <2>1. CASE p = q
    <3>1. k \in DOMAIN t /\ rs[p][k] = t[k]
      BY <1>6, <1>7, <2>1
    <3>2. k \in Nat /\ k + 1 \in DOMAIN qs[p] /\ rs[p][k] = qs[p][k + 1]
      BY <1>2, <1>4, <2>1, <3>1
    <3>3. QED
      BY <2>1, <3>2
  <2>2. CASE p # q
    BY <1>6, <1>7, <2>2
  <2>3. QED
    BY <2>1, <2>2
<1>8. ASSUME NEW p \in 0..Queues - 1, NEW k \in DOMAIN rs[p]
      PROVE  rs[p][k] \in RunningOf(bs)
  <2>1. PICK l \in DOMAIN qs[p] : rs[p][k] = qs[p][l] /\ (p = q => l = k + 1 /\ k \in Nat) /\ (p # q => l = k)
    BY <1>7
  <2>2. qs[p][l] # id
    <3>1. SUFFICES ASSUME qs[p][l] = qs[q][1] PROVE FALSE
      BY <1>2, <1>4
    <3>2. p = q /\ l = 1
      BY <1>1, <1>2, <1>3, <1>4, <3>1
    <3>3. k + 1 # 1
      <4>1. k \in DOMAIN t
        BY <1>6, <3>2
      <4>2. QED
        BY <1>4, <4>1
    <3>4. QED
      BY <2>1, <3>2, <3>3
  <2>3. qs[p][l] \in RunningOf(cs)
    BY <1>1
  <2>4. QED
    BY <2>1, <2>2, <2>3
<1>9. ASSUME NEW p \in 0..Queues - 1, NEW r \in 0..Queues - 1, NEW j \in DOMAIN rs[p], NEW k \in DOMAIN rs[r],
             rs[p][j] = rs[r][k]
      PROVE  p = r /\ j = k
  <2>1. PICK l \in DOMAIN qs[p] : rs[p][j] = qs[p][l] /\ (p = q => l = j + 1 /\ j \in Nat) /\ (p # q => l = j)
    BY <1>7
  <2>2. PICK o \in DOMAIN qs[r] : rs[r][k] = qs[r][o] /\ (r = q => o = k + 1 /\ k \in Nat) /\ (r # q => o = k)
    BY <1>7
  <2>3. p = r /\ l = o
    BY <1>1, <1>9, <2>1, <2>2
  <2>4. QED
    BY <2>1, <2>2, <2>3
<1>10. QED
  BY <1>5, <1>6, <1>8, <1>9 DEF Queued

\* Submissions are of the same images when a command ends.
LEMMA SamePictures ==
  ASSUME NEW cs, NEW bs, NEW w, NEW v, NEW id, Ran(cs, bs, w, v, id), NEW subs, Known(cs, subs)
  PROVE  /\ \A k \in DOMAIN subs : /\ Picture(bs, subs[k]) = Picture(cs, subs[k])
                                   /\ subs[k].image \in DOMAIN cs[subs[k].command].images
                                   /\ subs[k].command # id => bs[subs[k].command] = cs[subs[k].command]
         /\ PlansOf(bs, subs) = PlansOf(cs, subs) /\ Known(bs, subs) /\ (Backed(cs, subs) => Backed(bs, subs))
<1>1. /\ id \in DOMAIN cs /\ DOMAIN bs = DOMAIN cs /\ (\A c \in DOMAIN cs : c # id => bs[c] = cs[c])
      /\ bs[id].images = cs[id].images
  BY DEF Ran, RunningOf
<1>2. ASSUME NEW k \in DOMAIN subs
      PROVE  /\ Picture(bs, subs[k]) = Picture(cs, subs[k]) /\ subs[k].image \in DOMAIN cs[subs[k].command].images
             /\ subs[k].command # id => bs[subs[k].command] = cs[subs[k].command]
             /\ subs[k].command \in DOMAIN bs /\ subs[k].image \in DOMAIN bs[subs[k].command].images
  <2>1. subs[k].command \in DOMAIN cs /\ subs[k].image \in DOMAIN cs[subs[k].command].images
    BY DEF Known
  <2>2. bs[subs[k].command].images = cs[subs[k].command].images
    BY <1>1, <2>1
  <2>3. QED
    BY <1>1, <2>1, <2>2 DEF Picture
<1>3. PlansOf(bs, subs) = PlansOf(cs, subs)
  BY <1>2 DEF PlansOf
<1>4. Known(bs, subs)
  BY <1>2 DEF Known
<1>5. Backed(cs, subs) => Backed(bs, subs)
  BY <1>2 DEF Backed
<1>6. QED
  BY <1>2, <1>3, <1>4, <1>5

\* The status words that submissions read tell what the kernels did.
LEMMA TellsRan ==
  ASSUME NEW cs, NEW bs, NEW w, NEW v, NEW id, Ran(cs, bs, w, v, id), Wrote(cs[id], bs[id], w, v),
         NEW subs, Known(cs, subs), Read(cs, w, subs)
  PROVE  Read(bs, v, subs)
<1>1. /\ id \in RunningOf(cs) /\ DOMAIN bs = DOMAIN cs /\ (\A c \in DOMAIN cs : c # id => bs[c] = cs[c])
      /\ bs[id].images = cs[id].images /\ bs[id].state \in {"done", "failed"}
      /\ DOMAIN v = DOMAIN w /\ \A b \in DOMAIN w : b \notin UseOf(cs, id) => v[b] = w[b]
  BY DEF Ran
<1>2. ASSUME NEW k \in DOMAIN subs PROVE Tells(bs, v, subs[k])
  <2>1. PICK s, i : s = subs[k] /\ i = Picture(cs, subs[k])
    OBVIOUS
  <2>2. Tells(cs, w, s)
    BY <2>1, Zenon DEF Read
  <2>3. /\ Picture(bs, s) = i /\ Picture(cs, s) = i /\ s.image \in DOMAIN cs[s.command].images
        /\ s.command # id => bs[s.command] = cs[s.command]
    BY <2>1, SamePictures
  <2>4. /\ i.status \in DOMAIN w
        /\ cs[s.command].state # "failed" =>
             i.slot \in DOMAIN w[i.status] /\ w[i.status][i.slot] = Verdict(cs[s.command], s.image)
        /\ \A d \in RunningOf(cs) : d # s.command => i.status \notin UseOf(cs, d)
    BY <2>2, <2>3 DEF Tells
  <2>5. i.status \in DOMAIN v
    BY <1>1, <2>4
  <2>6. ASSUME NEW d \in RunningOf(bs), d # s.command PROVE i.status \notin UseOf(bs, d)
    <3>1. d # id /\ d \in DOMAIN cs
      BY <1>1, <2>6 DEF RunningOf
    <3>2. bs[d] = cs[d] /\ d \in RunningOf(cs)
      BY <1>1, <2>6, <3>1 DEF RunningOf
    <3>3. UseOf(bs, d) = UseOf(cs, d)
      BY <3>2 DEF UseOf
    <3>4. QED
      BY <2>4, <2>6, <3>2, <3>3
  <2>7. ASSUME bs[s.command].state # "failed"
        PROVE  i.slot \in DOMAIN v[i.status] /\ v[i.status][i.slot] = Verdict(bs[s.command], s.image)
    <3>1. CASE s.command # id
      <4>1. i.status \notin UseOf(cs, id)
        BY <1>1, <2>4, <3>1
      <4>2. v[i.status] = w[i.status]
        BY <1>1, <2>4, <4>1
      <4>3. QED
        BY <2>3, <2>4, <2>7, <3>1, <4>2
    <3>2. CASE s.command = id
      <4>1. bs[id].state = "done" /\ cs[id].state = "running"
        BY <1>1, <2>7, <3>2 DEF RunningOf
      <4>2. i.slot \in DOMAIN w[i.status] /\ w[i.status][i.slot] = "ok"
        BY <2>4, <3>2, <4>1 DEF Verdict
      <4>3. cs[id].images[s.image] = i /\ s.image \in DOMAIN cs[id].images
        BY <2>3, <3>2 DEF Picture
      <4>4. QED
        BY <2>4, <3>2, <4>1, <4>2, <4>3 DEF Wrote
    <3>3. QED
      BY <3>1, <3>2
  <2>8. Tells(bs, v, s)
    BY <2>3, <2>5, <2>6, <2>7 DEF Tells
  <2>9. QED
    BY <2>1, <2>8
<1>3. QED
  BY <1>2 DEF Read

\* What callers have and were told stays true.
LEMMA StandingRan ==
  ASSUME NEW cs, NEW bs, NEW w, NEW v, NEW id, Ran(cs, bs, w, v, id), Wrote(cs[id], bs[id], w, v),
         NEW P, NEW C, NEW r, Standing(cs, w, P, C, r), \A k \in DOMAIN P : Known(cs, P[k].submissions),
         ImageBuffers(C) \cap UseOf(cs, id) = {}
  PROVE  Standing(bs, v, P, C, r)
<1>1. /\ id \in RunningOf(cs) /\ DOMAIN bs = DOMAIN cs /\ (\A c \in DOMAIN cs : c # id => bs[c] = cs[c])
      /\ DOMAIN v = DOMAIN w /\ \A b \in DOMAIN w : b \notin UseOf(cs, id) => v[b] = w[b]
  BY DEF Ran
<1>2. /\ \A k \in DOMAIN P : Handling(cs, w, P[k].submissions)
      /\ \A i \in C : Shows(w, i)
      /\ Ordered(cs, P) /\ Results(cs, r)
  BY Zenon DEF Standing
<1>3. ASSUME NEW k \in DOMAIN P
      PROVE  Handling(bs, v, P[k].submissions) /\ PlansOf(bs, P[k].submissions) = PlansOf(cs, P[k].submissions)
  <2>1. PICK subs : subs = P[k].submissions
    OBVIOUS
  <2>2. Known(cs, subs) /\ Backed(cs, subs) /\ Read(cs, w, subs)
    BY <1>2, <2>1, Zenon DEF Handling
  <2>3. PlansOf(bs, subs) = PlansOf(cs, subs) /\ Backed(bs, subs)
    BY <2>2, SamePictures
  <2>4. Read(bs, v, subs)
    BY <2>2, TellsRan
  <2>5. QED
    BY <2>1, <2>3, <2>4, Zenon DEF Handling
<1>4. \A i \in C : Shows(v, i)
  BY <1>1, <1>2 DEF Shows, ImageBuffers
<1>5. Ordered(bs, P)
  BY <1>2, <1>3 DEF Ordered
<1>6. Results(bs, r)
  <2>1. r \in Answers /\ Known(cs, r.submissions) /\ Settled(cs, r)
    BY <1>2, Zenon DEF Results
  <2>2. Known(bs, r.submissions)
    BY <2>1, SamePictures
  <2>3. ASSUME NEW k \in DOMAIN r.submissions, cs[r.submissions[k].command].state # "running"
        PROVE  bs[r.submissions[k].command] = cs[r.submissions[k].command]
    <3>1. r.submissions[k].command # id
      BY <1>1, <2>3 DEF RunningOf
    <3>2. QED
      BY <2>1, <3>1, SamePictures
  <2>4. Settled(bs, r)
    BY <2>1, <2>3 DEF Settled, GoodIn
  <2>5. QED
    BY <2>1, <2>2, <2>4, Zenon DEF Results
<1>7. QED
  BY <1>3, <1>4, <1>5, <1>6, Zenon DEF Standing

\* The outputs of the call are those of its commands.
LEMMA OutputsRan ==
  ASSUME NEW cs, NEW bs, NEW w, NEW v, NEW id, Ran(cs, bs, w, v, id), Wrote(cs[id], bs[id], w, v),
         NEW h, h \in Hosts, Shape(h), MineOf(h) \in Seq(Subs), Known(cs, MineOf(h)), Outputs(cs, w, h),
         ToSet(h.outputs) \subseteq DOMAIN w, OutputsOf(h, id, UseOf(cs, id))
  PROVE  Outputs(bs, v, h)
<1>1. /\ id \in RunningOf(cs) /\ bs[id].images = cs[id].images
      /\ DOMAIN v = DOMAIN w /\ \A b \in DOMAIN w : b \notin UseOf(cs, id) => v[b] = w[b]
  BY DEF Ran
<1>2. PICK M, O, g, n : M = MineOf(h) /\ O = h.outputs /\ g = Len(h.got) /\ n = Len(MineOf(h))
  OBVIOUS
<1>3. SUFFICES ASSUME h.request.kind = "shared", h.step \in {"encode", "wait"}
               PROVE  /\ \A j \in DOMAIN M : Shown(bs, v, M[j], O[g + j])
                      /\ \A k \in DOMAIN h.got : v[O[k]] = h.got[k].truth
  BY <1>2 DEF Outputs
<1>4. /\ \A j \in DOMAIN M : Shown(cs, w, M[j], O[g + j])
      /\ \A k \in DOMAIN h.got : w[O[k]] = h.got[k].truth
  BY <1>2, <1>3 DEF Outputs
<1>5. \A k \in DOMAIN O : O[k] \in UseOf(cs, id) => k > g /\ k - g \in DOMAIN M /\ M[k - g].command = id
  BY <1>2, <1>3 DEF OutputsOf, OutputsUsed
<1>6. /\ M \in Seq(Subs) /\ O \in Seq(Nat) /\ h.got \in Seq(Pictures) /\ g \in Nat /\ n \in Nat
      /\ DOMAIN M = 1..n /\ DOMAIN h.got = 1..g /\ DOMAIN O = 1..Len(O) /\ Len(O) \in Nat
  <2>1. PICK gt : gt = h.got
    OBVIOUS
  <2>2. O \in Seq(Nat) /\ gt \in Seq(Pictures) /\ M \in Seq(Subs)
    BY <1>2, <2>1, HostFields
  <2>3. g \in Nat /\ DOMAIN gt = 1..g /\ n \in Nat /\ DOMAIN M = 1..n /\ DOMAIN O = 1..Len(O) /\ Len(O) \in Nat
    BY <1>2, <2>1, <2>2
  <2>4. QED
    BY <2>1, <2>2, <2>3
<1>7. g + n <= Len(O)
  <2>1. CASE h.step = "wait"
    BY <1>2, <1>3, <1>6, <2>1 DEF Shape
  <2>2. CASE h.step = "encode"
    <3>1. h.got = <<>> /\ Len(O) = n + Len(FlattenSeq(h.todo))
      BY <1>2, <1>3, <2>2 DEF Shape
    <3>2. FlattenSeq(h.todo) \in Seq(Names)
      BY HostFields, FlattenType
    <3>3. Len(FlattenSeq(h.todo)) \in Nat
      BY <3>2
    <3>4. g = 0
      BY <1>2, <3>1
    <3>5. QED
      BY <1>6, <3>1, <3>3, <3>4
  <2>3. QED
    BY <1>3, <2>1, <2>2
<1>8. \A k \in DOMAIN O : O[k] \in DOMAIN w
  BY <1>2 DEF ToSet
<1>9. ASSUME NEW k \in DOMAIN h.got PROVE v[O[k]] = h.got[k].truth
  <2>1. k \in DOMAIN O /\ ~(k > g)
    BY <1>6, <1>7
  <2>2. O[k] \notin UseOf(cs, id)
    BY <1>5, <2>1
  <2>3. QED
    BY <1>1, <1>4, <1>8, <2>1, <2>2
<1>10. ASSUME NEW j \in DOMAIN M PROVE Shown(bs, v, M[j], O[g + j])
  <2>1. PICK s, b, i : s = M[j] /\ b = O[g + j] /\ i = Picture(cs, M[j])
    OBVIOUS
  <2>2. g + j \in DOMAIN O /\ g + j - g = j
    BY <1>6, <1>7
  <2>3. b \in DOMAIN w
    BY <1>8, <2>1, <2>2
  <2>4. /\ Picture(cs, s) = i /\ Picture(bs, s) = i /\ s.image \in DOMAIN cs[s.command].images
        /\ s.command # id => bs[s.command] = cs[s.command]
    BY <1>2, <2>1, SamePictures
  <2>5. i.output = b /\ (cs[s.command].state = "done" => w[b] = i.source)
    BY <1>4, <2>1, <2>4 DEF Shown
  <2>6. CASE s.command # id
    <3>1. b \notin UseOf(cs, id)
      <4>1. PICK l : l = g + j
        OBVIOUS
      <4>2. l \in DOMAIN O /\ l - g = j /\ O[l] = b
        BY <1>6, <2>1, <2>2, <4>1
      <4>3. O[l] \in UseOf(cs, id) => M[l - g].command = id
        BY <1>5, <4>2
      <4>4. M[l - g] = s
        BY <2>1, <4>2
      <4>5. QED
        BY <2>6, <4>2, <4>3, <4>4, Zenon
    <3>2. v[b] = w[b]
      BY <1>1, <2>3, <3>1
    <3>3. QED
      BY <2>1, <2>4, <2>5, <2>6, <3>2 DEF Shown
  <2>7. CASE s.command = id
    <3>1. cs[id].images[s.image] = i /\ s.image \in DOMAIN cs[id].images
      BY <2>4, <2>7 DEF Picture
    <3>2. bs[id].state = "done" => v[b] = i.source
      BY <2>3, <2>5, <3>1 DEF Wrote
    <3>3. QED
      BY <2>1, <2>4, <2>5, <2>7, <3>2 DEF Shown
  <2>8. QED
    BY <2>6, <2>7
<1>11. QED
  BY <1>9, <1>10

\* The call under way reads what it did, and what the command wrote.
LEMMA UnderwayRan ==
  ASSUME NEW cs, NEW bs, NEW w, NEW v, NEW id, Ran(cs, bs, w, v, id), Wrote(cs[id], bs[id], w, v),
         NEW h, h \in Hosts, Shape(h), MineOf(h) \in Seq(Subs), Known(cs, MineOf(h)),
         NEW r \in Answers, Known(cs, r.submissions), Underway(cs, w, h, r),
         HostBuffers(h.images) \cap UseOf(cs, id) = {},
         ToSet(h.outputs) \subseteq DOMAIN w, OutputsOf(h, id, UseOf(cs, id))
  PROVE  Underway(bs, v, h, r)
<1>1. /\ id \in RunningOf(cs) /\ DOMAIN v = DOMAIN w /\ \A b \in DOMAIN w : b \notin UseOf(cs, id) => v[b] = w[b]
  BY DEF Ran
<1>2. /\ Mine(cs, w, h) /\ Displayed(w, h.images) /\ Outputs(cs, w, h) /\ Planned(cs, h) /\ Waiting(cs, h, r)
  BY Zenon DEF Underway
<1>3. /\ PlansOf(bs, MineOf(h)) = PlansOf(cs, MineOf(h)) /\ (Backed(cs, MineOf(h)) => Backed(bs, MineOf(h)))
  BY SamePictures
<1>4. Read(cs, w, MineOf(h)) => Read(bs, v, MineOf(h))
  BY TellsRan
<1>5. Mine(bs, v, h)
  BY <1>2, <1>3, <1>4, Zenon DEF Mine
<1>6. Displayed(v, h.images)
  BY <1>1, <1>2 DEF Displayed, Shows, HostBuffers
<1>7. Outputs(bs, v, h)
  BY <1>2, OutputsRan
<1>8. Planned(bs, h)
  BY <1>2, <1>3, Zenon DEF Planned
<1>9. Waiting(bs, h, r)
  <2>1. SUFFICES ASSUME h.step = "wait", h.request.kind # "shared"
                 PROVE  Waiting(bs, h, r)
    BY DEF Waiting
  <2>2. /\ ~r.failed /\ r.got = <<>> /\ PlansOf(cs, r.submissions) = r.asked
        /\ Len(r.submissions) = Len(h.got) + Len(h.submissions)
        /\ \A j \in DOMAIN h.submissions : h.submissions[j] = r.submissions[Len(h.got) + j]
        /\ \A k \in DOMAIN h.got :
             h.got[k] = Picture(cs, r.submissions[k]) /\ GoodIn(cs, r.submissions[k])
    BY <1>2, <2>1 DEF Waiting
  <2>3. PlansOf(bs, r.submissions) = PlansOf(cs, r.submissions)
    BY SamePictures
  <2>4. PICK u : u = r.submissions
    OBVIOUS
  <2>5. ASSUME NEW k \in DOMAIN u, GoodIn(cs, u[k])
        PROVE  Picture(bs, u[k]) = Picture(cs, u[k]) /\ GoodIn(bs, u[k])
    <3>1. u[k].command # id
      BY <1>1, <2>5 DEF RunningOf, GoodIn
    <3>2. Picture(bs, u[k]) = Picture(cs, u[k]) /\ bs[u[k].command] = cs[u[k].command]
      BY <2>4, <3>1, SamePictures
    <3>3. QED
      BY <2>5, <3>2 DEF GoodIn
  <2>6. DOMAIN h.got \subseteq DOMAIN u
    <3>1. PICK gt, ho : gt = h.got /\ ho = h.submissions
      OBVIOUS
    <3>2. gt \in Seq(Pictures) /\ ho \in Seq(Subs)
      BY <3>1, HostFields
    <3>3. Len(u) = Len(gt) + Len(ho)
      BY <2>2, <2>4, <3>1
    <3>4. \A k \in DOMAIN gt : k \in 1..Len(u)
      BY <3>2, <3>3
    <3>5. DOMAIN u = 1..Len(u)
      BY <2>4 DEF Answers
    <3>6. QED
      BY <3>1, <3>4, <3>5
  <2>7. \A k \in DOMAIN h.got : h.got[k] = Picture(bs, u[k]) /\ GoodIn(bs, u[k])
    BY <2>2, <2>4, <2>5, <2>6
  <2>8. QED
    BY <2>2, <2>3, <2>4, <2>7, Zenon DEF Waiting
<1>10. QED
  BY <1>5, <1>6, <1>7, <1>8, <1>9, Zenon DEF Underway

\* The GPU ends a command.
LEMMA RunTrue ==
  ASSUME MetalAssumption, RInv, NEW q \in DOMAIN queues, Run(q)
  PROVE  RStays
<1>1. PICK id : id = Head(queues[q])
  OBVIOUS
<1>2. PICK cs, bs, w, v : cs = commands /\ bs = commands' /\ w = contents /\ v = contents'
  OBVIOUS
<1>3. /\ queues[q] # <<>>
      /\ \/ \E bad \in KernelFaults(id) : /\ bs = [cs EXCEPT ![id].state = "done", ![id].bad = bad]
                                          /\ v = [b \in DOMAIN contents |-> Written(cs[id], bad, b)]
         \/ bs = [cs EXCEPT ![id].state = "failed"] /\ v = w
      /\ queues' = [queues EXCEPT ![q] = Tail(@)]
      /\ memory' = memory /\ host' = host /\ pending' = pending /\ images' = images /\ returned' = returned
  BY <1>1, <1>2, Zenon DEF Run
<1>4. /\ IInv /\ cs \in Seq(Commands) /\ host \in Hosts /\ Shape(host) /\ KnownOf(cs, host, pending)
      /\ Standing(cs, w, pending, images, returned) /\ Underway(cs, w, host, returned)
      /\ Machine(w, memory.sizes, cs, queues) /\ returned \in Answers
  BY <1>2, TrueParts
<1>5. w \in Seq(Words) /\ Len(w) = Len(memory.sizes) /\ Queued(cs, queues) /\ \A c \in DOMAIN cs : Formed(cs[c])
  BY <1>4, Zenon DEF Machine
<1>6. id \in RunningOf(cs)
  <2>1. \A c \in RunningOf(cs) : c # id => c \in RunningOf(cs)
    OBVIOUS
  <2>2. QED
    BY <1>1, <1>3, <1>5, <2>1, QueueEnds
<1>7. id \in DOMAIN cs /\ cs[id] \in Commands /\ Formed(cs[id])
  <2>1. id \in DOMAIN cs
    BY <1>6 DEF RunningOf
  <2>2. QED
    BY <1>4, <1>5, <2>1, ElementOfSeq
<1>8. /\ DOMAIN bs = DOMAIN cs /\ (\A c \in DOMAIN cs : c # id => bs[c] = cs[c])
      /\ bs[id].images = cs[id].images /\ bs[id].scratch = cs[id].scratch /\ bs[id].state \in {"done", "failed"}
      /\ v \in Seq(Words) /\ Len(v) = Len(w) /\ DOMAIN v = DOMAIN w
      /\ \A b \in DOMAIN w : b \notin UseOf(cs, id) => v[b] = w[b]
      /\ Wrote(cs[id], bs[id], w, v)
  <2>1. PICK x, y : x = cs[id] /\ y = bs[id]
    OBVIOUS
  <2>2. PICK n \in Nat : cs \in [1..n -> Commands]
    BY <1>4
  <2>3. CASE bs = [cs EXCEPT ![id].state = "failed"] /\ v = w
    <3>1. DOMAIN bs = DOMAIN cs /\ (\A c \in DOMAIN cs : c # id => bs[c] = cs[c])
      BY <2>2, <2>3
    <3>2. bs[id] = [images |-> x.images, scratch |-> x.scratch, state |-> "failed", bad |-> x.bad]
      BY <1>7, <2>1, <2>2, <2>3 DEF Commands
    <3>3. bs[id].images = cs[id].images /\ bs[id].scratch = cs[id].scratch /\ bs[id].state = "failed"
      BY <2>1, <3>2
    <3>4. Wrote(cs[id], bs[id], w, v)
      BY <3>3 DEF Wrote
    <3>5. QED
      BY <1>5, <2>3, <3>1, <3>3, <3>4
  <2>4. CASE \E bad \in KernelFaults(id) : /\ bs = [cs EXCEPT ![id].state = "done", ![id].bad = bad]
                                          /\ v = [b \in DOMAIN contents |-> Written(cs[id], bad, b)]
    <3>1. PICK bad \in KernelFaults(id) : /\ bs = [cs EXCEPT ![id].state = "done", ![id].bad = bad]
                                          /\ v = [b \in DOMAIN contents |-> Written(cs[id], bad, b)]
      BY <2>4
    <3>2. bad \subseteq DOMAIN x.images
      BY <1>2, <2>1 DEF KernelFaults
    <3>3. DOMAIN bs = DOMAIN cs /\ (\A c \in DOMAIN cs : c # id => bs[c] = cs[c])
      BY <2>2, <3>1
    <3>4. y = [images |-> x.images, scratch |-> x.scratch, state |-> "done", bad |-> bad]
      BY <1>7, <2>1, <2>2, <3>1 DEF Commands
    <3>5. y.images = x.images /\ y.scratch = x.scratch /\ y.state = "done" /\ y.bad = bad
      BY <3>4
    <3>6. v = [b \in DOMAIN contents |-> Written(x, bad, b)] /\ x \in Commands /\ Formed(x) /\ contents \in Seq(Words)
      BY <1>2, <1>5, <1>7, <2>1, <3>1
    <3>7. /\ v \in Seq(Words) /\ Len(v) = Len(contents) /\ DOMAIN v = DOMAIN contents
          /\ \A b \in DOMAIN contents :
              b \notin x.scratch \cup ({x.images[k].output : k \in DOMAIN x.images} \ {0}) => v[b] = contents[b]
          /\ Wrote(x, y, contents, v)
      BY <3>2, <3>5, <3>6, WritesOwn
    <3>8. UseOf(cs, id) = x.scratch \cup ({x.images[k].output : k \in DOMAIN x.images} \ {0})
      BY <2>1 DEF UseOf
    <3>9. QED
      BY <1>2, <2>1, <3>3, <3>5, <3>7, <3>8, Zenon
  <2>5. QED
    BY <1>3, <2>3, <2>4
<1>9. Ran(cs, bs, w, v, id)
  BY <1>6, <1>8 DEF Ran
<1>10. UsersApart(memory, cs, host, pending, images) /\ Free(memory, OwningOf(host, pending, images)) /\ memory \in Memories
  <2>1. Safe(memory, commands, host, pending, images)
    BY <1>4, SafeParts
  <2>2. /\ UsersApart(memory, commands, host, pending, images) /\ Free(memory, OwningOf(host, pending, images))
        /\ Typed(memory, commands, host, pending, images)
    BY <2>1, Zenon DEF Safe
  <2>3. memory \in Memories
    BY <2>2, Zenon DEF Typed
  <2>4. QED
    BY <1>2, <2>2, <2>3
<1>11. /\ HostBuffers(host.images) \cap UseOf(cs, id) = {} /\ ImageBuffers(images) \cap UseOf(cs, id) = {}
       /\ OutputsOf(host, id, UseOf(cs, id))
  <2>1. PICK U : U = UseOf(cs, id)
    OBVIOUS
  <2>2. Uses(id, U, pending, MineOf(host), host.images, images, PooledOf(memory)) /\ OutputsOf(host, id, U)
    BY <1>6, <1>10, <2>1, Zenon DEF UsersApart
  <2>3. U \cap (PooledOf(memory) \cup HostBuffers(host.images) \cup ImageBuffers(images)) = {}
    BY <2>2, Zenon DEF Uses
  <2>4. QED
    BY <2>1, <2>2, <2>3
<1>12. ToSet(host.outputs) \subseteq DOMAIN w
  <2>1. ToSet(host.outputs) \subseteq DOMAIN memory.sizes
    BY <1>10 DEF Free, OwningOf, Owning
  <2>2. memory.sizes \in Seq(Nat)
    BY <1>10 DEF Memories
  <2>3. DOMAIN w = DOMAIN memory.sizes
    BY <1>5, <2>2
  <2>4. QED
    BY <2>1, <2>3
<1>13. /\ Known(cs, MineOf(host)) /\ MineOf(host) \in Seq(Subs) /\ Known(cs, returned.submissions)
       /\ \A k \in DOMAIN pending : Known(cs, pending[k].submissions)
  <2>1. Known(cs, returned.submissions)
    BY <1>4, Zenon DEF Standing, Results
  <2>2. MineOf(host) \in Seq(Subs)
    BY <1>4, MineType
  <2>3. QED
    BY <1>4, <2>1, <2>2, Zenon DEF KnownOf
<1>14. Standing(bs, v, pending, images, returned)
  BY <1>4, <1>8, <1>9, <1>11, <1>13, StandingRan
<1>15. Underway(bs, v, host, returned)
  BY <1>4, <1>8, <1>9, <1>11, <1>12, <1>13, UnderwayRan
<1>16. Machine(v, memory.sizes, bs, queues')
  <2>1. \A c \in RunningOf(cs) : c # id => c \in RunningOf(bs)
    BY <1>8 DEF RunningOf
  <2>2. Queued(bs, queues')
    <3>1. PICK rs, qs : rs = queues' /\ qs = queues
      OBVIOUS
    <3>2. /\ Queued(cs, qs) /\ q \in DOMAIN qs /\ qs[q] # <<>> /\ id = Head(qs[q]) /\ rs = [qs EXCEPT ![q] = Tail(@)]
      BY <1>1, <1>3, <1>5, <3>1
    <3>3. Queued(bs, rs)
      BY <2>1, <3>2, QueueEnds
    <3>4. QED
      BY <3>1, <3>3
  <2>3. \A c \in DOMAIN bs : Formed(bs[c])
    <3>1. Formed(bs[id])
      BY <1>7, <1>8 DEF Formed
    <3>2. QED
      BY <1>5, <1>8, <3>1
  <2>4. QED
    BY <1>5, <1>8, <2>2, <2>3, Zenon DEF Machine
<1>17. QED
  BY <1>2, <1>3, <1>14, <1>15, <1>16, Zenon DEF RStays

-----------------------------------------------------------------------------
(***************************************************************************)
(* A command that is committed.                                            *)
(***************************************************************************)
\* The images of a command are of its plans, and each has a slot of its own in a
\* status buffer that one of the command's submissions owns.
MadeWell(z, plans, X, made, e) ==
  \A k \in 1..Len(plans) :
    /\ made[k].plan = plans[k] /\ made[k].status \in X /\ made[k].source = made[k].truth
    /\ made[k].slot \in 1..z[made[k].status]
    /\ \E j \in 1..Len(plans) : made[k].status \in Own(e[j])
    /\ \A j \in 1..Len(plans) : j # k /\ made[j].status = made[k].status => made[j].slot # made[k].slot

\* The size of the status buffer of each image.
LEMMA StatusSizes ==
  ASSUME MetalAssumption, NEW plans \in Seq(Names), NEW z, NEW taken, Serves(z, taken, plans)
  PROVE  /\ Len(plans) \in Nat
         /\ Concatenated(plans) => Len(taken) = 3 /\ z[taken[3]] >= Len(plans) /\ z[taken[3]] \in Nat
         /\ ~Concatenated(plans) => /\ Len(taken) = 3 * Len(plans)
                                    /\ \A k \in 1..Len(plans) : z[taken[3 * k]] = 1
<1>1. PICK n, s : n = Len(plans) /\ s = ScratchOf(plans)
  OBVIOUS
<1>2. n \in Nat /\ DOMAIN plans = 1..n /\ Len(taken) = Len(s) /\ \A j \in 1..Len(taken) : z[taken[j]] = s[j].size
  BY <1>1 DEF Serves
<1>3. CASE Concatenated(plans)
  <2>1. s = ScratchSet(plans) /\ Len(s) = 3
    BY <1>1, <1>3, ScratchOfType DEF ScratchOf
  <2>2. s[3] = BufferRequest("shared", n)
    BY <1>1, <2>1, ScratchSetType
  <2>3. s[3].size >= n /\ s[3].size \in Nat
    BY <1>2, <2>2 DEF BufferRequest
  <2>4. 3 \in 1..Len(taken)
    BY <1>2, <2>1
  <2>5. QED
    BY <1>1, <1>2, <1>3, <2>1, <2>3, <2>4
<1>4. CASE ~Concatenated(plans)
  <2>1. PICK a : a = Alone(plans)
    OBVIOUS
  <2>2. Len(s) = 3 * n /\ Thirds(a, s) /\ Len(a) = n
    BY <1>1, <1>4, <2>1, ScratchOfType
  <2>3. ASSUME NEW k \in 1..n PROVE s[3 * k].size = 1
    <3>1. s[3 * k] = a[k][3]
      BY <2>2 DEF Thirds
    <3>2. a[k] = ScratchSet(<<plans[k]>>)
      BY <1>2, <2>1 DEF Alone
    <3>3. <<plans[k]>> \in Seq(Names) /\ Len(<<plans[k]>>) = 1
      BY <1>1, <1>2
    <3>4. ScratchSet(<<plans[k]>>)[3] = BufferRequest("shared", 1)
      BY <3>3, ScratchSetType
    <3>5. QED
      BY <3>1, <3>2, <3>4 DEF BufferRequest
  <2>4. ASSUME NEW k \in 1..n PROVE z[taken[3 * k]] = 1
    <3>1. 3 * k \in 1..Len(taken)
      BY <1>2, <2>2
    <3>2. QED
      BY <1>2, <2>3, <3>1
  <2>5. QED
    BY <1>1, <1>2, <1>4, <2>2, <2>4
<1>5. QED
  BY <1>3, <1>4

\* The images that a command makes.
LEMMA ImagesMadeWell ==
  ASSUME MetalAssumption, arenas \in [Addresses -> Nat], NEW plans \in Seq(Names), NEW z, NEW taken,
         Serves(z, taken, plans), IsInjective(taken), NEW outputs \in Seq(Nat),
         outputs = <<>> \/ Len(plans) <= Len(outputs),
         NEW found, found = Versions(LookedUp(plans, Len(plans))),
         NEW made, made = [k \in DOMAIN plans |-> Encoded(plans, k, taken, found, outputs)],
         NEW id, NEW e, e = Submitted(plans, id, taken)
  PROVE  MadeWell(z, plans, ToSet(taken), made, e)
<1>1. PICK n : n = Len(plans)
  OBVIOUS
<1>2. /\ n \in Nat /\ DOMAIN plans = 1..n /\ taken \in Seq(Nat) /\ Len(taken) = Len(ScratchOf(plans))
      /\ DOMAIN taken = 1..Len(taken)
  BY <1>1 DEF Serves
<1>3. /\ Concatenated(plans) => Len(taken) = 3 /\ z[taken[3]] >= n /\ z[taken[3]] \in Nat
      /\ ~Concatenated(plans) => Len(taken) = 3 * n /\ \A k \in 1..n : z[taken[3 * k]] = 1
  BY <1>1, StatusSizes
<1>4. ASSUME NEW k \in 1..n
      PROVE  /\ made[k].plan = plans[k] /\ made[k].source = made[k].truth /\ made[k].status \in ToSet(taken)
             /\ made[k].status = IF Concatenated(plans) THEN taken[3] ELSE taken[3 * k]
             /\ made[k].slot = IF Concatenated(plans) THEN k ELSE 1
  <2>1. made[k] = Encoded(plans, k, taken, found, outputs)
    BY <1>2
  <2>2. PICK i : i = Encoded(plans, k, taken, found, outputs)
    OBVIOUS
  <2>3. i.status \in ToSet(taken) /\ i.source = i.truth
    BY <1>1, <1>2, <2>2, EncodedPictures
  <2>4. /\ i.plan = plans[k] /\ i.status = (IF Concatenated(plans) THEN taken[3] ELSE taken[3 * k])
        /\ i.slot = IF Concatenated(plans) THEN k ELSE 1
    BY <2>2 DEF Encoded
  <2>5. QED
    BY <2>1, <2>2, <2>3, <2>4
<1>5. ASSUME NEW k \in 1..n
      PROVE  /\ made[k].slot \in 1..z[made[k].status]
             /\ \E j \in 1..n : made[k].status \in Own(e[j])
             /\ \A j \in 1..n : j # k /\ made[j].status = made[k].status => made[j].slot # made[k].slot
  <2>1. CASE Concatenated(plans)
    <3>1. made[k].slot \in 1..z[made[k].status]
      <4>1. made[k].slot = k /\ made[k].status = taken[3]
        BY <1>4, <2>1, Zenon
      <4>2. z[taken[3]] >= n /\ z[taken[3]] \in Nat
        BY <1>3, <2>1
      <4>3. PICK l : l = z[taken[3]]
        OBVIOUS
      <4>4. l >= n /\ l \in Nat /\ z[made[k].status] = l
        BY <4>1, <4>2, <4>3, Zenon
      <4>5. k \in 1..l
        BY <1>2, <4>4
      <4>6. QED
        BY <4>1, <4>4, <4>5, Zenon
    <3>2. 1 \in 1..n /\ e[1].shared = <<taken[3]>>
      <4>1. PICK o : o = Owned(plans, 1, taken)
        OBVIOUS
      <4>2. o.shared = <<taken[3]>>
        BY <2>1, <4>1 DEF Owned
      <4>3. 1 \in 1..n
        BY <1>2
      <4>4. e[1] = Submission(id, 1, o)
        BY <1>2, <4>1, <4>3, Zenon DEF Submitted
      <4>5. Submission(id, 1, o).shared = o.shared
        BY DEF Submission
      <4>6. QED
        BY <4>2, <4>3, <4>4, <4>5, Zenon
    <3>3. made[k].status \in Own(e[1])
      <4>1. PICK b, f : b = taken[3] /\ f = e[1]
        OBVIOUS
      <4>2. b \in ToSet(<<b>>) /\ f.shared = <<b>>
        BY <3>2, <4>1 DEF ToSet
      <4>3. b \in Own(f)
        BY <4>2, Zenon DEF Own
      <4>4. made[k].status = b
        BY <1>4, <2>1, <4>1, Zenon
      <4>5. QED
        BY <4>1, <4>3, <4>4, Zenon
    <3>4. \A j \in 1..n : j # k => made[j].slot # made[k].slot
      <4>1. \A j \in 1..n : made[j].slot = j
        BY <1>4, <2>1, Zenon
      <4>2. QED
        BY <4>1
    <3>5. QED
      BY <3>1, <3>2, <3>3, <3>4
  <2>2. CASE ~Concatenated(plans)
    <3>1. made[k].slot \in 1..z[made[k].status]
      <4>1. made[k].slot = 1 /\ made[k].status = taken[3 * k]
        BY <1>4, <2>2, Zenon
      <4>2. z[taken[3 * k]] = 1
        BY <1>3, <2>2, Zenon
      <4>3. z[made[k].status] = 1
        BY <4>1, <4>2, Zenon
      <4>4. QED
        BY <4>1, <4>3
    <3>2. e[k].shared = <<taken[3 * k]>>
      BY <1>2, <2>2 DEF Submitted, Submission, Owned
    <3>3. made[k].status \in Own(e[k])
      <4>1. taken[3 * k] \in ToSet(<<taken[3 * k]>>)
        BY DEF ToSet
      <4>2. QED
        BY <1>4, <2>2, <3>2, <4>1 DEF Own
    <3>4. ASSUME NEW j \in 1..n, j # k PROVE made[j].status # made[k].status
      <4>1. 3 * j \in DOMAIN taken /\ 3 * k \in DOMAIN taken /\ 3 * j # 3 * k
        <5>1. PICK l : l = Len(taken)
          OBVIOUS
        <5>2. l = 3 * n /\ DOMAIN taken = 1..l
          BY <1>2, <1>3, <2>2, <5>1, Zenon
        <5>3. 3 * j \in 1..l /\ 3 * k \in 1..l /\ 3 * j # 3 * k
          BY <1>2, <3>4, <5>2
        <5>4. QED
          BY <5>2, <5>3, Zenon
      <4>2. taken[3 * j] # taken[3 * k]
        BY <4>1 DEF IsInjective
      <4>3. QED
        BY <1>4, <2>2, <4>2
    <3>5. QED
      BY <3>1, <3>3, <3>4
  <2>3. QED
    BY <2>1, <2>2
<1>6. QED
  BY <1>1, <1>4, <1>5 DEF MadeWell

\* A command more is queued.
LEMMA QueueGrows ==
  ASSUME MetalAssumption, NEW cs \in Seq(Commands), NEW qs, Queued(cs, qs), NEW x, x.state = "running",
         NEW bs, bs = Append(cs, x), NEW p \in 0..Queues - 1,
         NEW rs, rs = [qs EXCEPT ![p] = Append(@, Len(cs) + 1)]
  PROVE  Queued(bs, rs)
<1>1. PICK id : id = Len(cs) + 1
  OBVIOUS
<1>2. id \in Nat /\ DOMAIN cs = 1..id - 1 /\ DOMAIN bs = 1..id /\ bs[id] = x /\ \A c \in 1..id - 1 : bs[c] = cs[c]
  BY <1>1
<1>3. /\ qs \in [0..Queues - 1 -> Seq(Nat)]
      /\ \A q \in 0..Queues - 1 : \A k \in DOMAIN qs[q] : qs[q][k] \in RunningOf(cs)
      /\ \A q, r \in 0..Queues - 1 : \A j \in DOMAIN qs[q], k \in DOMAIN qs[r] :
           qs[q][j] = qs[r][k] => q = r /\ j = k
  BY DEF Queued
<1>4. id \in RunningOf(bs) /\ id \notin RunningOf(cs) /\ \A c \in RunningOf(cs) : c \in RunningOf(bs)
  BY <1>2 DEF RunningOf
<1>5. PICK s, t, n : s = qs[p] /\ t = Append(s, id) /\ n = Len(s)
  OBVIOUS
<1>6. s \in Seq(Nat)
  BY <1>3, <1>5
<1>7. t \in Seq(Nat) /\ n \in Nat /\ DOMAIN s = 1..n /\ DOMAIN t = 1..n + 1 /\ t[n + 1] = id /\ \A k \in 1..n : t[k] = s[k]
  BY <1>2, <1>5, <1>6
<1>8. rs \in [0..Queues - 1 -> Seq(Nat)] /\ rs[p] = t /\ \A q \in 0..Queues - 1 : q # p => rs[q] = qs[q]
  BY <1>1, <1>3, <1>5, <1>7
<1>9. ASSUME NEW q \in 0..Queues - 1, NEW k \in DOMAIN rs[q]
      PROVE  (k \in DOMAIN qs[q] /\ rs[q][k] = qs[q][k]) \/ (q = p /\ k = n + 1 /\ rs[q][k] = id)
  <2>1. CASE q # p
    BY <1>8, <1>9, <2>1
  <2>2. CASE q = p
    BY <1>5, <1>7, <1>8, <1>9, <2>2
  <2>3. QED
    BY <2>1, <2>2
<1>10. ASSUME NEW q \in 0..Queues - 1, NEW k \in DOMAIN rs[q] PROVE rs[q][k] \in RunningOf(bs)
  BY <1>3, <1>4, <1>9
<1>11. ASSUME NEW q \in 0..Queues - 1, NEW r \in 0..Queues - 1, NEW j \in DOMAIN rs[q], NEW k \in DOMAIN rs[r],
              rs[q][j] = rs[r][k]
       PROVE  q = r /\ j = k
  <2>1. CASE j \in DOMAIN qs[q] /\ rs[q][j] = qs[q][j]
    <3>1. rs[q][j] # id
      BY <1>3, <1>4, <2>1
    <3>2. k \in DOMAIN qs[r] /\ rs[r][k] = qs[r][k]
      BY <1>9, <1>11, <3>1
    <3>3. QED
      BY <1>3, <1>11, <2>1, <3>2
  <2>2. CASE q = p /\ j = n + 1 /\ rs[q][j] = id
    <3>1. r = p /\ k = n + 1
      BY <1>3, <1>4, <1>9, <1>11, <2>2
    <3>2. QED
      BY <2>2, <3>1
  <2>3. QED
    BY <1>9, <2>1, <2>2
<1>12. QED
  BY <1>8, <1>10, <1>11 DEF Queued

\* A command: the images it makes, the submissions that read them and the buffers
\* X it took, of which there are z; its outputs follow the first n of O.
Entered(plans, z, X, x, e, id, O, n) ==
  /\ plans \in Seq(Names) /\ z \in Seq(Nat) /\ Len(z) >= Len(memory.sizes)
  /\ x \in Commands /\ DOMAIN x.images = 1..Len(plans) /\ x.scratch = X /\ x.state = "running"
  /\ e \in Seq(Subs) /\ DOMAIN e = 1..Len(plans)
  /\ MadeWell(z, plans, X, x.images, e)
  /\ \A k \in 1..Len(plans) :
       /\ e[k].command = id /\ e[k].image = k
       /\ x.images[k].output # 0 => n + k \in DOMAIN O /\ x.images[k].output = O[n + k]
  /\ X \cap OwningOf(host, pending, images) = {} /\ X \subseteq DOMAIN z
  /\ \A c \in RunningOf(commands) : UseOf(commands, c) \cap X = {}

\* A command that is committed is one of this kind.
LEMMA CommandEntered ==
  ASSUME MetalAssumption, RInv, host.step = "encode", host.todo # <<>>,
         NEW plans, NEW m, NEW found, NEW made, NEW x, NEW e, Committed(plans, m, found, made, x, e)
  PROVE  Entered(plans, m.sizes, ToSet(m.taken), x, e, Len(commands) + 1, host.outputs, Len(MineOf(host)))
<1>1. IInv /\ arenas \in [Addresses -> Nat] /\ memory \in Memories /\ Well(memory)
  <2>1. IInv
    BY TrueParts
  <2>2. memory \in Memories /\ Well(memory)
    BY <2>1, SafeParts
  <2>3. QED
    BY <2>1, <2>2, Zenon DEF IInv
<1>2. /\ Encodes(e, x, Len(commands) + 1, ToSet(m.taken), host.outputs, Len(MineOf(host)))
      /\ e \in Seq(Subs) /\ Len(e) = Len(plans) /\ x \in Commands
      /\ Unused(WithoutTaken(m), commands, host, pending, images, ToSet(m.taken))
  BY <1>1, CommandCommitted
<1>3. /\ plans = Head(host.todo) /\ m = TakeAll(ScratchOf(plans))
      /\ found = Versions(LookedUp(plans, Len(plans)))
      /\ made = [k \in DOMAIN plans |-> Encoded(plans, k, m.taken, found, NextOutputs)]
      /\ x = [images |-> made, scratch |-> ToSet(m.taken), state |-> "running", bad |-> {}]
      /\ e = Submitted(plans, Len(commands) + 1, m.taken)
  BY Zenon DEF Committed
<1>4. /\ plans \in Seq(Names) /\ NextOutputs \in Seq(Nat) /\ (NextOutputs = <<>> \/ Len(plans) <= Len(NextOutputs))
  BY <1>1, <1>3, NextCommand
<1>5. PICK s, z, taken, id : s = ScratchOf(plans) /\ z = m.sizes /\ taken = m.taken /\ id = Len(commands) + 1
  OBVIOUS
<1>6. s \in Seq(Requested)
  BY <1>4, <1>5, ScratchOfType
<1>7. Took(memory, m, s)
  <2>1. m = TakeFrom(memory, s)
    BY <1>3, <1>5 DEF TakeAll, TakeFrom
  <2>2. QED
    BY <1>1, <1>6, <2>1, TakeFromTakes
<1>8. /\ z \in Seq(Nat) /\ taken \in Seq(Nat) /\ Len(taken) = Len(s) /\ IsInjective(taken) /\ Len(z) >= Len(memory.sizes)
      /\ \A j \in 1..Len(s) : z[taken[j]] = s[j].size
  <2>1. Taken(memory, m, Len(s)) /\ \A j \in 1..Len(s) : z[taken[j]] = s[j].size
    BY <1>5, <1>7, Zenon DEF Took
  <2>2. QED
    BY <1>5, <2>1 DEF Taken, Takings
<1>9. Serves(z, taken, plans)
  BY <1>5, <1>8 DEF Serves
<1>10. MadeWell(z, plans, ToSet(taken), made, e)
  <2>1. PICK outputs : outputs = NextOutputs
    OBVIOUS
  <2>2. /\ outputs \in Seq(Nat) /\ (outputs = <<>> \/ Len(plans) <= Len(outputs))
        /\ made = [k \in DOMAIN plans |-> Encoded(plans, k, taken, found, outputs)]
    BY <1>3, <1>4, <1>5, <2>1
  <2>3. e = Submitted(plans, id, taken)
    BY <1>3, <1>5
  <2>4. found = Versions(LookedUp(plans, Len(plans))) /\ plans \in Seq(Names) /\ IsInjective(taken)
    BY <1>3, <1>4, <1>8
  <2>5. QED
    BY <1>1, <1>9, <2>2, <2>3, <2>4, ImagesMadeWell, Zenon
<1>11. /\ x.images = made /\ x.scratch = ToSet(taken) /\ x.state = "running"
       /\ DOMAIN plans = 1..Len(plans) /\ DOMAIN made = 1..Len(plans) /\ DOMAIN e = 1..Len(plans)
  BY <1>3, <1>4, <1>5 DEF Submitted
<1>12. \A k \in 1..Len(plans) :
        /\ e[k].command = id /\ e[k].image = k
        /\ x.images[k].output # 0 => /\ Len(MineOf(host)) + k \in DOMAIN host.outputs
                                     /\ x.images[k].output = host.outputs[Len(MineOf(host)) + k]
  <2>1. \A k \in 1..Len(plans) : e[k].command = id /\ e[k].image = k
    BY <1>3, <1>5, <1>11 DEF Submitted, Submission
  <2>2. \A k \in 1..Len(plans) :
        x.images[k].output # 0 => /\ Len(MineOf(host)) + k \in DOMAIN host.outputs
                                  /\ x.images[k].output = host.outputs[Len(MineOf(host)) + k]
    BY <1>2, <1>11 DEF Encodes
  <2>3. QED
    BY <2>1, <2>2
<1>13. PICK X : X = ToSet(taken)
  OBVIOUS
<1>14. /\ X \cap OwningOf(host, pending, images) = {} /\ X \subseteq DOMAIN z
       /\ \A c \in RunningOf(commands) : UseOf(commands, c) \cap X = {}
  <2>1. Unused(WithoutTaken(m), commands, host, pending, images, X)
    BY <1>2, <1>5, <1>13, Zenon
  <2>2. WithoutTaken(m).sizes = z
    BY <1>5 DEF WithoutTaken
  <2>3. QED
    BY <2>1, <2>2, Zenon DEF Unused
<1>15. QED
  BY <1>2, <1>4, <1>5, <1>8, <1>10, <1>11, <1>12, <1>13, <1>14, Zenon DEF Entered

\* What is in the buffers once the status words of a command are cleared.
ClearedOf(z, x, plans, w) ==
  [b \in DOMAIN z |-> IF b \in {x.images[k].status : k \in DOMAIN plans} THEN [k \in 1..z[b] |-> "ok"]
                      ELSE IF b \in DOMAIN w THEN w[b] ELSE <<>>]

\* A command is committed with id, and bs and v are the commands and contents that
\* there are then.
Adding(plans, z, X, x, e, id, bs, v, Z) ==
  /\ host.step = "encode" /\ host.todo # <<>> /\ plans = Head(host.todo) /\ id = Len(commands) + 1
  /\ Entered(plans, z, X, x, e, id, host.outputs, Len(MineOf(host)))
  /\ NextOutputs # <<>> => \A k \in 1..Len(plans) : x.images[k].output = NextOutputs[k]
  /\ bs = Append(commands, x) /\ v = ClearedOf(z, x, plans, contents) /\ Z = UseOf(bs, id)

\* Only what the command uses is written.
Leaves(z, bs, v, Z) ==
  /\ Changed(commands, bs, contents, v, Z) /\ v \in Seq(Words) /\ Len(v) = Len(z)
  /\ (BatchBuffers(pending) \cup ImageBuffers(images) \cup HostBuffers(host.images) \cup Scratches(MineOf(host))) \cap Z = {}
LEMMA CommitChanges ==
  ASSUME MetalAssumption, RInv, NEW plans, NEW z, NEW X, NEW x, NEW e, NEW id, NEW bs, NEW v, NEW Z,
         Adding(plans, z, X, x, e, id, bs, v, Z)
  PROVE  Leaves(z, bs, v, Z)
<1> SUFFICES ASSUME id = Len(commands) + 1, Entered(plans, z, X, x, e, id, host.outputs, Len(MineOf(host))),
                    bs = Append(commands, x), v = ClearedOf(z, x, plans, contents), Z = UseOf(bs, id)
             PROVE  Leaves(z, bs, v, Z)
  BY Zenon DEF Adding
<1>1. /\ IInv /\ commands \in Seq(Commands) /\ memory \in Memories
      /\ OwnersOf(host, pending, images) /\ Free(memory, OwningOf(host, pending, images))
      /\ contents \in Seq(Words) /\ Len(contents) = Len(memory.sizes)
  <2>1. IInv /\ commands \in Seq(Commands) /\ Machine(contents, memory.sizes, commands, queues)
    BY TrueParts
  <2>2. Safe(memory, commands, host, pending, images) /\ memory \in Memories
    BY <2>1, SafeParts
  <2>3. QED
    BY <2>1, <2>2, Zenon DEF Safe, Machine
<1>2. PICK cs, w, n, im : cs = commands /\ w = contents /\ n = Len(plans) /\ im = x.images
  OBVIOUS
<1>3. /\ plans \in Seq(Names) /\ n \in Nat /\ DOMAIN plans = 1..n /\ DOMAIN im = 1..n
      /\ z \in Seq(Nat) /\ Len(z) >= Len(memory.sizes) /\ x.scratch = X
      /\ \A k \in 1..n : im[k].status \in X
      /\ \A k \in 1..n : im[k].output # 0 => im[k].output \in ToSet(host.outputs)
      /\ X \cap OwningOf(host, pending, images) = {} /\ X \subseteq DOMAIN z
  <2>1. plans \in Seq(Names) /\ n \in Nat /\ DOMAIN plans = 1..n
    BY <1>2 DEF Entered
  <2>2. \A k \in 1..n : im[k].status \in X
    BY <1>2 DEF Entered, MadeWell
  <2>3. \A k \in 1..n : im[k].output # 0 => im[k].output \in ToSet(host.outputs)
    BY <1>2 DEF Entered, ToSet
  <2>4. QED
    BY <1>2, <2>1, <2>2, <2>3 DEF Entered
<1>4. /\ id \in Nat /\ DOMAIN cs = 1..id - 1 /\ DOMAIN bs = 1..id /\ bs[id] = x /\ \A c \in 1..id - 1 : bs[c] = cs[c]
  BY <1>1, <1>2
<1>5. Z = X \cup ({im[k].output : k \in 1..n} \ {0})
  BY <1>2, <1>3, <1>4 DEF UseOf
<1>6. Z \subseteq X \cup ToSet(host.outputs)
  BY <1>3, <1>5
<1>7. (BatchBuffers(pending) \cup ImageBuffers(images) \cup HostBuffers(host.images) \cup Scratches(MineOf(host))) \cap Z = {}
  <2>1. PICK B, I, H, S, O : /\ B = BatchBuffers(pending) /\ I = ImageBuffers(images) /\ H = HostBuffers(host.images)
                             /\ S = Scratches(MineOf(host)) /\ O = ToSet(host.outputs)
    OBVIOUS
  <2>2. Pairwise(B, S, O, H, I)
    BY <1>1, <2>1, Zenon DEF OwnersOf, Owners
  <2>3. B \cap O = {} /\ S \cap O = {} /\ H \cap O = {} /\ I \cap O = {}
    BY <2>2 DEF Pairwise
  <2>4. X \cap (B \cup S \cup O \cup H \cup I) = {}
    BY <1>3, <2>1, Zenon DEF OwningOf, Owning
  <2>5. (B \cup I \cup H \cup S) \cap Z = {}
    BY <1>6, <2>1, <2>3, <2>4
  <2>6. QED
    BY <2>1, <2>5
<1>8. PICK T : T = {im[k].status : k \in 1..n}
  OBVIOUS
<1>9. T \subseteq X
  BY <1>3, <1>8
<1>10. v = [b \in DOMAIN z |-> IF b \in T THEN [k \in 1..z[b] |-> "ok"] ELSE IF b \in DOMAIN w THEN w[b] ELSE <<>>]
  BY <1>2, <1>3, <1>8, Zenon DEF ClearedOf
<1>11. PICK l : l = Len(z)
  OBVIOUS
<1>12. l \in Nat /\ DOMAIN z = 1..l /\ DOMAIN w = 1..Len(w) /\ Len(w) \in Nat /\ Len(w) <= l /\ DOMAIN w \subseteq 1..l
  BY <1>1, <1>2, <1>3, <1>11
<1>13. v \in Seq(Words) /\ Len(v) = l /\ DOMAIN v = 1..l
  <2>1. PICK R : R = Words
    OBVIOUS
  <2>2. <<>> \in R /\ w \in Seq(R)
    BY <1>1, <1>2, <2>1 DEF Words
  <2>3. ASSUME NEW b \in 1..l PROVE [k \in 1..z[b] |-> "ok"] \in R
    <3>1. PICK a : a = z[b]
      OBVIOUS
    <3>2. a \in Nat
      BY <1>3, <1>12, <3>1
    <3>3. PICK A : A = Nat \cup {"ok", "bad"}
      OBVIOUS
    <3>4. "ok" \in A
      BY <3>3
    <3>5. [k \in 1..a |-> "ok"] \in Seq(A)
      BY <3>2, <3>4
    <3>6. QED
      BY <2>1, <3>1, <3>3, <3>5 DEF Words
  <2>4. \A b \in DOMAIN w : w[b] \in R
    BY <2>2
  <2>5. \A b \in 1..l : v[b] \in R
    BY <1>10, <1>12, <2>2, <2>3, <2>4
  <2>6. v = [b \in 1..l |-> v[b]]
    BY <1>10, <1>12
  <2>7. v \in Seq(R) /\ Len(v) = l
    BY <1>12, <2>5, <2>6
  <2>8. QED
    BY <1>10, <1>12, <2>1, <2>7
<1>14. \A b \in DOMAIN w \ Z : v[b] = w[b]
  <2>1. SUFFICES ASSUME NEW b \in DOMAIN w, b \notin Z PROVE v[b] = w[b]
    OBVIOUS
  <2>2. b \notin T /\ b \in DOMAIN z
    BY <1>5, <1>9, <1>12, <2>1
  <2>3. QED
    BY <1>10, <2>1, <2>2
<1>15. ASSUME NEW d \in RunningOf(bs) PROVE d \in RunningOf(cs) \/ UseOf(bs, d) \subseteq Z
  <2>1. d \in 1..id
    BY <1>4, <1>15 DEF RunningOf
  <2>2. CASE d = id
    BY <2>2
  <2>3. CASE d # id
    <3>1. d \in DOMAIN cs /\ bs[d] = cs[d]
      BY <1>4, <2>1, <2>3
    <3>2. QED
      BY <1>15, <3>1 DEF RunningOf
  <2>4. QED
    BY <2>2, <2>3
<1>16. Changed(cs, bs, w, v, Z)
  <2>1. DOMAIN cs \subseteq DOMAIN bs /\ \A c \in DOMAIN cs : bs[c] = cs[c]
    BY <1>4
  <2>2. DOMAIN w \subseteq DOMAIN v
    BY <1>12, <1>13
  <2>3. QED
    BY <1>14, <1>15, <2>1, <2>2, Zenon DEF Changed
<1>17. QED
  BY <1>2, <1>7, <1>11, <1>13, <1>16, Zenon DEF Leaves

\* The submissions of the command read their own status words.
LEMMA CommitReads ==
  ASSUME MetalAssumption, RInv, NEW plans, NEW z, NEW X, NEW x, NEW e, NEW id, NEW bs, NEW v, NEW Z,
         Adding(plans, z, X, x, e, id, bs, v, Z)
  PROVE  Handling(bs, v, e) /\ Known(bs, e) /\ PlansOf(bs, e) = plans
<1> SUFFICES ASSUME id = Len(commands) + 1, Entered(plans, z, X, x, e, id, host.outputs, Len(MineOf(host))),
                      bs = Append(commands, x), v = ClearedOf(z, x, plans, contents), Z = UseOf(bs, id)
               PROVE  Handling(bs, v, e) /\ Known(bs, e) /\ PlansOf(bs, e) = plans
  BY Zenon DEF Adding
<1>1. /\ plans \in Seq(Names) /\ DOMAIN x.images = 1..Len(plans) /\ x.scratch = X /\ x.state = "running"
      /\ z \in Seq(Nat) /\ e \in Seq(Subs) /\ DOMAIN e = 1..Len(plans)
      /\ MadeWell(z, plans, X, x.images, e)
      /\ \A k \in 1..Len(plans) : e[k].command = id /\ e[k].image = k
      /\ X \subseteq DOMAIN z
      /\ \A c \in RunningOf(commands) : UseOf(commands, c) \cap X = {}
  BY Zenon DEF Entered
<1>2. commands \in Seq(Commands)
  BY TrueParts
<1>3. PICK cs, n, im : cs = commands /\ n = Len(plans) /\ im = x.images
  OBVIOUS
<1>4. /\ id \in Nat /\ DOMAIN cs = 1..id - 1 /\ DOMAIN bs = 1..id /\ bs[id] = x /\ \A c \in 1..id - 1 : bs[c] = cs[c]
  BY <1>2, <1>3
<1>5. ASSUME NEW k \in 1..n
      PROVE  /\ Picture(bs, e[k]) = im[k] /\ bs[e[k].command] = x /\ e[k].command = id /\ e[k].image = k
             /\ k \in DOMAIN im /\ id \in DOMAIN bs
  BY <1>1, <1>3, <1>4 DEF Picture
<1>6. Known(bs, e)
  BY <1>1, <1>3, <1>4, <1>5 DEF Known
<1>7. PlansOf(bs, e) = plans
  <2>1. \A k \in 1..n : im[k].plan = plans[k]
    BY <1>1, <1>3 DEF MadeWell
  <2>2. PlansOf(bs, e) = [k \in 1..n |-> plans[k]]
    BY <1>1, <1>3, <1>5, <2>1 DEF PlansOf
  <2>3. plans = [k \in 1..n |-> plans[k]]
    BY <1>1, <1>3
  <2>4. QED
    BY <2>2, <2>3
<1>8. Backed(bs, e)
  <2>1. \A k \in 1..n : \E j \in 1..n : im[k].status \in Own(e[j])
    BY <1>1, <1>3 DEF MadeWell
  <2>2. QED
    <3>1. SUFFICES ASSUME NEW k \in 1..n
                   PROVE  \E j \in 1..n : e[j].command = e[k].command /\ Picture(bs, e[k]).status \in Own(e[j])
      BY <1>1, <1>3 DEF Backed
    <3>2. PICK j \in 1..n : im[k].status \in Own(e[j])
      BY <2>1
    <3>3. QED
      BY <1>5, <3>2
<1>9. ASSUME NEW k \in 1..n PROVE Tells(bs, v, e[k])
  <2>1. PICK i, b : i = im[k] /\ b = im[k].status
    OBVIOUS
  <2>2. b \in X /\ i.slot \in 1..z[b] /\ b \in DOMAIN z /\ i.status = b
    BY <1>1, <1>3, <2>1 DEF MadeWell
  <2>3. b \in {x.images[j].status : j \in DOMAIN plans}
    <3>1. k \in DOMAIN plans /\ b = x.images[k].status
      BY <1>1, <1>3, <2>1
    <3>2. QED
      BY <3>1
  <2>4. v[b] = [j \in 1..z[b] |-> "ok"] /\ b \in DOMAIN v
    BY <2>2, <2>3 DEF ClearedOf
  <2>5. i.slot \in DOMAIN v[b] /\ v[b][i.slot] = "ok"
    BY <2>2, <2>4
  <2>6. Verdict(x, k) = "ok"
    BY <1>1 DEF Verdict
  <2>7. ASSUME NEW d \in RunningOf(bs), d # id PROVE b \notin UseOf(bs, d)
    <3>1. d \in DOMAIN cs /\ bs[d] = cs[d] /\ d \in RunningOf(cs)
      BY <1>4, <2>7 DEF RunningOf
    <3>2. UseOf(bs, d) = UseOf(cs, d)
      BY <3>1 DEF UseOf
    <3>3. QED
      BY <1>1, <1>3, <2>2, <3>1, <3>2
  <2>8. QED
    <3>1. PICK s : s = e[k]
      OBVIOUS
    <3>2. Picture(bs, s) = i /\ bs[s.command] = x /\ s.command = id /\ s.image = k /\ i.status = b
      BY <1>5, <2>1, <2>2, <3>1
    <3>3. Tells(bs, v, s)
      BY <2>4, <2>5, <2>6, <2>7, <3>2 DEF Tells
    <3>4. QED
      BY <3>1, <3>3
<1>10. Read(bs, v, e)
  BY <1>1, <1>3, <1>9 DEF Read
<1>11. QED
  BY <1>6, <1>7, <1>8, <1>10, Zenon DEF Handling

\* The images of the command are its own.
LEMMA CommitFormed ==
  ASSUME MetalAssumption, RInv, NEW plans, NEW z, NEW X, NEW x, NEW e, NEW id,
         Entered(plans, z, X, x, e, id, host.outputs, Len(MineOf(host)))
  PROVE  Formed(x)
<1>1. PICK im, n, O, l : im = x.images /\ n = Len(plans) /\ O = host.outputs /\ l = Len(MineOf(host))
  OBVIOUS
<1>2. /\ DOMAIN im = 1..n /\ x.scratch = X /\ plans \in Seq(Names)
      /\ MadeWell(z, plans, X, im, e)
      /\ \A k \in 1..n : im[k].output # 0 => l + k \in DOMAIN O /\ im[k].output = O[l + k]
      /\ X \cap OwningOf(host, pending, images) = {}
  BY <1>1 DEF Entered
<1>3. n \in Nat /\ l \in Nat
  <2>1. MineOf(host) \in Seq(Subs)
    BY TrueParts, MineType
  <2>2. QED
    BY <1>1, <1>2, <2>1
<1>4. IsInjective(O) /\ X \cap ToSet(O) = {}
  <2>1. IInv
    BY TrueParts
  <2>2. Safe(memory, commands, host, pending, images)
    BY <2>1, SafeParts
  <2>3. OwnersOf(host, pending, images)
    BY <2>2, Zenon DEF Safe
  <2>4. IsInjective(O)
    BY <1>1, <2>3, Zenon DEF OwnersOf, Owners
  <2>5. ToSet(O) \subseteq OwningOf(host, pending, images)
    BY <1>1 DEF OwningOf, Owning
  <2>6. QED
    BY <1>2, <2>4, <2>5
<1>5. ASSUME NEW k \in 1..n
      PROVE  /\ im[k].status \in X /\ im[k].source = im[k].truth
             /\ \A j \in 1..n : j # k /\ im[j].status = im[k].status => im[j].slot # im[k].slot
  BY <1>1, <1>2 DEF MadeWell
<1>6. ASSUME NEW k \in 1..n, im[k].output # 0 PROVE im[k].output \notin X
  BY <1>2, <1>4, <1>6 DEF ToSet
<1>7. ASSUME NEW k \in 1..n, NEW j \in 1..n, j # k, im[j].output = im[k].output PROVE im[k].output = 0
  <2>1. SUFFICES ASSUME im[k].output # 0 PROVE FALSE
    OBVIOUS
  <2>2. l + k \in DOMAIN O /\ l + j \in DOMAIN O /\ O[l + k] = O[l + j]
    BY <1>2, <1>7, <2>1
  <2>3. l + k = l + j
    BY <1>4, <2>2 DEF IsInjective
  <2>4. QED
    BY <1>3, <1>7, <2>3
<1>8. QED
  BY <1>1, <1>2, <1>5, <1>6, <1>7 DEF Formed

\* The outputs that are next are those of the command.
LEMMA OutputsNext ==
  ASSUME host \in Hosts, Shape(host), host.step = "encode", host.request.kind = "shared", NEW n \in Nat \ {0},
         NEW r \in Nat, Len(FlattenSeq(host.todo)) = n + r
  PROVE  NextOutputs # <<>>
<1>1. host.submissions = <<>> /\ Len(host.outputs) = Len(MineOf(host)) + Len(FlattenSeq(host.todo))
  BY DEF Shape
<1>2. MineOf(host) = FlattenSeq(host.encoded) /\ MineOf(host) \in Seq(Subs)
  BY <1>1, MineType
<1>3. PICK ou, l : ou = host.outputs /\ l = Len(MineOf(host))
  OBVIOUS
<1>4. ou \in Seq(Nat) /\ l \in Nat /\ Len(ou) = l + (n + r)
  <2>1. ou \in Seq(Nat)
    BY <1>3, HostFields
  <2>2. Len(ou) = l + (n + r)
    BY <1>1, <1>3, Zenon
  <2>3. QED
    BY <1>2, <1>3, <2>1, <2>2
<1>5. ou # <<>> /\ l \in 0..Len(ou) /\ Len(ou) - l # 0
  BY <1>4
<1>6. PICK v : v = SubSeq(ou, l + 1, Len(ou))
  OBVIOUS
<1>7. Len(v) = Len(ou) - l
  BY <1>4, <1>5, <1>6, Split
<1>8. v # <<>>
  BY <1>5, <1>7
<1>9. NextOutputs = v
  BY <1>2, <1>3, <1>5, <1>6 DEF NextOutputs, Rest
<1>10. QED
  BY <1>8, <1>9

\* The outputs of a group, of submissions M, once a command is added that writes
\* the outputs that follow.
Outgoing(bs, w, Z, h, g, M, e) ==
  /\ M = MineOf(h) /\ MineOf(g) = M \o e /\ h.step = "encode"
  /\ g.request = h.request /\ g.outputs = h.outputs /\ g.got = <<>> /\ h.got = <<>>
  /\ h.request.kind = "shared" =>
       /\ \A j \in DOMAIN M : h.outputs[j] \in DOMAIN w \ Z
       /\ \A k \in DOMAIN e : /\ Picture(bs, e[k]).output = h.outputs[Len(M) + k]
                             /\ bs[e[k].command].state = "running"
LEMMA CommitOutputs ==
  ASSUME NEW cs, NEW bs, NEW w, NEW v, NEW Z, Changed(cs, bs, w, v, Z), NEW h, NEW g, Outputs(cs, w, h),
         NEW M \in Seq(Subs), Known(cs, M), NEW e \in Seq(Subs), Outgoing(bs, w, Z, h, g, M, e)
  PROVE  Outputs(bs, v, g)
<1>0. /\ M = MineOf(h) /\ MineOf(g) = M \o e /\ h.step = "encode"
      /\ g.request = h.request /\ g.outputs = h.outputs /\ g.got = <<>> /\ h.got = <<>>
      /\ h.request.kind = "shared" =>
           /\ \A j \in DOMAIN M : h.outputs[j] \in DOMAIN w \ Z
           /\ \A k \in DOMAIN e : /\ Picture(bs, e[k]).output = h.outputs[Len(M) + k]
                                 /\ bs[e[k].command].state = "running"
  BY Zenon DEF Outgoing
<1>1. /\ \A c \in DOMAIN cs : bs[c] = cs[c]
      /\ \A b \in DOMAIN w \ Z : v[b] = w[b]
  BY DEF Changed
<1>2. PICK O, u, n : O = h.outputs /\ u = M \o e /\ n = Len(M)
  OBVIOUS
<1>3. /\ Len(u) = n + Len(e) /\ u \in Seq(Subs) /\ n \in Nat /\ Len(e) \in Nat
      /\ DOMAIN M = 1..n /\ DOMAIN e = 1..Len(e) /\ DOMAIN u = 1..n + Len(e)
      /\ (\A k \in 1..n : u[k] = M[k]) /\ \A k \in 1..Len(e) : u[n + k] = e[k]
  BY <1>2
<1>4. SUFFICES ASSUME h.request.kind = "shared", NEW j \in DOMAIN u
               PROVE  Shown(bs, v, u[j], O[j])
  <2>1. Len(g.got) = 0 /\ DOMAIN g.got = {}
    BY <1>0
  <2>2. \A j \in DOMAIN u : 0 + j = j
    BY <1>3
  <2>3. QED
    BY <1>0, <1>2, <2>1, <2>2 DEF Outputs
<1>5. CASE j \in 1..n
  <2>1. PICK s, b : s = M[j] /\ b = O[j]
    OBVIOUS
  <2>2. Shown(cs, w, s, b)
    <3>1. \A k \in DOMAIN M : Shown(cs, w, M[k], O[Len(h.got) + k])
      BY <1>0, <1>2, <1>4 DEF Outputs
    <3>2. Len(h.got) + j = j
      BY <1>0, <1>3, <1>5
    <3>3. QED
      BY <1>3, <1>5, <2>1, <3>1, <3>2
  <2>3. bs[s.command] = cs[s.command]
    BY <1>1, <1>3, <1>5, <2>1 DEF Known
  <2>4. v[b] = w[b]
    BY <1>0, <1>1, <1>2, <1>3, <1>4, <1>5, <2>1
  <2>5. Shown(bs, v, s, b)
    BY <2>2, <2>3, <2>4 DEF Shown, Picture
  <2>6. QED
    BY <1>3, <1>5, <2>1, <2>5
<1>6. CASE j \notin 1..n
  <2>1. PICK k : k = j - n
    OBVIOUS
  <2>2. k \in 1..Len(e) /\ j = n + k
    BY <1>3, <1>4, <1>6, <2>1
  <2>3. u[j] = e[k] /\ Picture(bs, e[k]).output = O[j] /\ bs[e[k].command].state = "running"
    BY <1>0, <1>2, <1>3, <1>4, <2>2
  <2>4. QED
    BY <2>3 DEF Shown
<1>7. QED
  BY <1>5, <1>6

\* Four sequences one after the other.
Regrouped(a, b, c, d) == a \o ((b \o c) \o d) = (a \o b) \o (c \o d)
LEMMA ConcatFour ==
  ASSUME NEW S, NEW a \in Seq(S), NEW b \in Seq(S), NEW c \in Seq(S), NEW d \in Seq(S)
  PROVE  Regrouped(a, b, c, d)
<1>1. (b \o c) \o d = b \o (c \o d)
  OBVIOUS
<1>2. PICK e : e = c \o d
  OBVIOUS
<1>3. e \in Seq(S)
  BY <1>2
<1>4. (a \o b) \o e = a \o (b \o e)
  BY <1>3
<1>5. QED
  BY <1>1, <1>2, <1>4, Zenon DEF Regrouped

\* A command with submissions e, for plans, is added to those that M are of.
Added(cs, bs, h, g, M, e, plans, td) ==
  /\ M = MineOf(h) /\ MineOf(g) = M \o e /\ g.request = h.request /\ g.groups = h.groups /\ g.step = "encode"
  /\ g.todo = td /\ FlattenSeq(h.todo) = plans \o FlattenSeq(td)
  /\ PlansOf(bs, M) = PlansOf(cs, M) /\ PlansOf(bs, e) = plans
  /\ Known(bs, M) /\ Known(bs, e) /\ Planned(cs, h) /\ h.step = "encode" /\ h.groups # <<>>

\* The plans of the call once a command is added.
LEMMA CommitPlanned ==
  ASSUME NEW cs \in Seq(Commands), NEW bs \in Seq(Commands), NEW h \in Hosts, NEW g, NEW M \in Seq(Subs),
         NEW e \in Seq(Subs), NEW plans \in Seq(Names), NEW td \in Seq(Seq(Names)), Added(cs, bs, h, g, M, e, plans, td)
  PROVE  Planned(bs, g)
<1>1. PICK a, t, f : a = PlansOf(cs, M) /\ t = FlattenSeq(td) /\ f = Flat(Tail(h.groups))
  OBVIOUS
<1>2. PlansOf(bs, M \o e) = a \o plans /\ a \in Seq(Names)
  <2>1. Known(bs, M) /\ Known(bs, e) /\ PlansOf(bs, M) = a /\ PlansOf(bs, e) = plans
    BY <1>1, Zenon DEF Added
  <2>2. QED
    BY <2>1, PlansConcat, PlansType
<1>3. t \in Seq(Names)
  BY <1>1, FlattenType
<1>4. f \in Seq(Names)
  <2>1. PICK S, s : S = Seq(Seq(Names)) /\ s = h.groups
    OBVIOUS
  <2>2. s \in Seq(S) /\ s # <<>>
    BY <2>1, HostFields DEF Added
  <2>3. Tail(s) \in Seq(S)
    BY <2>2
  <2>4. QED
    BY <1>1, <2>1, <2>3, FlattenType DEF Flat
<1>5. a \o ((plans \o t) \o f) = (a \o plans) \o (t \o f)
  <2>1. PICK S, p : S = Names /\ p = plans
    OBVIOUS
  <2>2. a \in Seq(S) /\ p \in Seq(S) /\ t \in Seq(S) /\ f \in Seq(S)
    BY <1>2, <1>3, <1>4, <2>1
  <2>3. Regrouped(a, p, t, f)
    BY <2>2, ConcatFour, Zenon
  <2>4. QED
    BY <2>1, <2>3, Zenon DEF Regrouped
<1>6. h.request.kind # "shared" => a \o ((plans \o t) \o f) = h.request.plans
  BY <1>1, Zenon DEF Planned, Added
<1>7. h.request.kind # "shared" => PlansOf(bs, MineOf(g)) \o (FlattenSeq(g.todo) \o Flat(Tail(g.groups))) = g.request.plans
  BY <1>1, <1>2, <1>5, <1>6, Zenon DEF Added
<1>8. g.step # "group" /\ (h.request.kind = "shared" <=> g.request.kind = "shared")
  BY DEF Added
<1>9. QED
  BY <1>7, <1>8 DEF Planned

\* Submissions that read their own status words, and more of them.
LEMMA HandlingConcat ==
  ASSUME NEW cs, NEW w, NEW s \in Seq(Subs), NEW t \in Seq(Subs), Handling(cs, w, s), Handling(cs, w, t)
  PROVE  Handling(cs, w, s \o t)
<1>1. PICK u, n : u = s \o t /\ n = Len(s)
  OBVIOUS
<1>2. /\ DOMAIN s = 1..n /\ DOMAIN t = 1..Len(t) /\ DOMAIN u = 1..n + Len(t) /\ n \in Nat /\ Len(t) \in Nat
      /\ (\A k \in 1..n : u[k] = s[k]) /\ \A k \in 1..Len(t) : u[n + k] = t[k]
  BY <1>1
<1>3. Backed(cs, s) /\ Backed(cs, t) /\ Read(cs, w, s) /\ Read(cs, w, t)
  BY Zenon DEF Handling
<1>4. ASSUME NEW k \in 1..n + Len(t)
      PROVE  /\ Tells(cs, w, u[k])
             /\ \E j \in 1..n + Len(t) : u[j].command = u[k].command /\ Picture(cs, u[k]).status \in Own(u[j])
  <2>1. CASE k \in 1..n
    <3>1. u[k] = s[k] /\ Tells(cs, w, s[k])
      BY <1>2, <1>3, <2>1 DEF Read
    <3>2. PICK j \in 1..n : s[j].command = s[k].command /\ Picture(cs, s[k]).status \in Own(s[j])
      BY <1>2, <1>3, <2>1 DEF Backed
    <3>3. u[j] = s[j] /\ j \in 1..n + Len(t)
      BY <1>2
    <3>4. QED
      BY <3>1, <3>2, <3>3
  <2>2. CASE k \notin 1..n
    <3>1. PICK l : l = k - n
      OBVIOUS
    <3>2. l \in 1..Len(t) /\ k = n + l
      BY <1>2, <2>2, <3>1
    <3>3. u[k] = t[l] /\ Tells(cs, w, t[l])
      BY <1>2, <1>3, <3>2 DEF Read
    <3>4. PICK j \in 1..Len(t) : t[j].command = t[l].command /\ Picture(cs, t[l]).status \in Own(t[j])
      BY <1>2, <1>3, <3>2 DEF Backed
    <3>5. u[n + j] = t[j] /\ n + j \in 1..n + Len(t)
      BY <1>2
    <3>6. QED
      BY <3>3, <3>4, <3>5
  <2>3. QED
    BY <2>1, <2>2
<1>5. Backed(cs, u) /\ Read(cs, w, u)
  BY <1>2, <1>4 DEF Backed, Read
<1>6. QED
  BY <1>1, <1>5, Zenon DEF Handling

\* The outputs of the call once a command is committed.
LEMMA CommitShown ==
  ASSUME MetalAssumption, RInv, NEW plans, NEW z, NEW X, NEW x, NEW e, NEW id, NEW bs, NEW v, NEW Z,
         Adding(plans, z, X, x, e, id, bs, v, Z),
         Changed(commands, bs, contents, v, Z), NEW g, Going(g, e)
  PROVE  Outputs(bs, v, g)
<1> SUFFICES ASSUME host.step = "encode", host.todo # <<>>, plans = Head(host.todo), id = Len(commands) + 1,
                      Entered(plans, z, X, x, e, id, host.outputs, Len(MineOf(host))),
                      NextOutputs # <<>> => \A k \in 1..Len(plans) : x.images[k].output = NextOutputs[k],
                      bs = Append(commands, x), Z = UseOf(bs, id)
               PROVE  Outputs(bs, v, g)
  BY Zenon DEF Adding
<1>1. PICK cs, w, M, O, n : cs = commands /\ w = contents /\ M = MineOf(host) /\ O = host.outputs /\ n = Len(M)
  OBVIOUS
<1>2. /\ IInv /\ cs \in Seq(Commands) /\ host \in Hosts /\ Shape(host) /\ Known(cs, M)
      /\ Outputs(cs, w, host) /\ w \in Seq(Words) /\ Len(w) = Len(memory.sizes)
      /\ memory \in Memories /\ OwnersOf(host, pending, images) /\ Free(memory, OwningOf(host, pending, images))
  <2>1. /\ IInv /\ cs \in Seq(Commands) /\ host \in Hosts /\ Shape(host) /\ KnownOf(cs, host, pending)
        /\ Underway(cs, w, host, returned) /\ Machine(w, memory.sizes, cs, queues)
    BY <1>1, TrueParts
  <2>2. Safe(memory, cs, host, pending, images) /\ memory \in Memories
    BY <1>1, <2>1, SafeParts
  <2>3. QED
    BY <1>1, <2>1, <2>2, Zenon DEF Safe, KnownOf, Underway, Machine
<1>3. M \in Seq(Subs) /\ n \in Nat /\ DOMAIN M = 1..n
  <2>1. M \in Seq(Subs)
    BY <1>1, <1>2, MineType
  <2>2. QED
    BY <1>1, <2>1
<1>4. /\ plans \in Seq(Names) /\ e \in Seq(Subs) /\ DOMAIN e = 1..Len(plans) /\ x.scratch = X /\ x.state = "running"
      /\ DOMAIN x.images = 1..Len(plans) /\ Len(plans) \in Nat
      /\ \A k \in 1..Len(plans) : e[k].command = id /\ e[k].image = k
      /\ X \cap OwningOf(host, pending, images) = {}
      /\ \A k \in 1..Len(plans) : x.images[k].output # 0 => n + k \in DOMAIN O /\ x.images[k].output = O[n + k]
  BY <1>1 DEF Entered
<1>5. bs[id] = x
  BY <1>1, <1>2
<1>6. IsInjective(O) /\ ToSet(O) \cap X = {} /\ ToSet(O) \subseteq DOMAIN w
  <2>1. IsInjective(O)
    BY <1>1, <1>2, Zenon DEF OwnersOf, Owners
  <2>2. ToSet(O) \subseteq OwningOf(host, pending, images)
    BY <1>1 DEF OwningOf, Owning
  <2>3. DOMAIN w = DOMAIN memory.sizes
    <3>1. memory.sizes \in Seq(Nat)
      BY <1>2 DEF Memories
    <3>2. QED
      BY <1>2, <3>1
  <2>4. QED
    BY <1>2, <1>4, <2>1, <2>2, <2>3 DEF Free
<1>7. Z = X \cup ({x.images[k].output : k \in 1..Len(plans)} \ {0})
  BY <1>4, <1>5 DEF UseOf
<1>8. ASSUME host.request.kind = "shared"
      PROVE  /\ \A j \in DOMAIN M : O[j] \in DOMAIN w \ Z
             /\ \A k \in DOMAIN e : /\ Picture(bs, e[k]).output = O[n + k] /\ bs[e[k].command].state = "running"
  <2>1. O \in Seq(Nat) /\ Len(O) = n + Len(FlattenSeq(host.todo))
    BY <1>1, <1>2, <1>8, HostFields DEF Shape
  <2>2. PICK f : f = FlattenSeq(host.todo)
    OBVIOUS
  <2>3. PICK r : r = Len(f) /\ r \in Nat /\ r >= Len(plans)
    <3>1. /\ Len(f) = Len(plans) + Len(FlattenSeq(Tail(host.todo))) /\ Tail(host.todo) \in Seq(Seq(Names))
      BY <1>2, <2>2, NextCommand
    <3>2. Len(FlattenSeq(Tail(host.todo))) \in Nat
      BY <3>1, FlattenType
    <3>3. PICK a, b, c : a = Len(f) /\ b = Len(plans) /\ c = Len(FlattenSeq(Tail(host.todo)))
      OBVIOUS
    <3>4. b \in Nat /\ c \in Nat /\ a = b + c
      BY <1>4, <3>1, <3>2, <3>3, Zenon
    <3>5. a \in Nat /\ a >= b
      BY <3>4
    <3>6. QED
      BY <3>3, <3>5, Zenon
  <2>4. DOMAIN O = 1..n + r
    BY <1>3, <2>1, <2>2, <2>3
  <2>5. ASSUME NEW j \in 1..n PROVE O[j] \in DOMAIN w \ Z
    <3>1. j \in DOMAIN O /\ O[j] \in ToSet(O)
      BY <1>3, <2>3, <2>4 DEF ToSet
    <3>2. ASSUME NEW k \in 1..Len(plans), x.images[k].output # 0 PROVE x.images[k].output # O[j]
      <4>1. n + k \in DOMAIN O /\ x.images[k].output = O[n + k] /\ n + k # j
        BY <1>3, <1>4, <3>2
      <4>2. QED
        BY <1>6, <3>1, <4>1 DEF IsInjective
    <3>3. O[j] \notin {x.images[k].output : k \in 1..Len(plans)} \ {0}
      BY <3>2
    <3>4. QED
      BY <1>6, <1>7, <3>1, <3>3
  <2>6. ASSUME NEW k \in 1..Len(plans)
        PROVE  Picture(bs, e[k]).output = O[n + k] /\ bs[e[k].command].state = "running"
    <3>1. NextOutputs # <<>>
      <4>1. r # 0 /\ Len(plans) # 0
        BY <1>4, <2>3
      <4>2. PICK l, q : l = Len(plans) /\ q = r - l
        OBVIOUS
      <4>3. l \in Nat \ {0} /\ q \in Nat /\ Len(FlattenSeq(host.todo)) = l + q
        BY <1>4, <2>2, <2>3, <4>1, <4>2
      <4>4. QED
        BY <1>2, <1>8, <4>3, OutputsNext
    <3>2. NextOutputs[k] = O[n + k]
      BY <1>1, <1>2, <3>1, NextCommand
    <3>3. x.images[k].output = O[n + k]
      BY <3>1, <3>2
    <3>4. QED
      BY <1>4, <1>5, <3>3 DEF Picture
  <2>7. QED
    BY <1>3, <1>4, <2>5, <2>6
<1>9. /\ g.request = host.request /\ g.outputs = O /\ host.got = <<>> /\ g.got = <<>> /\ MineOf(g) = M \o e
  BY <1>1, <1>2 DEF Going, Shape
<1>10. Outgoing(bs, w, Z, host, g, M, e)
  BY <1>1, <1>8, <1>9, Zenon DEF Outgoing
<1>11. QED
  BY <1>1, <1>2, <1>3, <1>4, <1>10, CommitOutputs, Zenon

\* Words, queues and images once a command is committed.
LEMMA CommitMachine ==
  ASSUME MetalAssumption, RInv, NEW plans, NEW z, NEW X, NEW x, NEW e, NEW id, id = Len(commands) + 1,
         Entered(plans, z, X, x, e, id, host.outputs, Len(MineOf(host))),
         NEW bs, bs = Append(commands, x), NEW v, v \in Seq(Words), Len(v) = Len(z),
         NEW qs, qs = [queues EXCEPT ![QueueOf] = Append(@, id)]
  PROVE  Machine(v, z, bs, qs)
<1>1. /\ commands \in Seq(Commands) /\ host \in Hosts /\ Queued(commands, queues)
      /\ \A c \in DOMAIN commands : Formed(commands[c])
  BY TrueParts, Zenon DEF Machine
<1>2. QueueOf \in 0..Queues - 1
  <2>1. PICK l : l = Len(host.encoded)
    OBVIOUS
  <2>2. l \in Nat
    <3>1. host.encoded \in Seq(Seq(Subs))
      BY <1>1, HostFields
    <3>2. QED
      BY <2>1, <3>1
  <2>3. Queues \in Nat \ {0}
    BY DEF MetalAssumption
  <2>4. l % Queues \in 0..Queues - 1 /\ 0 \in 0..Queues - 1
    BY <2>2, <2>3
  <2>5. QED
    BY <2>1, <2>4 DEF QueueOf
<1>3. Queued(bs, qs)
  <2>1. x.state = "running"
    BY DEF Entered
  <2>2. PICK p, cs : p = QueueOf /\ cs = commands
    OBVIOUS
  <2>3. qs = [queues EXCEPT ![p] = Append(@, Len(cs) + 1)]
    BY <2>2
  <2>4. QED
    BY <1>1, <1>2, <2>1, <2>2, <2>3, QueueGrows
<1>4. \A c \in DOMAIN bs : Formed(bs[c])
  <2>1. Formed(x)
    BY CommitFormed
  <2>2. PICK cs, f : cs = commands /\ f = bs
    OBVIOUS
  <2>3. cs \in Seq(Commands) /\ f = Append(cs, x)
    BY <1>1, <2>2
  <2>4. ASSUME NEW c \in DOMAIN f PROVE f[c] = x \/ (c \in DOMAIN cs /\ f[c] = cs[c])
    BY <2>3
  <2>5. QED
    BY <1>1, <2>1, <2>2, <2>4
<1>5. QED
  BY <1>3, <1>4, Zenon DEF Machine

\* What the call holds once a command is committed.
LEMMA CommitUnderway ==
  ASSUME MetalAssumption, RInv, NEW plans, NEW z, NEW X, NEW x, NEW e, NEW id, NEW bs, NEW v, NEW Z,
         Adding(plans, z, X, x, e, id, bs, v, Z),
         Changed(commands, bs, contents, v, Z), NEW g, Going(g, e),
         (HostBuffers(host.images) \cup Scratches(MineOf(host))) \cap Z = {}
  PROVE  Underway(bs, v, g, returned)
<1>1. /\ IInv /\ commands \in Seq(Commands) /\ host \in Hosts /\ Shape(host) /\ Known(commands, MineOf(host))
      /\ Mine(commands, contents, host) /\ Displayed(contents, host.images) /\ Planned(commands, host)
  BY TrueParts, Zenon DEF Underway, KnownOf
<1>2. PICK M : M = MineOf(host) /\ M \in Seq(Subs)
  BY <1>1, MineType
<1>3. Handling(commands, contents, M)
  <2>1. host.step \in {"group", "encode"} /\ host.step \in {"group", "encode", "wait"}
    BY DEF Adding
  <2>2. QED
    BY <1>1, <1>2, <2>1, Zenon DEF Mine, Handling
<1>4. Handling(bs, v, M) /\ PlansOf(bs, M) = PlansOf(commands, M) /\ Known(bs, M)
  <2>1. Scratches(M) \cap Z = {}
    BY <1>2
  <2>2. QED
    BY <1>1, <1>2, <1>3, <2>1, ReadKept
<1>5. Handling(bs, v, e) /\ Known(bs, e) /\ PlansOf(bs, e) = plans
  BY CommitReads
<1>6. /\ plans \in Seq(Names) /\ e \in Seq(Subs) /\ x \in Commands
      /\ bs \in Seq(Commands)
  <2>1. plans \in Seq(Names) /\ e \in Seq(Subs) /\ x \in Commands /\ bs = Append(commands, x)
    BY Zenon DEF Adding, Entered
  <2>2. QED
    BY <1>1, <2>1
<1>7. Mine(bs, v, g)
  <2>1. Handling(bs, v, M \o e)
    BY <1>2, <1>4, <1>5, <1>6, HandlingConcat, Zenon
  <2>2. MineOf(g) = M \o e
    BY <1>2 DEF Going
  <2>3. Handling(bs, v, MineOf(g))
    BY <2>1, <2>2, Zenon
  <2>4. QED
    BY <2>3, Zenon DEF Mine, Handling
<1>8. Displayed(v, g.images)
  <2>1. HostBuffers(host.images) \cap Z = {} /\ g.images = host.images
    BY DEF Going
  <2>2. Displayed(v, host.images)
    BY <1>1, <2>1, DisplayedKept, Zenon
  <2>3. QED
    BY <2>1, <2>2, Zenon
<1>9. Outputs(bs, v, g)
  BY CommitShown, Zenon
<1>10. Planned(bs, g)
  <2>1. PICK td : td = Tail(host.todo)
    OBVIOUS
  <2>2. td \in Seq(Seq(Names)) /\ FlattenSeq(host.todo) = plans \o FlattenSeq(td)
    BY <1>1, <2>1, NextCommand DEF Adding
  <2>3. host.groups # <<>>
    BY <1>1 DEF Shape, Adding
  <2>4. Added(commands, bs, host, g, M, e, plans, td)
    BY <1>1, <1>2, <1>4, <1>5, <2>1, <2>2, <2>3, Zenon DEF Added, Going, Adding
  <2>5. QED
    BY <1>1, <1>2, <1>6, <2>2, <2>4, CommitPlanned, Zenon
<1>11. Waiting(bs, g, returned)
  <2>1. g.step # "wait"
    BY DEF Going
  <2>2. QED
    BY <2>1, Zenon DEF Waiting
<1>12. QED
  BY <1>7, <1>8, <1>9, <1>10, <1>11, Zenon DEF Underway

\* A command is committed.
LEMMA CommitTrue ==
  ASSUME MetalAssumption, RInv, Commit
  PROVE  RStays
<1>1. PICK plans, id : plans = Head(host.todo) /\ id = Len(commands) + 1
  OBVIOUS
<1>2. PICK m, c : m = TakeAll(ScratchOf(plans)) /\ c = UploadAll(LookedUp(plans, Len(plans)))
  OBVIOUS
<1>3. PICK made, x, e, X, z :
        /\ made = [k \in DOMAIN plans |-> Encoded(plans, k, m.taken, c.found, NextOutputs)]
        /\ x = [images |-> made, scratch |-> ToSet(m.taken), state |-> "running", bad |-> {}]
        /\ e = [k \in DOMAIN plans |-> Submission(id, k, Owned(plans, k, m.taken))]
        /\ X = ToSet(m.taken) /\ z = m.sizes
  OBVIOUS
<1>4. /\ host.step = "encode" /\ host.todo # <<>> /\ memory' = WithoutTaken(m)
      /\ contents' = [b \in DOMAIN m.sizes |->
                       IF b \in {made[k].status : k \in DOMAIN plans} THEN [k \in 1..m.sizes[b] |-> "ok"]
                       ELSE IF b \in DOMAIN contents THEN contents[b] ELSE <<>>]
      /\ cache' = [entries |-> c.entries, bytes |-> c.bytes]
      /\ commands' = Append(commands, x)
      /\ queues' = [queues EXCEPT ![QueueOf] = Append(@, id)]
      /\ host' = [host EXCEPT !.todo = Tail(@), !.encoded = Append(@, e)]
      /\ pending' = pending /\ images' = images /\ returned' = returned /\ arenas' = arenas
  BY <1>1, <1>2, <1>3, Zenon DEF Commit
<1>5. PICK bs, v, g, qs, Z : bs = commands' /\ v = contents' /\ g = host' /\ qs = queues' /\ Z = UseOf(bs, id)
  OBVIOUS
<1>6. IInv /\ KnownOf(commands, host, pending) /\ Standing(commands, contents, pending, images, returned)
  BY TrueParts
<1>7. c.found = Versions(LookedUp(plans, Len(plans)))
  <2>1. plans \in Seq(Names) /\ Len(plans) \in Nat
    BY <1>1, <1>4, <1>6, NextCommand
  <2>2. PICK s : s = LookedUp(plans, Len(plans))
    OBVIOUS
  <2>3. s \in Seq(Addresses)
    BY <2>1, <2>2, LookedUpType
  <2>4. QED
    BY <1>2, <1>4, <1>6, <2>2, <2>3, UploadStays
<1>8. Entered(plans, z, X, x, e, id, host.outputs, Len(MineOf(host)))
  <2>1. e = Submitted(plans, id, m.taken)
    BY <1>3 DEF Submitted
  <2>2. Committed(plans, m, c.found, made, x, e)
    BY <1>1, <1>2, <1>3, <1>7, <2>1, Zenon DEF Committed
  <2>3. Entered(plans, m.sizes, ToSet(m.taken), x, e, Len(commands) + 1, host.outputs, Len(MineOf(host)))
    BY <1>4, <2>2, CommandEntered, Zenon
  <2>4. QED
    BY <1>1, <1>3, <2>3, Zenon
<1>9. x.images = made
  BY <1>3
<1>10. v = ClearedOf(z, x, plans, contents)
  <2>1. contents' = [b \in DOMAIN m.sizes |->
                      IF b \in {made[k].status : k \in DOMAIN plans} THEN [k \in 1..m.sizes[b] |-> "ok"]
                      ELSE IF b \in DOMAIN contents THEN contents[b] ELSE <<>>]
    BY <1>4, Zenon
  <2>2. v = contents' /\ z = m.sizes
    BY <1>3, <1>5
  <2>3. QED
    BY <1>9, <2>1, <2>2, Zenon DEF ClearedOf
<1>11. /\ bs = Append(commands, x) /\ qs = [queues EXCEPT ![QueueOf] = Append(@, id)] /\ memory'.sizes = z
  <2>1. WithoutTaken(m).sizes = m.sizes
    BY DEF WithoutTaken
  <2>2. QED
    BY <1>3, <1>4, <1>5, <2>1, Zenon
<1>12. NextOutputs # <<>> => \A k \in 1..Len(plans) : x.images[k].output = NextOutputs[k]
  <2>1. SUFFICES ASSUME NextOutputs # <<>>, NEW k \in 1..Len(plans) PROVE made[k].output = NextOutputs[k]
    BY <1>9
  <2>2. PICK o : o = NextOutputs
    OBVIOUS
  <2>3. Encoded(plans, k, m.taken, c.found, o).output = IF o = <<>> THEN 0 ELSE o[k]
    BY DEF Encoded
  <2>4. DOMAIN plans = 1..Len(plans)
    BY <1>8 DEF Entered
  <2>5. made[k] = Encoded(plans, k, m.taken, c.found, o)
    BY <1>3, <2>2, <2>4
  <2>6. QED
    BY <2>1, <2>2, <2>3, <2>5
<1>13. Adding(plans, z, X, x, e, id, bs, v, Z)
  BY <1>1, <1>4, <1>5, <1>8, <1>10, <1>11, <1>12, Zenon DEF Adding
<1>14. /\ Changed(commands, bs, contents, v, Z) /\ v \in Seq(Words) /\ Len(v) = Len(z)
       /\ (BatchBuffers(pending) \cup ImageBuffers(images) \cup HostBuffers(host.images) \cup Scratches(MineOf(host))) \cap Z = {}
  BY <1>13, CommitChanges, Zenon DEF Leaves
<1>15. Machine(v, z, bs, qs)
  BY <1>1, <1>8, <1>11, <1>14, CommitMachine, Zenon
<1>16. Standing(bs, v, pending, images, returned)
  <2>1. (BatchBuffers(pending) \cup ImageBuffers(images)) \cap Z = {}
    BY <1>14
  <2>2. \A k \in DOMAIN pending : Known(commands, pending[k].submissions)
    BY <1>6, Zenon DEF KnownOf
  <2>3. QED
    BY <1>6, <1>14, <2>1, <2>2, StandingKept, Zenon
<1>17. Going(g, e)
  <2>1. e \in Seq(Subs)
    BY <1>8, Zenon DEF Entered
  <2>2. g = [host EXCEPT !.todo = Tail(@), !.encoded = Append(@, e)]
    BY <1>4, <1>5, Zenon
  <2>3. QED
    BY <1>4, <1>6, <2>1, <2>2, CommitCall, Zenon
<1>18. Underway(bs, v, g, returned)
  <2>1. (HostBuffers(host.images) \cup Scratches(MineOf(host))) \cap Z = {}
    BY <1>14
  <2>2. QED
    BY <1>13, <1>14, <1>17, <2>1, CommitUnderway, Zenon
<1>19. QED
  BY <1>4, <1>5, <1>11, <1>15, <1>16, <1>18, Zenon DEF RStays

-----------------------------------------------------------------------------
(***************************************************************************)
(* Results are true.                                                       *)
(***************************************************************************)
\* Every step keeps the results true.
LEMMA NextTrue ==
  ASSUME MetalAssumption, RInv, [SessionNext]_sessionVars
  PROVE  RInv'
<1>1. IInv'
  <2>1. IInv
    BY TrueParts
  <2>2. QED
    BY <2>1, NextSafe
<1>2. SUFFICES RStays
  BY <1>1, Zenon DEF RInv, RStays
<1>3. CASE UNCHANGED sessionVars
  <2>1. contents' = contents /\ memory' = memory /\ commands' = commands /\ queues' = queues /\ host' = host /\ Unheard
    BY <1>3, Zenon DEF sessionVars, Unheard
  <2>2. QED
    BY <2>1, StillTrue
<1>4. ASSUME NEW r \in Requests, BeginRequest(r)
      PROVE  RStays
  BY <1>4, BeginCallTrue
<1>5. CASE BeginGroup
  BY <1>5, BeginGroupTrue
<1>6. CASE Commit
  BY <1>6, CommitTrue
<1>7. CASE FailEncode
  BY <1>7, FailEncodeTrue
<1>8. CASE EndGroup
  BY <1>8, EndGroupTrue
<1>9. CASE EndCall
  BY <1>9, EndCallTrue
<1>10. ASSUME NEW k \in DOMAIN pending, BeginWait(k)
       PROVE  RStays
  BY <1>10, BeginWaitTrue
<1>11. ASSUME NEW k \in DOMAIN pending, BeginDrop(k)
       PROVE  RStays
  BY <1>11, BeginDropTrue
<1>12. CASE WaitOne
  BY <1>12, WaitOneTrue
<1>13. CASE DropOne
  BY <1>13, DropOneTrue
<1>14. CASE EndWait
  BY <1>14, EndWaitTrue
<1>15. CASE EndDrop
  BY <1>15, EndDropTrue
<1>16. ASSUME NEW i \in images, DropImage(i)
       PROVE  RStays
  BY <1>16, DropImageTrue
<1>17. ASSUME NEW a \in Addresses, ReplaceArena(a)
       PROVE  RStays
  <2>1. contents' = contents /\ memory' = memory /\ commands' = commands /\ queues' = queues /\ host' = host /\ Unheard
    BY <1>17, Zenon DEF ReplaceArena, Unheard
  <2>2. QED
    BY <2>1, StillTrue
<1>18. ASSUME NEW q \in DOMAIN queues, Run(q)
       PROVE  RStays
  BY <1>18, RunTrue
<1>19. CASE Quiet
  BY <1>3, <1>19, Zenon DEF Quiet
<1>20. QED
  BY <1>3, <1>4, <1>5, <1>6, <1>7, <1>8, <1>9, <1>10, <1>11, <1>12, <1>13, <1>14, <1>15, <1>16, <1>17, <1>18, <1>19,
     Zenon DEF SessionNext

\* A session's results are those of its plans whatever is waited for, dropped or
\* lost, and in whatever order commands end (submission.rs, wait).
THEOREM ResultsStayTrue ==
  ASSUME MetalAssumption
  PROVE  SessionSpec => []ResultsTrue
<1>1. SessionInit => RInv
  BY InitTrue
<1>2. RInv /\ [SessionNext]_sessionVars => RInv'
  BY NextTrue
<1>3. RInv => ResultsTrue
  BY TrueResults
<1>4. QED
  BY <1>1, <1>2, <1>3, PTL DEF SessionSpec

\* The bytes of an image that a caller was given are its own for as long as the
\* caller has it (shared_image.rs: "The image is immutable after GPU completion").
THEOREM ImagesStayStable ==
  ASSUME MetalAssumption
  PROVE  SessionSpec => []ImagesStable
<1>1. SessionInit => RInv
  BY InitTrue
<1>2. RInv /\ [SessionNext]_sessionVars => RInv'
  BY NextTrue
<1>3. RInv => ImagesStable
  BY TrueResults
<1>4. QED
  BY <1>1, <1>2, <1>3, PTL DEF SessionSpec
=============================================================================
