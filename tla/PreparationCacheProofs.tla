------------------------ MODULE PreparationCacheProofs ------------------------
(***************************************************************************)
(* Proofs about PreparationCache for any callers, inputs, batches and      *)
(* limits: the cache keeps its bound, a contract's allocation serves one   *)
(* layout of one input, a returned batch partitions its inputs into        *)
(* groups in first-occurrence order, and duplicates share a contract while *)
(* no other thread prepares.                                               *)
(*                                                                         *)
(* The lookups and insertions of two calls interleave, so the invariant    *)
(* says nothing of which entries are cached.  It says where each contract  *)
(* that may still be handed out is from: an id names the call that made    *)
(* it, and that call has left its lookups.                                 *)
(***************************************************************************)
EXTENDS PreparationCache, SequenceLemmas

Phases == {"idle", "lookup", "store"}
Jobs   == [input : Inputs, indices : SUBSET Nat]
Infos  == {Info(c) : c \in Contracts}
PreparedImages == [contract : Contracts, origin : Nat]
Groups  == [info : Infos, images : Seq(PreparedImages), indices : Seq(Nat)]
Results == [groups : Seq(Groups), errors : Seq(Nat)]

Types ==
  /\ entries \in Seq(Contracts) /\ Len(entries) <= MaxEntries
  /\ \A c \in ToSet(entries) : ~Failed(c)
  /\ phase \in [Callers -> Phases]
  /\ batch \in [Callers -> Seq(Inputs)]
  /\ resolved = [k \in Callers |-> resolved[k]]
  /\ \A k \in Callers : resolved[k] \in [DOMAIN resolved[k] -> Contracts]
                        /\ DOMAIN resolved[k] \subseteq DOMAIN batch[k]
  /\ jobs \in [Callers -> Seq(Jobs)]
  /\ made \in [Callers -> Seq(Contracts)]
  /\ returned \in [Callers -> Results]
  /\ calls \in [Callers -> 0..MaxCalls]
  /\ looked \in [Callers -> Nat]

\* Where a call stands, and whose input each of its results and jobs is of.
ProgressOf(k) ==
  /\ calls[k] = 0 => phase[k] = "idle"
  /\ phase[k] = "idle" => jobs[k] = <<>>
  /\ phase[k] # "store" => made[k] = <<>>
  /\ phase[k] = "lookup" => looked[k] <= Len(batch[k])
  /\ phase[k] = "store" => /\ Len(made[k]) = Len(jobs[k])
                           /\ \A j \in 1..Len(jobs[k]) : made[k][j].input = jobs[k][j].input
  /\ \A i \in DOMAIN resolved[k] : resolved[k][i].input = batch[k][i]
  /\ \A j \in 1..Len(jobs[k]) : \A i \in jobs[k][j].indices :
       i \in DOMAIN batch[k] /\ batch[k][i] = jobs[k][j].input

\* A batch that was returned groups the results of its call.
AnsweredOf(k) ==
  returned[k] # NoBatch =>
    /\ phase[k] = "idle"
    /\ DOMAIN resolved[k] = DOMAIN batch[k]
    /\ resolved[k] \in Seq(Contracts)
    /\ \E origins \in Seq(Nat) : /\ Len(origins) = Len(resolved[k])
                                 /\ returned[k] = Grouped(resolved[k], origins)

Progress == \A k \in Callers : ProgressOf(k)
Answered == \A k \in Callers : AnsweredOf(k)

\* Contracts that may still be handed out, and the call each was made in.
Live(c) ==
  \/ c \in ToSet(entries)
  \/ \E k \in Callers : c \in ToSet(made[k])
  \/ \E k \in Callers : \E i \in DOMAIN resolved[k] : c = resolved[k][i]

Earlier(c) ==
  \E k \in Callers : \E n \in 1..calls[k] : \E j \in Nat :
    c.id = <<k, n, j>> /\ (phase[k] = "lookup" => n < calls[k])

IdsApart ==
  /\ \A c \in Contracts : Live(c) /\ ~Failed(c) => Earlier(c)
  /\ \A c, d \in Contracts : Live(c) /\ Live(d) /\ ~Failed(c) /\ c.id = d.id => c = d

\* While k is the only one that calls, no input has two contracts.
Alone(k) == \A l \in Callers : l # k => calls[l] = 0

UniqueFor(k) ==
  /\ \A c, d \in ToSet(entries) : c.input = d.input => c = d
  /\ phase[k] # "idle" =>
       /\ \A i, j \in 1..Len(jobs[k]) : jobs[k][i].input = jobs[k][j].input => i = j
       /\ \A j \in 1..Len(jobs[k]) : \A c \in ToSet(entries) : c.input # jobs[k][j].input
       /\ \A j \in 1..Len(jobs[k]) : \A i \in DOMAIN resolved[k] :
            resolved[k][i].input # jobs[k][j].input
       /\ \A i, j \in DOMAIN resolved[k] :
            resolved[k][i].input = resolved[k][j].input => resolved[k][i] = resolved[k][j]
  /\ phase[k] = "lookup" => \A i \in DOMAIN resolved[k] : resolved[k][i] \in ToSet(entries)

UniqueAlone == \A k \in Callers : Alone(k) => UniqueFor(k)

IInv == Types /\ Progress /\ Answered /\ IdsApart /\ UniqueAlone

-----------------------------------------------------------------------------
(***************************************************************************)
(* Grouping.                                                               *)
(***************************************************************************)
Growth(f, results, origins, n) ==
  f = [i \in 0..n |-> IF i = 0 THEN NoBatch ELSE Joined(f[i - 1], results[i], origins[i], i)]

\* The batches of the first results exist.
LEMMA GrowthExists ==
  ASSUME NEW r, NEW o, NEW n \in Nat
  PROVE  \E f : Growth(f, r, o, n)
<1> DEFINE Bad == {m \in Nat : ~ \E f : Growth(f, r, o, m)}
<1>1. SUFFICES ASSUME Bad # {}
               PROVE  FALSE
  OBVIOUS
<1>2. Bad \in SUBSET Nat
  OBVIOUS
<1>3. \E m \in Bad : \A k \in Bad : m <= k
  BY <1>1, <1>2, LeastElement
<1>4. PICK m \in Bad : \A k \in Bad : m <= k
  BY <1>3
<1>5. m # 0
  <2>1. Growth([k \in 0..0 |-> NoBatch], r, o, 0)
    BY DEF Growth
  <2>2. QED
    BY <2>1
<1>6. PICK f : Growth(f, r, o, m - 1)
  BY <1>4, <1>5
<1>7. Growth([k \in 0..m |-> IF k = m THEN Joined(f[m - 1], r[m], o[m], m) ELSE f[k]], r, o, m)
  BY <1>5, <1>6 DEF Growth
<1>8. QED
  BY <1>7

\* A batch is grown one result at a time.
LEMMA GroupedPrefix ==
  ASSUME NEW r, NEW o, Len(r) \in Nat
  PROVE  \E f : Growth(f, r, o, Len(r)) /\ Grouped(r, o) = f[Len(r)]
<1>1. \E f : Growth(f, r, o, Len(r))
  BY GrowthExists
<1>2. QED
  BY <1>1, Zenon DEF Grouped, Growth

\* A group of a batch of the first n results: their indices in source order, and
\* beside each the image that was made of it.
Grouping(g, r, n) ==
  /\ Len(g.images) = Len(g.indices) /\ g.indices # <<>> /\ Ascending(g.indices)
  /\ \A p \in 1..Len(g.indices) :
       /\ g.indices[p] \in 1..n
       /\ g.images[p].contract = r[g.indices[p]]
       /\ Info(r[g.indices[p]]) = g.info

Listed(i, s) == \E p \in 1..Len(s) : s[p] = i

Sorted(b, r, n) ==
  /\ b \in Results
  /\ Ascending(b.errors) /\ \A p \in 1..Len(b.errors) : b.errors[p] \in 1..n
  /\ \A g \in 1..Len(b.groups) : Grouping(b.groups[g], r, n)
  /\ \A g, h \in 1..Len(b.groups) :
       g < h => /\ b.groups[g].info # b.groups[h].info
                /\ b.groups[g].indices[1] < b.groups[h].indices[1]
  /\ \A i \in 1..n : Listed(i, b.errors) \/ \E g \in 1..Len(b.groups) : Listed(i, b.groups[g].indices)

Grown(g, image, index) ==
  [info |-> g.info, images |-> Append(g.images, image), indices |-> Append(g.indices, index)]
Single(image, index) ==
  [info |-> Info(image.contract), images |-> <<image>>, indices |-> <<index>>]

\* push_prepared: the image joins the group of its output contract or founds it.
LEMMA PushShape ==
  ASSUME NEW gs \in Seq(Groups), NEW image \in PreparedImages, NEW index \in Nat, NEW q,
         q = PushPrepared(gs, image, index)
  PROVE  \/ \E g \in 1..Len(gs) :
              /\ gs[g].info = Info(image.contract)
              /\ q \in Seq(Groups) /\ Len(q) = Len(gs)
              /\ q[g] = Grown(gs[g], image, index)
              /\ \A h \in 1..Len(gs) : h # g => q[h] = gs[h]
         \/ /\ \A g \in 1..Len(gs) : gs[g].info # Info(image.contract)
            /\ q \in Seq(Groups) /\ q = Append(gs, Single(image, index))
<1>1. Info(image.contract) \in Infos
  BY DEF PreparedImages, Infos
<1>2. CASE GroupFor(gs, Info(image.contract)) # {}
  <2>1. PICK g \in GroupFor(gs, Info(image.contract)) :
          q = [gs EXCEPT ![g].images = Append(gs[g].images, image),
                         ![g].indices = Append(gs[g].indices, index)]
    BY <1>2 DEF PushPrepared
  <2>2. g \in 1..Len(gs) /\ gs[g].info = Info(image.contract)
    BY <2>1 DEF GroupFor
  <2>3. gs[g] \in Groups
    BY <2>2
  <2>4. Grown(gs[g], image, index) \in Groups
    BY <2>3 DEF Groups, Grown
  <2>5. q = [gs EXCEPT ![g] = Grown(gs[g], image, index)]
    BY <2>1, <2>2, <2>3 DEF Groups, Grown
  <2>6. QED
    BY <2>2, <2>4, <2>5
<1>3. CASE GroupFor(gs, Info(image.contract)) = {}
  <2>1. q = Append(gs, Single(image, index))
    BY <1>3 DEF PushPrepared, Single
  <2>2. Single(image, index) \in Groups
    BY <1>1 DEF Single, Groups
  <2>3. \A g \in 1..Len(gs) : gs[g].info # Info(image.contract)
    BY <1>3 DEF GroupFor
  <2>4. QED
    BY <2>1, <2>2, <2>3
<1>4. QED
  BY <1>2, <1>3

\* Appending to a sequence whose elements are smaller keeps it ascending.
LEMMA AscendingAppend ==
  ASSUME NEW s \in Seq(Nat), NEW n \in Nat, Ascending(s), \A p \in 1..Len(s) : s[p] < n
  PROVE  /\ Ascending(Append(s, n)) /\ Append(s, n) \in Seq(Nat)
         /\ Len(Append(s, n)) = Len(s) + 1 /\ Append(s, n)[Len(s) + 1] = n
         /\ \A p \in 1..Len(s) : Append(s, n)[p] = s[p]
  BY DEF Ascending

\* A group of fewer results is one of more.
LEMMA GroupingMore ==
  ASSUME NEW g \in Groups, NEW r, NEW n \in Nat, Grouping(g, r, n)
  PROVE  Grouping(g, r, n + 1)
<1>1. \A p \in 1..Len(g.indices) : g.indices[p] \in Nat
  BY DEF Groups
<1>2. QED
  BY <1>1 DEF Grouping

\* The next image of its output contract joins a group behind the others.
LEMMA GroupingGrows ==
  ASSUME NEW g \in Groups, NEW r, NEW n \in Nat, Grouping(g, r, n),
         NEW image \in PreparedImages, image.contract = r[n + 1], Info(r[n + 1]) = g.info,
         NEW q, q = Grown(g, image, n + 1)
  PROVE  /\ Grouping(q, r, n + 1) /\ q.info = g.info /\ q.indices[1] = g.indices[1]
         /\ Listed(n + 1, q.indices)
         /\ \A i \in 1..n : Listed(i, g.indices) => Listed(i, q.indices)
<1>1. g.indices \in Seq(Nat) /\ g.images \in Seq(PreparedImages)
  BY DEF Groups
<1>2. q.info = g.info /\ q.images = Append(g.images, image) /\ q.indices = Append(g.indices, n + 1)
  BY DEF Grown
<1>3. \A p \in 1..Len(g.indices) : g.indices[p] \in 1..n
  BY DEF Grouping
<1>4. /\ Ascending(q.indices) /\ q.indices \in Seq(Nat)
      /\ Len(q.indices) = Len(g.indices) + 1 /\ q.indices[Len(g.indices) + 1] = n + 1
      /\ \A p \in 1..Len(g.indices) : q.indices[p] = g.indices[p]
  <2>1. PICK s, m : s = g.indices /\ m = n + 1
    OBVIOUS
  <2>2. s \in Seq(Nat) /\ m \in Nat /\ Ascending(s) /\ \A p \in 1..Len(s) : s[p] < m
    BY <1>1, <1>3, <2>1 DEF Grouping
  <2>3. /\ Ascending(Append(s, m)) /\ Append(s, m) \in Seq(Nat)
        /\ Len(Append(s, m)) = Len(s) + 1 /\ Append(s, m)[Len(s) + 1] = m
        /\ \A p \in 1..Len(s) : Append(s, m)[p] = s[p]
    BY <2>2, AscendingAppend
  <2>4. q.indices = Append(s, m)
    BY <1>2, <2>1
  <2>5. QED
    BY <2>1, <2>3, <2>4
<1>5. Len(g.images) = Len(g.indices) /\ Len(g.indices) \in Nat \ {0}
  BY <1>1 DEF Grouping
<1>6. /\ Len(q.images) = Len(g.images) + 1 /\ q.images[Len(g.images) + 1] = image
      /\ \A p \in 1..Len(g.images) : q.images[p] = g.images[p]
  BY <1>1, <1>2
<1>7. ASSUME NEW p \in 1..Len(q.indices)
      PROVE  /\ q.indices[p] \in 1..n + 1
             /\ q.images[p].contract = r[q.indices[p]]
             /\ Info(r[q.indices[p]]) = q.info
  <2>1. CASE p = Len(g.indices) + 1
    BY SMTT(30), <1>2, <1>4, <1>5, <1>6, <2>1
  <2>2. CASE p # Len(g.indices) + 1
    <3>1. p \in 1..Len(g.indices)
      BY <1>4, <1>5, <2>2
    <3>2. q.indices[p] = g.indices[p] /\ q.images[p] = g.images[p]
      BY <1>4, <1>5, <1>6, <3>1
    <3>3. /\ g.indices[p] \in 1..n /\ g.images[p].contract = r[g.indices[p]]
          /\ Info(r[g.indices[p]]) = g.info
      BY <3>1 DEF Grouping
    <3>4. QED
      BY <1>2, <3>2, <3>3
  <2>3. QED
    BY <2>1, <2>2
<1>8. q.indices # <<>> /\ Len(q.images) = Len(q.indices)
  BY <1>4, <1>5, <1>6
<1>9. Grouping(q, r, n + 1)
  BY <1>4, <1>7, <1>8 DEF Grouping
<1>10. Listed(n + 1, q.indices) /\ \A i \in 1..n : Listed(i, g.indices) => Listed(i, q.indices)
  <2>1. Listed(n + 1, q.indices)
    <3>1. PICK m : m = Len(g.indices) + 1
      OBVIOUS
    <3>2. m \in 1..Len(q.indices) /\ q.indices[m] = n + 1
      BY <1>4, <1>5, <3>1
    <3>3. QED
      BY <3>2 DEF Listed
  <2>2. ASSUME NEW i \in 1..n, Listed(i, g.indices)
        PROVE  Listed(i, q.indices)
    <3>1. PICK p \in 1..Len(g.indices) : g.indices[p] = i
      BY <2>2 DEF Listed
    <3>2. p \in 1..Len(q.indices) /\ q.indices[p] = i
      BY SMTT(30), <1>4, <1>5, <3>1
    <3>3. QED
      BY <3>2 DEF Listed
  <2>3. QED
    BY <2>1, <2>2
<1>11. QED
  BY <1>2, <1>4, <1>5, <1>9, <1>10

\* The first image of an output contract founds a group.
LEMMA GroupingSingle ==
  ASSUME NEW r, NEW n \in Nat \ {0}, NEW image \in PreparedImages, image.contract = r[n],
         NEW q, q = Single(image, n)
  PROVE  Grouping(q, r, n) /\ q.info = Info(r[n]) /\ q.indices[1] = n /\ Listed(n, q.indices)
<1>1. q.info = Info(r[n]) /\ q.images = <<image>> /\ q.indices = <<n>>
  BY DEF Single
<1>2. QED
  BY <1>1 DEF Grouping, Ascending, Listed

\* The next result keeps a batch of the results before it sorted.
LEMMA JoinedSorted ==
  ASSUME NEW r \in Seq(Contracts), NEW n \in Nat, n + 1 \in 1..Len(r), NEW b, Sorted(b, r, n),
         NEW origin \in Nat, NEW c, c = Joined(b, r[n + 1], origin, n + 1)
  PROVE  Sorted(c, r, n + 1)
<1>1. b.groups \in Seq(Groups) /\ b.errors \in Seq(Nat) /\ b = [groups |-> b.groups, errors |-> b.errors]
  BY DEF Sorted, Results
<1>2. r[n + 1] \in Contracts
  OBVIOUS
<1>3. \A g \in 1..Len(b.groups) : b.groups[g] \in Groups /\ Grouping(b.groups[g], r, n)
  BY <1>1 DEF Sorted
<1>4. \A g \in 1..Len(b.groups) : Grouping(b.groups[g], r, n + 1) /\ b.groups[g].indices[1] \in 1..n
  <2>1. SUFFICES ASSUME NEW g \in 1..Len(b.groups)
                 PROVE  Grouping(b.groups[g], r, n + 1) /\ b.groups[g].indices[1] \in 1..n
    OBVIOUS
  <2>2. PICK h : h = b.groups[g]
    OBVIOUS
  <2>3. h \in Groups /\ Grouping(h, r, n)
    BY <1>3, <2>2
  <2>4. Grouping(h, r, n + 1)
    BY <2>3, GroupingMore
  <2>5. h.indices \in Seq(Nat) /\ h.indices # <<>>
    BY <2>3 DEF Grouping, Groups
  <2>6. 1 \in 1..Len(h.indices)
    BY <2>5
  <2>7. h.indices[1] \in 1..n
    BY <2>3, <2>6 DEF Grouping
  <2>8. QED
    BY <2>2, <2>4, <2>7
<1>5. CASE Failed(r[n + 1])
  <2>1. c.groups = b.groups /\ c.errors = Append(b.errors, n + 1) /\ c \in Results
    <3>1. c = [b EXCEPT !.errors = Append(b.errors, n + 1)]
      BY <1>5 DEF Joined
    <3>2. c = [groups |-> b.groups, errors |-> Append(b.errors, n + 1)]
      BY <1>1, <3>1
    <3>3. Append(b.errors, n + 1) \in Seq(Nat)
      BY <1>1
    <3>4. c.groups = b.groups /\ c.errors = Append(b.errors, n + 1)
      BY <3>2
    <3>5. \A gs \in Seq(Groups), es \in Seq(Nat) : [groups |-> gs, errors |-> es] \in Results
      BY DEF Results
    <3>6. c \in Results
      BY <1>1, <3>2, <3>3, <3>5, Zenon
    <3>7. QED
      BY <3>4, <3>6
  <2>2. /\ Ascending(c.errors) /\ Len(c.errors) = Len(b.errors) + 1 /\ c.errors[Len(b.errors) + 1] = n + 1
        /\ \A p \in 1..Len(b.errors) : c.errors[p] = b.errors[p]
    <3>1. PICK s, m : s = b.errors /\ m = n + 1
      OBVIOUS
    <3>2. s \in Seq(Nat) /\ m \in Nat /\ Ascending(s) /\ \A p \in 1..Len(s) : s[p] < m
      BY <1>1, <3>1 DEF Sorted
    <3>3. /\ Ascending(Append(s, m)) /\ Len(Append(s, m)) = Len(s) + 1 /\ Append(s, m)[Len(s) + 1] = m
          /\ \A p \in 1..Len(s) : Append(s, m)[p] = s[p]
      BY <3>2, AscendingAppend
    <3>4. QED
      BY <2>1, <3>1, <3>3
  <2>3. \A p \in 1..Len(b.errors) : b.errors[p] \in 1..n
    BY DEF Sorted
  <2>4. \A p \in 1..Len(c.errors) : c.errors[p] \in 1..n + 1
    <3>1. Len(b.errors) \in Nat
      BY <1>1
    <3>2. SUFFICES ASSUME NEW p \in 1..Len(c.errors)
                   PROVE  c.errors[p] \in 1..n + 1
      OBVIOUS
    <3>3. p \in 1..Len(b.errors) \/ p = Len(b.errors) + 1
      BY <2>2, <3>1
    <3>4. QED
      BY SMTT(30), <2>2, <2>3, <3>3
  <2>5. ASSUME NEW i \in 1..n + 1
        PROVE  Listed(i, c.errors) \/ \E g \in 1..Len(c.groups) : Listed(i, c.groups[g].indices)
    <3>1. PICK m : m = Len(b.errors) + 1
      OBVIOUS
    <3>2. m \in 1..Len(c.errors) /\ c.errors[m] = n + 1
      BY <1>1, <2>2, <3>1
    <3>3. CASE i = n + 1
      BY <3>2, <3>3 DEF Listed
    <3>4. CASE i \in 1..n
      <4>1. Listed(i, b.errors) \/ \E g \in 1..Len(b.groups) : Listed(i, b.groups[g].indices)
        BY <3>4 DEF Sorted
      <4>2. ASSUME Listed(i, b.errors)
            PROVE  Listed(i, c.errors)
        <5>1. PICK p \in 1..Len(b.errors) : b.errors[p] = i
          BY <4>2 DEF Listed
        <5>2. p \in 1..Len(c.errors) /\ c.errors[p] = i
          BY <1>1, <2>2, <5>1
        <5>3. QED
          BY <5>2 DEF Listed
      <4>3. QED
        BY <2>1, <4>1, <4>2
    <3>5. QED
      BY <3>3, <3>4
  <2>6. \A g, h \in 1..Len(b.groups) :
          g < h => /\ b.groups[g].info # b.groups[h].info
                   /\ b.groups[g].indices[1] < b.groups[h].indices[1]
    BY DEF Sorted
  <2>7. QED
    <3>1. PICK gs : gs = b.groups
      OBVIOUS
    <3>2. /\ c \in Results /\ c.groups = gs /\ Ascending(c.errors)
          /\ \A g \in 1..Len(gs) : Grouping(gs[g], r, n + 1)
          /\ \A g, h \in 1..Len(gs) :
               g < h => gs[g].info # gs[h].info /\ gs[g].indices[1] < gs[h].indices[1]
          /\ \A i \in 1..n + 1 : Listed(i, c.errors) \/ \E g \in 1..Len(gs) : Listed(i, gs[g].indices)
      BY SMTT(30), <1>4, <2>1, <2>2, <2>5, <2>6, <3>1
    <3>3. QED
      BY <2>4, <3>2, SMTT(30) DEF Sorted
<1>6. CASE ~Failed(r[n + 1])
  <2> DEFINE image == [contract |-> r[n + 1], origin |-> origin]
  <2>1. image \in PreparedImages /\ image.contract = r[n + 1]
    BY <1>2 DEF PreparedImages
  <2>2. PICK q : q = PushPrepared(b.groups, image, n + 1)
    OBVIOUS
  <2>3. c = [groups |-> q, errors |-> b.errors]
    BY <1>1, <1>6, <2>2 DEF Joined
  <2>4. c.groups = q /\ c.errors = b.errors
    BY <2>3
  <2> HIDE DEF image
  <2>5. Ascending(c.errors) /\ \A p \in 1..Len(c.errors) : c.errors[p] \in 1..n + 1
    BY <2>4 DEF Sorted
  <2>6. \A i \in 1..n : Listed(i, b.errors) \/ \E g \in 1..Len(b.groups) : Listed(i, b.groups[g].indices)
    BY DEF Sorted
  <2>7. \A g, h \in 1..Len(b.groups) :
          g < h => /\ b.groups[g].info # b.groups[h].info
                   /\ b.groups[g].indices[1] < b.groups[h].indices[1]
    BY DEF Sorted
  <2>8. PICK gs, m : gs = b.groups /\ m = n + 1
    OBVIOUS
  <2>9. gs \in Seq(Groups) /\ m \in Nat \ {0} /\ q = PushPrepared(gs, image, m)
    BY <1>1, <2>2, <2>8
  <2>10. ASSUME NEW g \in 1..Len(gs),
                gs[g].info = Info(image.contract), q \in Seq(Groups), Len(q) = Len(gs),
                q[g] = Grown(gs[g], image, m), \A h \in 1..Len(gs) : h # g => q[h] = gs[h]
         PROVE  Sorted(c, r, n + 1)
    <3>1. PICK old, new : old = gs[g] /\ new = q[g]
      OBVIOUS
    <3>2. /\ old \in Groups /\ Grouping(old, r, n) /\ Info(r[n + 1]) = old.info
          /\ new = Grown(old, image, n + 1)
      BY <1>3, <2>1, <2>8, <2>10, <3>1
    <3>3. /\ Grouping(new, r, n + 1) /\ new.info = old.info /\ new.indices[1] = old.indices[1]
          /\ Listed(n + 1, new.indices)
          /\ \A i \in 1..n : Listed(i, old.indices) => Listed(i, new.indices)
      BY <2>1, <3>2, GroupingGrows
    <3>4. \A h \in 1..Len(q) : Grouping(q[h], r, n + 1)
      BY <1>4, <2>8, <2>10, <3>1, <3>3
    <3>5. \A h \in 1..Len(q) : q[h].info = gs[h].info /\ q[h].indices[1] = gs[h].indices[1]
      BY <2>10, <3>1, <3>3
    <3>6. \A h, k \in 1..Len(q) :
            h < k => q[h].info # q[k].info /\ q[h].indices[1] < q[k].indices[1]
      BY <2>7, <2>8, <2>10, <3>5
    <3>7. ASSUME NEW i \in 1..n + 1
          PROVE  Listed(i, c.errors) \/ \E h \in 1..Len(q) : Listed(i, q[h].indices)
      <4>1. CASE i = n + 1
        BY <2>10, <3>1, <3>3, <4>1
      <4>2. CASE i \in 1..n /\ ~Listed(i, b.errors)
        <5>1. PICK h \in 1..Len(gs) : Listed(i, gs[h].indices)
          BY <2>6, <2>8, <4>2
        <5>2. Listed(i, q[h].indices)
          BY <2>10, <3>1, <3>3, <4>2, <5>1
        <5>3. QED
          BY <2>10, <5>1, <5>2
      <4>3. QED
        BY <2>4, <4>1, <4>2
    <3>8. c \in Results
      BY <1>1, <2>3, <2>10 DEF Results
    <3>9. QED
      BY <2>4, <2>5, <3>4, <3>6, <3>7, <3>8, SMTT(30) DEF Sorted
  <2>11. ASSUME \A g \in 1..Len(gs) : gs[g].info # Info(image.contract),
                q \in Seq(Groups), q = Append(gs, Single(image, m))
         PROVE  Sorted(c, r, n + 1)
    <3>1. PICK new, l : new = Single(image, m) /\ l = Len(gs)
      OBVIOUS
    <3>2. Grouping(new, r, m) /\ new.info = Info(r[m]) /\ new.indices[1] = m /\ Listed(m, new.indices)
      <4>1. r[m] = image.contract
        BY <2>1, <2>8
      <4>2. QED
        BY <2>1, <2>9, <3>1, <4>1, GroupingSingle
    <3>3. l \in Nat /\ Len(q) = l + 1 /\ q[l + 1] = new /\ \A h \in 1..l : q[h] = gs[h]
      BY <2>9, <2>11, <3>1
    <3>4. \A h \in 1..l + 1 : Grouping(q[h], r, n + 1)
      BY <1>4, <2>8, <3>1, <3>2, <3>3
    <3>5. ASSUME NEW h \in 1..l + 1, NEW k \in 1..l + 1, h < k
          PROVE  q[h].info # q[k].info /\ q[h].indices[1] < q[k].indices[1]
      <4>1. h \in 1..l /\ q[h] = gs[h]
        BY <3>3, <3>5
      <4>2. CASE k = l + 1
        <5>1. gs[h].indices[1] \in 1..n /\ gs[h].info # Info(r[m])
          BY <1>4, <2>1, <2>8, <2>11, <3>1, <4>1
        <5>2. QED
          BY <2>8, <3>2, <3>3, <4>1, <4>2, <5>1
      <4>3. CASE k \in 1..l
        BY <2>7, <2>8, <3>1, <3>3, <3>5, <4>1, <4>3
      <4>4. QED
        BY <3>3, <4>2, <4>3
    <3>6. ASSUME NEW i \in 1..n + 1
          PROVE  Listed(i, c.errors) \/ \E h \in 1..l + 1 : Listed(i, q[h].indices)
      <4>1. CASE i = n + 1
        <5>1. l + 1 \in 1..l + 1
          BY <3>3
        <5>2. QED
          BY <2>8, <3>2, <3>3, <4>1, <5>1
      <4>2. CASE i \in 1..n /\ ~Listed(i, b.errors)
        <5>1. PICK h \in 1..l : Listed(i, gs[h].indices)
          BY <2>6, <2>8, <3>1, <4>2
        <5>2. h \in 1..l + 1
          BY <3>3
        <5>3. QED
          BY <3>3, <5>1, <5>2
      <4>3. QED
        BY <2>4, <4>1, <4>2
    <3>7. c \in Results
      <4>1. q \in Seq(Groups)
        BY <2>11
      <4>2. QED
        BY <1>1, <2>3, <4>1 DEF Results
    <3>8. Len(c.groups) = l + 1
      BY <2>4, <3>3
    <3>9. \A h, k \in 1..l + 1 : h < k => q[h].info # q[k].info /\ q[h].indices[1] < q[k].indices[1]
      BY <3>5
    <3>10. PICK z : z = c.groups
      OBVIOUS
    <3>11. /\ \A g \in 1..Len(z) : Grouping(z[g], r, n + 1)
           /\ \A g, h \in 1..Len(z) : g < h => z[g].info # z[h].info /\ z[g].indices[1] < z[h].indices[1]
           /\ \A i \in 1..n + 1 : Listed(i, c.errors) \/ \E g \in 1..Len(z) : Listed(i, z[g].indices)
      <4>1. z = q /\ Len(z) = l + 1
        BY <2>4, <3>8, <3>10
      <4>2. QED
        BY <3>4, <3>6, <3>9, <4>1
    <3>12. QED
      BY <2>5, <3>7, <3>10, <3>11 DEF Sorted
  <2>12. \/ \E g \in 1..Len(gs) :
              /\ gs[g].info = Info(image.contract)
              /\ q \in Seq(Groups) /\ Len(q) = Len(gs)
              /\ q[g] = Grown(gs[g], image, m)
              /\ \A h \in 1..Len(gs) : h # g => q[h] = gs[h]
         \/ /\ \A g \in 1..Len(gs) : gs[g].info # Info(image.contract)
            /\ q \in Seq(Groups) /\ q = Append(gs, Single(image, m))
    BY <2>1, <2>9, PushShape
  <2>13. QED
    BY <2>10, <2>11, <2>12, Zenon
<1>7. QED
  BY <1>5, <1>6

\* A batch of any results is sorted.
LEMMA GroupedSorted ==
  ASSUME NEW r \in Seq(Contracts), NEW o \in Seq(Nat), Len(o) = Len(r)
  PROVE  Sorted(Grouped(r, o), r, Len(r))
<1>1. Len(r) \in Nat
  OBVIOUS
<1>2. PICK f : Growth(f, r, o, Len(r)) /\ Grouped(r, o) = f[Len(r)]
  BY <1>1, GroupedPrefix
<1> DEFINE Bad == {m \in 0..Len(r) : ~Sorted(f[m], r, m)}
<1>3. SUFFICES ASSUME Bad # {}
               PROVE  FALSE
  BY <1>1, <1>2
<1>4. \E m \in Bad : \A k \in Bad : m <= k
  <2>1. Bad \in SUBSET Nat
    OBVIOUS
  <2> HIDE DEF Bad
  <2>2. QED
    BY <1>3, <2>1, LeastElement
<1>5. PICK m \in Bad : \A k \in Bad : m <= k
  BY <1>4
<1>6. m # 0
  <2>1. f[0] = NoBatch
    BY <1>1, <1>2 DEF Growth
  <2>2. NoBatch.groups = <<>> /\ NoBatch.errors = <<>> /\ NoBatch \in Results
    BY DEF NoBatch, Results
  <2>3. Sorted(NoBatch, r, 0)
    BY <2>2 DEF Sorted, Ascending
  <2>4. QED
    BY <2>1, <2>3
<1>7. PICK n \in Nat : m = n + 1 /\ n + 1 \in 1..Len(r)
  <2>1. m \in Nat /\ m - 1 \in Nat /\ m \in 1..Len(r)
    BY <1>1, <1>6
  <2>2. QED
    BY <2>1
<1>8. Sorted(f[n], r, n)
  <2>1. n \in 0..Len(r) /\ ~ (m <= n)
    BY <1>1, <1>7
  <2>2. QED
    BY <1>5, <2>1
<1>9. f[n + 1] = Joined(f[n], r[n + 1], o[n + 1], n + 1)
  <2>1. n + 1 \in 0..Len(r) /\ n + 1 # 0 /\ (n + 1) - 1 = n
    BY <1>1, <1>7
  <2>2. f[n + 1] = Joined(f[(n + 1) - 1], r[n + 1], o[n + 1], n + 1)
    BY <1>2, <2>1, Zenon DEF Growth
  <2>3. QED
    BY <2>1, <2>2
<1>10. o[n + 1] \in Nat
  BY <1>7
<1>11. Sorted(f[n + 1], r, n + 1)
  <2>1. PICK b, c, origin : b = f[n] /\ c = f[n + 1] /\ origin = o[n + 1]
    OBVIOUS
  <2>2. Sorted(c, r, n + 1)
    BY <1>7, <1>8, <1>9, <1>10, <2>1, JoinedSorted
  <2>3. QED
    BY <2>1, <2>2
<1>12. QED
  BY <1>5, <1>7, <1>11

\* prepare_batch_from_images takes images of the contracts of the batch.
LEMMA ImagesGrouped ==
  ASSUME NEW r \in Seq(Contracts), NEW b, Sorted(b, r, Len(r)), NEW q, q = ImagesOf(b)
  PROVE  /\ q \in Seq(PreparedImages)
         /\ \A i \in 1..Len(q) : \E j \in 1..Len(r) : q[i].contract = r[j]
<1> DEFINE S == {x \in PreparedImages : \E j \in 1..Len(r) : x.contract = r[j]}
           R == Seq(S)
           t == [g \in DOMAIN b.groups |-> b.groups[g].images]
<1>1. b.groups \in Seq(Groups) /\ DOMAIN b.groups = 1..Len(b.groups) /\ Len(b.groups) \in Nat
  BY DEF Sorted, Results
<1>2. ASSUME NEW g \in 1..Len(b.groups)
      PROVE  b.groups[g].images \in R
  <2>1. PICK h : h = b.groups[g]
    OBVIOUS
  <2>2. h \in Groups /\ Grouping(h, r, Len(r))
    BY <1>1, <2>1 DEF Sorted
  <2>3. h.images \in Seq(PreparedImages) /\ h.indices \in Seq(Nat) /\ Len(h.images) = Len(h.indices)
    BY <2>2 DEF Groups, Grouping
  <2>4. \A p \in 1..Len(h.images) : h.images[p] \in S
    BY <2>2, <2>3 DEF Grouping
  <2>5. h.images \in Seq(S)
    <3> HIDE DEF S
    <3>1. PICK s : s = h.images
      OBVIOUS
    <3>2. s \in Seq(PreparedImages) /\ \A p \in 1..Len(s) : s[p] \in S
      BY <2>3, <2>4, <3>1
    <3>3. s = [p \in 1..Len(s) |-> s[p]] /\ Len(s) \in Nat
      BY <3>2
    <3>4. s \in Seq(S)
      BY <3>2, <3>3
    <3>5. QED
      BY <3>1, <3>4
  <2>6. QED
    BY <2>1, <2>5
<1>3. t \in Seq(R)
  <2> HIDE DEF R
  <2>1. QED
    BY <1>1, <1>2
<1>4. FlattenSeq(t) \in Seq(S)
  <2> HIDE DEF S, t
  <2>1. t \in Seq(Seq(S))
    BY <1>3
  <2>2. QED
    BY <2>1, FlattenType
<1>5. q = FlattenSeq(t)
  BY DEF ImagesOf
<1>6. q \in Seq(S)
  BY <1>4, <1>5
<1> HIDE DEF R, t
<1>7. \A i \in 1..Len(q) : q[i] \in S
  <2> HIDE DEF S
  <2>1. QED
    BY <1>6
<1>8. q \in Seq(PreparedImages)
  <2>1. S \subseteq PreparedImages
    OBVIOUS
  <2> HIDE DEF S
  <2>2. q = [p \in 1..Len(q) |-> q[p]] /\ Len(q) \in Nat
    BY <1>6
  <2>3. QED
    BY <1>7, <2>1, <2>2
<1>9. QED
  BY <1>7, <1>8

-----------------------------------------------------------------------------
(***************************************************************************)
(* Entries, results and ids.                                               *)
(***************************************************************************)
Others(u, s, p) ==
  Len(u) = Len(s) - 1 /\ \A i \in 1..Len(s) - 1 : u[i] = IF i < p THEN s[i] ELSE s[i + 1]

\* The entry at p of a sequence goes behind the others, which are u.
LEMMA BehindOthers ==
  ASSUME NEW S, NEW s \in Seq(S), NEW p \in 1..Len(s), NEW u \in Seq(S), Others(u, s, p),
         NEW x, x = s[p]
  PROVE  Append(u, x) \in Seq(S) /\ Len(Append(u, x)) = Len(s) /\ ToSet(Append(u, x)) = ToSet(s)
<1>1. PICK t : t = Append(u, x)
  OBVIOUS
<1>2. Len(u) = Len(s) - 1 /\ \A i \in 1..Len(s) - 1 : u[i] = IF i < p THEN s[i] ELSE s[i + 1]
  BY DEF Others
<1>3. s[p] \in S /\ Len(s) \in Nat \ {0}
  OBVIOUS
<1>4. t \in Seq(S) /\ Len(t) = Len(s)
  BY <1>1, <1>2, <1>3
<1>5. t[Len(s)] = s[p] /\ \A i \in 1..Len(s) - 1 : t[i] = u[i]
  BY <1>1, <1>2, <1>3
<1>6. ASSUME NEW c \in ToSet(t)
      PROVE  c \in ToSet(s)
  <2>1. PICK i \in 1..Len(s) : c = t[i]
    BY <1>4 DEF ToSet
  <2>2. CASE i = Len(s)
    <3>1. c = s[p]
      BY <1>5, <2>1, <2>2
    <3>2. QED
      BY <3>1 DEF ToSet
  <2>3. CASE i # Len(s)
    <3>1. i \in 1..Len(s) - 1
      BY <1>3, <2>3
    <3>2. c = IF i < p THEN s[i] ELSE s[i + 1]
      BY <1>2, <1>5, <2>1, <3>1
    <3>3. i \in 1..Len(s) /\ i + 1 \in 1..Len(s)
      BY <1>3, <3>1
    <3>4. PICK j \in 1..Len(s) : c = s[j]
      BY <3>2, <3>3
    <3>5. QED
      BY <3>4 DEF ToSet
  <2>4. QED
    BY <2>2, <2>3
<1>7. ASSUME NEW c \in ToSet(s)
      PROVE  c \in ToSet(t)
  <2>1. PICK i \in 1..Len(s) : c = s[i]
    BY DEF ToSet
  <2>2. CASE i = p
    <3>1. Len(s) \in 1..Len(t)
      BY <1>3, <1>4
    <3>2. c = t[Len(s)]
      BY <1>5, <2>1, <2>2
    <3>3. QED
      BY <1>4, <3>1, <3>2 DEF ToSet
  <2>3. CASE i < p
    <3>1. i \in 1..Len(s) - 1 /\ i \in 1..Len(t)
      BY <1>3, <1>4, <2>3
    <3>2. c = t[i]
      BY <1>2, <1>5, <2>1, <2>3, <3>1
    <3>3. QED
      BY <1>4, <3>1, <3>2 DEF ToSet
  <2>4. CASE i > p
    <3>1. i - 1 \in 1..Len(s) - 1 /\ i - 1 \in 1..Len(t) /\ ~ (i - 1 < p) /\ (i - 1) + 1 = i
      BY <1>3, <1>4, <2>4
    <3>2. u[i - 1] = s[(i - 1) + 1] /\ t[i - 1] = u[i - 1]
      BY <1>2, <1>5, <3>1
    <3>3. c = t[i - 1]
      BY <2>1, <3>1, <3>2
    <3>4. PICK j \in 1..Len(t) : c = t[j]
      BY <3>1, <3>3
    <3>5. QED
      BY <1>4, <3>4 DEF ToSet
  <2>5. QED
    BY <2>2, <2>3, <2>4
<1>8. QED
  BY <1>1, <1>4, <1>6, <1>7, Zenon

\* A hit: the entry at p becomes the last.
LEMMA MovedLast ==
  ASSUME NEW S, NEW s \in Seq(S), NEW p \in 1..Len(s),
         NEW t, t = SubSeq(s, 1, p - 1) \o SubSeq(s, p + 1, Len(s)) \o <<s[p]>>
  PROVE  t \in Seq(S) /\ Len(t) = Len(s) /\ ToSet(t) = ToSet(s)
<1> DEFINE u == RemoveAt(s, p)
<1>1. u = SubSeq(s, 1, p - 1) \o SubSeq(s, p + 1, Len(s))
  BY DEF RemoveAt
<1>2. u \in Seq(S) /\ Others(u, s, p)
  BY Removed DEF Others
<1> HIDE DEF u
<1>3. PICK x : x = s[p]
  OBVIOUS
<1>4. u \o <<x>> = Append(u, x)
  BY <1>2
<1>5. t = Append(u, x)
  BY <1>1, <1>3, <1>4, Zenon
<1>6. Append(u, x) \in Seq(S) /\ Len(Append(u, x)) = Len(s) /\ ToSet(Append(u, x)) = ToSet(s)
  BY <1>2, <1>3, BehindOthers
<1>7. QED
  BY <1>5, <1>6, Zenon

\* insert: room is made before the new entry is pushed, and nothing else comes in.
LEMMA Inserted ==
  ASSUME Types, NEW c \in Contracts, Insert(c)
  PROVE  /\ entries' \in Seq(Contracts) /\ Len(entries') <= MaxEntries
         /\ ToSet(entries') \subseteq ToSet(entries) \cup {c}
<1>1. PICK s, l : s = entries /\ l = Len(entries)
  OBVIOUS
<1>2. s \in Seq(Contracts) /\ l \in Nat /\ l = Len(s) /\ l <= MaxEntries /\ MaxEntries \in Nat
  BY <1>1, OptionsAssumption DEF Types
<1>3. CASE MaxEntries = 0
  BY <1>1, <1>2, <1>3 DEF Insert
<1>4. CASE MaxEntries # 0
  <2>1. PICK m \in 0..l : /\ Retained = SubSeq(s, m + 1, l) /\ l - m < MaxEntries
    <3>1. CASE l >= MaxEntries
      <4>1. l - MaxEntries + 1 \in 0..l /\ l - (l - MaxEntries + 1) < MaxEntries
        BY <1>2, <1>4, <3>1
      <4>2. Retained = SubSeq(s, (l - MaxEntries + 1) + 1, l)
        BY <1>1, <3>1 DEF Retained
      <4>3. QED
        BY <4>1, <4>2
    <3>2. CASE ~ (l >= MaxEntries)
      <4>1. 0 \in 0..l /\ l - 0 < MaxEntries
        BY <1>2, <3>2
      <4>2. Retained = SubSeq(s, 0 + 1, l)
        BY <1>1, <3>2 DEF Retained
      <4>3. QED
        BY <4>1, <4>2
    <3>3. QED
      BY <3>1, <3>2
  <2>2. PICK u : u = SubSeq(s, m + 1, l)
    OBVIOUS
  <2>3. u \in Seq(Contracts) /\ Len(u) = l - m /\ \A i \in 1..l - m : u[i] = s[m + i]
    BY <1>2, <2>2, Split
  <2>4. ToSet(u) \subseteq ToSet(s)
    <3>1. SUFFICES ASSUME NEW i \in 1..l - m
                   PROVE  u[i] \in ToSet(s)
      BY <2>3 DEF ToSet
    <3>2. m + i \in 1..Len(s) /\ u[i] = s[m + i]
      BY <1>2, <2>3
    <3>3. QED
      BY <1>2, <3>2 DEF ToSet
  <2>5. entries' = Append(u, c)
    BY <1>4, <2>1, <2>2 DEF Insert
  <2>6. ToSet(Append(u, c)) = ToSet(u) \cup {c}
    BY <2>3, AppendSet
  <2>7. Append(u, c) \in Seq(Contracts) /\ Len(Append(u, c)) = Len(u) + 1
    BY <2>3
  <2>8. Len(u) + 1 <= MaxEntries
    BY <1>2, <2>1, <2>3
  <2>9. QED
    BY <1>1, <2>4, <2>5, <2>6, <2>7, <2>8
<1>5. QED
  BY <1>3, <1>4

\* A result is handed to the indices that wait for it.
LEMMA ResolvedParts ==
  ASSUME Types, NEW k \in Callers, NEW I, NEW r \in Contracts, Resolve(k, I, r),
         I \subseteq DOMAIN batch[k]
  PROVE  /\ resolved' = [l \in Callers |-> resolved'[l]]
         /\ \A l \in Callers : l # k => resolved'[l] = resolved[l]
         /\ DOMAIN resolved'[k] = DOMAIN resolved[k] \cup I
         /\ \A i \in I : resolved'[k][i] = r
         /\ \A i \in DOMAIN resolved[k] : i \notin I => resolved'[k][i] = resolved[k][i]
         /\ resolved'[k] \in [DOMAIN resolved'[k] -> Contracts]
         /\ DOMAIN resolved'[k] \subseteq DOMAIN batch[k]
<1>1. /\ resolved = [l \in Callers |-> resolved[l]]
      /\ resolved[k] \in [DOMAIN resolved[k] -> Contracts] /\ DOMAIN resolved[k] \subseteq DOMAIN batch[k]
  BY DEF Types
<1>2. PICK f, g : f = resolved[k] /\ g = [i \in DOMAIN f \cup I |-> IF i \in I THEN r ELSE f[i]]
  OBVIOUS
<1>3. resolved' = [resolved EXCEPT ![k] = g]
  BY <1>2 DEF Resolve
<1>4. resolved'[k] = g /\ (\A l \in Callers : l # k => resolved'[l] = resolved[l])
      /\ resolved' = [l \in Callers |-> resolved'[l]]
  BY <1>1, <1>3
<1>5. /\ DOMAIN g = DOMAIN f \cup I /\ \A i \in I : g[i] = r
      /\ \A i \in DOMAIN f : i \notin I => g[i] = f[i]
  BY <1>2
<1>6. g \in [DOMAIN g -> Contracts]
  BY <1>1, <1>2
<1>7. QED
  BY <1>1, <1>2, <1>4, <1>5, <1>6

\* Ids stay apart when the contracts that are new carry ids of a call that made none
\* before and has left its lookups.
LEMMA IdsKept ==
  ASSUME Types, IdsApart, NEW M \in SUBSET Contracts, NEW k \in Callers, NEW n \in Nat,
         calls' \in [Callers -> Nat], \A l \in Callers : calls[l] <= calls'[l],
         \A l \in Callers : phase'[l] = "lookup" => phase[l] = "lookup" \/ calls[l] < calls'[l],
         \A c \in Contracts : Live(c)' => Live(c) \/ c \in M,
         M # {} => n \in 1..calls'[k] /\ phase'[k] # "lookup",
         \A c \in M : ~Failed(c) => \E j \in Nat : c.id = <<k, n, j>>,
         \A c, d \in M : ~Failed(c) /\ c.id = d.id => c = d,
         M # {} => \A c \in Contracts : Live(c) /\ ~Failed(c) => \A j \in Nat : c.id # <<k, n, j>>
  PROVE  IdsApart'
<1>0. \A l \in Callers : calls[l] \in Nat /\ calls'[l] \in Nat
  BY OptionsAssumption DEF Types
<1>1. ASSUME NEW c \in Contracts, Live(c), ~Failed(c)
      PROVE  Earlier(c)'
  <2>1. PICK l \in Callers : \E m \in 1..calls[l] : \E j \in Nat :
          c.id = <<l, m, j>> /\ (phase[l] = "lookup" => m < calls[l])
    BY <1>1 DEF IdsApart, Earlier
  <2>2. PICK m \in 1..calls[l] : \E j \in Nat :
          c.id = <<l, m, j>> /\ (phase[l] = "lookup" => m < calls[l])
    BY <2>1
  <2>3. PICK j \in Nat : c.id = <<l, m, j>> /\ (phase[l] = "lookup" => m < calls[l])
    BY <2>2
  <2>4. m \in 1..calls'[l] /\ (phase'[l] = "lookup" => m < calls'[l])
    BY <1>0, <2>3
  <2>5. QED
    BY <2>3, <2>4 DEF Earlier
<1>2. ASSUME NEW c \in M, ~Failed(c)
      PROVE  Earlier(c)'
  <2>1. PICK j \in Nat : c.id = <<k, n, j>>
    BY <1>2
  <2>2. QED
    BY <2>1 DEF Earlier
<1>3. \A c \in Contracts : Live(c)' /\ ~Failed(c) => Earlier(c)'
  BY <1>1, <1>2
<1>4. ASSUME NEW c \in Contracts, NEW d \in Contracts, Live(c)', Live(d)', ~Failed(c), c.id = d.id
      PROVE  c = d
  <2>1. ~Failed(d)
    BY <1>4 DEF Failed
  <2>2. CASE Live(c) /\ Live(d)
    BY <1>4, <2>2 DEF IdsApart
  <2>3. CASE c \in M /\ d \in M
    BY <1>4, <2>3
  <2>4. CASE Live(c) /\ d \in M
    <3>1. PICK j \in Nat : d.id = <<k, n, j>>
      BY <2>1, <2>4
    <3>2. QED
      BY <1>4, <2>4, <3>1
  <2>5. CASE c \in M /\ Live(d)
    <3>1. PICK j \in Nat : c.id = <<k, n, j>>
      BY <1>4, <2>5
    <3>2. QED
      BY <1>4, <2>1, <2>5, <3>1
  <2>6. QED
    BY <1>4, <2>2, <2>3, <2>4, <2>5
<1>5. QED
  BY <1>3, <1>4 DEF IdsApart, Failed

-----------------------------------------------------------------------------
(***************************************************************************)
(* Every step keeps the invariant.                                         *)
(***************************************************************************)
\* A step of one caller.
Still(k) ==
  /\ phase' \in [Callers -> Phases] /\ calls' \in [Callers -> 0..MaxCalls]
  /\ calls[k] <= calls'[k] /\ calls'[k] # 0
  /\ \A l \in Callers : l # k =>
       /\ phase'[l] = phase[l] /\ batch'[l] = batch[l] /\ resolved'[l] = resolved[l]
       /\ jobs'[l] = jobs[l] /\ made'[l] = made[l] /\ returned'[l] = returned[l]
       /\ calls'[l] = calls[l] /\ looked'[l] = looked[l]

\* What it keeps of the others.
LEMMA OthersKept ==
  ASSUME IInv, NEW k \in Callers, Still(k), ProgressOf(k)', AnsweredOf(k)',
         UniqueFor(k) => UniqueFor(k)'
  PROVE  Progress' /\ Answered' /\ UniqueAlone'
<1>1. Types /\ Progress /\ Answered /\ UniqueAlone
  BY DEF IInv
<1>2. ASSUME NEW l \in Callers, l # k
      PROVE  ProgressOf(l)' /\ AnsweredOf(l)'
  <2>1. ProgressOf(l) /\ AnsweredOf(l)
    BY <1>1 DEF Progress, Answered
  <2>2. /\ phase'[l] = phase[l] /\ batch'[l] = batch[l] /\ resolved'[l] = resolved[l]
        /\ jobs'[l] = jobs[l] /\ made'[l] = made[l] /\ returned'[l] = returned[l]
        /\ calls'[l] = calls[l] /\ looked'[l] = looked[l]
    BY <1>2 DEF Still
  <2>3. ProgressOf(l)'
    BY <2>1, <2>2 DEF ProgressOf
  <2>4. AnsweredOf(l)'
    BY <2>1, <2>2 DEF AnsweredOf
  <2>5. QED
    BY <2>3, <2>4
<1>3. Progress' /\ Answered'
  BY <1>2 DEF Progress, Answered
<1>4. ASSUME NEW l \in Callers, Alone(l)'
      PROVE  UniqueFor(l)'
  <2>1. l = k
    BY <1>4 DEF Alone, Still
  <2>2. Alone(k)
    BY <1>4, <2>1 DEF Alone, Still
  <2>3. QED
    BY <1>1, <2>1, <2>2 DEF UniqueAlone
<1>5. QED
  BY <1>3, <1>4 DEF UniqueAlone

\* Ids stay apart when no contract is new.
LEMMA IdsSame ==
  ASSUME IInv, NEW k \in Callers, Still(k),
         phase'[k] = "lookup" => phase[k] = "lookup" \/ calls[k] < calls'[k],
         \A c \in Contracts : Live(c)' => Live(c)
  PROVE  IdsApart'
<1>1. Types /\ IdsApart
  BY DEF IInv
<1>2. /\ calls' \in [Callers -> Nat] /\ \A l \in Callers : calls[l] <= calls'[l]
      /\ \A l \in Callers : phase'[l] = "lookup" => phase[l] = "lookup" \/ calls[l] < calls'[l]
  <2>1. 0..MaxCalls \subseteq Nat /\ calls \in [Callers -> 0..MaxCalls] /\ calls' \in [Callers -> 0..MaxCalls]
    BY <1>1, OptionsAssumption DEF Types, Still
  <2>2. calls' \in [Callers -> Nat] /\ \A l \in Callers : calls[l] \in Nat
    BY <2>1
  <2>3. calls[k] <= calls'[k] /\ \A l \in Callers : l # k => calls'[l] = calls[l] /\ phase'[l] = phase[l]
    BY DEF Still
  <2>4. \A l \in Callers : calls[l] <= calls'[l]
    BY <2>2, <2>3
  <2>5. QED
    BY <2>2, <2>3, <2>4
<1>3. PICK M, n : M = {} /\ n = 0
  OBVIOUS
<1>4. /\ M \in SUBSET Contracts /\ n \in Nat /\ M = {}
      /\ \A c \in Contracts : Live(c)' => Live(c) \/ c \in M
  BY <1>3
<1>5. QED
  BY <1>1, <1>2, <1>4, IdsKept

\* A call that looks inputs up.
LEMMA LookingFacts ==
  ASSUME IInv, NEW k \in Callers, Looking(k)
  PROVE  /\ returned[k] = NoBatch /\ calls[k] # 0 /\ made[k] = <<>>
         /\ looked[k] + 1 \in DOMAIN batch[k] /\ Current(k) \in Inputs
         /\ Current(k) = batch[k][looked[k] + 1]
<1>1. Types /\ ProgressOf(k) /\ AnsweredOf(k) /\ phase[k] = "lookup" /\ looked[k] < Len(batch[k])
  BY DEF IInv, Progress, Answered, Looking
<1>2. batch[k] \in Seq(Inputs) /\ looked[k] \in Nat
  BY <1>1 DEF Types
<1>3. looked[k] + 1 \in 1..Len(batch[k])
  BY <1>1, <1>2
<1>4. returned[k] = NoBatch /\ calls[k] # 0 /\ made[k] = <<>>
  BY <1>1 DEF ProgressOf, AnsweredOf
<1>5. QED
  BY <1>2, <1>3, <1>4 DEF Current

\* The empty cache.
LEMMA InitInv == Init => IInv
<1>1. SUFFICES ASSUME Init
               PROVE  IInv
  OBVIOUS
<1>2. /\ entries = <<>> /\ phase = [k \in Callers |-> "idle"] /\ batch = [k \in Callers |-> <<>>]
      /\ resolved = [k \in Callers |-> <<>>] /\ jobs = [k \in Callers |-> <<>>]
      /\ made = [k \in Callers |-> <<>>] /\ returned = [k \in Callers |-> NoBatch]
      /\ calls = [k \in Callers |-> 0] /\ looked = [k \in Callers |-> 0]
  BY <1>1 DEF Init
<1>3. ToSet(<<>>) = {} /\ DOMAIN <<>> = {} /\ Len(<<>>) = 0
  BY DEF ToSet
<1>4. \A S : <<>> \in Seq(S)
  OBVIOUS
<1>5. NoBatch \in Results
  BY DEF NoBatch, Results
<1>6. Types
  <2>1. MaxCalls \in Nat /\ MaxEntries \in Nat
    BY OptionsAssumption
  <2>2. entries \in Seq(Contracts) /\ Len(entries) <= MaxEntries /\ \A c \in ToSet(entries) : ~Failed(c)
    BY <1>2, <1>3, <1>4, <2>1
  <2>3. \A k \in Callers : resolved[k] \in [DOMAIN resolved[k] -> Contracts]
                           /\ DOMAIN resolved[k] \subseteq DOMAIN batch[k]
    BY <1>2, <1>3
  <2>4. jobs \in [Callers -> Seq(Jobs)] /\ made \in [Callers -> Seq(Contracts)] /\ batch \in [Callers -> Seq(Inputs)]
    BY <1>2, <1>4
  <2>5. phase \in [Callers -> Phases] /\ returned \in [Callers -> Results]
        /\ calls \in [Callers -> 0..MaxCalls] /\ looked \in [Callers -> Nat]
    BY <1>2, <1>5, <2>1 DEF Phases
  <2>6. resolved = [k \in Callers |-> resolved[k]]
    BY <1>2
  <2>7. QED
    BY <2>2, <2>3, <2>4, <2>5, <2>6 DEF Types
<1>7. Progress /\ Answered
  BY <1>2, <1>3 DEF Progress, ProgressOf, Answered, AnsweredOf
<1>8. IdsApart
  BY <1>2, <1>3 DEF IdsApart, Live
<1>9. UniqueAlone
  BY <1>2, <1>3 DEF UniqueAlone, UniqueFor
<1>10. QED
  BY <1>6, <1>7, <1>8, <1>9 DEF IInv

\* An input that is cached.
LEMMA LookupHitStep ==
  ASSUME IInv, NEW k \in Callers, LookupHit(k)
  PROVE  IInv'
<1>1. Types /\ ProgressOf(k) /\ IdsApart
  BY DEF IInv, Progress
<1>2. /\ Looking(k) /\ phase[k] = "lookup" /\ looked' = [looked EXCEPT ![k] = looked[k] + 1]
      /\ UNCHANGED <<phase, batch, jobs, made, returned, calls>>
  BY DEF LookupHit, Looking, Advance
<1>3. /\ returned[k] = NoBatch /\ calls[k] # 0 /\ made[k] = <<>>
      /\ looked[k] + 1 \in DOMAIN batch[k] /\ Current(k) = batch[k][looked[k] + 1]
  BY <1>2, LookingFacts
<1>4. PICK p \in HitsFor(Current(k)) :
        /\ entries' = SubSeq(entries, 1, p - 1) \o SubSeq(entries, p + 1, Len(entries)) \o <<entries[p]>>
        /\ Resolve(k, {looked[k] + 1}, entries[p])
  <2>1. PICK H : H = HitsFor(Current(k))
    OBVIOUS
  <2>2. H \in SUBSET Nat /\ H # {}
    <3>1. DOMAIN entries = 1..Len(entries) /\ Len(entries) \in Nat
      BY <1>1 DEF Types
    <3>2. H \in SUBSET Nat
      BY <2>1, <3>1 DEF HitsFor
    <3>3. H # {}
      BY <2>1 DEF LookupHit
    <3>4. QED
      BY <3>2, <3>3
  <2>3. \E p \in H : \A q \in H : p <= q
    BY <2>2, LeastElement
  <2>4. PICK p : p = CHOOSE m \in H : \A q \in H : m <= q
    OBVIOUS
  <2>5. p \in H
    BY <2>3, <2>4
  <2>6. /\ entries' = SubSeq(entries, 1, p - 1) \o SubSeq(entries, p + 1, Len(entries)) \o <<entries[p]>>
        /\ Resolve(k, {looked[k] + 1}, entries[p])
    BY <2>1, <2>4, Zenon DEF LookupHit
  <2>7. QED
    BY <2>1, <2>5, <2>6
<1>5. PICK c : c = entries[p]
  OBVIOUS
<1>6. p \in 1..Len(entries) /\ entries \in Seq(Contracts) /\ c \in Contracts /\ c \in ToSet(entries)
      /\ c.input = Current(k)
  BY <1>1, <1>4, <1>5 DEF Types, HitsFor, ToSet
<1>7. entries' \in Seq(Contracts) /\ Len(entries') = Len(entries) /\ ToSet(entries') = ToSet(entries)
  BY <1>4, <1>6, MovedLast
<1>8. /\ resolved' = [l \in Callers |-> resolved'[l]]
      /\ \A l \in Callers : l # k => resolved'[l] = resolved[l]
      /\ DOMAIN resolved'[k] = DOMAIN resolved[k] \cup {looked[k] + 1}
      /\ resolved'[k][looked[k] + 1] = c
      /\ \A i \in DOMAIN resolved[k] : i # looked[k] + 1 => resolved'[k][i] = resolved[k][i]
      /\ resolved'[k] \in [DOMAIN resolved'[k] -> Contracts]
      /\ DOMAIN resolved'[k] \subseteq DOMAIN batch[k]
  <2>1. PICK I : I = {looked[k] + 1}
    OBVIOUS
  <2>2. Resolve(k, I, c) /\ I \subseteq DOMAIN batch[k]
    BY <1>3, <1>4, <1>5, <2>1
  <2>3. /\ resolved' = [l \in Callers |-> resolved'[l]]
        /\ \A l \in Callers : l # k => resolved'[l] = resolved[l]
        /\ DOMAIN resolved'[k] = DOMAIN resolved[k] \cup I
        /\ \A i \in I : resolved'[k][i] = c
        /\ \A i \in DOMAIN resolved[k] : i \notin I => resolved'[k][i] = resolved[k][i]
        /\ resolved'[k] \in [DOMAIN resolved'[k] -> Contracts]
        /\ DOMAIN resolved'[k] \subseteq DOMAIN batch[k]
    BY <1>1, <1>6, <2>2, ResolvedParts
  <2>4. QED
    BY <2>1, <2>3
<1>9. Types'
  <2>1. \A l \in Callers : resolved'[l] \in [DOMAIN resolved'[l] -> Contracts]
                           /\ DOMAIN resolved'[l] \subseteq DOMAIN batch[l]
    BY <1>1, <1>8 DEF Types
  <2>2. looked' \in [Callers -> Nat]
    BY <1>1, <1>2 DEF Types
  <2>3. QED
    BY <1>1, <1>2, <1>7, <1>8, <2>1, <2>2 DEF Types
<1>10. Still(k)
  BY <1>1, <1>2, <1>3, <1>8 DEF Still, Types
<1>11. ProgressOf(k)'
  <2>1. \A i \in DOMAIN resolved'[k] : resolved'[k][i].input = batch[k][i]
    BY <1>1, <1>3, <1>6, <1>8 DEF ProgressOf
  <2>2. looked'[k] <= Len(batch[k])
    BY <1>1, <1>2, <1>3 DEF Types
  <2>3. QED
    BY <1>1, <1>2, <2>1, <2>2 DEF ProgressOf
<1>12. AnsweredOf(k)'
  BY <1>2, <1>3 DEF AnsweredOf
<1>13. IdsApart'
  <2>1. ASSUME NEW d \in Contracts, Live(d)'
        PROVE  Live(d)
    <3>1. CASE d \in ToSet(entries')
      BY <1>7, <3>1 DEF Live
    <3>2. CASE \E l \in Callers : d \in ToSet(made'[l])
      BY <1>2, <3>2 DEF Live
    <3>3. ASSUME NEW l \in Callers, NEW i \in DOMAIN resolved'[l], d = resolved'[l][i]
          PROVE  Live(d)
      <4>1. d = c \/ (i \in DOMAIN resolved[l] /\ d = resolved[l][i])
        BY <1>8, <3>3
      <4>2. QED
        BY <1>6, <4>1 DEF Live
    <3>4. QED
      BY <2>1, <3>1, <3>2, <3>3 DEF Live
  <2>2. QED
    BY <1>2, <1>10, <2>1, IdsSame
<1>14. ASSUME UniqueFor(k)
       PROVE  UniqueFor(k)'
  <2>1. \A i \in DOMAIN resolved'[k] : resolved'[k][i] \in ToSet(entries')
    BY <1>2, <1>6, <1>7, <1>8, <1>14 DEF UniqueFor
  <2>2. QED
    BY <1>2, <1>7, <1>14, <2>1 DEF UniqueFor
<1>15. Progress' /\ Answered' /\ UniqueAlone'
  BY <1>10, <1>11, <1>12, <1>14, OthersKept
<1>16. QED
  BY <1>9, <1>13, <1>15 DEF IInv

\* Jobs change; entries and results stay.
LEMMA JobsStep ==
  ASSUME IInv, NEW k \in Callers, Looking(k), looked' = [looked EXCEPT ![k] = looked[k] + 1],
         UNCHANGED <<entries, phase, batch, resolved, made, returned, calls>>,
         NEW q \in Seq(Jobs), jobs' = [jobs EXCEPT ![k] = q],
         \A j \in 1..Len(q) : \A i \in q[j].indices :
           i \in DOMAIN batch[k] /\ batch[k][i] = q[j].input,
         UniqueFor(k) =>
           /\ \A i, j \in 1..Len(q) : q[i].input = q[j].input => i = j
           /\ \A j \in 1..Len(q) : \A c \in ToSet(entries) : c.input # q[j].input
  PROVE  IInv'
<1>1. Types /\ ProgressOf(k)
  BY DEF IInv, Progress
<1>2. /\ returned[k] = NoBatch /\ calls[k] # 0 /\ made[k] = <<>> /\ phase[k] = "lookup"
      /\ looked[k] + 1 \in DOMAIN batch[k]
  BY LookingFacts DEF Looking
<1>3. Types'
  <2>1. looked' \in [Callers -> Nat] /\ jobs' \in [Callers -> Seq(Jobs)]
    BY <1>1 DEF Types
  <2>2. QED
    BY <1>1, <2>1 DEF Types
<1>4. jobs'[k] = q /\ looked'[k] = looked[k] + 1
  BY <1>1 DEF Types
<1>5. Still(k)
  BY <1>1, <1>2 DEF Still, Types
<1>6. ProgressOf(k)'
  <2>1. looked'[k] <= Len(batch[k])
    BY <1>1, <1>2, <1>4 DEF Types
  <2>2. QED
    BY <1>1, <1>2, <1>4, <2>1 DEF ProgressOf
<1>7. AnsweredOf(k)'
  BY <1>2 DEF AnsweredOf
<1>8. IdsApart'
  <2>1. \A c \in Contracts : Live(c)' => Live(c)
    BY DEF Live
  <2>2. QED
    BY <1>2, <1>5, <2>1, IdsSame
<1>9. ASSUME UniqueFor(k)
      PROVE  UniqueFor(k)'
  <2>1. \A i \in DOMAIN resolved[k] : resolved[k][i] \in ToSet(entries)
    BY <1>2, <1>9 DEF UniqueFor
  <2>2. QED
    BY <1>2, <1>4, <1>9, <2>1 DEF UniqueFor
<1>10. QED
  BY <1>3, <1>5, <1>6, <1>7, <1>8, <1>9, OthersKept DEF IInv

\* An input this batch prepares already.
LEMMA JoinJobStep ==
  ASSUME IInv, NEW k \in Callers, JoinJob(k)
  PROVE  IInv'
<1>1. Types /\ ProgressOf(k)
  BY DEF IInv, Progress
<1>2. /\ Looking(k) /\ looked' = [looked EXCEPT ![k] = looked[k] + 1]
      /\ UNCHANGED <<entries, phase, batch, resolved, made, returned, calls>>
  BY DEF JoinJob, Advance
<1>3. looked[k] + 1 \in DOMAIN batch[k] /\ Current(k) = batch[k][looked[k] + 1]
  BY <1>2, LookingFacts
<1>4. PICK j \in JobsFor(k, Current(k)) :
        jobs' = [jobs EXCEPT ![k][j].indices = jobs[k][j].indices \cup {looked[k] + 1}]
  BY DEF JoinJob
<1>5. PICK s, x : s = jobs[k] /\ x = [input |-> s[j].input, indices |-> s[j].indices \cup {looked[k] + 1}]
  OBVIOUS
<1>6. s \in Seq(Jobs) /\ j \in 1..Len(s) /\ s[j] \in Jobs /\ s[j].input = Current(k)
  BY <1>1, <1>4, <1>5 DEF Types, JobsFor
<1>7. x \in Jobs /\ x = [s[j] EXCEPT !.indices = s[j].indices \cup {looked[k] + 1}]
  <2>1. looked[k] + 1 \in Nat
    BY <1>1 DEF Types
  <2>2. PICK y, n : y = s[j] /\ n = looked[k] + 1
    OBVIOUS
  <2>3. y \in [input : Inputs, indices : SUBSET Nat] /\ n \in Nat
    BY <1>6, <2>1, <2>2 DEF Jobs
  <2>4. x = [input |-> y.input, indices |-> y.indices \cup {n}]
    BY <1>5, <2>2
  <2>5. x \in [input : Inputs, indices : SUBSET Nat]
    BY <2>3, <2>4
  <2>6. x = [y EXCEPT !.indices = y.indices \cup {n}]
    BY <2>3, <2>4
  <2>7. QED
    BY <2>2, <2>5, <2>6 DEF Jobs
<1>8. PICK q : q = [s EXCEPT ![j] = x]
  OBVIOUS
<1>9. q \in Seq(Jobs) /\ Len(q) = Len(s) /\ q[j] = x /\ \A i \in 1..Len(s) : i # j => q[i] = s[i]
  <2>1. x \in Jobs
    BY <1>7
  <2>2. QED
    BY <1>6, <1>8, <2>1
<1>10. jobs' = [jobs EXCEPT ![k] = q]
  BY <1>4, <1>5, <1>7, <1>8
<1>11. \A i \in 1..Len(q) : q[i].input = s[i].input
  BY <1>5, <1>6, <1>9
<1>12. \A m \in 1..Len(q) : \A i \in q[m].indices : i \in DOMAIN batch[k] /\ batch[k][i] = q[m].input
  <2>1. \A m \in 1..Len(s) : \A i \in s[m].indices : i \in DOMAIN batch[k] /\ batch[k][i] = s[m].input
    BY <1>1, <1>5 DEF ProgressOf
  <2>2. \A i \in x.indices : i \in s[j].indices \/ i = looked[k] + 1
    BY <1>5
  <2>3. x.input = s[j].input
    BY <1>5
  <2>4. QED
    BY <1>3, <1>6, <1>9, <2>1, <2>2, <2>3
<1>13. UniqueFor(k) =>
         /\ \A i, m \in 1..Len(q) : q[i].input = q[m].input => i = m
         /\ \A m \in 1..Len(q) : \A c \in ToSet(entries) : c.input # q[m].input
  <2>1. phase[k] # "idle"
    BY <1>2 DEF Looking
  <2>2. QED
    BY <1>5, <1>9, <1>11, <2>1 DEF UniqueFor
<1>14. QED
  BY <1>2, <1>9, <1>10, <1>12, <1>13, JobsStep

\* An input that nobody prepared yet.
LEMMA NewJobStep ==
  ASSUME IInv, NEW k \in Callers, NewJob(k)
  PROVE  IInv'
<1>1. Types /\ ProgressOf(k)
  BY DEF IInv, Progress
<1>2. /\ Looking(k) /\ NeedsJob(k) /\ looked' = [looked EXCEPT ![k] = looked[k] + 1]
      /\ UNCHANGED <<entries, phase, batch, resolved, made, returned, calls>>
  BY DEF NewJob, Advance
<1>3. looked[k] + 1 \in DOMAIN batch[k] /\ Current(k) = batch[k][looked[k] + 1] /\ Current(k) \in Inputs
  BY <1>2, LookingFacts
<1>4. PICK s, x : s = jobs[k] /\ x = [input |-> Current(k), indices |-> {looked[k] + 1}]
  OBVIOUS
<1>5. s \in Seq(Jobs) /\ x \in Jobs
  <2>1. looked[k] + 1 \in Nat
    BY <1>1 DEF Types
  <2>2. QED
    BY <1>1, <1>3, <1>4, <2>1 DEF Types, Jobs
<1>6. PICK q : q = Append(s, x)
  OBVIOUS
<1>7. /\ q \in Seq(Jobs) /\ Len(q) = Len(s) + 1 /\ Len(s) \in Nat
      /\ q[Len(s) + 1] = x /\ \A i \in 1..Len(s) : q[i] = s[i]
  BY <1>5, <1>6
<1>8. jobs' = [jobs EXCEPT ![k] = q]
  BY <1>4, <1>6 DEF NewJob
<1>9. x.input = Current(k) /\ x.indices = {looked[k] + 1}
  BY <1>4
<1>10. \A i \in 1..Len(q) : i \in 1..Len(s) \/ i = Len(s) + 1
  BY <1>7
<1>11. \A m \in 1..Len(q) : \A i \in q[m].indices : i \in DOMAIN batch[k] /\ batch[k][i] = q[m].input
  <2>1. \A m \in 1..Len(s) : \A i \in s[m].indices : i \in DOMAIN batch[k] /\ batch[k][i] = s[m].input
    BY <1>1, <1>4 DEF ProgressOf
  <2>2. QED
    BY <1>3, <1>7, <1>9, <1>10, <2>1
<1>12. (\A i \in 1..Len(s) : s[i].input # Current(k)) /\ \A c \in ToSet(entries) : c.input # Current(k)
  <2>1. \A i \in 1..Len(s) : s[i].input # Current(k)
    BY <1>2, <1>4, <1>5 DEF NeedsJob, JobsFor
  <2>2. \A i \in DOMAIN entries : entries[i].input # Current(k)
    BY <1>2 DEF NeedsJob, HitsFor
  <2>3. QED
    BY <2>1, <2>2 DEF ToSet
<1>13. ASSUME UniqueFor(k)
       PROVE  /\ \A i, m \in 1..Len(q) : q[i].input = q[m].input => i = m
              /\ \A m \in 1..Len(q) : \A c \in ToSet(entries) : c.input # q[m].input
  <2>1. phase[k] # "idle"
    BY <1>2 DEF Looking
  <2>2. /\ \A i, j \in 1..Len(s) : s[i].input = s[j].input => i = j
        /\ \A j \in 1..Len(s) : \A c \in ToSet(entries) : c.input # s[j].input
    BY <1>4, <1>13, <2>1 DEF UniqueFor
  <2>3. \A i, m \in 1..Len(q) : q[i].input = q[m].input => i = m
    BY <1>7, <1>9, <1>10, <1>12, <2>2
  <2>4. \A m \in 1..Len(q) : \A c \in ToSet(entries) : c.input # q[m].input
    BY <1>7, <1>9, <1>10, <1>12, <2>2
  <2>5. QED
    BY <2>3, <2>4
<1>14. QED
  BY <1>2, <1>7, <1>8, <1>11, <1>13, JobsStep

\* The parallel stage makes contracts of its own call.
LEMMA PrepareJobsStep ==
  ASSUME IInv, NEW k \in Callers, PrepareJobs(k)
  PROVE  IInv'
<1>1. Types /\ ProgressOf(k) /\ AnsweredOf(k) /\ IdsApart
  BY DEF IInv, Progress, Answered
<1>2. /\ phase[k] = "lookup" /\ looked[k] = Len(batch[k]) /\ phase' = [phase EXCEPT ![k] = "store"]
      /\ UNCHANGED <<entries, batch, resolved, jobs, returned, calls, looked>>
  BY DEF PrepareJobs
<1>3. returned[k] = NoBatch /\ calls[k] # 0
  BY <1>1, <1>2 DEF ProgressOf, AnsweredOf
<1>4. PICK s, n : s = jobs[k] /\ n = calls[k]
  OBVIOUS
<1>5. s \in Seq(Jobs) /\ n \in 1..MaxCalls /\ n \in Nat
  BY <1>1, <1>3, <1>4, OptionsAssumption DEF Types
<1>6. PICK m : m = [j \in 1..Len(s) |-> PrepareContract(s[j].input, <<k, n, j>>)]
  OBVIOUS
<1>7. made' = [made EXCEPT ![k] = m]
  <2>1. DOMAIN s = 1..Len(s)
    BY <1>5
  <2>2. made' = [made EXCEPT ![k] = [j \in DOMAIN s |-> PrepareContract(s[j].input, <<k, n, j>>)]]
    BY <1>4 DEF PrepareJobs
  <2>3. QED
    BY <1>6, <2>1, <2>2
<1>8. ASSUME NEW j \in 1..Len(s)
      PROVE  /\ m[j] = PrepareContract(s[j].input, <<k, n, j>>)
             /\ m[j] \in Contracts /\ m[j].input = s[j].input
             /\ (Failed(m[j]) \/ m[j].id = <<k, n, j>>)
  <2>1. m[j] = PrepareContract(s[j].input, <<k, n, j>>)
    BY <1>6
  <2>2. PICK x : x = s[j].input
    OBVIOUS
  <2>3. x \in Inputs
    <3>1. s[j] \in Jobs
      BY <1>5
    <3>2. QED
      BY <2>2, <3>1 DEF Jobs
  <2>4. PICK id : id = <<k, n, j>>
    OBVIOUS
  <2>5. id \in Ids /\ <<>> \in Ids
    BY <1>5, <2>4 DEF Ids
  <2>6. PICK i : m[j] = [input |-> x, layout |-> Layout, id |-> i] /\ (i = <<>> \/ i = id)
    BY <2>1, <2>2, <2>4 DEF PrepareContract, Contract
  <2>7. m[j] \in Contracts
    BY <2>3, <2>5, <2>6, OptionsAssumption DEF Contracts
  <2>8. QED
    BY <2>1, <2>2, <2>4, <2>6, <2>7 DEF Failed
<1>9. m \in Seq(Contracts) /\ Len(m) = Len(s)
  <2>1. Len(s) \in Nat
    BY <1>5
  <2>2. QED
    BY <1>6, <1>8, <2>1
<1>10. phase'[k] = "store" /\ made'[k] = m /\ \A l \in Callers : l # k => made'[l] = made[l] /\ phase'[l] = phase[l]
  BY <1>1, <1>2, <1>7 DEF Types
<1>11. Types'
  <2>1. made' \in [Callers -> Seq(Contracts)]
    BY <1>1, <1>7, <1>9 DEF Types
  <2>2. phase' \in [Callers -> Phases]
    BY <1>1, <1>2 DEF Types, Phases
  <2>3. QED
    BY <1>1, <1>2, <2>1, <2>2 DEF Types
<1>12. Still(k)
  BY <1>1, <1>2, <1>3, <1>10, <1>11 DEF Still, Types
<1>13. ProgressOf(k)'
  BY <1>1, <1>2, <1>3, <1>4, <1>8, <1>9, <1>10 DEF ProgressOf
<1>14. AnsweredOf(k)'
  BY <1>2, <1>3 DEF AnsweredOf
<1>15. IdsApart'
  <2>1. PICK M : M = {m[j] : j \in 1..Len(s)}
    OBVIOUS
  <2>2. M \in SUBSET Contracts
    BY <1>8, <2>1
  <2>3. ASSUME NEW c \in Contracts, Live(c)'
        PROVE  Live(c) \/ c \in M
    <3>1. ASSUME NEW l \in Callers, c \in ToSet(made'[l])
          PROVE  Live(c) \/ c \in M
      <4>1. CASE l = k
        <5>1. c \in ToSet(m)
          BY <1>10, <3>1, <4>1
        <5>2. PICK j \in 1..Len(s) : c = m[j]
          BY <1>9, <5>1 DEF ToSet
        <5>3. QED
          BY <2>1, <5>2
      <4>2. CASE l # k
        BY <1>10, <3>1, <4>2 DEF Live
      <4>3. QED
        BY <4>1, <4>2
    <3>2. QED
      BY <1>2, <2>3, <3>1 DEF Live
  <2>4. /\ calls' \in [Callers -> Nat] /\ \A l \in Callers : calls[l] <= calls'[l]
        /\ n \in 1..calls'[k]
    BY <1>1, <1>2, <1>4, <1>5, OptionsAssumption DEF Types
  <2>5. /\ \A l \in Callers : phase'[l] = "lookup" => phase[l] = "lookup" \/ calls[l] < calls'[l]
        /\ phase'[k] # "lookup"
    BY <1>10
  <2>6. \A c \in M : ~Failed(c) => \E j \in Nat : c.id = <<k, n, j>>
    <3>1. SUFFICES ASSUME NEW c \in M, ~Failed(c)
                   PROVE  \E j \in Nat : c.id = <<k, n, j>>
      OBVIOUS
    <3>2. PICK j \in 1..Len(s) : c = m[j]
      BY <2>1
    <3>3. j \in Nat /\ c.id = <<k, n, j>>
      <4>1. ~Failed(m[j])
        BY <3>1, <3>2
      <4>2. m[j].id = <<k, n, j>>
        BY <1>8, <4>1
      <4>3. QED
        BY <1>5, <3>2, <4>2
    <3>4. QED
      BY <3>3
  <2>7. ASSUME NEW c \in M, NEW d \in M, ~Failed(c), c.id = d.id
        PROVE  c = d
    <3>1. PICK i \in 1..Len(s), j \in 1..Len(s) : c = m[i] /\ d = m[j]
      BY <2>1
    <3>2. ~Failed(d)
      BY <2>7 DEF Failed
    <3>3. <<k, n, i>> = <<k, n, j>>
      BY <1>8, <2>7, <3>1, <3>2
    <3>4. QED
      BY <3>1, <3>3
  <2>8. ASSUME NEW c \in Contracts, Live(c), ~Failed(c), NEW j \in Nat
        PROVE  c.id # <<k, n, j>>
    <3>1. PICK l \in Callers : \E g \in 1..calls[l] : \E i \in Nat :
            c.id = <<l, g, i>> /\ (phase[l] = "lookup" => g < calls[l])
      BY <1>1, <2>8 DEF IdsApart, Earlier
    <3>2. PICK g \in 1..calls[l] : \E i \in Nat :
            c.id = <<l, g, i>> /\ (phase[l] = "lookup" => g < calls[l])
      BY <3>1
    <3>3. PICK i \in Nat : c.id = <<l, g, i>> /\ (phase[l] = "lookup" => g < calls[l])
      BY <3>2
    <3>4. l = k => g # n
      BY <1>2, <1>4, <1>5, <3>3
    <3>5. QED
      BY <3>3, <3>4
  <2>9. QED
    BY <1>1, <1>5, <2>2, <2>3, <2>4, <2>5, <2>6, <2>7, <2>8, IdsKept
<1>16. ASSUME UniqueFor(k)
       PROVE  UniqueFor(k)'
  BY <1>2, <1>10, <1>16 DEF UniqueFor
<1>17. QED
  BY <1>11, <1>12, <1>13, <1>14, <1>15, <1>16, OthersKept DEF IInv

\* A job's result is cached and handed out.
LEMMA StoreJobStep ==
  ASSUME IInv, NEW k \in Callers, StoreJob(k)
  PROVE  IInv'
<1>1. Types /\ ProgressOf(k) /\ AnsweredOf(k) /\ IdsApart
  BY DEF IInv, Progress, Answered
<1>2. PICK s, m, c : s = jobs[k] /\ m = made[k] /\ c = Head(m)
  OBVIOUS
<1>3. /\ phase[k] = "store" /\ m # <<>>
      /\ IF Failed(c) THEN UNCHANGED entries ELSE Insert(c)
      /\ Resolve(k, IndicesOf(Head(s)), c)
      /\ jobs' = [jobs EXCEPT ![k] = Tail(s)]
      /\ made' = [made EXCEPT ![k] = Tail(m)]
      /\ UNCHANGED <<phase, batch, returned, calls, looked>>
  BY <1>2 DEF StoreJob
<1>4. /\ s \in Seq(Jobs) /\ m \in Seq(Contracts) /\ Len(m) = Len(s)
      /\ \A j \in 1..Len(s) : m[j].input = s[j].input
      /\ calls[k] # 0 /\ returned[k] = NoBatch
  BY <1>1, <1>2, <1>3 DEF Types, ProgressOf, AnsweredOf
<1>5. /\ 1 \in 1..Len(s) /\ c = m[1] /\ Head(s) = s[1] /\ c \in Contracts /\ c \in ToSet(m)
      /\ c.input = s[1].input
  BY <1>2, <1>3, <1>4 DEF ToSet
<1>6. /\ Tail(s) \in Seq(Jobs) /\ Tail(m) \in Seq(Contracts)
      /\ Len(Tail(s)) = Len(s) - 1 /\ Len(Tail(m)) = Len(s) - 1
      /\ \A j \in 1..Len(s) - 1 : Tail(s)[j] = s[j + 1] /\ Tail(m)[j] = m[j + 1]
      /\ \A j \in 1..Len(s) - 1 : j + 1 \in 1..Len(s)
  BY <1>3, <1>4
<1>7. PICK u, v, I : u = Tail(s) /\ v = Tail(m) /\ I = s[1].indices
  OBVIOUS
<1>8. /\ u \in Seq(Jobs) /\ v \in Seq(Contracts) /\ Len(u) = Len(s) - 1 /\ Len(v) = Len(u)
      /\ \A j \in 1..Len(u) : j + 1 \in 1..Len(s) /\ u[j] = s[j + 1] /\ v[j] = m[j + 1]
  BY <1>6, <1>7
<1>9. jobs'[k] = u /\ made'[k] = v
      /\ \A l \in Callers : l # k => jobs'[l] = jobs[l] /\ made'[l] = made[l]
  BY <1>1, <1>3, <1>7 DEF Types
<1>10. \A i \in I : i \in DOMAIN batch[k] /\ batch[k][i] = c.input
  BY <1>1, <1>2, <1>5, <1>7 DEF ProgressOf
<1>11. /\ resolved' = [l \in Callers |-> resolved'[l]]
       /\ \A l \in Callers : l # k => resolved'[l] = resolved[l]
       /\ DOMAIN resolved'[k] = DOMAIN resolved[k] \cup I
       /\ \A i \in I : resolved'[k][i] = c
       /\ \A i \in DOMAIN resolved[k] : i \notin I => resolved'[k][i] = resolved[k][i]
       /\ resolved'[k] \in [DOMAIN resolved'[k] -> Contracts]
       /\ DOMAIN resolved'[k] \subseteq DOMAIN batch[k]
  <2>1. Resolve(k, I, c)
    BY <1>3, <1>5, <1>7 DEF IndicesOf
  <2>2. I \subseteq DOMAIN batch[k]
    BY <1>10
  <2>3. QED
    BY <1>1, <1>5, <2>1, <2>2, ResolvedParts
<1>12. /\ entries' \in Seq(Contracts) /\ Len(entries') <= MaxEntries
       /\ \A d \in ToSet(entries') : d \in ToSet(entries) \/ (d = c /\ ~Failed(c))
  <2>1. CASE Failed(c)
    BY <1>1, <1>3, <2>1 DEF Types
  <2>2. CASE ~Failed(c)
    <3>1. Insert(c)
      BY <1>3, <2>2
    <3>2. /\ entries' \in Seq(Contracts) /\ Len(entries') <= MaxEntries
          /\ ToSet(entries') \subseteq ToSet(entries) \cup {c}
      BY <1>1, <1>5, <3>1, Inserted
    <3>3. QED
      BY <2>2, <3>2
  <2>3. QED
    BY <2>1, <2>2
<1>13. Types'
  <2>1. \A l \in Callers : resolved'[l] \in [DOMAIN resolved'[l] -> Contracts]
                           /\ DOMAIN resolved'[l] \subseteq DOMAIN batch[l]
    BY <1>1, <1>11 DEF Types
  <2>2. jobs' \in [Callers -> Seq(Jobs)] /\ made' \in [Callers -> Seq(Contracts)]
    BY <1>1, <1>3, <1>6 DEF Types
  <2>3. \A d \in ToSet(entries') : ~Failed(d)
    BY <1>1, <1>12 DEF Types
  <2>4. /\ phase' \in [Callers -> Phases] /\ batch' \in [Callers -> Seq(Inputs)]
        /\ returned' \in [Callers -> Results] /\ calls' \in [Callers -> 0..MaxCalls]
        /\ looked' \in [Callers -> Nat] /\ batch' = batch
    BY <1>1, <1>3 DEF Types
  <2>5. resolved' = [l \in Callers |-> resolved'[l]]
    BY <1>11
  <2>6. QED
    BY <1>12, <2>1, <2>2, <2>3, <2>4, <2>5 DEF Types
<1>14. Still(k)
  BY <1>1, <1>3, <1>4, <1>9, <1>11 DEF Still, Types
<1>15. ProgressOf(k)'
  <2>1. \A j \in 1..Len(u) : v[j].input = u[j].input
    BY <1>4, <1>8
  <2>2. \A j \in 1..Len(u) : \A i \in u[j].indices : i \in DOMAIN batch[k] /\ batch[k][i] = u[j].input
    BY <1>1, <1>2, <1>8 DEF ProgressOf
  <2>3. \A i \in DOMAIN resolved'[k] : resolved'[k][i].input = batch[k][i]
    BY <1>1, <1>10, <1>11 DEF ProgressOf
  <2>4. /\ phase'[k] = "store" /\ jobs'[k] = u /\ made'[k] = v /\ Len(v) = Len(u)
        /\ calls'[k] # 0 /\ batch' = batch
    BY <1>3, <1>4, <1>8, <1>9
  <2>5. QED
    BY <2>1, <2>2, <2>3, <2>4 DEF ProgressOf
<1>16. AnsweredOf(k)'
  BY <1>3, <1>4 DEF AnsweredOf
<1>17. Live(c)
  BY <1>2, <1>5 DEF Live
<1>18. IdsApart'
  <2>1. ASSUME NEW d \in Contracts, Live(d)'
        PROVE  Live(d)
    <3>1. CASE d \in ToSet(entries')
      BY <1>12, <1>17, <3>1 DEF Live
    <3>2. ASSUME NEW l \in Callers, d \in ToSet(made'[l])
          PROVE  Live(d)
      <4>1. CASE l = k
        <5>1. d \in ToSet(v)
          BY <1>9, <3>2, <4>1
        <5>2. PICK j \in 1..Len(v) : d = v[j]
          BY <1>8, <5>1 DEF ToSet
        <5>3. d \in ToSet(m)
          BY <1>4, <1>8, <5>2 DEF ToSet
        <5>4. QED
          BY <1>2, <5>3 DEF Live
      <4>2. CASE l # k
        BY <1>9, <3>2, <4>2 DEF Live
      <4>3. QED
        BY <4>1, <4>2
    <3>3. ASSUME NEW l \in Callers, NEW i \in DOMAIN resolved'[l], d = resolved'[l][i]
          PROVE  Live(d)
      <4>1. d = c \/ (i \in DOMAIN resolved[l] /\ d = resolved[l][i])
        BY <1>11, <3>3
      <4>2. QED
        BY <1>17, <4>1 DEF Live
    <3>4. QED
      BY <2>1, <3>1, <3>2, <3>3 DEF Live
  <2>2. QED
    BY <1>3, <1>14, <2>1, IdsSame
<1>19. ASSUME UniqueFor(k)
       PROVE  UniqueFor(k)'
  <2>1. /\ \A d, e \in ToSet(entries) : d.input = e.input => d = e
        /\ \A i, j \in 1..Len(s) : s[i].input = s[j].input => i = j
        /\ \A j \in 1..Len(s) : \A d \in ToSet(entries) : d.input # s[j].input
        /\ \A j \in 1..Len(s) : \A i \in DOMAIN resolved[k] : resolved[k][i].input # s[j].input
        /\ \A i, j \in DOMAIN resolved[k] :
             resolved[k][i].input = resolved[k][j].input => resolved[k][i] = resolved[k][j]
    BY <1>2, <1>3, <1>19 DEF UniqueFor
  <2>2. \A d, e \in ToSet(entries') : d.input = e.input => d = e
    BY <1>5, <1>12, <2>1
  <2>3. \A j \in 1..Len(u) : u[j].input # c.input
    <3>1. \A j \in 1..Len(u) : j + 1 # 1
      BY <1>8
    <3>2. QED
      BY <1>5, <1>8, <2>1, <3>1
  <2>4. \A i, j \in 1..Len(u) : u[i].input = u[j].input => i = j
    <3>1. SUFFICES ASSUME NEW i \in 1..Len(u), NEW j \in 1..Len(u), u[i].input = u[j].input
                   PROVE  i = j
      OBVIOUS
    <3>2. i + 1 = j + 1
      BY <1>8, <2>1, <3>1
    <3>3. i \in Int /\ j \in Int
      BY <1>8
    <3>4. QED
      BY <3>2, <3>3
  <2>5. ASSUME NEW j \in 1..Len(u), NEW d \in ToSet(entries')
        PROVE  d.input # u[j].input
    <3>1. CASE d \in ToSet(entries)
      <4>1. j + 1 \in 1..Len(s) /\ u[j] = s[j + 1]
        BY <1>8
      <4>2. QED
        BY <2>1, <3>1, <4>1
    <3>2. CASE d = c
      BY <2>3, <3>2
    <3>3. QED
      BY <1>12, <3>1, <3>2
  <2>6. \A i \in DOMAIN resolved'[k] : resolved'[k][i] = c \/ (i \in DOMAIN resolved[k] /\ resolved'[k][i] = resolved[k][i])
    BY <1>11
  <2>7. \A j \in 1..Len(u) : \A i \in DOMAIN resolved'[k] : resolved'[k][i].input # u[j].input
    BY SMTT(30), <1>8, <2>1, <2>3, <2>6
  <2>8. \A i \in DOMAIN resolved[k] : resolved[k][i].input # c.input
    BY <1>5, <2>1
  <2>9. \A i, j \in DOMAIN resolved'[k] :
          resolved'[k][i].input = resolved'[k][j].input => resolved'[k][i] = resolved'[k][j]
    BY <2>1, <2>6, <2>8
  <2>10. phase'[k] = "store" /\ jobs'[k] = u
    BY <1>3, <1>9
  <2>11. QED
    BY <2>2, <2>4, <2>5, <2>7, <2>9, <2>10 DEF UniqueFor
<1>20. QED
  BY <1>13, <1>14, <1>15, <1>16, <1>18, <1>19, OthersKept DEF IInv

\* The results are grouped and returned.
LEMMA ReturnStep ==
  ASSUME IInv, NEW k \in Callers, Return(k)
  PROVE  IInv'
<1>1. Types /\ ProgressOf(k)
  BY DEF IInv, Progress
<1>2. /\ phase[k] = "store" /\ made[k] = <<>> /\ DOMAIN resolved[k] = DOMAIN batch[k]
      /\ phase' = [phase EXCEPT ![k] = "idle"]
      /\ UNCHANGED <<entries, batch, resolved, jobs, made, calls, looked>>
  BY DEF Return
<1>3. calls[k] # 0 /\ jobs[k] = <<>>
  <2>1. Len(jobs[k]) = 0 /\ jobs[k] \in Seq(Jobs)
    BY <1>1, <1>2 DEF ProgressOf, Types
  <2>2. QED
    BY <1>1, <1>2, <2>1 DEF ProgressOf
<1>4. PICK r, o : r = resolved[k] /\ o = [i \in DOMAIN batch[k] |-> i]
  OBVIOUS
<1>5. PICK n \in Nat : DOMAIN batch[k] = 1..n
  <2>1. batch[k] \in Seq(Inputs)
    BY <1>1 DEF Types
  <2>2. DOMAIN batch[k] = 1..Len(batch[k]) /\ Len(batch[k]) \in Nat
    BY <2>1
  <2>3. QED
    BY <2>2
<1>6. r \in Seq(Contracts) /\ o \in Seq(Nat) /\ Len(o) = Len(r)
  <2>1. r \in [1..n -> Contracts]
    BY <1>1, <1>2, <1>4, <1>5 DEF Types
  <2>2. o = [i \in 1..n |-> i]
    BY <1>4, <1>5
  <2>3. r \in Seq(Contracts) /\ Len(r) = n
    BY <2>1
  <2>4. o \in Seq(Nat) /\ Len(o) = n
    BY <2>2
  <2>5. QED
    BY <2>3, <2>4
<1>7. PICK b : b = Grouped(r, o)
  OBVIOUS
<1>8. returned' = [returned EXCEPT ![k] = b]
  BY <1>4, <1>7 DEF Return
<1>9. b \in Results
  BY <1>6, <1>7, GroupedSorted DEF Sorted
<1>10. Types'
  <2>1. returned' \in [Callers -> Results] /\ phase' \in [Callers -> Phases]
    BY <1>1, <1>2, <1>8, <1>9 DEF Types, Phases
  <2>2. QED
    BY <1>1, <1>2, <2>1 DEF Types
<1>11. phase'[k] = "idle" /\ returned'[k] = b /\ resolved'[k] = r
  BY <1>1, <1>2, <1>4, <1>8 DEF Types
<1>12. Still(k)
  BY <1>1, <1>2, <1>3, <1>8, <1>10 DEF Still, Types
<1>13. ProgressOf(k)'
  BY <1>1, <1>2, <1>3, <1>11 DEF ProgressOf
<1>14. AnsweredOf(k)'
  <2>1. DOMAIN resolved'[k] = DOMAIN batch'[k]
    BY <1>2
  <2>2. QED
    BY <1>6, <1>7, <1>11, <2>1 DEF AnsweredOf
<1>15. IdsApart'
  <2>1. \A c \in Contracts : Live(c)' => Live(c)
    BY <1>2 DEF Live
  <2>2. QED
    BY <1>11, <1>12, <2>1, IdsSame
<1>16. ASSUME UniqueFor(k)
       PROVE  UniqueFor(k)'
  BY <1>2, <1>11, <1>16 DEF UniqueFor
<1>17. QED
  BY <1>10, <1>12, <1>13, <1>14, <1>15, <1>16, OthersKept DEF IInv

\* A call begins, unless its batch is too long.
LEMMA CallStep ==
  ASSUME IInv, NEW k \in Callers, Call(k)
  PROVE  IInv'
<1>1. Types /\ ProgressOf(k)
  BY DEF IInv, Progress
<1>2. /\ phase[k] = "idle" /\ calls[k] < MaxCalls /\ calls' = [calls EXCEPT ![k] = calls[k] + 1]
      /\ UNCHANGED entries
  BY DEF Call
<1>3. /\ calls' \in [Callers -> 0..MaxCalls] /\ calls'[k] = calls[k] + 1 /\ calls[k] \in Nat
      /\ \A l \in Callers : l # k => calls'[l] = calls[l]
  BY <1>1, <1>2, OptionsAssumption DEF Types
<1>4. \A S : <<>> \in Seq(S)
  OBVIOUS
<1>5. ToSet(<<>>) = {} /\ DOMAIN <<>> = {} /\ Len(<<>>) = 0 /\ NoBatch \in Results
  BY DEF ToSet, NoBatch, Results
<1>6. PICK b \in Batches :
        IF Len(b) > MaxInputs
        THEN /\ returned' = [returned EXCEPT ![k] = NoBatch]
             /\ UNCHANGED <<phase, batch, resolved, jobs, made, looked>>
        ELSE /\ phase'    = [phase EXCEPT ![k] = "lookup"]
             /\ batch'    = [batch EXCEPT ![k] = b]
             /\ resolved' = [resolved EXCEPT ![k] = <<>>]
             /\ jobs'     = [jobs EXCEPT ![k] = <<>>]
             /\ made'     = [made EXCEPT ![k] = <<>>]
             /\ looked'   = [looked EXCEPT ![k] = 0]
             /\ returned' = [returned EXCEPT ![k] = NoBatch]
  BY DEF Call
<1>7. b \in Seq(Inputs)
  BY OptionsAssumption
<1>8. /\ returned'[k] = NoBatch /\ returned' \in [Callers -> Results]
      /\ \A l \in Callers : l # k => returned'[l] = returned[l]
  <2>1. returned' = [returned EXCEPT ![k] = NoBatch]
    BY <1>6
  <2>2. QED
    BY <1>1, <1>5, <2>1 DEF Types
<1>9. AnsweredOf(k)'
  BY <1>8 DEF AnsweredOf
<1>10. CASE Len(b) > MaxInputs
  <2>1. UNCHANGED <<phase, batch, resolved, jobs, made, looked>>
    BY <1>6, <1>10
  <2>2. Types'
    BY <1>1, <1>2, <1>3, <1>8, <2>1 DEF Types
  <2>3. Still(k)
    BY <1>1, <1>3, <1>8, <2>1, <2>2 DEF Still, Types
  <2>4. ProgressOf(k)'
    BY <1>1, <1>2, <2>1 DEF ProgressOf
  <2>5. IdsApart'
    <3>1. \A c \in Contracts : Live(c)' => Live(c)
      BY <1>2, <2>1 DEF Live
    <3>2. QED
      BY <1>2, <2>1, <2>3, <3>1, IdsSame
  <2>6. ASSUME UniqueFor(k)
        PROVE  UniqueFor(k)'
    BY <1>2, <2>1, <2>6 DEF UniqueFor
  <2>7. QED
    BY <1>9, <2>2, <2>3, <2>4, <2>5, <2>6, OthersKept DEF IInv
<1>11. CASE ~ (Len(b) > MaxInputs)
  <2>1. /\ phase'    = [phase EXCEPT ![k] = "lookup"]
        /\ batch'    = [batch EXCEPT ![k] = b]
        /\ resolved' = [resolved EXCEPT ![k] = <<>>]
        /\ jobs'     = [jobs EXCEPT ![k] = <<>>]
        /\ made'     = [made EXCEPT ![k] = <<>>]
        /\ looked'   = [looked EXCEPT ![k] = 0]
    BY <1>6, <1>11
  <2>2. /\ phase'[k] = "lookup" /\ batch'[k] = b /\ resolved'[k] = <<>> /\ jobs'[k] = <<>>
        /\ made'[k] = <<>> /\ looked'[k] = 0
        /\ \A l \in Callers : l # k =>
             /\ phase'[l] = phase[l] /\ batch'[l] = batch[l] /\ resolved'[l] = resolved[l]
             /\ jobs'[l] = jobs[l] /\ made'[l] = made[l] /\ looked'[l] = looked[l]
    BY <1>1, <2>1 DEF Types
  <2>3. /\ phase' \in [Callers -> Phases] /\ batch' \in [Callers -> Seq(Inputs)]
        /\ jobs' \in [Callers -> Seq(Jobs)] /\ made' \in [Callers -> Seq(Contracts)]
        /\ looked' \in [Callers -> Nat] /\ resolved' = [l \in Callers |-> resolved'[l]]
    <3>1. batch' \in [Callers -> Seq(Inputs)]
      BY <1>1, <1>7, <2>1 DEF Types
    <3>2. jobs' \in [Callers -> Seq(Jobs)] /\ made' \in [Callers -> Seq(Contracts)]
      BY <1>1, <1>4, <2>1 DEF Types
    <3>3. phase' \in [Callers -> Phases] /\ looked' \in [Callers -> Nat]
      BY <1>1, <2>1 DEF Types, Phases
    <3>4. resolved' = [l \in Callers |-> resolved'[l]]
      BY <1>1, <2>1 DEF Types
    <3>5. QED
      BY <3>1, <3>2, <3>3, <3>4
  <2>4. \A l \in Callers : resolved'[l] \in [DOMAIN resolved'[l] -> Contracts]
                           /\ DOMAIN resolved'[l] \subseteq DOMAIN batch'[l]
    <3>1. resolved'[k] \in [DOMAIN resolved'[k] -> Contracts] /\ DOMAIN resolved'[k] \subseteq DOMAIN batch'[k]
      <4>1. PICK f : f = resolved'[k]
        OBVIOUS
      <4>2. f = <<>> /\ DOMAIN f = {} /\ f \in Seq(Contracts)
        BY <1>4, <1>5, <2>2, <4>1
      <4>3. f \in [DOMAIN f -> Contracts]
        BY <4>2
      <4>4. QED
        BY <4>1, <4>2, <4>3
    <3>2. \A l \in Callers : l # k =>
            resolved'[l] \in [DOMAIN resolved'[l] -> Contracts] /\ DOMAIN resolved'[l] \subseteq DOMAIN batch'[l]
      BY <1>1, <2>2 DEF Types
    <3>3. QED
      BY <3>1, <3>2
  <2>5. Types'
    BY <1>1, <1>2, <1>3, <1>8, <2>3, <2>4 DEF Types
  <2>6. Still(k)
    BY <1>3, <1>8, <2>2, <2>3 DEF Still
  <2>7. Len(b) \in Nat
    BY <1>7
  <2>8. ProgressOf(k)'
    BY <1>3, <1>5, <2>2, <2>7 DEF ProgressOf
  <2>9. IdsApart'
    <3>1. ASSUME NEW c \in Contracts, Live(c)'
          PROVE  Live(c)
      BY <1>2, <1>5, <2>2, <3>1 DEF Live
    <3>2. QED
      BY <1>3, <2>6, <3>1, IdsSame
  <2>10. ASSUME UniqueFor(k)
         PROVE  UniqueFor(k)'
    BY <1>2, <1>5, <2>2, <2>10 DEF UniqueFor
  <2>11. QED
    BY <1>9, <2>5, <2>6, <2>8, <2>9, <2>10, OthersKept DEF IInv
<1>12. QED
  BY <1>10, <1>11

\* Images of a returned batch are regrouped, with contracts of this call where the
\* layout changes.
LEMMA RegroupStep ==
  ASSUME IInv, NEW k \in Callers, NEW l \in Layouts, Regroup(k, l)
  PROVE  IInv'
<1>1. Types /\ ProgressOf(k) /\ AnsweredOf(k) /\ IdsApart
  BY DEF IInv, Progress, Answered
<1>2. PICK images : images = ImagesOf(returned[k])
  OBVIOUS
<1>3. /\ phase[k] = "idle" /\ images # <<>> /\ calls[k] < MaxCalls
      /\ calls' = [calls EXCEPT ![k] = calls[k] + 1]
      /\ UNCHANGED <<entries, phase, jobs, made, looked>>
  BY <1>2 DEF Regroup
<1>4. PICK n : n = calls[k] + 1
  OBVIOUS
<1>5. /\ calls' \in [Callers -> 0..MaxCalls] /\ calls'[k] = n /\ calls[k] \in Nat
      /\ n \in 1..MaxCalls /\ n \in Nat /\ n = calls[k] + 1
      /\ \A m \in Callers : m # k => calls'[m] = calls[m]
  BY <1>1, <1>3, <1>4, OptionsAssumption DEF Types
<1>6. NoBatch \in Results
  BY DEF NoBatch, Results
<1>7. CASE /\ returned' = [returned EXCEPT ![k] = NoBatch]
           /\ UNCHANGED <<batch, resolved>>
  <2>1. /\ returned'[k] = NoBatch /\ returned' \in [Callers -> Results]
        /\ \A m \in Callers : m # k => returned'[m] = returned[m]
    BY <1>1, <1>6, <1>7 DEF Types
  <2>2. Types'
    BY <1>1, <1>3, <1>5, <1>7, <2>1 DEF Types
  <2>3. Still(k)
    BY <1>1, <1>3, <1>5, <1>7, <2>1 DEF Still, Types
  <2>4. ProgressOf(k)'
    BY <1>1, <1>3, <1>7 DEF ProgressOf
  <2>5. AnsweredOf(k)'
    BY <2>1 DEF AnsweredOf
  <2>6. IdsApart'
    <3>1. \A c \in Contracts : Live(c)' => Live(c)
      BY <1>3, <1>7 DEF Live
    <3>2. QED
      BY <1>3, <2>3, <3>1, IdsSame
  <2>7. ASSUME UniqueFor(k)
        PROVE  UniqueFor(k)'
    BY <1>3, <2>7 DEF UniqueFor
  <2>8. QED
    BY <2>2, <2>3, <2>4, <2>5, <2>6, <2>7, OthersKept DEF IInv
<1> DEFINE again(i) == Retarget(images[i].contract, l, <<k, n, i>>)
<1>8. CASE /\ batch' = [batch EXCEPT ![k] = [i \in DOMAIN images |-> images[i].contract.input]]
           /\ resolved' = [resolved EXCEPT ![k] = [i \in DOMAIN images |-> again(i)]]
           /\ returned' = [returned EXCEPT ![k] =
                Grouped([i \in DOMAIN images |-> again(i)], [i \in DOMAIN images |-> images[i].origin])]
  <2>1. /\ images \in Seq(PreparedImages)
        /\ \A i \in 1..Len(images) : \E j \in DOMAIN resolved[k] : images[i].contract = resolved[k][j]
    <3>1. returned[k] # NoBatch
      <4>1. FlattenSeq(<<>>) = <<>>
        BY FlattenEmpty
      <4>2. ASSUME returned[k] = NoBatch
            PROVE  images = <<>>
        <5>1. [g \in DOMAIN NoBatch.groups |-> NoBatch.groups[g].images] = <<>>
          BY DEF NoBatch
        <5>2. QED
          BY <1>2, <4>1, <4>2, <5>1, Zenon DEF ImagesOf
      <4>3. QED
        BY <1>3, <4>2
    <3>2. PICK r, b : r = resolved[k] /\ b = returned[k]
      OBVIOUS
    <3>3. r \in Seq(Contracts) /\ \E o \in Seq(Nat) : Len(o) = Len(r) /\ b = Grouped(r, o)
      BY <1>1, <3>1, <3>2 DEF AnsweredOf
    <3>4. Sorted(b, r, Len(r))
      BY <3>3, GroupedSorted
    <3>5. images = ImagesOf(b)
      BY <1>2, <3>2
    <3>6. /\ images \in Seq(PreparedImages)
          /\ \A i \in 1..Len(images) : \E j \in 1..Len(r) : images[i].contract = r[j]
      BY <3>3, <3>4, <3>5, ImagesGrouped
    <3>7. DOMAIN r = 1..Len(r)
      BY <3>3
    <3>8. QED
      BY <3>2, <3>6, <3>7
  <2>2. PICK N \in Nat : N = Len(images) /\ DOMAIN images = 1..N
    BY <2>1
  <2>3. PICK r, o, inputs : /\ r = [i \in 1..N |-> again(i)]
                            /\ o = [i \in 1..N |-> images[i].origin]
                            /\ inputs = [i \in 1..N |-> images[i].contract.input]
    OBVIOUS
  <2>4. PICK b : b = Grouped(r, o)
    OBVIOUS
  <2>5. /\ batch' = [batch EXCEPT ![k] = inputs] /\ resolved' = [resolved EXCEPT ![k] = r]
        /\ returned' = [returned EXCEPT ![k] = b]
    BY <1>8, <2>2, <2>3, <2>4
  <2>6. ASSUME NEW i \in 1..N
        PROVE  /\ images[i].contract \in Contracts /\ images[i].origin \in Nat
               /\ \E j \in DOMAIN resolved[k] : images[i].contract = resolved[k][j]
               /\ again(i) \in Contracts /\ again(i).input = images[i].contract.input
               /\ again(i) = images[i].contract \/ again(i).id = <<k, n, i>>
    <3>1. PICK c, id : c = images[i].contract /\ id = <<k, n, i>>
      OBVIOUS
    <3>2. images[i] \in PreparedImages
      BY <2>1, <2>2
    <3>3. c \in Contracts /\ images[i].origin \in Nat
      BY <3>1, <3>2 DEF PreparedImages
    <3>4. id \in Ids
      BY <1>5, <3>1 DEF Ids
    <3>5. again(i) = IF c.layout = l THEN c ELSE [input |-> c.input, layout |-> l, id |-> id]
      BY <3>1 DEF Retarget, Contract
    <3>6. c.input \in Inputs
      BY <3>3 DEF Contracts
    <3>7. /\ again(i) \in Contracts /\ again(i).input = c.input
          /\ again(i) = c \/ again(i).id = id
      <4>1. CASE c.layout = l
        <5>1. again(i) = c
          BY <3>5, <4>1
        <5>2. QED
          BY <3>3, <5>1
      <4>2. CASE c.layout # l
        <5>1. PICK d : d = [input |-> c.input, layout |-> l, id |-> id]
          OBVIOUS
        <5>2. d \in Contracts /\ d.input = c.input /\ d.id = id
          BY <3>4, <3>6, <5>1 DEF Contracts
        <5>3. again(i) = d
          BY <3>5, <4>2, <5>1
        <5>4. QED
          BY <5>2, <5>3
      <4>3. QED
        BY <4>1, <4>2
    <3>8. \E j \in DOMAIN resolved[k] : images[i].contract = resolved[k][j]
      BY <2>1, <2>2
    <3>9. QED
      BY <3>1, <3>3, <3>7, <3>8
  <2> HIDE DEF again
  <2>7. /\ r \in Seq(Contracts) /\ Len(r) = N /\ DOMAIN r = 1..N /\ r \in [DOMAIN r -> Contracts]
        /\ \A i \in 1..N : r[i] = again(i)
    <3>1. r = [i \in 1..N |-> again(i)] /\ \A i \in 1..N : again(i) \in Contracts
      BY <2>3, <2>6
    <3>2. QED
      BY <3>1
  <2>8. o \in Seq(Nat) /\ Len(o) = N
    <3>1. o \in [1..N -> Nat]
      BY <2>3, <2>6
    <3>2. QED
      BY <3>1
  <2>9. inputs \in Seq(Inputs) /\ DOMAIN inputs = 1..N /\ \A i \in 1..N : inputs[i] = r[i].input
    <3>1. \A i \in 1..N : inputs[i] = images[i].contract.input /\ inputs[i] = r[i].input
      BY <2>3, <2>6, <2>7
    <3>2. \A i \in 1..N : r[i] \in Contracts
      BY <2>7
    <3>3. \A i \in 1..N : inputs[i] \in Inputs
      BY <3>1, <3>2 DEF Contracts
    <3>4. inputs = [i \in 1..N |-> inputs[i]] /\ DOMAIN inputs = 1..N
      BY <2>3
    <3>5. inputs \in Seq(Inputs)
      BY <3>3, <3>4
    <3>6. QED
      BY <3>1, <3>4, <3>5
  <2>10. b \in Results
    BY <2>4, <2>7, <2>8, GroupedSorted DEF Sorted
  <2>11. /\ batch'[k] = inputs /\ resolved'[k] = r /\ returned'[k] = b
         /\ \A m \in Callers : m # k =>
              batch'[m] = batch[m] /\ resolved'[m] = resolved[m] /\ returned'[m] = returned[m]
    BY <1>1, <2>5 DEF Types
  <2>12. Types'
    <3>1. batch' \in [Callers -> Seq(Inputs)]
      BY <1>1, <2>5, <2>9 DEF Types
    <3>2. returned' \in [Callers -> Results]
      BY <1>1, <2>5, <2>10 DEF Types
    <3>3. resolved' = [m \in Callers |-> resolved'[m]]
      BY <1>1, <2>5 DEF Types
    <3>4. \A m \in Callers : resolved'[m] \in [DOMAIN resolved'[m] -> Contracts]
                             /\ DOMAIN resolved'[m] \subseteq DOMAIN batch'[m]
      <4>1. resolved'[k] \in [DOMAIN resolved'[k] -> Contracts] /\ DOMAIN resolved'[k] \subseteq DOMAIN batch'[k]
        BY <2>7, <2>9, <2>11
      <4>2. \A m \in Callers : m # k =>
              resolved'[m] \in [DOMAIN resolved'[m] -> Contracts] /\ DOMAIN resolved'[m] \subseteq DOMAIN batch'[m]
        BY <1>1, <2>11 DEF Types
      <4>3. QED
        BY <4>1, <4>2
    <3>5. QED
      BY <1>1, <1>3, <1>5, <3>1, <3>2, <3>3, <3>4 DEF Types
  <2>13. Still(k)
    BY <1>1, <1>3, <1>5, <2>11 DEF Still, Types
  <2>14. ProgressOf(k)'
    <3>1. \A i \in DOMAIN resolved'[k] : resolved'[k][i].input = batch'[k][i]
      BY <2>7, <2>9, <2>11
    <3>2. jobs'[k] = <<>> /\ Len(jobs'[k]) = 0 /\ made'[k] = <<>> /\ phase'[k] = "idle"
      BY <1>1, <1>3 DEF ProgressOf
    <3>3. QED
      BY <3>1, <3>2 DEF ProgressOf
  <2>15. AnsweredOf(k)'
    <3>1. phase'[k] = "idle" /\ DOMAIN resolved'[k] = DOMAIN batch'[k]
      BY <1>3, <2>7, <2>9, <2>11
    <3>2. QED
      BY <2>4, <2>7, <2>8, <2>11, <3>1 DEF AnsweredOf
  <2>16. IdsApart'
    <3>1. PICK M : M = {r[i] : i \in {i \in 1..N : again(i).id = <<k, n, i>>}}
      OBVIOUS
    <3>2. M \in SUBSET Contracts
      BY <2>7, <3>1
    <3>3. ASSUME NEW c \in Contracts, Live(c)'
          PROVE  Live(c) \/ c \in M
      <4>1. ASSUME NEW m \in Callers, NEW i \in DOMAIN resolved'[m], c = resolved'[m][i]
            PROVE  Live(c) \/ c \in M
        <5>1. CASE m = k
          <6>1. i \in 1..N /\ c = again(i) /\ c = r[i]
            BY <2>7, <2>11, <4>1, <5>1
          <6>2. CASE again(i).id = <<k, n, i>>
            BY <3>1, <6>1, <6>2
          <6>3. CASE again(i) = images[i].contract
            <7>1. \E j \in DOMAIN resolved[k] : c = resolved[k][j]
              BY <2>6, <6>1, <6>3
            <7>2. QED
              BY <7>1 DEF Live
          <6>4. QED
            BY <2>6, <6>1, <6>2, <6>3
        <5>2. CASE m # k
          BY <2>11, <4>1, <5>2 DEF Live
        <5>3. QED
          BY <5>1, <5>2
      <4>2. QED
        BY <1>3, <3>3, <4>1 DEF Live
    <3>4. /\ calls' \in [Callers -> Nat] /\ \A m \in Callers : calls[m] <= calls'[m]
          /\ n \in 1..calls'[k]
      <4>1. 0..MaxCalls \subseteq Nat
        BY OptionsAssumption
      <4>2. calls' \in [Callers -> Nat] /\ calls \in [Callers -> Nat]
        BY <1>1, <1>5, <4>1 DEF Types
      <4>3. QED
        BY <1>5, <4>2
    <3>5. /\ \A m \in Callers : phase'[m] = "lookup" => phase[m] = "lookup" \/ calls[m] < calls'[m]
          /\ phase'[k] # "lookup"
      BY <1>3
    <3>6. ASSUME NEW c \in M
          PROVE  \E i \in Nat : c.id = <<k, n, i>>
      <4>1. PICK i \in 1..N : c = r[i] /\ again(i).id = <<k, n, i>>
        BY <3>1
      <4>2. QED
        BY <2>7, <4>1
    <3>7. ASSUME NEW c \in M, NEW d \in M, c.id = d.id
          PROVE  c = d
      <4>1. PICK i \in 1..N : c = r[i] /\ again(i).id = <<k, n, i>>
        BY <3>1
      <4>2. PICK j \in 1..N : d = r[j] /\ again(j).id = <<k, n, j>>
        BY <3>1
      <4>3. <<k, n, i>> = <<k, n, j>>
        BY <2>7, <3>7, <4>1, <4>2
      <4>4. QED
        BY <4>1, <4>2, <4>3
    <3>8. ASSUME NEW c \in Contracts, Live(c), ~Failed(c), NEW j \in Nat
          PROVE  c.id # <<k, n, j>>
      <4>1. PICK m \in Callers : \E g \in 1..calls[m] : \E i \in Nat :
              c.id = <<m, g, i>> /\ (phase[m] = "lookup" => g < calls[m])
        BY <1>1, <3>8 DEF IdsApart, Earlier
      <4>2. PICK g \in 1..calls[m] : \E i \in Nat : c.id = <<m, g, i>>
        BY <4>1
      <4>3. PICK i \in Nat : c.id = <<m, g, i>>
        BY <4>2
      <4>4. m = k => g # n
        BY <1>5
      <4>5. QED
        BY <4>3, <4>4
    <3>9. /\ \A c \in M : ~Failed(c) => \E j \in Nat : c.id = <<k, n, j>>
          /\ \A c, d \in M : ~Failed(c) /\ c.id = d.id => c = d
          /\ \A c \in Contracts : Live(c)' => Live(c) \/ c \in M
          /\ M # {} => \A c \in Contracts : Live(c) /\ ~Failed(c) => \A j \in Nat : c.id # <<k, n, j>>
      BY <3>3, <3>6, <3>7, <3>8
    <3>10. QED
      BY <1>1, <1>5, <3>2, <3>4, <3>5, <3>9, IdsKept
  <2>17. ASSUME UniqueFor(k)
         PROVE  UniqueFor(k)'
    BY <1>3, <2>17 DEF UniqueFor
  <2>18. QED
    BY <2>12, <2>13, <2>14, <2>15, <2>16, <2>17, OthersKept DEF IInv
<1>9. QED
  BY <1>2, <1>4, <1>7, <1>8 DEF Regroup

\* Every step keeps the invariant.
LEMMA NextStep ==
  ASSUME IInv, [Next]_vars
  PROVE  IInv'
<1>1. ASSUME NEW k \in Callers, CallerStep(k)
      PROVE  IInv'
  BY <1>1, CallStep, LookupHitStep, JoinJobStep, NewJobStep, PrepareJobsStep, StoreJobStep,
     ReturnStep, RegroupStep DEF CallerStep
<1>2. CASE UNCHANGED vars
  <2>1. UNCHANGED <<entries, phase, batch, resolved, jobs, made, returned, calls, looked>>
    BY <1>2 DEF vars
  <2>2. Types'
    BY <2>1 DEF IInv, Types
  <2>3. Progress' /\ Answered'
    BY <2>1 DEF IInv, Progress, ProgressOf, Answered, AnsweredOf
  <2>4. IdsApart'
    BY <2>1 DEF IInv, IdsApart, Live, Earlier
  <2>5. UniqueAlone'
    BY <2>1 DEF IInv, UniqueAlone, UniqueFor, Alone
  <2>6. QED
    BY <2>2, <2>3, <2>4, <2>5 DEF IInv
<1>3. QED
  BY <1>1, <1>2 DEF Next, AllCallsMade

\* The invariant holds in every reachable state.
LEMMA Invariance == Spec => []IInv
  BY InitInv, NextStep, PTL DEF Spec

-----------------------------------------------------------------------------
(***************************************************************************)
(* The properties.                                                         *)
(***************************************************************************)
\* Callers and cache keep their types; the cache never holds more entries than its
\* limit, nor the contract of a failed preparation.
THEOREM Typing == Spec => []TypeOK
<1>1. IInv => TypeOK
  <2>1. SUFFICES ASSUME IInv
                 PROVE  TypeOK
    OBVIOUS
  <2>2. Types /\ Progress
    BY <2>1 DEF IInv
  <2>3. ASSUME NEW p \in DOMAIN entries
        PROVE  ~Failed(entries[p])
    <3>1. entries[p] \in ToSet(entries)
      BY DEF ToSet
    <3>2. QED
      BY <2>2, <3>1 DEF Types
  <2>4. ASSUME NEW k \in Callers
        PROVE  /\ batch[k] \in Seq(Inputs)
               /\ DOMAIN resolved[k] \subseteq DOMAIN batch[k]
               /\ \A i \in DOMAIN resolved[k] : resolved[k][i] \in Contracts
               /\ made[k] \in Seq(Contracts)
               /\ phase[k] = "lookup" => looked[k] \in 0..Len(batch[k])
    <3>1. batch[k] \in Seq(Inputs) /\ made[k] \in Seq(Contracts) /\ looked[k] \in Nat
          /\ resolved[k] \in [DOMAIN resolved[k] -> Contracts] /\ DOMAIN resolved[k] \subseteq DOMAIN batch[k]
      BY <2>2 DEF Types
    <3>2. phase[k] = "lookup" => looked[k] <= Len(batch[k])
      BY <2>2 DEF Progress, ProgressOf
    <3>3. \A i \in DOMAIN resolved[k] : resolved[k][i] \in Contracts
      BY <3>1
    <3>4. Len(batch[k]) \in Nat
      BY <3>1
    <3>5. phase[k] = "lookup" => looked[k] \in 0..Len(batch[k])
      BY <3>1, <3>2, <3>4
    <3>6. QED
      BY <3>1, <3>3, <3>5
  <2>5. QED
    BY <2>2, <2>3, <2>4 DEF Types, TypeOK, Phases
<1>2. QED
  BY <1>1, Invariance, PTL

\* A contract's allocation, and the reconstruction cell in it, serves one input and one
\* layout, across calls, evictions and retargeted images.
THEOREM AllocationsApart == Spec => []LayoutsApart
<1>1. IInv => LayoutsApart
  <2>1. SUFFICES ASSUME IInv, NEW k \in Callers, NEW l \in Callers,
                        NEW i \in DOMAIN resolved[k], NEW j \in DOMAIN resolved[l],
                        ~Failed(resolved[k][i]), resolved[k][i].id = resolved[l][j].id
                 PROVE  resolved[k][i] = resolved[l][j]
    BY DEF LayoutsApart
  <2>2. PICK c, d : c = resolved[k][i] /\ d = resolved[l][j]
    OBVIOUS
  <2>3. c \in Contracts /\ d \in Contracts
    BY <2>1, <2>2 DEF IInv, Types
  <2>4. Live(c) /\ Live(d)
    BY <2>2 DEF Live
  <2>5. QED
    BY <2>1, <2>2, <2>3, <2>4 DEF IInv, IdsApart
<1>2. QED
  BY <1>1, Invariance, PTL

\* A returned batch has each of its inputs once, in the group of its output contract or
\* among the errors, groups and images in the order their inputs came first, however
\* its results were found.
THEOREM GroupsStable == Spec => []StableGroups
<1>1. IInv => StableGroups
  <2>1. SUFFICES ASSUME IInv, NEW k \in Callers, NEW b, b = returned[k]
                 PROVE  /\ Ascending(b.errors)
                        /\ \A g \in DOMAIN b.groups :
                             /\ Ascending(b.groups[g].indices)
                             /\ \A p \in DOMAIN b.groups[g].indices :
                                  LET i == b.groups[g].indices[p]
                                  IN  /\ b.groups[g].images[p].contract = resolved[k][i]
                                      /\ b.groups[g].images[p].contract.input = batch[k][i]
                                      /\ Info(resolved[k][i]) = b.groups[g].info
                        /\ \A g, h \in DOMAIN b.groups :
                             g < h => /\ b.groups[g].info # b.groups[h].info
                                      /\ b.groups[g].indices[1] < b.groups[h].indices[1]
                        /\ b # NoBatch =>
                             \A i \in DOMAIN batch[k] :
                               \/ \E p \in DOMAIN b.errors : b.errors[p] = i
                               \/ \E g \in DOMAIN b.groups : \E p \in DOMAIN b.groups[g].indices :
                                    b.groups[g].indices[p] = i
    BY SMTT(30) DEF StableGroups
  <2>2. CASE b = NoBatch
    <3>1. b.errors = <<>> /\ b.groups = <<>>
      BY <2>2 DEF NoBatch
    <3>2. QED
      BY <2>2, <3>1 DEF Ascending
  <2>3. CASE b # NoBatch
    <3>1. ProgressOf(k) /\ AnsweredOf(k)
      BY <2>1 DEF IInv, Progress, Answered
    <3>2. PICK r : r = resolved[k]
      OBVIOUS
    <3>3. /\ r \in Seq(Contracts) /\ DOMAIN r = DOMAIN batch[k]
          /\ \E o \in Seq(Nat) : Len(o) = Len(r) /\ b = Grouped(r, o)
      BY <2>1, <2>3, <3>1, <3>2 DEF AnsweredOf
    <3>4. Sorted(b, r, Len(r))
      BY <3>3, GroupedSorted
    <3>5. /\ b.groups \in Seq(Groups) /\ b.errors \in Seq(Nat)
          /\ DOMAIN b.groups = 1..Len(b.groups) /\ DOMAIN b.errors = 1..Len(b.errors)
          /\ DOMAIN r = 1..Len(r)
      BY <3>3, <3>4 DEF Sorted, Results
    <3>6. ASSUME NEW g \in DOMAIN b.groups
          PROVE  /\ Grouping(b.groups[g], r, Len(r))
                 /\ DOMAIN b.groups[g].indices = 1..Len(b.groups[g].indices)
      <4>1. PICK q : q = b.groups[g]
        OBVIOUS
      <4>2. q \in Groups /\ Grouping(q, r, Len(r))
        BY <3>4, <3>5, <4>1 DEF Sorted
      <4>3. DOMAIN q.indices = 1..Len(q.indices)
        BY <4>2 DEF Groups
      <4>4. QED
        BY <4>1, <4>2, <4>3
    <3>7. ASSUME NEW g \in DOMAIN b.groups
          PROVE  /\ Ascending(b.groups[g].indices)
                 /\ \A p \in DOMAIN b.groups[g].indices :
                      LET i == b.groups[g].indices[p]
                      IN  /\ b.groups[g].images[p].contract = r[i]
                          /\ b.groups[g].images[p].contract.input = batch[k][i]
                          /\ Info(r[i]) = b.groups[g].info
      <4>1. \A i \in 1..Len(r) : r[i].input = batch[k][i]
        BY <3>1, <3>2, <3>5 DEF ProgressOf
      <4>2. PICK q : q = b.groups[g]
        OBVIOUS
      <4>3. Grouping(q, r, Len(r)) /\ DOMAIN q.indices = 1..Len(q.indices)
        BY <3>6, <4>2
      <4>4. /\ Ascending(q.indices)
            /\ \A p \in DOMAIN q.indices : /\ q.indices[p] \in 1..Len(r)
                                           /\ q.images[p].contract = r[q.indices[p]]
                                           /\ Info(r[q.indices[p]]) = q.info
        BY <4>3 DEF Grouping
      <4>5. QED
        BY <4>1, <4>2, <4>4
    <3>8. \A g, h \in DOMAIN b.groups :
            g < h => /\ b.groups[g].info # b.groups[h].info
                     /\ b.groups[g].indices[1] < b.groups[h].indices[1]
      BY <3>4, <3>5 DEF Sorted
    <3>9. ASSUME NEW i \in DOMAIN batch[k]
          PROVE  \/ \E p \in DOMAIN b.errors : b.errors[p] = i
                 \/ \E g \in DOMAIN b.groups : \E p \in DOMAIN b.groups[g].indices :
                      b.groups[g].indices[p] = i
      <4>1. Listed(i, b.errors) \/ \E g \in DOMAIN b.groups : Listed(i, b.groups[g].indices)
        BY <3>3, <3>4, <3>5 DEF Sorted
      <4>2. QED
        BY <3>5, <3>6, <4>1 DEF Listed
    <3>10. Ascending(b.errors)
      BY <3>4 DEF Sorted
    <3>11. QED
      BY <3>2, <3>7, <3>8, <3>9, <3>10
  <2>4. QED
    BY <2>2, <2>3
<1>2. QED
  BY <1>1, Invariance, PTL

\* While one thread calls, the duplicates of a batch share one contract, and with it
\* one reconstruction cell, whatever the cache held, evicts or refuses.
THEOREM DuplicatesAlone == Spec => []DuplicatesShareAlone
<1>1. IInv => DuplicatesShareAlone
  <2>1. SUFFICES ASSUME IInv, Cardinality({k \in Callers : calls[k] > 0}) = 1
                 PROVE  DuplicatesShare
    BY DEF DuplicatesShareAlone
  <2>2. Types /\ Progress /\ UniqueAlone
    BY <2>1 DEF IInv
  <2>3. PICK S : S = {k \in Callers : calls[k] > 0}
    OBVIOUS
  <2>4. IsFiniteSet(S) /\ Cardinality(S) = 1
    <3>1. IsFiniteSet(Callers) /\ S \subseteq Callers
      BY <2>3, OptionsAssumption
    <3>2. QED
      BY <2>1, <2>3, <3>1, FS_Subset
  <2>5. \E k : S = {k}
    BY <2>4, FS_Singleton
  <2>6. PICK k : S = {k}
    BY <2>5
  <2>7. k \in Callers /\ Alone(k)
    <3>1. \A l \in Callers : calls[l] \in Nat
      BY <2>2, OptionsAssumption DEF Types
    <3>2. \A l \in Callers : l # k => ~ (calls[l] > 0)
      BY <2>3, <2>6
    <3>3. QED
      BY <2>3, <2>6, <3>1, <3>2 DEF Alone
  <2>8. UniqueFor(k)
    BY <2>2, <2>7 DEF UniqueAlone
  <2>9. SUFFICES ASSUME NEW l \in Callers, NEW i \in DOMAIN resolved[l], NEW j \in DOMAIN resolved[l],
                        phase[l] = "store", resolved[l][i].input = resolved[l][j].input
                 PROVE  resolved[l][i].id = resolved[l][j].id
    BY DEF DuplicatesShare
  <2>10. l = k
    BY <2>2, <2>7, <2>9 DEF Alone, Progress, ProgressOf
  <2>11. QED
    BY <2>8, <2>9, <2>10 DEF UniqueFor
<1>2. QED
  BY <1>1, Invariance, PTL
=============================================================================
