----------------------- MODULE MetalBatchPipelineProofs -----------------------
(***************************************************************************)
(* Proofs about MetalBatchPipeline for any batch, chunk and command sizes, *)
(* staging allocations and faults: types, staging that no command on the   *)
(* GPU reads while entropy is decoded into it, results after which nothing *)
(* runs on, and an account in which each image is once and in order.       *)
(*                                                                         *)
(* The invariant says which parts of the pipeline are empty at which step  *)
(* (Stages), that the images wherever they are rearrange those of the      *)
(* batch (Account), that the commands of a chunk or of a group carry its   *)
(* images in order (Encoding, Resides), and, unless an encoding can fail   *)
(* after others of its range were committed, that each running command has *)
(* a lease that keeps its staging out of the pool (Leasing).               *)
(***************************************************************************)
EXTENDS MetalBatchPipeline, SequenceLemmas, FiniteSetTheorems

Items     == Seq(Indices)
Everyone  == Indices \cup ToSet(PreparedErrors)
Steps     == {"group", "chunk", "scope", "encode", "submitted", "waiting", "returned", "dropped"}
LastSteps == {"submitted", "waiting", "returned", "dropped"}
Commands  == [images : Items \ {<<>>}, buffer : Buffers, state : {"running", "ok", "bad"}]

\* Records that name commands of K.
Encoders(K) ==
  [running : BOOLEAN, todo : Items, range : Nat, encoded : Seq(K), submitted : Seq(K), failed : BOOLEAN]
Pendings(K) == [indices : Items, submissions : Seq(Seq(K)), failed : BOOLEAN]
Submitted(K) == [indices : Items, submissions : Seq(Seq(K)), images : Items]

Types ==
  /\ group       \in 1..Len(Batch) + 1
  /\ step        \in Steps
  /\ candidates  \in Items
  /\ staged      \in Chunks
  /\ planned     \in Chunks
  /\ prepared    \in Chunks
  /\ encoder     \in Encoders(DOMAIN commands)
  /\ pending     \in Pendings(DOMAIN commands)
  /\ commands    \in Seq(Commands)
  /\ errors      \in Seq(Everyone)
  /\ groups      \in Seq(Submitted(DOMAIN commands))
  /\ groupErrors \in Seq(Items)

\* What is empty at which step.
Stages ==
  /\ step \in LastSteps <=> group > Len(Batch) /\ step # "group"
  /\ step \notin {"chunk", "scope", "encode"} =>
       candidates = <<>> /\ prepared = Nothing /\ pending = NoPending
  /\ step \notin {"scope", "encode"} => staged = Nothing
  /\ step # "encode" => encoder = NoEncoder
  /\ step = "encode" => prepared.items # <<>> /\ ~pending.failed /\ encoder.range # 0
  /\ staged.buffer   = "none" => staged = Nothing /\ planned = Nothing
  /\ planned.buffer  = "none" => planned = Nothing
  /\ prepared.buffer = "none" => prepared = Nothing
  /\ planned.buffer # "none" =>
       planned.buffer = staged.buffer /\ \E S \in SUBSET ToSet(staged.items) :
                                           planned.items = Keep(staged.items, S)

\* The images that commands of cs carry, in order.
Carried(cs, order) == FlattenSeq([k \in DOMAIN order |-> cs[order[k]].images])

\* The commands of a chunk under way carry the images that are no longer to do.
Encoding ==
  /\ encoder.failed => encoder.encoded = <<>> /\ encoder.todo # <<>>
  /\ encoder.todo = <<>> => encoder.encoded = <<>>
  /\ step = "encode" /\ ~encoder.failed =>
       Carried(commands, encoder.submitted \o encoder.encoded) \o encoder.todo = prepared.items

\* The submissions of a group carry its images.
Holds(cs, r) ==
  IF r.submissions = <<>> THEN r.images = r.indices
  ELSE Carried(cs, FlattenSeq(r.submissions)) = r.indices

Resides ==
  /\ ~pending.failed => Carried(commands, FlattenSeq(pending.submissions)) = pending.indices
  /\ \A g \in DOMAIN groups : Holds(commands, groups[g])

\* The images of the batch from the g-th group on.
From(g) == FlattenSeq(SubSeq(Batch, g, Len(Batch)))

\* The images of the groups that were submitted, of those that failed, and of
\* those that count_candidates has not seen.
IndicesOf(gs) == [g \in DOMAIN gs |-> gs[g].indices]
GroupImages == FlattenSeq(IndicesOf(groups))
ErrorImages == FlattenSeq(groupErrors)
Remaining   == From(IF step \in {"chunk", "scope", "encode"} THEN group + 1 ELSE group)

\* The images wherever they are, and those of the batch.
Origin == PreparedErrors \o FlattenSeq(Batch)

Size ==
  Len(errors) + Len(GroupImages) + Len(ErrorImages) + Len(pending.indices) + Len(prepared.items)
    + Len(staged.items) + Len(candidates) + Len(Remaining)
Everywhere ==
  ToSet(errors) \cup ToSet(GroupImages) \cup ToSet(ErrorImages) \cup ToSet(pending.indices)
    \cup ToSet(prepared.items) \cup ToSet(staged.items) \cup ToSet(candidates) \cup ToSet(Remaining)

Account == Size = Len(Origin) /\ Everywhere = ToSet(Origin)

IInv == Types /\ Stages /\ Encoding /\ Resides /\ Account

\* A running command has a lease, and what the pool decodes into has none.
Leasing ==
  /\ \A c \in DOMAIN commands : commands[c].state = "running" => c \in Leased
  /\ staged.buffer # "none" =>
       /\ \A c \in DOMAIN commands : commands[c].buffer = staged.buffer => Completed(c)
       /\ prepared.items # <<>> => prepared.buffer # staged.buffer
  /\ step \in {"returned", "dropped"} => \A c \in DOMAIN commands : Completed(c)

\* The images of a group are of one group of the batch, and no other has images of
\* it; what is under way is of the group at hand.
Homes ==
  /\ \A i \in ToSet(candidates) \cup ToSet(staged.items) \cup ToSet(prepared.items) \cup ToSet(pending.indices) :
       GroupOf[i] = group
  /\ \A g, h \in DOMAIN groups : \A i \in ToSet(groups[g].indices), j \in ToSet(groups[h].indices) :
       GroupOf[i] = GroupOf[j] <=> g = h
  /\ \A g \in DOMAIN groups :
       /\ \A i \in ToSet(groups[g].indices) : GroupOf[i] < group
       /\ groups[g].submissions # <<>> => groups[g].images = <<>>

\* The outcomes as BatchOutcomes sees them.
Outcomes == [i \in Everyone |-> Outcome(i)]

-----------------------------------------------------------------------------
(***************************************************************************)
(* Sequences of the pipeline.                                              *)
(***************************************************************************)
\* A chunk and what is left: the first elements of a sequence, and the others.
LEMMA TakeSkip ==
  ASSUME NEW S, NEW s \in Seq(S), NEW n \in Nat
  PROVE  /\ Take(s, n) \in Seq(S)
         /\ Skip(s, n) \in Seq(S)
         /\ Take(s, n) \o Skip(s, n) = s
         /\ Len(s) = Len(Take(s, n)) + Len(Skip(s, n))
         /\ ToSet(s) = ToSet(Take(s, n)) \cup ToSet(Skip(s, n))
         /\ Len(Take(s, n)) <= n
         /\ Skip(s, Len(Take(s, n))) = Skip(s, n)
         /\ s # <<>> /\ n # 0 => Take(s, n) # <<>>
<1> DEFINE m == IF n < Len(s) THEN n ELSE Len(s)
           a == SubSeq(s, 1, m)
           b == SubSeq(s, m + 1, Len(s))
<1>1. m \in 0..Len(s) /\ m <= n /\ (s # <<>> /\ n # 0 => m # 0)
  OBVIOUS
<1>2. Take(s, n) = a
  BY DEF Take
<1>3. Skip(s, n) = b
  <2>1. CASE n < Len(s)
    BY <2>1 DEF Skip
  <2>2. CASE ~ (n < Len(s))
    <3>1. SubSeq(s, n + 1, Len(s)) = <<>> /\ SubSeq(s, Len(s) + 1, Len(s)) = <<>>
      BY <2>2
    <3>2. QED
      BY <2>2, <3>1 DEF Skip
  <2>3. QED
    BY <2>1, <2>2
<1> HIDE DEF m
<1>4. a \in Seq(S) /\ Len(a) = m /\ b \in Seq(S) /\ s = a \o b
  BY ZenonT(60), <1>1, Split
<1>5. Skip(s, m) = b
  BY DEF Skip
<1> HIDE DEF a, b
<1>6. Len(a \o b) = Len(a) + Len(b)
  BY <1>4, ConcatProperties
<1>7. ToSet(a \o b) = ToSet(a) \cup ToSet(b)
  BY <1>4, ConcatSet
<1>8. a = <<>> => Len(a) = 0
  OBVIOUS
<1>9. QED
  BY <1>1, <1>2, <1>3, <1>4, <1>5, <1>6, <1>7, <1>8

\* The elements that are kept and those that are not.
LEMMA KeepRest ==
  ASSUME NEW s, NEW S, s \in Seq(S), NEW T
  PROVE  /\ Keep(s, T) \in Seq(S)
         /\ ToSet(Keep(s, T)) = ToSet(s) \cap T
         /\ ToSet(Keep(s, S \ T)) = ToSet(s) \cap (S \ T)
         /\ Len(s) = Len(Keep(s, T)) + Len(Keep(s, S \ T))
<1> DEFINE U == S \ T
<1>0. \A x \in S : x \in U <=> x \notin T
  OBVIOUS
<1> HIDE DEF U
<1> DEFINE Part(q, V) == [k \in DOMAIN q |-> IF q[k] \in V THEN <<q[k]>> ELSE <<>>]
           P == {q \in Seq(S) : /\ Keep(q, T) \in Seq(S)
                                /\ Keep(q, U) \in Seq(S)
                                /\ ToSet(Keep(q, T)) = ToSet(q) \cap T
                                /\ ToSet(Keep(q, U)) = ToSet(q) \cap U
                                /\ Len(q) = Len(Keep(q, T)) + Len(Keep(q, U))}
<1>1. <<>> \in P
  <2>1. \A V : Keep(<<>>, V) = <<>>
    <3>1. \A V : Part(<<>>, V) = <<>>
      OBVIOUS
    <3>2. QED
      BY <3>1, FlattenEmpty DEF Keep
  <2>2. ToSet(<<>>) = {}
    BY DEF ToSet
  <2>3. <<>> \in Seq(S) /\ Len(<<>>) = 0 + 0 /\ Len(<<>>) = 0
    OBVIOUS
  <2>4. Keep(<<>>, T) = <<>> /\ Keep(<<>>, U) = <<>>
    BY <2>1
  <2>5. /\ Keep(<<>>, T) \in Seq(S) /\ Keep(<<>>, U) \in Seq(S)
        /\ ToSet(Keep(<<>>, T)) = ToSet(<<>>) \cap T
        /\ ToSet(Keep(<<>>, U)) = ToSet(<<>>) \cap U
        /\ Len(<<>>) = Len(Keep(<<>>, T)) + Len(Keep(<<>>, U))
    BY <2>2, <2>3, <2>4
  <2>6. QED
    BY <2>3, <2>5, Zenon
<1>2. ASSUME NEW q \in Seq(S), NEW x \in S, NEW V
      PROVE  Keep(Append(q, x), V) = Keep(q, V) \o (IF x \in V THEN <<x>> ELSE <<>>)
  <2> DEFINE one == IF x \in V THEN <<x>> ELSE <<>>
  <2>1. Part(q, V) \in Seq(Seq(S)) /\ one \in Seq(S)
    <3>1. one \in Seq(S)
      BY <1>2
    <3>2. \A k \in 1..Len(q) : q[k] \in S
      BY <1>2
    <3>3. \A k \in 1..Len(q) : (IF q[k] \in V THEN <<q[k]>> ELSE <<>>) \in Seq(S)
      BY <3>2
    <3> DEFINE R == Seq(S)
               G(k) == IF q[k] \in V THEN <<q[k]>> ELSE <<>>
    <3>4. \A k \in 1..Len(q) : G(k) \in R
      BY <3>3
    <3> HIDE DEF R, G
    <3>5. [k \in 1..Len(q) |-> G(k)] \in Seq(R)
      BY <1>2, <3>4
    <3>6. Part(q, V) = [k \in 1..Len(q) |-> G(k)]
      <4>1. DOMAIN q = 1..Len(q)
        BY <1>2
      <4>2. QED
        BY <4>1, Zenon DEF G
    <3>7. QED
      BY <3>1, <3>5, <3>6 DEF R
  <2>2. Part(Append(q, x), V) = Append(Part(q, V), one)
    <3>1. /\ DOMAIN q = 1..Len(q) /\ Len(q) \in Nat
          /\ DOMAIN Append(q, x) = 1..Len(q) + 1
          /\ \A k \in 1..Len(q) : Append(q, x)[k] = q[k]
          /\ Append(q, x)[Len(q) + 1] = x
      BY <1>2
    <3>2. /\ Part(q, V) \in Seq(Seq(S))
          /\ Len(Part(q, V)) = Len(q)
          /\ \A k \in 1..Len(q) : Part(q, V)[k] = IF q[k] \in V THEN <<q[k]>> ELSE <<>>
      BY <2>1, <3>1
    <3>3. /\ DOMAIN Part(Append(q, x), V) = 1..Len(q) + 1
          /\ \A k \in 1..Len(q) + 1 : Part(Append(q, x), V)[k] =
               IF Append(q, x)[k] \in V THEN <<Append(q, x)[k]>> ELSE <<>>
          /\ Part(Append(q, x), V) = [k \in 1..Len(q) + 1 |-> Part(Append(q, x), V)[k]]
      BY <3>1, Zenon
    <3> DEFINE old == Part(q, V)
               new == Part(Append(q, x), V)
    <3> HIDE DEF Part
    <3>4. /\ Len(Append(old, one)) = Len(q) + 1
          /\ DOMAIN Append(old, one) = 1..Len(q) + 1
          /\ \A k \in 1..Len(q) : Append(old, one)[k] = old[k]
          /\ Append(old, one)[Len(q) + 1] = one
          /\ Append(old, one) = [k \in 1..Len(q) + 1 |-> Append(old, one)[k]]
      BY <2>1, <3>2
    <3>5. \A k \in 1..Len(q) : new[k] = old[k]
      <4>1. \A k \in 1..Len(q) : k \in 1..Len(q) + 1
        BY <3>1
      <4>2. QED
        BY <3>1, <3>2, <3>3, <4>1, Zenon DEF old, new
    <3>6. new[Len(q) + 1] = one
      BY <3>1, <3>3
    <3>7. \A k \in 1..Len(q) + 1 : new[k] = Append(old, one)[k]
      BY <3>1, <3>4, <3>5, <3>6
    <3> HIDE DEF old, new, one
    <3>8. new = Append(old, one)
      BY <3>3, <3>4, <3>7 DEF old, new
    <3>9. QED
      BY <3>8 DEF old, new
  <2> HIDE DEF Part, one
  <2>3. FlattenSeq(Append(Part(q, V), one)) = FlattenSeq(Part(q, V)) \o one
    BY <2>1, FlattenAppend
  <2>4. QED
    BY <2>2, <2>3 DEF Keep, Part, one
<1>3. ASSUME NEW q \in P \cap Seq(S), NEW x \in S
      PROVE  Append(q, x) \in P
  <2>1. /\ q \in Seq(S)
        /\ Keep(q, T) \in Seq(S)
        /\ Keep(q, U) \in Seq(S)
        /\ ToSet(Keep(q, T)) = ToSet(q) \cap T
        /\ ToSet(Keep(q, U)) = ToSet(q) \cap U
        /\ Len(q) = Len(Keep(q, T)) + Len(Keep(q, U))
    BY <1>3
  <2>2. /\ Append(q, x) \in Seq(S) /\ ToSet(Append(q, x)) = ToSet(q) \cup {x}
        /\ Len(Append(q, x)) = Len(q) + 1
    <3>1. ToSet(Append(q, x)) = ToSet(q) \cup {x}
      BY <2>1, <1>3, AppendSet
    <3>2. QED
      BY SMTT(30), <2>1, <1>3, <3>1
  <2>3. /\ Keep(Append(q, x), T) = Keep(q, T) \o (IF x \in T THEN <<x>> ELSE <<>>)
        /\ Keep(Append(q, x), U) = Keep(q, U) \o (IF x \in U THEN <<x>> ELSE <<>>)
    BY <1>2, <1>3, <2>1
  <2>4. \A a \in Seq(S) : /\ a \o <<>> = a
                          /\ a \o <<x>> \in Seq(S)
                          /\ Len(a \o <<x>>) = Len(a) + 1
                          /\ ToSet(a \o <<x>>) = ToSet(a) \cup {x}
    <3>1. SUFFICES ASSUME NEW a \in Seq(S)
                   PROVE  /\ a \o <<>> = a
                          /\ a \o <<x>> \in Seq(S)
                          /\ Len(a \o <<x>>) = Len(a) + 1
                          /\ ToSet(a \o <<x>>) = ToSet(a) \cup {x}
      OBVIOUS
    <3>2. a \o <<x>> = Append(a, x) /\ a \o <<>> = a /\ Append(a, x) \in Seq(S)
          /\ Len(Append(a, x)) = Len(a) + 1
      BY <1>3
    <3>3. ToSet(Append(a, x)) = ToSet(a) \cup {x}
      BY <1>3, AppendSet
    <3>4. QED
      BY <3>2, <3>3
  <2>5. (x \in T /\ x \notin U) \/ (x \notin T /\ x \in U)
    BY <1>0, <1>3
  <2>6. CASE x \in T /\ x \notin U
    <3>1. Keep(Append(q, x), T) = Keep(q, T) \o <<x>> /\ Keep(Append(q, x), U) = Keep(q, U)
      BY <2>1, <2>3, <2>4, <2>6
    <3>2. /\ Keep(Append(q, x), T) \in Seq(S)
          /\ Keep(Append(q, x), U) \in Seq(S)
      BY <2>1, <2>4, <3>1
    <3>3. ToSet(Keep(Append(q, x), T)) = ToSet(Append(q, x)) \cap T
      <4>1. ToSet(Keep(Append(q, x), T)) = (ToSet(q) \cap T) \cup {x}
        BY <2>1, <2>4, <3>1
      <4>2. QED
        BY <2>2, <2>6, <4>1
    <3>4. ToSet(Keep(Append(q, x), U)) = ToSet(Append(q, x)) \cap U
      <4>1. ToSet(Keep(Append(q, x), U)) = ToSet(q) \cap U
        BY <2>1, <3>1
      <4>2. QED
        BY <2>2, <2>6, <4>1
    <3>5. Len(Append(q, x)) = Len(Keep(Append(q, x), T)) + Len(Keep(Append(q, x), U))
      <4>1. Len(Keep(q, T)) \in Nat /\ Len(Keep(q, U)) \in Nat
        BY <2>1
      <4>2. QED
        BY <2>1, <2>2, <2>4, <3>1, <4>1
    <3>6. QED
      BY <2>2, <3>2, <3>3, <3>4, <3>5
  <2>7. CASE x \notin T /\ x \in U
    <3>1. Keep(Append(q, x), U) = Keep(q, U) \o <<x>> /\ Keep(Append(q, x), T) = Keep(q, T)
      BY <2>1, <2>3, <2>4, <2>7
    <3>2. /\ Keep(Append(q, x), T) \in Seq(S)
          /\ Keep(Append(q, x), U) \in Seq(S)
      BY <2>1, <2>4, <3>1
    <3>3. ToSet(Keep(Append(q, x), U)) = ToSet(Append(q, x)) \cap U
      <4>1. ToSet(Keep(Append(q, x), U)) = (ToSet(q) \cap U) \cup {x}
        BY <2>1, <2>4, <3>1
      <4>2. QED
        BY <2>2, <2>7, <4>1
    <3>4. ToSet(Keep(Append(q, x), T)) = ToSet(Append(q, x)) \cap T
      <4>1. ToSet(Keep(Append(q, x), T)) = ToSet(q) \cap T
        BY <2>1, <3>1
      <4>2. QED
        BY <2>2, <2>7, <4>1
    <3>5. Len(Append(q, x)) = Len(Keep(Append(q, x), T)) + Len(Keep(Append(q, x), U))
      <4>1. Len(Keep(q, T)) \in Nat /\ Len(Keep(q, U)) \in Nat
        BY <2>1
      <4>2. QED
        BY <2>1, <2>2, <2>4, <3>1, <4>1
    <3>6. QED
      BY <2>2, <3>2, <3>3, <3>4, <3>5
  <2>8. QED
    BY <2>5, <2>6, <2>7
<1>4. s \in P
  <2> HIDE DEF P
  <2>1. Seq(S) \subseteq P
    BY <1>1, <1>3, SeqInduction
  <2>2. QED
    BY <2>1
<1>5. /\ Keep(s, T) \in Seq(S)
      /\ ToSet(Keep(s, T)) = ToSet(s) \cap T
      /\ ToSet(Keep(s, U)) = ToSet(s) \cap U
      /\ Len(s) = Len(Keep(s, T)) + Len(Keep(s, U))
  BY <1>4
<1>6. QED
  BY <1>5, Zenon DEF U

Before(s, j) == {i \in DOMAIN s : s[i] < s[j] \/ (s[i] = s[j] /\ i <= j)}
Rank(s) == [j \in DOMAIN s |-> Cardinality(Before(s, j))]

\* Each index has a rank of its own.
LEMMA RankInjective ==
  ASSUME NEW s \in Seq(Nat)
  PROVE  Rank(s) \in [1..Len(s) -> 1..Len(s)] /\ IsInjective(Rank(s))
<1> DEFINE n == Len(s)
           B(j) == Before(s, j)
           le(i, j) == s[i] < s[j] \/ (s[i] = s[j] /\ i <= j)
<1>1. n \in Nat /\ DOMAIN s = 1..n /\ \A i \in 1..n : s[i] \in Nat
  OBVIOUS
<1>2. IsFiniteSet(1..n) /\ Cardinality(1..n) = n
  <2>1. 1 \in Int /\ n \in Int
    BY <1>1
  <2>2. IsFiniteSet(1..n) /\ Cardinality(1..n) = IF 1 > n THEN 0 ELSE n - 1 + 1
    BY <2>1, FS_Interval
  <2>3. QED
    BY <1>1, <2>2
<1>3. \A i, j \in 1..n : i \in B(j) <=> le(i, j)
  BY <1>1 DEF Before
<1>4. \A j \in 1..n : j \in B(j) /\ B(j) \subseteq 1..n
  BY <1>1 DEF Before
<1>5. \A j \in 1..n : IsFiniteSet(B(j)) /\ Cardinality(B(j)) \in 1..n
  <2>1. SUFFICES ASSUME NEW j \in 1..n
                 PROVE  IsFiniteSet(B(j)) /\ Cardinality(B(j)) \in 1..n
    OBVIOUS
  <2>2. B(j) \subseteq 1..n /\ B(j) # {}
    BY <1>4
  <2> HIDE DEF B, n
  <2>3. IsFiniteSet(B(j)) /\ Cardinality(B(j)) <= n
    BY <1>2, <2>2, FS_Subset
  <2>4. Cardinality(B(j)) \in Nat /\ Cardinality(B(j)) # 0
    BY <2>2, <2>3, FS_CardinalityType, FS_EmptySet
  <2>5. QED
    BY <1>1, <2>3, <2>4
<1>6. ASSUME NEW j \in 1..n, NEW k \in 1..n, j # k, le(j, k)
      PROVE  Cardinality(B(j)) # Cardinality(B(k))
  <2>1. ~ le(k, j)
    BY <1>1, <1>6
  <2>2. \A i \in 1..n : le(i, j) => le(i, k)
    BY <1>1, <1>6
  <2>3. B(j) \subseteq B(k) /\ k \notin B(j) /\ k \in B(k)
    BY <1>3, <1>4, <1>6, <2>1, <2>2
  <2>4. IsFiniteSet(B(k))
    BY <1>5
  <2> HIDE DEF B
  <2>5. B(j) # B(k)
    BY <2>3
  <2>6. QED
    BY <2>3, <2>4, <2>5, FS_Subset
<1>7. \A j, k \in 1..n : Cardinality(B(j)) = Cardinality(B(k)) => j = k
  <2>1. SUFFICES ASSUME NEW j \in 1..n, NEW k \in 1..n, j # k
                 PROVE  Cardinality(B(j)) # Cardinality(B(k))
    OBVIOUS
  <2>2. le(j, k) \/ le(k, j)
    BY <1>1, <2>1
  <2>3. QED
    BY <1>6, <2>1, <2>2
<1>8. /\ Rank(s) = [j \in 1..n |-> Cardinality(B(j))]
      /\ \A j \in 1..n : Rank(s)[j] = Cardinality(B(j))
      /\ DOMAIN Rank(s) = 1..n
  BY <1>1, Zenon DEF Rank
<1> HIDE DEF B
<1>9. Rank(s) \in [1..n -> 1..n]
  BY <1>5, <1>8
<1>10. IsInjective(Rank(s))
  <2>1. \A j, k \in 1..n : Rank(s)[j] = Rank(s)[k] => j = k
    BY <1>7, <1>8
  <2>2. QED
    BY <1>8, <2>1 DEF IsInjective
<1>11. QED
  BY <1>9, <1>10

\* Sorting keeps the elements and their number.
LEMMA SortedSame ==
  ASSUME NEW S \in SUBSET Nat, NEW s \in Seq(S)
  PROVE  /\ Sorted(s) \in Seq(S)
         /\ Len(Sorted(s)) = Len(s)
         /\ ToSet(Sorted(s)) = ToSet(s)
<1> DEFINE n == Len(s)
           r == Rank(s)
           c(k) == CHOOSE j \in DOMAIN s : r[j] = k
<1>1. n \in Nat /\ DOMAIN s = 1..n /\ s \in Seq(Nat) /\ \A i \in 1..n : s[i] \in S
  <2>1. n \in Nat /\ DOMAIN s = 1..n /\ \A i \in 1..n : s[i] \in S
    OBVIOUS
  <2>2. \A i \in 1..n : s[i] \in Nat
    BY <2>1
  <2>3. s = [i \in 1..n |-> s[i]]
    BY <2>1
  <2>4. s \in Seq(Nat)
    BY <2>1, <2>2, <2>3
  <2>5. QED
    BY <2>1, <2>4
<1>2. r \in [1..n -> 1..n] /\ IsInjective(r)
  BY <1>1, RankInjective
<1>3. Sorted(s) = [k \in 1..n |-> s[c(k)]]
  <2>1. \A j \in DOMAIN s : r[j] = Cardinality({i \in DOMAIN s : s[i] < s[j] \/ (s[i] = s[j] /\ i <= j)})
    BY Zenon DEF Rank, Before
  <2>2. \A k \in DOMAIN s : c(k) = CHOOSE j \in DOMAIN s :
          Cardinality({i \in DOMAIN s : s[i] < s[j] \/ (s[i] = s[j] /\ i <= j)}) = k
    <3> HIDE DEF r
    <3>1. QED
      BY <2>1
  <2> HIDE DEF r, c
  <2>3. [k \in DOMAIN s |-> s[c(k)]] = [k \in DOMAIN s |-> s[CHOOSE j \in DOMAIN s :
          Cardinality({i \in DOMAIN s : s[i] < s[j] \/ (s[i] = s[j] /\ i <= j)}) = k]]
    BY <2>2, Zenon
  <2>4. QED
    BY <1>1, <2>3, Zenon DEF Sorted
<1> HIDE DEF r
<1>4. \A k \in 1..n : c(k) \in 1..n /\ r[c(k)] = k
  <2>1. SUFFICES ASSUME NEW k \in 1..n
                 PROVE  c(k) \in 1..n /\ r[c(k)] = k
    OBVIOUS
  <2>2. PICK j \in 1..n : r[j] = k
    BY <1>1, <1>2, Permuted
  <2>3. QED
    BY <1>1, <2>2, Zenon
<1>5. \A j \in 1..n : r[j] \in 1..n /\ c(r[j]) = j
  <2>1. SUFFICES ASSUME NEW j \in 1..n
                 PROVE  r[j] \in 1..n /\ c(r[j]) = j
    OBVIOUS
  <2>2. r[j] \in 1..n
    BY <1>2
  <2> HIDE DEF c
  <2>3. c(r[j]) \in 1..n /\ r[c(r[j])] = r[j]
    BY <1>4, <2>2
  <2>4. DOMAIN r = 1..n
    BY <1>2
  <2>5. QED
    BY <1>2, <2>2, <2>3, <2>4 DEF IsInjective
<1> HIDE DEF c
<1>6. /\ DOMAIN Sorted(s) = 1..n
      /\ \A k \in 1..n : Sorted(s)[k] = s[c(k)]
  BY <1>3
<1>7. Sorted(s) \in Seq(S) /\ Len(Sorted(s)) = n
  <2>1. \A k \in 1..n : s[c(k)] \in S
    BY <1>1, <1>4
  <2>2. QED
    BY <1>1, <1>3, <2>1
<1>8. ToSet(Sorted(s)) = ToSet(s)
  <2>1. \A k \in 1..n : Sorted(s)[k] \in ToSet(s)
    BY <1>1, <1>4, <1>6 DEF ToSet
  <2>2. \A j \in 1..n : s[j] \in ToSet(Sorted(s))
    <3>1. SUFFICES ASSUME NEW j \in 1..n
                   PROVE  s[j] \in ToSet(Sorted(s))
      OBVIOUS
    <3>2. r[j] \in DOMAIN Sorted(s) /\ Sorted(s)[r[j]] = s[j]
      BY <1>5, <1>6
    <3>3. QED
      BY <3>2, Zenon DEF ToSet
  <2>3. ToSet(Sorted(s)) \subseteq ToSet(s)
    BY <1>6, <2>1 DEF ToSet
  <2>4. ToSet(s) \subseteq ToSet(Sorted(s))
    BY <1>1, <2>2 DEF ToSet
  <2>5. QED
    BY <2>3, <2>4
<1>9. QED
  BY <1>7, <1>8

-----------------------------------------------------------------------------
(***************************************************************************)
(* The batch, and the images that commands carry.                          *)
(***************************************************************************)
\* The groups of the batch have indices, each once and in one group.
LEMMA BatchParts ==
  /\ Len(Batch) \in Nat /\ DOMAIN Batch = 1..Len(Batch) /\ Batch \in Seq(Items)
  /\ Indices \subseteq Nat /\ Everyone \subseteq Nat
  /\ \A g \in 1..Len(Batch) : Batch[g] \in Items /\ Batch[g] # <<>>
  /\ PreparedErrors \in Seq(Everyone)
<1>1. Batch \in Seq(Seq(Nat)) /\ PreparedErrors \in Seq(Nat)
  BY BatchAssumption
<1>2. Len(Batch) \in Nat /\ DOMAIN Batch = 1..Len(Batch)
  BY <1>1
<1>3. \A g \in 1..Len(Batch) : Batch[g] \in Seq(Nat) /\ Batch[g] # <<>>
  <2>1. SUFFICES ASSUME NEW g \in 1..Len(Batch)
                 PROVE  Batch[g] \in Seq(Nat) /\ Batch[g] # <<>>
    OBVIOUS
  <2>2. Batch[g] \in Seq(Nat)
    BY <1>1, <2>1, ElementOfSeq, Zenon
  <2>3. QED
    BY <1>2, <2>2, BatchAssumption
<1>4. Indices \subseteq Nat
  <2>1. \A q \in Seq(Nat) : ToSet(q) \subseteq Nat
    BY DEF ToSet
  <2>2. QED
    BY <1>2, <1>3, <2>1 DEF Indices
<1>5. \A g \in 1..Len(Batch) : Batch[g] \in Items
  <2>1. SUFFICES ASSUME NEW g \in 1..Len(Batch)
                 PROVE  Batch[g] \in Items
    OBVIOUS
  <2>2. ToSet(Batch[g]) \subseteq Indices
    BY <1>2 DEF Indices
  <2>3. \A q \in Seq(Nat) : \A S : ToSet(q) \subseteq S => q \in Seq(S)
    BY DEF ToSet
  <2>4. QED
    BY <1>3, <2>2, <2>3 DEF Items
<1>6. Batch \in Seq(Items)
  <2>1. Batch = [g \in 1..Len(Batch) |-> Batch[g]]
    BY <1>1
  <2> HIDE DEF Items
  <2>2. QED
    BY <1>2, <1>5, <2>1
<1>7. PreparedErrors \in Seq(Everyone) /\ ToSet(PreparedErrors) \subseteq Nat
  <2>1. \A q \in Seq(Nat) : \A S : ToSet(q) \subseteq S => q \in Seq(S)
    BY DEF ToSet
  <2>2. ToSet(PreparedErrors) \subseteq Everyone
    BY DEF Everyone
  <2>3. \A q \in Seq(Nat) : ToSet(q) \subseteq Nat
    BY DEF ToSet
  <2>4. QED
    BY <1>1, <2>1, <2>2, <2>3
<1>8. QED
  BY <1>2, <1>3, <1>4, <1>5, <1>6, <1>7 DEF Everyone

\* What count_candidates takes next, and what it leaves.
LEMMA FromParts ==
  /\ \A g \in 1..Len(Batch) : From(g) = Batch[g] \o From(g + 1)
  /\ \A g \in 1..Len(Batch) + 1 : From(g) \in Items
  /\ From(Len(Batch) + 1) = <<>>
  /\ From(1) = FlattenSeq(Batch)
<1> DEFINE n == Len(Batch)
<1>1. n \in Nat /\ Batch \in Seq(Items)
  BY BatchParts
<1>2. \A g \in 1..n + 1 : SubSeq(Batch, g, n) \in Seq(Items) /\ From(g) \in Items
  <2>1. SUFFICES ASSUME NEW g \in 1..n + 1
                 PROVE  SubSeq(Batch, g, n) \in Seq(Items) /\ From(g) \in Items
    OBVIOUS
  <2>2. g - 1 \in 0..n /\ (g - 1) + 1 = g
    BY <1>1
  <2>3. SubSeq(Batch, g, n) \in Seq(Items)
    BY <1>1, <2>2, Split
  <2>4. QED
    BY <2>3, FlattenType DEF From, Items
<1>3. SubSeq(Batch, n + 1, n) = <<>> /\ SubSeq(Batch, 1, n) = Batch
  <2>1. SubSeq(Batch, n + 1, n) = <<>>
    BY <1>1
  <2>2. n \in 0..Len(Batch)
    BY <1>1
  <2>3. /\ SubSeq(Batch, 1, n) \in Seq(Items)
        /\ Len(SubSeq(Batch, 1, n)) = n
        /\ \A i \in 1..n : SubSeq(Batch, 1, n)[i] = Batch[i]
    BY <1>1, <2>2, Split
  <2>4. QED
    BY <1>1, <2>1, <2>3, SeqEqual
<1>4. ASSUME NEW g \in 1..n
      PROVE  From(g) = Batch[g] \o From(g + 1)
  <2> DEFINE u == SubSeq(Batch, g, n)
             v == SubSeq(Batch, g + 1, n)
  <2>1. u = <<Batch[g]>> \o v /\ v \in Seq(Items)
    BY <1>1, SplitHead
  <2> HIDE DEF u, v
  <2>2. Batch[g] \in Items /\ <<Batch[g]>> \in Seq(Items)
    <3>1. Batch[g] \in Items
      BY <1>4, BatchParts
    <3>2. QED
      BY <3>1
  <2>3. FlattenSeq(u) = FlattenSeq(<<Batch[g]>>) \o FlattenSeq(v)
    BY <2>1, <2>2, FlattenConcat DEF Items
  <2>4. FlattenSeq(<<Batch[g]>>) = Batch[g]
    BY <2>2, FlattenSingle DEF Items
  <2>5. QED
    BY <2>3, <2>4 DEF From, u, v
<1>5. QED
  BY <1>2, <1>3, <1>4, FlattenEmpty DEF From

\* The images of the batch, each once.
LEMMA OriginFacts ==
  /\ Origin \in Seq(Everyone) /\ IsInjective(Origin) /\ ToSet(Origin) = Everyone
  /\ Len(Origin) = Len(PreparedErrors) + Len(FlattenSeq(Batch))
<1> DEFINE b == FlattenSeq(Batch)
<1>1. /\ Batch \in Seq(Items) /\ DOMAIN Batch = 1..Len(Batch) /\ PreparedErrors \in Seq(Everyone)
      /\ Batch \in Seq(Seq(Indices))
  BY BatchParts DEF Items
<1>2. /\ ToSet(b) = UNION {ToSet(Batch[g]) : g \in DOMAIN Batch}
      /\ b \in Seq(Indices)
  BY <1>1, FlattenParts, FlattenType
<1>3. IsInjective(b)
  <2>1. \A g \in DOMAIN Batch : IsInjective(Batch[g])
    BY BatchAssumption
  <2>2. \A g, h \in DOMAIN Batch : g # h => ToSet(Batch[g]) \cap ToSet(Batch[h]) = {}
    BY BatchAssumption
  <2>3. QED
    BY <1>1, <2>1, <2>2, FlattenParts
<1>4. ToSet(b) = Indices /\ ToSet(PreparedErrors) \cap ToSet(b) = {} /\ IsInjective(PreparedErrors)
  <2>1. ToSet(b) = Indices
    BY <1>2 DEF Indices
  <2>2. \A g \in DOMAIN Batch : ToSet(Batch[g]) \cap ToSet(PreparedErrors) = {}
    BY BatchAssumption
  <2>3. QED
    BY <1>2, <2>1, <2>2, BatchAssumption
<1>5. b \in Seq(Everyone)
  <2>1. Indices \subseteq Everyone
    BY DEF Everyone
  <2> HIDE DEF b
  <2>2. \A q \in Seq(Indices) : q \in Seq(Everyone)
    BY <2>1
  <2>3. QED
    BY <1>2, <2>2
<1> HIDE DEF b
<1>6. /\ PreparedErrors \o b \in Seq(Everyone)
      /\ ToSet(PreparedErrors \o b) = ToSet(PreparedErrors) \cup ToSet(b)
      /\ IsInjective(PreparedErrors \o b)
  BY <1>1, <1>3, <1>4, <1>5, ConcatSet
<1>7. Len(PreparedErrors \o b) = Len(PreparedErrors) + Len(b)
  BY <1>1, <1>5, ConcatProperties
<1>8. QED
  BY <1>4, <1>6, <1>7 DEF Origin, b, Everyone

\* What commands carry.
LEMMA CarriedType ==
  ASSUME NEW cs \in Seq(Commands), NEW order \in Seq(DOMAIN cs)
  PROVE  /\ Carried(cs, order) \in Items
         /\ order # <<>> => Carried(cs, order) # <<>>
<1> DEFINE G(k) == cs[order[k]].images
           f == [k \in 1..Len(order) |-> G(k)]
<1>1. Len(order) \in Nat /\ DOMAIN order = 1..Len(order)
  OBVIOUS
<1>2. \A k \in 1..Len(order) : G(k) \in Items /\ G(k) # <<>>
  <2>1. \A c \in DOMAIN cs : cs[c] \in Commands
    OBVIOUS
  <2>2. \A k \in 1..Len(order) : order[k] \in DOMAIN cs
    OBVIOUS
  <2>3. \A m \in Commands : m.images \in Items /\ m.images # <<>>
    BY DEF Commands
  <2>4. QED
    BY <2>1, <2>2, <2>3
<1>3. f \in Seq(Items)
  <2> HIDE DEF G
  <2>1. QED
    BY <1>1, <1>2
<1>4. Carried(cs, order) = FlattenSeq(f)
  BY <1>1, Zenon DEF Carried
<1>5. FlattenSeq(f) \in Items
  <2> HIDE DEF f
  <2>1. QED
    BY <1>3, FlattenType DEF Items
<1>6. ASSUME order # <<>>
      PROVE  FlattenSeq(f) # <<>>
  <2>1. 1 \in 1..Len(order)
    BY <1>1, <1>6
  <2>2. G(1) \in Items /\ G(1) # <<>>
    BY <1>2, <2>1
  <2> HIDE DEF G
  <2>3. G(1)[1] \in ToSet(G(1))
    BY <2>2 DEF Items, ToSet
  <2>4. 1 \in DOMAIN f /\ f[1] = G(1)
    BY <2>1
  <2> HIDE DEF f
  <2>5. ToSet(FlattenSeq(f)) = UNION {ToSet(f[i]) : i \in DOMAIN f}
    BY <1>3, FlattenParts DEF Items
  <2>6. G(1)[1] \in ToSet(FlattenSeq(f))
    BY <2>3, <2>4, <2>5
  <2>7. ToSet(<<>>) = {}
    BY DEF ToSet
  <2>8. QED
    BY <2>6, <2>7
<1>7. QED
  BY <1>4, <1>5, <1>6

\* No commands carry nothing.
LEMMA CarriedEmpty ==
  ASSUME NEW cs
  PROVE  Carried(cs, <<>>) = <<>>
<1>1. [k \in DOMAIN <<>> |-> cs[<<>>[k]].images] = <<>>
  OBVIOUS
<1>2. QED
  BY <1>1, FlattenEmpty DEF Carried

\* The images of commands in one order and in another come one after the other.
LEMMA CarriedConcat ==
  ASSUME NEW cs \in Seq(Commands), NEW s \in Seq(DOMAIN cs), NEW t \in Seq(DOMAIN cs)
  PROVE  Carried(cs, s \o t) = Carried(cs, s) \o Carried(cs, t)
<1> DEFINE G(c) == cs[c].images
           F(q) == [k \in 1..Len(q) |-> G(q[k])]
<1>1. \A q \in Seq(DOMAIN cs) : Len(q) \in Nat /\ DOMAIN q = 1..Len(q)
  OBVIOUS
<1>2. \A c \in DOMAIN cs : G(c) \in Items
  <2>1. \A c \in DOMAIN cs : cs[c] \in Commands
    OBVIOUS
  <2>2. QED
    BY <2>1 DEF Commands
<1>3. \A q \in Seq(DOMAIN cs) : Carried(cs, q) = FlattenSeq(F(q))
  BY <1>1, Zenon DEF Carried
<1>4. /\ s \o t \in Seq(DOMAIN cs)
      /\ Len(s \o t) = Len(s) + Len(t)
      /\ \A k \in 1..Len(s) + Len(t) : (s \o t)[k] = IF k <= Len(s) THEN s[k] ELSE t[k - Len(s)]
  BY ConcatProperties
<1> HIDE DEF G
<1>5. \A q \in Seq(DOMAIN cs) : /\ F(q) \in Seq(Items)
                                /\ Len(F(q)) = Len(q)
                                /\ \A k \in 1..Len(q) : F(q)[k] = G(q[k])
  BY <1>1, <1>2
<1> HIDE DEF F
<1> DEFINE u == s \o t
<1>6. u \in Seq(DOMAIN cs)
  BY <1>4
<1> HIDE DEF u
<1>7. F(u) = F(s) \o F(t)
  <2> DEFINE a == F(s)
             b == F(t)
             c == F(u)
  <2>1. /\ a \in Seq(Items) /\ Len(a) = Len(s) /\ \A k \in 1..Len(s) : a[k] = G(s[k])
        /\ b \in Seq(Items) /\ Len(b) = Len(t) /\ \A k \in 1..Len(t) : b[k] = G(t[k])
    BY <1>5
  <2>2. c \in Seq(Items) /\ Len(c) = Len(u) /\ \A k \in 1..Len(u) : c[k] = G(u[k])
    BY <1>5, <1>6
  <2> HIDE DEF a, b, c
  <2> DEFINE w == a \o b
  <2>3. /\ w \in Seq(Items)
        /\ Len(w) = Len(a) + Len(b)
        /\ \A k \in 1..Len(a) + Len(b) : w[k] = IF k <= Len(a) THEN a[k] ELSE b[k - Len(a)]
    <3>1. a \in Seq(Items) /\ b \in Seq(Items)
      BY <2>1
    <3>2. QED
      BY <3>1, ConcatProperties
  <2> HIDE DEF w
  <2>4. Len(u) = Len(s) + Len(t) /\ \A k \in 1..Len(u) : u[k] = IF k <= Len(s) THEN s[k] ELSE t[k - Len(s)]
    BY <1>4 DEF u
  <2>5. Len(s) \in Nat /\ Len(t) \in Nat
    OBVIOUS
  <2>6. \A k \in 1..Len(u) : c[k] = w[k]
    <3>1. SUFFICES ASSUME NEW k \in 1..Len(u)
                   PROVE  c[k] = w[k]
      OBVIOUS
    <3>2. k \in 1..Len(a) + Len(b)
      BY <2>1, <2>4
    <3>3. CASE k <= Len(s)
      <4>1. k \in 1..Len(s)
        BY <2>5, <3>3
      <4>2. QED
        BY <2>1, <2>2, <2>3, <2>4, <3>2, <3>3, <4>1
    <3>4. CASE ~ (k <= Len(s))
      <4>1. k - Len(s) \in 1..Len(t)
        BY <2>4, <2>5, <3>4
      <4>2. QED
        BY <2>1, <2>2, <2>3, <2>4, <3>2, <3>4, <4>1
    <3>5. QED
      BY <3>3, <3>4
  <2>7. Len(c) = Len(w)
    BY <2>1, <2>2, <2>3, <2>4
  <2>8. c = w
    BY <2>2, <2>3, <2>6, <2>7, SeqEqual
  <2>9. QED
    BY <2>8 DEF a, b, c, w
<1>8. F(s) \in Seq(Items) /\ F(t) \in Seq(Items)
  BY <1>5
<1>9. FlattenSeq(F(s) \o F(t)) = FlattenSeq(F(s)) \o FlattenSeq(F(t))
  BY <1>8, FlattenConcat DEF Items
<1>10. /\ Carried(cs, u) = FlattenSeq(F(u))
       /\ Carried(cs, s) = FlattenSeq(F(s))
       /\ Carried(cs, t) = FlattenSeq(F(t))
  BY <1>3, <1>6
<1>11. QED
  BY <1>7, <1>9, <1>10 DEF u

\* One command more adds its images.
LEMMA CarriedOne ==
  ASSUME NEW cs \in Seq(Commands), NEW c \in DOMAIN cs
  PROVE  Carried(cs, <<c>>) = cs[c].images
<1>1. cs[c].images \in Seq(Indices)
  <2>1. cs[c] \in Commands
    OBVIOUS
  <2>2. QED
    BY <2>1 DEF Commands, Items
<1>2. [k \in DOMAIN <<c>> |-> cs[<<c>>[k]].images] = <<cs[c].images>>
  OBVIOUS
<1>3. QED
  BY <1>1, <1>2, FlattenSingle DEF Carried

\* Only the images of these commands count.
LEMMA CarriedAgree ==
  ASSUME NEW cs, NEW ds, NEW order \in Seq(DOMAIN cs),
         \A c \in DOMAIN cs : ds[c].images = cs[c].images
  PROVE  Carried(ds, order) = Carried(cs, order)
<1>1. \A k \in DOMAIN order : order[k] \in DOMAIN cs
  OBVIOUS
<1>2. [k \in DOMAIN order |-> ds[order[k]].images] = [k \in DOMAIN order |-> cs[order[k]].images]
  BY <1>1
<1>3. QED
  BY <1>2 DEF Carried

\* What is kept has the elements of the sequence.
LEMMA KeepType ==
  ASSUME NEW S, NEW s \in Seq(S), NEW T
  PROVE  Keep(s, T) \in Seq(S)
  BY KeepRest

\* The images that are kept and those that are not are the images.
LEMMA KeepSplit ==
  ASSUME NEW S, NEW s \in Seq(S), NEW T
  PROVE  /\ Len(s) = Len(Keep(s, T)) + Len(Keep(s, ToSet(s) \ T))
         /\ ToSet(s) = ToSet(Keep(s, T)) \cup ToSet(Keep(s, ToSet(s) \ T))
         /\ ToSet(Keep(s, T)) = ToSet(s) \cap T
<1>1. PICK q, R : q = s /\ R = ToSet(s)
  OBVIOUS
<1>2. q \in Seq(R)
  BY <1>1 DEF ToSet
<1>3. /\ ToSet(Keep(q, T)) = ToSet(q) \cap T
      /\ ToSet(Keep(q, R \ T)) = ToSet(q) \cap (R \ T)
      /\ Len(q) = Len(Keep(q, T)) + Len(Keep(q, R \ T))
  BY <1>2, KeepRest
<1>4. QED
  BY <1>1, <1>3

-----------------------------------------------------------------------------
(***************************************************************************)
(* Types.                                                                  *)
(***************************************************************************)
\* What a step does.
LEMMA NextCases ==
  ASSUME [Next]_vars
  PROVE  \/ CountCandidates \/ StageChunk \/ FailChunk \/ DrainChunks
         \/ DecodeEntropy
         \/ RecordOnly \/ BeginSubmit \/ CommitCommand \/ FailEncoding \/ EndSubmit
         \/ JoinScope \/ FinishGroup \/ ReturnBatch
         \/ \E c \in DOMAIN commands : CompleteCommand(c)
         \/ WaitGroup \/ ReturnResult \/ DropBatch
         \/ UNCHANGED vars
  BY DEF Next, Submission, Waits, Gpu, Over

\* The empty parts of the pipeline have their types.
LEMMA NothingTypes ==
  /\ Nothing \in Chunks
  /\ \A K : NoEncoder \in Encoders(K)
  /\ \A K : NoPending \in Pendings(K)
  BY DEF Nothing, NoEncoder, NoPending, Chunks, Encoders, Pendings, Items

\* Commands that are added leave the records that name older ones in their types.
LEMMA MoreCommands ==
  ASSUME NEW K, NEW L, K \subseteq L
  PROVE  /\ Encoders(K) \subseteq Encoders(L)
         /\ Pendings(K) \subseteq Pendings(L)
         /\ Seq(Submitted(K)) \subseteq Seq(Submitted(L))
<1>1. Seq(K) \subseteq Seq(L)
  OBVIOUS
<1>2. Seq(Seq(K)) \subseteq Seq(Seq(L))
  <2> DEFINE A == Seq(K)
             B == Seq(L)
  <2>1. A \subseteq B
    BY <1>1
  <2> HIDE DEF A, B
  <2>2. Seq(A) \subseteq Seq(B)
    BY <2>1
  <2>3. QED
    BY <2>2 DEF A, B
<1>3. Encoders(K) \subseteq Encoders(L)
  <2> DEFINE A == Seq(K)
             B == Seq(L)
  <2>1. A \subseteq B
    BY <1>1
  <2> HIDE DEF A, B
  <2>2. QED
    BY <2>1 DEF Encoders, A, B
<1>4. Pendings(K) \subseteq Pendings(L) /\ Submitted(K) \subseteq Submitted(L)
  <2> DEFINE A == Seq(Seq(K))
             B == Seq(Seq(L))
  <2>1. A \subseteq B
    BY <1>2
  <2> HIDE DEF A, B
  <2>2. QED
    BY <2>1 DEF Pendings, Submitted, A, B
<1>5. Seq(Submitted(K)) \subseteq Seq(Submitted(L))
  <2> DEFINE A == Submitted(K)
             B == Submitted(L)
  <2>1. A \subseteq B
    BY <1>4
  <2> HIDE DEF A, B
  <2>2. Seq(A) \subseteq Seq(B)
    BY <2>1
  <2>3. QED
    BY <2>2 DEF A, B
<1>6. QED
  BY <1>3, <1>4, <1>5

\* The pipeline starts well typed.
LEMMA InitTypes == Init => Types
<1>1. SUFFICES ASSUME Init
               PROVE  Types
  OBVIOUS
<1>2. group \in 1..Len(Batch) + 1
  <2>1. Len(Batch) \in Nat
    BY BatchParts
  <2>2. QED
    BY <1>1, <2>1 DEF Init
<1>3. staged \in Chunks /\ planned \in Chunks /\ prepared \in Chunks
  BY <1>1, NothingTypes DEF Init
<1>4. encoder \in Encoders(DOMAIN commands) /\ pending \in Pendings(DOMAIN commands)
  BY <1>1, NothingTypes DEF Init
<1>5. errors \in Seq(Everyone)
  BY <1>1, BatchParts DEF Init
<1>6. /\ candidates \in Items /\ commands \in Seq(Commands)
      /\ groups \in Seq(Submitted(DOMAIN commands)) /\ groupErrors \in Seq(Items)
  <2>1. \A R : <<>> \in Seq(R)
    OBVIOUS
  <2>2. QED
    BY <1>1, <2>1 DEF Init, Items
<1>7. step \in Steps
  BY <1>1 DEF Init, Steps
<1>8. QED
  BY <1>2, <1>3, <1>4, <1>5, <1>6, <1>7 DEF Types

\* What the parts of well-typed records are.
LEMMA TypesFacts ==
  ASSUME Types
  PROVE  /\ staged.items \in Items /\ planned.items \in Items /\ prepared.items \in Items
         /\ {staged.buffer, planned.buffer, prepared.buffer} \subseteq Buffers \cup {"none"}
         /\ encoder.todo \in Items /\ encoder.range \in Nat /\ encoder.failed \in BOOLEAN
         /\ encoder.encoded \in Seq(DOMAIN commands) /\ encoder.submitted \in Seq(DOMAIN commands)
         /\ pending.indices \in Items /\ pending.submissions \in Seq(Seq(DOMAIN commands))
         /\ pending.failed \in BOOLEAN
         /\ Len(commands) \in Nat /\ DOMAIN commands = 1..Len(commands)
         /\ \A c \in DOMAIN commands : commands[c] \in Commands
         /\ Len(groups) \in Nat /\ DOMAIN groups = 1..Len(groups)
         /\ \A g \in DOMAIN groups : /\ groups[g] \in Submitted(DOMAIN commands)
                                     /\ groups[g].indices \in Items
                                     /\ groups[g].images \in Items
                                     /\ groups[g].submissions \in Seq(Seq(DOMAIN commands))
<1>1. staged \in Chunks /\ planned \in Chunks /\ prepared \in Chunks
  BY DEF Types
<1>2. \A x \in Chunks : x.items \in Items /\ x.buffer \in Buffers \cup {"none"}
  BY DEF Chunks, Items
<1>3. encoder \in Encoders(DOMAIN commands) /\ pending \in Pendings(DOMAIN commands)
  BY DEF Types
<1>4. /\ encoder.todo \in Items /\ encoder.range \in Nat /\ encoder.failed \in BOOLEAN
      /\ encoder.encoded \in Seq(DOMAIN commands) /\ encoder.submitted \in Seq(DOMAIN commands)
  BY <1>3 DEF Encoders
<1>5. /\ pending.indices \in Items /\ pending.submissions \in Seq(Seq(DOMAIN commands))
      /\ pending.failed \in BOOLEAN
  BY <1>3 DEF Pendings
<1>6. commands \in Seq(Commands) /\ groups \in Seq(Submitted(DOMAIN commands))
  BY DEF Types
<1>7. /\ Len(commands) \in Nat /\ DOMAIN commands = 1..Len(commands)
      /\ \A c \in DOMAIN commands : commands[c] \in Commands
  BY <1>6
<1>8. /\ Len(groups) \in Nat /\ DOMAIN groups = 1..Len(groups)
      /\ \A g \in DOMAIN groups : groups[g] \in Submitted(DOMAIN commands)
  BY <1>6
<1>9. \A K : \A x \in Submitted(K) :
        x.indices \in Items /\ x.images \in Items /\ x.submissions \in Seq(Seq(K))
  BY DEF Submitted
<1>10. QED
  BY <1>1, <1>2, <1>4, <1>5, <1>7, <1>8, <1>9

\* The next command has images, and no more than its range has left.
LEMMA NextCommandFacts ==
  ASSUME Types, encoder.todo # <<>>, encoder.range # 0
  PROVE  /\ NextCommand \in Items /\ NextCommand # <<>>
         /\ encoder.range - Len(NextCommand) \in Nat
         /\ Skip(encoder.todo, Len(NextCommand)) \in Items
         /\ NextCommand \o Skip(encoder.todo, Len(NextCommand)) = encoder.todo
<1>1. encoder.todo \in Seq(Indices) /\ encoder.range \in Nat
  BY TypesFacts DEF Items
<1>2. PICK n : n = IF CommandImages < encoder.range THEN CommandImages ELSE encoder.range
  OBVIOUS
<1>3. CommandImages \in Nat \ {0}
  BY BatchAssumption
<1>4. n \in Nat /\ n # 0 /\ n <= encoder.range
  BY <1>1, <1>2, <1>3
<1>5. NextCommand = Take(encoder.todo, n)
  BY <1>2, Zenon DEF NextCommand
<1>6. /\ Take(encoder.todo, n) \in Seq(Indices)
      /\ Skip(encoder.todo, n) \in Seq(Indices)
      /\ Take(encoder.todo, n) \o Skip(encoder.todo, n) = encoder.todo
      /\ Len(Take(encoder.todo, n)) <= n
      /\ Skip(encoder.todo, Len(Take(encoder.todo, n))) = Skip(encoder.todo, n)
      /\ Take(encoder.todo, n) # <<>>
  BY <1>1, <1>4, TakeSkip
<1>7. Len(NextCommand) \in Nat /\ Len(NextCommand) <= n
  BY <1>5, <1>6
<1>8. encoder.range - Len(NextCommand) \in Nat
  BY <1>1, <1>4, <1>7
<1>9. QED
  BY <1>5, <1>6, <1>8 DEF Items

\* What wait takes next is the first of the groups it has to wait for.
LEMMA WaitGroupFacts ==
  ASSUME Types, WaitGroup
  PROVE  \E g \in DOMAIN groups :
           /\ groups[g].submissions # <<>>
           /\ \A c \in CommandsOf(groups[g].submissions) : Completed(c)
           /\ \/ /\ groups' = [groups EXCEPT ![g] =
                       [indices |-> groups[g].indices, submissions |-> <<>>,
                        images  |-> Carried(commands, FlattenSeq(groups[g].submissions))]]
                 /\ UNCHANGED groupErrors
              \/ /\ groups' = RemoveAt(groups, g)
                 /\ groupErrors' = Append(groupErrors, groups[g].indices)
           /\ step \in {"submitted", "waiting"} /\ step' = "waiting"
           /\ UNCHANGED <<group, chunks, encoder, pending, commands, errors>>
<1> DEFINE g == CHOOSE g \in Waiting : \A h \in Waiting : g <= h
<1>1. Waiting \in SUBSET Nat /\ Waiting \subseteq DOMAIN groups /\ Waiting # {}
  BY TypesFacts DEF Waiting, WaitGroup
<1>2. g \in Waiting
  <2>1. \E x \in Waiting : \A y \in Waiting : x <= y
    BY <1>1, LeastElement
  <2>2. QED
    BY <2>1
<1> HIDE DEF g
<1>3. g \in DOMAIN groups /\ groups[g].submissions # <<>>
  BY <1>1, <1>2 DEF Waiting
<1>4. \A c \in CommandsOf(groups[g].submissions) : Completed(c)
  BY Zenon DEF WaitGroup, g
<1>5. \A s : Resident(s) = Carried(commands, FlattenSeq(s))
  BY DEF Resident, Carried
<1>6. \/ /\ groups' = [groups EXCEPT ![g] =
                 [indices |-> groups[g].indices, submissions |-> <<>>,
                  images  |-> Resident(groups[g].submissions)]]
         /\ UNCHANGED groupErrors
      \/ /\ groups' = RemoveAt(groups, g)
         /\ groupErrors' = Append(groupErrors, groups[g].indices)
  BY Zenon DEF WaitGroup, g
<1>7. /\ step \in {"submitted", "waiting"} /\ step' = "waiting"
      /\ UNCHANGED <<group, chunks, encoder, pending, commands, errors>>
  BY DEF WaitGroup
<1>8. QED
  BY <1>3, <1>4, <1>5, <1>6, <1>7

\* Types are kept by every step.
LEMMA TypesStep ==
  ASSUME Types, Stages, [Next]_vars
  PROVE  Types'
<1> USE DEF vars, chunks, results
<1>1. /\ Len(Batch) \in Nat /\ \A g \in 1..Len(Batch) : Batch[g] \in Items /\ Batch[g] # <<>>
      /\ {ChunkImages, ScratchImages, CommandImages} \subseteq Nat \ {0}
  BY BatchParts, BatchAssumption
<1>2. \A q \in Items : /\ \A S : Keep(q, S) \in Items
                       /\ \A n \in Nat : Take(q, n) \in Items /\ Skip(q, n) \in Items
                       /\ \A r \in Items : q \o r \in Items
  <2>1. SUFFICES ASSUME NEW q \in Items
                 PROVE  /\ \A S : Keep(q, S) \in Items
                        /\ \A n \in Nat : Take(q, n) \in Items /\ Skip(q, n) \in Items
                        /\ \A r \in Items : q \o r \in Items
    OBVIOUS
  <2>2. \A S : Keep(q, S) \in Items
    BY KeepType DEF Items
  <2>3. \A n \in Nat : Take(q, n) \in Items /\ Skip(q, n) \in Items
    BY TakeSkip DEF Items
  <2>4. \A r \in Items : q \o r \in Items
    BY ConcatSet DEF Items
  <2>5. QED
    BY <2>2, <2>3, <2>4
<1>3. \A q \in Items : \A r \in Seq(Everyone) : r \o q \in Seq(Everyone)
  <2>1. Indices \subseteq Everyone
    BY DEF Everyone
  <2>2. QED
    BY <2>1 DEF Items
<1>4. /\ group \in 1..Len(Batch) + 1 /\ step \in Steps /\ candidates \in Items
      /\ staged \in Chunks /\ planned \in Chunks /\ prepared \in Chunks
      /\ encoder \in Encoders(DOMAIN commands) /\ pending \in Pendings(DOMAIN commands)
      /\ commands \in Seq(Commands) /\ errors \in Seq(Everyone)
      /\ groups \in Seq(Submitted(DOMAIN commands)) /\ groupErrors \in Seq(Items)
  BY DEF Types
<1>5. \A q \in Items : \A b \in Buffers \cup {"none"} : [items |-> q, buffer |-> b] \in Chunks
  BY DEF Chunks, Items
<1>6. CASE CountCandidates
  <2>1. step' = "chunk" /\ group' = group
    BY <1>6 DEF CountCandidates
  <2>2. PICK S : /\ candidates' = Keep(Batch[group], ToSet(Batch[group]) \ S)
                 /\ errors' = errors \o Keep(Batch[group], S)
    BY <1>6 DEF CountCandidates
  <2>3. Batch[group] \in Items
    BY <1>1, <1>4, <1>6 DEF CountCandidates
  <2>4. candidates' \in Items /\ errors' \in Seq(Everyone)
    BY <1>2, <1>3, <1>4, <2>2, <2>3
  <2>5. pending' \in Pendings(DOMAIN commands)
    BY <1>6, NothingTypes DEF CountCandidates
  <2>6. UNCHANGED <<staged, planned, prepared, encoder, commands, groups, groupErrors>>
    BY <1>6 DEF CountCandidates
  <2>7. QED
    BY <1>4, <2>1, <2>4, <2>5, <2>6 DEF Types, Steps
<1>7. CASE StageChunk
  <2>1. PICK b \in Buffers : staged' = [items |-> Take(candidates, ChunkImages), buffer |-> b]
    BY <1>7 DEF StageChunk
  <2>2. staged' \in Chunks /\ candidates' \in Items
    BY <1>1, <1>2, <1>4, <1>5, <1>7, <2>1 DEF StageChunk
  <2>3. /\ step' = "scope"
        /\ UNCHANGED <<group, planned, prepared, encoder, pending, commands, results>>
    BY <1>7 DEF StageChunk
  <2>4. QED
    BY <1>4, <2>2, <2>3 DEF Types, Steps
<1>8. CASE FailChunk
  <2>1. pending' = [pending EXCEPT !.indices = pending.indices \o Take(candidates, ChunkImages), !.failed = TRUE]
    BY <1>8 DEF FailChunk, Unstaged
  <2>2. pending.indices \o Take(candidates, ChunkImages) \in Items /\ candidates' \in Items
    BY <1>1, <1>2, <1>4, <1>8, TypesFacts DEF FailChunk
  <2>3. pending' \in Pendings(DOMAIN commands)
    BY <1>4, <2>1, <2>2 DEF Pendings
  <2>4. /\ step' = "scope"
        /\ UNCHANGED <<group, staged, planned, prepared, encoder, commands, results>>
    BY <1>8 DEF FailChunk
  <2>5. QED
    BY <1>4, <2>2, <2>3, <2>4 DEF Types, Steps
<1>9. CASE DrainChunks
  <2>1. step' = "scope" /\ UNCHANGED <<group, chunks, encoder, pending, commands, results>>
    BY <1>9 DEF DrainChunks
  <2>2. QED
    BY <1>4, <2>1 DEF Types, Steps
<1>10. CASE DecodeEntropy
  <2>1. PICK S : planned' = [items |-> Keep(staged.items, S), buffer |-> staged.buffer]
    BY <1>10 DEF DecodeEntropy
  <2>2. planned' \in Chunks
    BY <1>2, <1>5, <2>1, TypesFacts
  <2>3. UNCHANGED <<group, step, candidates, staged, prepared, encoder, pending, commands, results>>
    BY <1>10 DEF DecodeEntropy
  <2>4. QED
    BY <1>4, <2>2, <2>3 DEF Types
<1>11. CASE RecordOnly
  <2>1. pending' = [pending EXCEPT !.indices = pending.indices \o prepared.items]
    BY <1>11 DEF RecordOnly
  <2>2. pending.indices \o prepared.items \in Items
    BY <1>2, TypesFacts
  <2>3. pending' \in Pendings(DOMAIN commands)
    BY <1>4, <2>1, <2>2 DEF Pendings
  <2>4. prepared' \in Chunks
    BY <1>11, NothingTypes DEF RecordOnly
  <2>5. UNCHANGED <<group, step, candidates, staged, planned, encoder, commands, results>>
    BY <1>11 DEF RecordOnly
  <2>6. QED
    BY <1>4, <2>3, <2>4, <2>5 DEF Types
<1>12. CASE BeginSubmit
  <2>1. encoder' = [NoEncoder EXCEPT !.running = TRUE, !.todo = prepared.items, !.range = ScratchImages]
    BY <1>12 DEF BeginSubmit
  <2>2. NoEncoder \in Encoders(DOMAIN commands) /\ prepared.items \in Items /\ ScratchImages \in Nat
    BY <1>1, NothingTypes, TypesFacts
  <2>3. encoder' \in Encoders(DOMAIN commands)
    BY <2>1, <2>2 DEF Encoders
  <2>4. step' = "encode" /\ UNCHANGED <<group, chunks, pending, commands, results>>
    BY <1>12 DEF BeginSubmit
  <2>5. QED
    BY <1>4, <2>3, <2>4 DEF Types, Steps
<1>13. CASE CommitCommand
  <2> DEFINE one   == [images |-> NextCommand, buffer |-> prepared.buffer, state |-> "running"]
             rest  == Skip(encoder.todo, Len(NextCommand))
             left  == encoder.range - Len(NextCommand)
             all   == Append(encoder.encoded, Len(commands) + 1)
             K     == DOMAIN commands
             L     == 1..Len(commands) + 1
  <2>1. encoder.todo # <<>> /\ step = "encode" /\ commands' = Append(commands, one)
    BY <1>13 DEF CommitCommand
  <2>2. /\ NextCommand \in Items /\ NextCommand # <<>> /\ left \in Nat /\ rest \in Items
    BY <2>1, NextCommandFacts DEF Stages
  <2>3. prepared.buffer \in Buffers
    <3>1. prepared.items # <<>>
      BY <2>1 DEF Stages
    <3>2. prepared.buffer # "none"
      BY <3>1 DEF Stages, Nothing
    <3>3. QED
      BY <3>2, TypesFacts
  <2>4. one \in Commands
    BY <2>2, <2>3 DEF Commands
  <2>5. commands' \in Seq(Commands) /\ DOMAIN commands' = L /\ K \subseteq L /\ Len(commands) + 1 \in L
    <3> HIDE DEF one
    <3>1. QED
      BY <1>4, <2>1, <2>4
  <2>6. /\ Encoders(K) \subseteq Encoders(L) /\ Pendings(K) \subseteq Pendings(L)
        /\ Seq(Submitted(K)) \subseteq Seq(Submitted(L))
    BY <2>5, MoreCommands
  <2>7. encoder \in Encoders(L) /\ pending \in Pendings(L) /\ groups \in Seq(Submitted(L))
    BY <1>4, <2>6
  <2>8. encoder.encoded \in Seq(L) /\ encoder.submitted \in Seq(L)
    BY <2>7 DEF Encoders
  <2>9. all \in Seq(L) /\ encoder.submitted \o all \in Seq(L)
    <3>1. all \in Seq(L)
      <4> HIDE DEF L
      <4>1. QED
        BY <2>5, <2>8
    <3>2. QED
      <4> HIDE DEF L, all
      <4>1. QED
        BY <2>8, <3>1, ConcatProperties
  <2>10. encoder' = IF rest = <<>> \/ left = 0
                    THEN [encoder EXCEPT !.todo = rest, !.range = ScratchImages,
                                         !.encoded = <<>>, !.submitted = encoder.submitted \o all]
                    ELSE [encoder EXCEPT !.todo = rest, !.range = left, !.encoded = all]
    BY <1>13 DEF CommitCommand
  <2> HIDE DEF rest, left, all, one, K, L
  <2>11. encoder' \in Encoders(L)
    <3>1. <<>> \in Seq(L) /\ ScratchImages \in Nat
      BY <1>1
    <3>2. CASE rest = <<>> \/ left = 0
      BY <2>2, <2>7, <2>9, <2>10, <3>1, <3>2 DEF Encoders
    <3>3. CASE ~ (rest = <<>> \/ left = 0)
      BY <2>2, <2>7, <2>9, <2>10, <3>1, <3>3 DEF Encoders
    <3>4. QED
      BY <3>2, <3>3
  <2>12. UNCHANGED <<group, step, chunks, pending, results>>
    BY <1>13 DEF CommitCommand
  <2>13. QED
    BY <1>4, <2>5, <2>7, <2>11, <2>12 DEF Types
<1>14. CASE FailEncoding
  <2>1. encoder' = [encoder EXCEPT !.encoded = <<>>, !.failed = TRUE]
    BY <1>14 DEF FailEncoding
  <2>2. <<>> \in Seq(DOMAIN commands)
    OBVIOUS
  <2>3. encoder' \in Encoders(DOMAIN commands)
    BY <1>4, <2>1, <2>2 DEF Encoders
  <2>4. UNCHANGED <<group, step, chunks, pending, commands, results>>
    BY <1>14 DEF FailEncoding
  <2>5. QED
    BY <1>4, <2>3, <2>4 DEF Types
<1>15. CASE EndSubmit
  <2> DEFINE sub == IF encoder.failed THEN pending.submissions
                    ELSE Append(pending.submissions, encoder.submitted)
  <2>1. pending' = [indices |-> pending.indices \o prepared.items, submissions |-> sub, failed |-> encoder.failed]
    BY <1>15 DEF EndSubmit
  <2>2. pending.indices \o prepared.items \in Items /\ encoder.failed \in BOOLEAN
    BY <1>2, TypesFacts
  <2>3. sub \in Seq(Seq(DOMAIN commands))
    <3>1. pending.submissions \in Seq(Seq(DOMAIN commands)) /\ encoder.submitted \in Seq(DOMAIN commands)
      BY TypesFacts
    <3> DEFINE R == Seq(DOMAIN commands)
    <3>2. pending.submissions \in Seq(R) /\ encoder.submitted \in R
      BY <3>1
    <3> HIDE DEF R
    <3>3. sub \in Seq(R)
      BY <3>2
    <3>4. QED
      BY <3>3 DEF R
  <2> HIDE DEF sub
  <2>4. pending' \in Pendings(DOMAIN commands)
    BY <2>1, <2>2, <2>3 DEF Pendings
  <2>5. encoder' \in Encoders(DOMAIN commands) /\ prepared' \in Chunks
    BY <1>15, NothingTypes DEF EndSubmit
  <2>6. /\ step' = "scope"
        /\ UNCHANGED <<group, candidates, staged, planned, commands, results>>
    BY <1>15 DEF EndSubmit
  <2>7. QED
    BY <1>4, <2>4, <2>5, <2>6 DEF Types, Steps
<1>16. CASE JoinScope
  <2>1. errors' = errors \o Keep(staged.items, ToSet(staged.items) \ ToSet(planned.items))
    BY <1>16 DEF JoinScope, DecodeErrors
  <2>2. errors' \in Seq(Everyone)
    BY <1>2, <1>3, <1>4, <2>1, TypesFacts
  <2>3. prepared' \in Chunks /\ staged' \in Chunks /\ planned' \in Chunks
    BY <1>4, <1>16, NothingTypes DEF JoinScope
  <2>4. /\ step' = "chunk"
        /\ UNCHANGED <<group, candidates, encoder, pending, commands, groups, groupErrors>>
    BY <1>16 DEF JoinScope
  <2>5. QED
    BY <1>4, <2>2, <2>3, <2>4 DEF Types, Steps
<1>17. CASE FinishGroup
  <2> DEFINE one == [indices |-> pending.indices, submissions |-> pending.submissions, images |-> <<>>]
  <2>1. /\ pending.indices \in Items /\ pending.submissions \in Seq(Seq(DOMAIN commands)) /\ <<>> \in Items
    BY TypesFacts DEF Items
  <2>2. one \in Submitted(DOMAIN commands)
    BY <2>1 DEF Submitted
  <2> HIDE DEF one
  <2>3. /\ groupErrors' \in {groupErrors, Append(groupErrors, pending.indices)}
        /\ groups' \in {groups, Append(groups, one)}
    BY <1>17 DEF FinishGroup, one
  <2>4. groupErrors' \in Seq(Items)
    <3> DEFINE R == Items
    <3>1. groupErrors \in Seq(R) /\ pending.indices \in R
      BY <1>4, <2>1
    <3> HIDE DEF R
    <3>2. groupErrors' \in Seq(R)
      BY <2>3, <3>1
    <3>3. QED
      BY <3>2 DEF R
  <2>5. groups' \in Seq(Submitted(DOMAIN commands))
    <3> DEFINE R == Submitted(DOMAIN commands)
    <3>1. groups \in Seq(R) /\ one \in R
      BY <1>4, <2>2
    <3> HIDE DEF R
    <3>2. groups' \in Seq(R)
      BY <2>3, <3>1
    <3>3. QED
      BY <3>2 DEF R
  <2>6. group' \in 1..Len(Batch) + 1
    <3>1. group <= Len(Batch)
      BY <1>1, <1>4, <1>17 DEF FinishGroup, Stages, LastSteps, Steps
    <3>2. group' = group + 1
      BY <1>17 DEF FinishGroup
    <3>3. QED
      BY <1>1, <1>4, <3>1, <3>2
  <2>7. pending' \in Pendings(DOMAIN commands)
    BY <1>17, NothingTypes DEF FinishGroup
  <2>8. step' = "group" /\ UNCHANGED <<chunks, encoder, commands, errors>>
    BY <1>17 DEF FinishGroup
  <2>9. QED
    BY <1>4, <2>4, <2>5, <2>6, <2>7, <2>8 DEF Types, Steps
<1>18. CASE ReturnBatch
  <2>1. errors' \in Seq(Everyone)
    <3>1. Everyone \in SUBSET Nat
      BY BatchParts
    <3>2. Sorted(errors) \in Seq(Everyone)
      BY <1>4, <3>1, SortedSame
    <3>3. QED
      BY <1>18, <3>2 DEF ReturnBatch
  <2>2. step' = "submitted" /\ UNCHANGED <<group, chunks, encoder, pending, commands, groups, groupErrors>>
    BY <1>18 DEF ReturnBatch
  <2>3. QED
    BY <1>4, <2>1, <2>2 DEF Types, Steps
<1>19. ASSUME NEW c \in DOMAIN commands, CompleteCommand(c)
       PROVE  Types'
  <2>1. PICK s \in {"ok", "bad"} : commands' = [commands EXCEPT ![c].state = s]
    BY <1>19 DEF CompleteCommand
  <2>2. commands[c] \in Commands
    BY TypesFacts
  <2>3. commands' = [commands EXCEPT ![c] = [commands[c] EXCEPT !.state = s]]
    BY <2>1
  <2>4. [commands[c] EXCEPT !.state = s] \in Commands
    BY <2>2 DEF Commands
  <2>5. commands' \in Seq(Commands) /\ DOMAIN commands' = DOMAIN commands
    <3> DEFINE one == [commands[c] EXCEPT !.state = s]
    <3> HIDE DEF one
    <3>1. one \in Commands /\ commands' = [commands EXCEPT ![c] = one]
      BY <2>3, <2>4 DEF one
    <3>2. QED
      BY <1>4, <3>1
  <2>6. UNCHANGED <<group, step, chunks, encoder, pending, results>>
    BY <1>19 DEF CompleteCommand
  <2>7. QED
    BY <1>4, <2>5, <2>6 DEF Types
<1>20. CASE WaitGroup
  <2>1. PICK g \in DOMAIN groups :
          /\ \/ /\ groups' = [groups EXCEPT ![g] =
                      [indices |-> groups[g].indices, submissions |-> <<>>,
                       images  |-> Carried(commands, FlattenSeq(groups[g].submissions))]]
                /\ UNCHANGED groupErrors
             \/ /\ groups' = RemoveAt(groups, g)
                /\ groupErrors' = Append(groupErrors, groups[g].indices)
          /\ step' = "waiting"
          /\ UNCHANGED <<group, chunks, encoder, pending, commands, errors>>
    BY <1>20, WaitGroupFacts
  <2> DEFINE full == Carried(commands, FlattenSeq(groups[g].submissions))
             one  == [indices |-> groups[g].indices, submissions |-> <<>>, images |-> full]
             R    == Submitted(DOMAIN commands)
  <2>2. groups[g].indices \in Items /\ groups[g].submissions \in Seq(Seq(DOMAIN commands))
    BY TypesFacts
  <2>3. full \in Items
    <3>1. FlattenSeq(groups[g].submissions) \in Seq(DOMAIN commands)
      BY <2>2, FlattenType
    <3>2. QED
      BY <1>4, <3>1, CarriedType
  <2> HIDE DEF full
  <2>4. one \in R
    BY <2>2, <2>3 DEF Submitted
  <2>5. groupErrors' \in Seq(Items)
    <3> DEFINE T == Items
               x == groups[g].indices
    <3>1. groupErrors \in Seq(T) /\ x \in T /\ groupErrors' \in {groupErrors, Append(groupErrors, x)}
      BY <1>4, <2>1, <2>2
    <3> HIDE DEF T, x
    <3>2. groupErrors' \in Seq(T)
      BY <3>1
    <3>3. QED
      BY <3>2 DEF T
  <2>6. groups' \in Seq(R)
    <3>1. groups \in Seq(R) /\ g \in 1..Len(groups)
      BY <1>4, TypesFacts
    <3>2. RemoveAt(groups, g) \in Seq(R)
      <4> HIDE DEF R
      <4>1. QED
        BY <3>1, Removed
    <3>3. groups' \in {[groups EXCEPT ![g] = one], RemoveAt(groups, g)}
      BY <2>1 DEF full
    <3> HIDE DEF R, one
    <3>4. [groups EXCEPT ![g] = one] \in Seq(R)
      BY <2>4, <3>1
    <3>5. QED
      BY <3>2, <3>3, <3>4
  <2>7. QED
    BY <1>4, <2>1, <2>5, <2>6 DEF Types, Steps
<1>21. CASE ReturnResult
  BY <1>4, <1>21 DEF ReturnResult, Types, Steps
<1>22. CASE DropBatch
  BY <1>4, <1>22 DEF DropBatch, Types, Steps
<1>23. CASE UNCHANGED vars
  BY <1>4, <1>23 DEF Types
<1>24. QED
  BY <1>6, <1>7, <1>8, <1>9, <1>10, <1>11, <1>12, <1>13, <1>14, <1>15, <1>16, <1>17, <1>18, <1>19,
     <1>20, <1>21, <1>22, <1>23, NextCases

-----------------------------------------------------------------------------
(***************************************************************************)
(* What is empty at which step.                                            *)
(***************************************************************************)
\* The pipeline starts empty.
LEMMA InitStages == Init => Stages
<1>1. Len(Batch) \in Nat
  BY BatchParts
<1>2. Nothing.buffer = "none"
  BY DEF Nothing
<1>3. QED
  BY <1>1, <1>2 DEF Init, Stages, LastSteps

\* It is left empty wherever it has to be.
LEMMA StagesStep ==
  ASSUME Types, Stages, [Next]_vars
  PROVE  Stages'
<1> USE DEF vars, chunks, results
<1>1. /\ Len(Batch) \in Nat /\ group \in Nat /\ ScratchImages # 0 /\ "none" \notin Buffers
  BY BatchParts, BatchAssumption DEF Types
<1>2. Nothing.items = <<>> /\ Nothing.buffer = "none"
  BY DEF Nothing
<1>3. \A q, b : [items |-> q, buffer |-> b].items = q /\ [items |-> q, buffer |-> b].buffer = b
  OBVIOUS
<1>4. CASE CountCandidates
  <2>1. /\ step = "group" /\ group <= Len(Batch) /\ step' = "chunk" /\ pending' = NoPending
        /\ UNCHANGED <<group, staged, planned, prepared, encoder, commands, groups, groupErrors>>
    BY <1>4 DEF CountCandidates
  <2>2. QED
    BY <1>1, <2>1 DEF Stages, LastSteps
<1>5. CASE StageChunk
  <2>1. PICK b \in Buffers : staged' = [items |-> Take(candidates, ChunkImages), buffer |-> b]
    BY <1>5 DEF StageChunk
  <2>2. staged'.buffer # "none"
    BY <1>1, <2>1
  <2>3. /\ step = "chunk" /\ step' = "scope"
        /\ UNCHANGED <<group, planned, prepared, encoder, pending, commands, results>>
    BY <1>5 DEF StageChunk
  <2>4. planned = Nothing
    BY <1>2, <2>3 DEF Stages
  <2>5. QED
    BY <1>1, <1>2, <2>2, <2>3, <2>4 DEF Stages, LastSteps
<1>6. CASE FailChunk
  <2>1. /\ step = "chunk" /\ step' = "scope"
        /\ UNCHANGED <<group, staged, planned, prepared, encoder, commands, results>>
    BY <1>6 DEF FailChunk
  <2>2. QED
    BY <1>1, <2>1 DEF Stages, LastSteps
<1>7. CASE DrainChunks
  <2>1. step = "chunk" /\ step' = "scope" /\ UNCHANGED <<group, chunks, encoder, pending, commands, results>>
    BY <1>7 DEF DrainChunks
  <2>2. QED
    BY <1>1, <2>1 DEF Stages, LastSteps
<1>8. CASE DecodeEntropy
  <2>1. PICK S \in SUBSET ToSet(staged.items) :
          planned' = [items |-> Keep(staged.items, S), buffer |-> staged.buffer]
    BY <1>8 DEF DecodeEntropy
  <2>2. /\ step \in {"scope", "encode"} /\ staged.buffer # "none"
        /\ UNCHANGED <<group, step, candidates, staged, prepared, encoder, pending, commands, results>>
    BY <1>8 DEF DecodeEntropy
  <2>3. planned'.buffer = staged.buffer /\ planned'.items = Keep(staged.items, S)
    BY <2>1
  <2>4. QED
    BY <2>2, <2>3 DEF Stages, LastSteps
<1>9. CASE RecordOnly
  <2>1. /\ step = "scope" /\ prepared' = Nothing
        /\ UNCHANGED <<group, step, candidates, staged, planned, encoder, commands, results>>
    BY <1>9 DEF RecordOnly
  <2>2. QED
    BY <1>1, <2>1 DEF Stages, LastSteps
<1>10. CASE BeginSubmit
  <2>1. /\ step = "scope" /\ prepared.items # <<>> /\ ~pending.failed /\ step' = "encode"
        /\ UNCHANGED <<group, chunks, pending, commands, results>>
    BY <1>10 DEF BeginSubmit
  <2>2. encoder'.range = ScratchImages
    BY <1>10 DEF BeginSubmit, NoEncoder
  <2>3. QED
    BY <1>1, <2>1, <2>2 DEF Stages, LastSteps
<1>11. CASE CommitCommand
  <2> DEFINE rest == Skip(encoder.todo, Len(NextCommand))
             left == encoder.range - Len(NextCommand)
             all  == Append(encoder.encoded, Len(commands) + 1)
  <2>1. encoder' = IF rest = <<>> \/ left = 0
                   THEN [encoder EXCEPT !.todo = rest, !.range = ScratchImages,
                                        !.encoded = <<>>, !.submitted = encoder.submitted \o all]
                   ELSE [encoder EXCEPT !.todo = rest, !.range = left, !.encoded = all]
    BY <1>11 DEF CommitCommand
  <2>2. encoder \in Encoders(DOMAIN commands)
    BY DEF Types
  <2> HIDE DEF rest, left, all
  <2>3. encoder'.range # 0
    BY <1>1, <2>1, <2>2 DEF Encoders
  <2>4. step = "encode" /\ UNCHANGED <<group, step, chunks, pending, results>>
    BY <1>11 DEF CommitCommand
  <2>5. QED
    BY <2>3, <2>4 DEF Stages, LastSteps
<1>12. CASE FailEncoding
  <2>1. encoder' = [encoder EXCEPT !.encoded = <<>>, !.failed = TRUE] /\ encoder \in Encoders(DOMAIN commands)
    BY <1>12 DEF FailEncoding, Types
  <2>2. encoder'.range = encoder.range
    BY <2>1 DEF Encoders
  <2>3. step = "encode" /\ UNCHANGED <<group, step, chunks, pending, commands, results>>
    BY <1>12 DEF FailEncoding
  <2>4. QED
    BY <2>2, <2>3 DEF Stages, LastSteps
<1>13. CASE EndSubmit
  <2>1. /\ step = "encode" /\ step' = "scope" /\ encoder' = NoEncoder /\ prepared' = Nothing
        /\ UNCHANGED <<group, candidates, staged, planned, commands, results>>
    BY <1>13 DEF EndSubmit
  <2>2. QED
    BY <1>1, <2>1 DEF Stages, LastSteps
<1>14. CASE JoinScope
  <2>1. /\ step = "scope" /\ step' = "chunk"
        /\ prepared' = planned /\ staged' = Nothing /\ planned' = Nothing
        /\ UNCHANGED <<group, candidates, encoder, pending, commands, groups, groupErrors>>
    BY <1>14 DEF JoinScope
  <2>2. QED
    BY <1>1, <1>2, <2>1 DEF Stages, LastSteps
<1>15. CASE FinishGroup
  <2>1. /\ step = "chunk" /\ step' = "group" /\ candidates = <<>> /\ prepared.buffer = "none"
        /\ pending' = NoPending
        /\ UNCHANGED <<chunks, encoder, commands, errors>>
    BY <1>15 DEF FinishGroup, MoreChunks
  <2>2. QED
    BY <1>1, <2>1 DEF Stages, LastSteps
<1>16. CASE ReturnBatch
  <2>1. /\ step = "group" /\ group > Len(Batch) /\ step' = "submitted"
        /\ UNCHANGED <<group, chunks, encoder, pending, commands, groups, groupErrors>>
    BY <1>16 DEF ReturnBatch
  <2>2. QED
    BY <1>1, <2>1 DEF Stages, LastSteps
<1>17. ASSUME NEW c \in DOMAIN commands, CompleteCommand(c)
       PROVE  Stages'
  <2>1. UNCHANGED <<group, step, chunks, encoder, pending, results>>
    BY <1>17 DEF CompleteCommand
  <2>2. QED
    BY <2>1 DEF Stages
<1>18. CASE WaitGroup
  <2>1. /\ step \in {"submitted", "waiting"} /\ step' = "waiting"
        /\ UNCHANGED <<group, chunks, encoder, pending, commands, errors>>
    BY <1>18 DEF WaitGroup
  <2>2. QED
    BY <1>1, <2>1 DEF Stages, LastSteps
<1>19. CASE ReturnResult
  <2>1. /\ step \in {"submitted", "waiting"} /\ step' = "returned"
        /\ UNCHANGED <<group, chunks, encoder, pending, commands, results>>
    BY <1>19 DEF ReturnResult
  <2>2. QED
    BY <1>1, <2>1 DEF Stages, LastSteps
<1>20. CASE DropBatch
  <2>1. step = "submitted" /\ step' = "dropped" /\ UNCHANGED <<group, chunks, encoder, pending, commands, results>>
    BY <1>20 DEF DropBatch
  <2>2. QED
    BY <1>1, <2>1 DEF Stages, LastSteps
<1>21. CASE UNCHANGED vars
  BY <1>21 DEF Stages
<1>22. QED
  BY <1>4, <1>5, <1>6, <1>7, <1>8, <1>9, <1>10, <1>11, <1>12, <1>13, <1>14, <1>15, <1>16, <1>17,
     <1>18, <1>19, <1>20, <1>21, NextCases

-----------------------------------------------------------------------------
(***************************************************************************)
(* Commands carry the images of a chunk, and submissions those of a group. *)
(***************************************************************************)
\* A command carries the same images as long as it exists.
LEMMA CarriedStable ==
  ASSUME Types, [Next]_vars
  PROVE  /\ DOMAIN commands \subseteq DOMAIN commands'
         /\ \A order \in Seq(DOMAIN commands) : Carried(commands', order) = Carried(commands, order)
<1>1. commands \in Seq(Commands)
  BY DEF Types
<1>2. /\ DOMAIN commands \subseteq DOMAIN commands'
      /\ \A c \in DOMAIN commands : commands'[c].images = commands[c].images
  <2>1. CASE UNCHANGED commands
    BY <2>1
  <2>2. CASE CommitCommand
    <3> DEFINE one == [images |-> NextCommand, buffer |-> prepared.buffer, state |-> "running"]
    <3>1. commands' = Append(commands, one)
      BY <2>2 DEF CommitCommand
    <3> HIDE DEF one
    <3>2. /\ Len(commands) \in Nat /\ DOMAIN commands = 1..Len(commands)
          /\ DOMAIN Append(commands, one) = 1..Len(commands) + 1
          /\ \A c \in 1..Len(commands) : Append(commands, one)[c] = commands[c]
      BY <1>1
    <3>3. QED
      BY <3>1, <3>2
  <2>3. ASSUME NEW c \in DOMAIN commands, CompleteCommand(c)
        PROVE  /\ DOMAIN commands \subseteq DOMAIN commands'
               /\ \A d \in DOMAIN commands : commands'[d].images = commands[d].images
    <3>1. PICK s : commands' = [commands EXCEPT ![c].state = s]
      BY <2>3 DEF CompleteCommand
    <3>2. commands[c] \in Commands
      BY <1>1
    <3>3. [commands[c] EXCEPT !.state = s].images = commands[c].images
      BY <3>2 DEF Commands
    <3>4. DOMAIN commands' = DOMAIN commands /\ commands'[c] = [commands[c] EXCEPT !.state = s]
          /\ \A d \in DOMAIN commands \ {c} : commands'[d] = commands[d]
      BY <1>1, <3>1
    <3>5. QED
      BY <3>3, <3>4
  <2>4. QED
    BY <2>1, <2>2, <2>3, NextCases
       DEF vars, chunks, results, CountCandidates, StageChunk, FailChunk, DrainChunks, DecodeEntropy,
           RecordOnly, BeginSubmit, FailEncoding, EndSubmit, JoinScope, FinishGroup, ReturnBatch,
           WaitGroup, ReturnResult, DropBatch
<1>3. QED
  BY <1>2, CarriedAgree

\* What is appended to the second of two sequences comes after both.
LEMMA AppendLast ==
  ASSUME NEW S, NEW a \in Seq(S), NEW b \in Seq(S), NEW c \in S
  PROVE  a \o Append(b, c) = (a \o b) \o <<c>>
<1> DEFINE h == <<c>>
<1>1. h \in Seq(S) /\ Append(b, c) = b \o h
  OBVIOUS
<1> HIDE DEF h
<1>2. (a \o b) \o h = a \o (b \o h)
  BY <1>1, ConcatAssociative
<1>3. QED
  BY <1>1, <1>2 DEF h

\* At first nothing is under way.
LEMMA InitEncoding == Init => Encoding /\ Resides
<1>1. FlattenSeq(<<>>) = <<>> /\ \A cs : Carried(cs, <<>>) = <<>>
  BY FlattenEmpty, CarriedEmpty
<1>2. \A g : g \notin DOMAIN <<>>
  OBVIOUS
<1>3. QED
  BY <1>1, <1>2 DEF Init, Encoding, Resides, NoEncoder, NoPending

\* The commands of a chunk carry the images that are no longer to do.
LEMMA EncodingStep ==
  ASSUME Types, Stages, Encoding, [Next]_vars
  PROVE  Encoding'
<1> USE DEF vars, chunks, results
<1>1. commands \in Seq(Commands) /\ encoder \in Encoders(DOMAIN commands)
  BY DEF Types
<1>2. /\ encoder.todo \in Items /\ prepared.items \in Items
      /\ encoder.encoded \in Seq(DOMAIN commands) /\ encoder.submitted \in Seq(DOMAIN commands)
  BY TypesFacts
<1>3. encoder.submitted \o encoder.encoded \in Seq(DOMAIN commands)
  BY <1>2, ConcatProperties
<1>4. CASE encoder' = encoder /\ prepared' = prepared /\ step' = step
  <2>1. Carried(commands', encoder.submitted \o encoder.encoded)
          = Carried(commands, encoder.submitted \o encoder.encoded)
    BY <1>3, CarriedStable
  <2>2. QED
    BY <1>4, <2>1 DEF Encoding
<1>5. CASE encoder' = NoEncoder /\ step' # "encode"
  BY <1>5 DEF Encoding, NoEncoder
<1>6. CASE BeginSubmit
  <2>1. /\ encoder'.failed = FALSE /\ encoder'.encoded = <<>> /\ encoder'.submitted = <<>>
        /\ encoder'.todo = prepared.items /\ prepared' = prepared /\ prepared.items # <<>>
    BY <1>6 DEF BeginSubmit, NoEncoder
  <2>2. Carried(commands', <<>>) = <<>> /\ <<>> \o <<>> = <<>> /\ <<>> \o prepared.items = prepared.items
    BY <1>2, CarriedEmpty DEF Items
  <2>3. QED
    BY <2>1, <2>2 DEF Encoding
<1>7. CASE CommitCommand
  <2> DEFINE one  == [images |-> NextCommand, buffer |-> prepared.buffer, state |-> "running"]
             rest == Skip(encoder.todo, Len(NextCommand))
             left == encoder.range - Len(NextCommand)
             all  == Append(encoder.encoded, Len(commands) + 1)
             old  == encoder.submitted \o encoder.encoded
             new  == encoder.submitted \o all
             c    == Len(commands) + 1
  <2>1. /\ encoder.todo # <<>> /\ step = "encode" /\ ~encoder.failed /\ commands' = Append(commands, one)
        /\ step' = step /\ prepared' = prepared
    BY <1>7 DEF CommitCommand
  <2>2. encoder' = IF rest = <<>> \/ left = 0
                   THEN [encoder EXCEPT !.todo = rest, !.range = ScratchImages,
                                        !.encoded = <<>>, !.submitted = new]
                   ELSE [encoder EXCEPT !.todo = rest, !.range = left, !.encoded = all]
    BY <1>7 DEF CommitCommand
  <2>3. NextCommand \in Items /\ rest \in Items /\ NextCommand \o rest = encoder.todo
    BY <2>1, NextCommandFacts DEF Stages
  <2>4. Types'
    BY TypesStep
  <2>5. commands' \in Seq(Commands) /\ c \in DOMAIN commands' /\ commands'[c].images = NextCommand
    <3>1. commands' \in Seq(Commands)
      BY <2>4 DEF Types
    <3>2. /\ Len(commands) \in Nat /\ DOMAIN Append(commands, one) = 1..Len(commands) + 1
          /\ Append(commands, one)[c] = one
      <4> HIDE DEF one
      <4>1. QED
        BY <1>1
    <3>3. QED
      BY <2>1, <3>1, <3>2
  <2>6. /\ encoder'.todo = rest /\ ~encoder'.failed
        /\ rest = <<>> => encoder'.encoded = <<>>
        /\ \/ encoder'.encoded = <<>> /\ encoder'.submitted = new
           \/ encoder'.encoded = all /\ encoder'.submitted = encoder.submitted
    <3> HIDE DEF rest, left, all, new
    <3>1. QED
      BY <1>1, <2>1, <2>2 DEF Encoders
  <2>7. /\ DOMAIN commands \subseteq DOMAIN commands'
        /\ old \in Seq(DOMAIN commands')
        /\ encoder.submitted \in Seq(DOMAIN commands') /\ encoder.encoded \in Seq(DOMAIN commands')
    <3>1. DOMAIN commands \subseteq DOMAIN commands'
      BY CarriedStable
    <3>2. \A K, L : K \subseteq L => Seq(K) \subseteq Seq(L)
      OBVIOUS
    <3>3. QED
      BY <1>2, <1>3, <3>1, <3>2
  <2>8. encoder'.submitted \o encoder'.encoded = new
    <3>1. encoder'.submitted \o encoder'.encoded = new \/ encoder'.submitted \o encoder'.encoded = new \o <<>>
      BY <2>6
    <3>2. new \in Seq(DOMAIN commands')
      <4> DEFINE K == DOMAIN commands'
      <4>1. c \in K /\ encoder.submitted \in Seq(K) /\ encoder.encoded \in Seq(K)
        BY <2>5, <2>7
      <4> HIDE DEF K, c
      <4>2. Append(encoder.encoded, c) \in Seq(K)
        BY <4>1
      <4>3. encoder.submitted \o Append(encoder.encoded, c) \in Seq(K)
        BY <4>1, <4>2, ConcatProperties
      <4>4. QED
        BY <4>3 DEF c, K
    <3>3. new \o <<>> = new
      <4> HIDE DEF new
      <4>1. QED
        BY <3>2
    <3>4. QED
      BY <3>1, <3>3
  <2>9. new = old \o <<c>>
    <3>1. PICK a, b, k, K : a = encoder.submitted /\ b = encoder.encoded /\ k = c /\ K = DOMAIN commands'
      OBVIOUS
    <3>2. a \in Seq(K) /\ b \in Seq(K) /\ k \in K
      BY <2>5, <2>7, <3>1
    <3>3. a \o Append(b, k) = (a \o b) \o <<k>>
      BY <3>2, AppendLast
    <3>4. QED
      BY <3>1, <3>3
  <2> HIDE DEF one, rest, left, all, old, new, c
  <2>10. Carried(commands', new) = Carried(commands', old) \o Carried(commands', <<c>>)
    <3>1. <<c>> \in Seq(DOMAIN commands')
      BY <2>5
    <3>2. Carried(commands', old \o <<c>>) = Carried(commands', old) \o Carried(commands', <<c>>)
      BY <2>5, <2>7, <3>1, CarriedConcat
    <3>3. QED
      BY <2>9, <3>2
  <2>11. Carried(commands', <<c>>) = NextCommand /\ Carried(commands', old) = Carried(commands, old)
    <3>1. Carried(commands', <<c>>) = commands'[c].images
      BY <2>5, CarriedOne
    <3>2. old \in Seq(DOMAIN commands)
      BY <1>3 DEF old
    <3>3. QED
      BY <2>5, <3>1, <3>2, CarriedStable
  <2>12. Carried(commands, old) \o encoder.todo = prepared.items /\ Carried(commands, old) \in Items
    <3>1. Carried(commands, old) \in Items
      BY <1>1, <1>3, CarriedType DEF old
    <3>2. QED
      BY <2>1, <3>1 DEF Encoding, old
  <2>13. (Carried(commands, old) \o NextCommand) \o rest = Carried(commands, old) \o (NextCommand \o rest)
    <3>1. /\ Carried(commands, old) \in Seq(Indices) /\ NextCommand \in Seq(Indices) /\ rest \in Seq(Indices)
      BY <2>3, <2>12 DEF Items
    <3>2. QED
      BY <3>1, ConcatAssociative
  <2>14. Carried(commands', new) \o rest = prepared.items
    BY <2>3, <2>10, <2>11, <2>12, <2>13
  <2>15. QED
    BY <2>1, <2>6, <2>8, <2>14 DEF Encoding
<1>8. CASE FailEncoding
  <2>1. encoder' = [encoder EXCEPT !.encoded = <<>>, !.failed = TRUE] /\ encoder.todo # <<>>
    BY <1>8 DEF FailEncoding
  <2>2. encoder'.failed = TRUE /\ encoder'.encoded = <<>> /\ encoder'.todo # <<>>
    BY <1>1, <2>1 DEF Encoders
  <2>3. QED
    BY <2>2 DEF Encoding
<1>9. \A c : CompleteCommand(c) => encoder' = encoder /\ prepared' = prepared /\ step' = step
  BY DEF CompleteCommand
<1>10. Stages'
  BY StagesStep
<1>11. step' # "encode" => encoder' = NoEncoder
  BY <1>10 DEF Stages
<1>12. QED
  BY <1>4, <1>5, <1>6, <1>7, <1>8, <1>9, <1>11, NextCases
     DEF CountCandidates, StageChunk, FailChunk, DrainChunks, DecodeEntropy, RecordOnly, EndSubmit,
         JoinScope, FinishGroup, ReturnBatch, WaitGroup, ReturnResult, DropBatch

\* A group of submissions resides where it did while its commands exist.
LEMMA HoldsStable ==
  ASSUME Types, [Next]_vars, NEW r \in Submitted(DOMAIN commands), Holds(commands, r)
  PROVE  Holds(commands', r)
<1>1. r.submissions \in Seq(Seq(DOMAIN commands))
  BY DEF Submitted
<1>2. FlattenSeq(r.submissions) \in Seq(DOMAIN commands)
  BY <1>1, FlattenType
<1>3. Carried(commands', FlattenSeq(r.submissions)) = Carried(commands, FlattenSeq(r.submissions))
  BY <1>2, CarriedStable
<1>4. QED
  BY <1>3 DEF Holds

\* The submissions of a group carry its images.
LEMMA ResidesStep ==
  ASSUME Types, Stages, Encoding, Resides, [Next]_vars
  PROVE  Resides'
<1> USE DEF vars, chunks, results
<1>1. /\ pending.submissions \in Seq(Seq(DOMAIN commands)) /\ pending.indices \in Items
      /\ pending.failed \in BOOLEAN /\ pending \in Pendings(DOMAIN commands)
      /\ \A g \in DOMAIN groups : groups[g] \in Submitted(DOMAIN commands)
  BY TypesFacts DEF Types
<1>2. FlattenSeq(pending.submissions) \in Seq(DOMAIN commands)
  BY <1>1, FlattenType
<1>3. Carried(commands', FlattenSeq(pending.submissions)) = Carried(commands, FlattenSeq(pending.submissions))
  BY <1>2, CarriedStable
<1>4. ASSUME NEW g \in DOMAIN groups
      PROVE  Holds(commands', groups[g])
  BY <1>1, <1>4, HoldsStable DEF Resides
<1>5. FlattenSeq(<<>>) = <<>> /\ \A cs : Carried(cs, <<>>) = <<>>
  BY FlattenEmpty, CarriedEmpty
<1> DEFINE PendingPart == ~pending.failed => Carried(commands, FlattenSeq(pending.submissions)) = pending.indices
           GroupsPart  == \A g \in DOMAIN groups : Holds(commands, groups[g])
<1>6. PendingPart'
  <2>1. CASE pending' = pending
    BY <1>3, <2>1 DEF Resides
  <2>2. CASE pending' = NoPending
    BY <1>5, <2>2 DEF NoPending
  <2>3. CASE FailChunk
    <3>1. pending' = [pending EXCEPT !.indices = pending.indices \o Take(candidates, ChunkImages), !.failed = TRUE]
      BY <2>3 DEF FailChunk, Unstaged
    <3>2. pending'.failed = TRUE
      BY <1>1, <3>1 DEF Pendings
    <3>3. QED
      BY <3>2
  <2>4. CASE RecordOnly
    <3>1. /\ pending' = [pending EXCEPT !.indices = pending.indices \o prepared.items]
          /\ prepared.items = <<>> \/ pending.failed
      BY <2>4 DEF RecordOnly
    <3>2. /\ pending'.failed = pending.failed /\ pending'.submissions = pending.submissions
          /\ pending'.indices = pending.indices \o prepared.items
      BY <1>1, <3>1 DEF Pendings
    <3>3. pending.indices \o <<>> = pending.indices
      BY <1>1 DEF Items
    <3>4. QED
      BY <1>3, <3>1, <3>2, <3>3 DEF Resides
  <2>5. CASE EndSubmit
    <3>1. /\ pending' = [indices     |-> pending.indices \o prepared.items,
                         submissions |-> IF encoder.failed THEN pending.submissions
                                         ELSE Append(pending.submissions, encoder.submitted),
                         failed      |-> encoder.failed]
          /\ encoder.todo = <<>> \/ encoder.failed
          /\ step = "encode"
      BY <2>5 DEF EndSubmit
    <3>2. CASE encoder.failed
      BY <3>1, <3>2
    <3>3. CASE ~encoder.failed
      <4>1. encoder.todo = <<>> /\ encoder.encoded = <<>> /\ ~pending.failed
        BY <3>1, <3>3 DEF Encoding, Stages
      <4>2. encoder.submitted \in Seq(DOMAIN commands) /\ encoder.submitted \o <<>> = encoder.submitted
        BY TypesFacts
      <4>3. Carried(commands, encoder.submitted) = prepared.items
        <5>1. Carried(commands, encoder.submitted) \in Items
          BY <4>2, CarriedType DEF Types
        <5>2. Carried(commands, encoder.submitted) \o <<>> = prepared.items
          BY <3>1, <3>3, <4>1, <4>2 DEF Encoding
        <5>3. QED
          BY <5>1, <5>2 DEF Items
      <4>4. FlattenSeq(Append(pending.submissions, encoder.submitted))
              = FlattenSeq(pending.submissions) \o encoder.submitted
        BY <1>1, <4>2, FlattenAppend
      <4>5. Carried(commands, FlattenSeq(pending.submissions) \o encoder.submitted)
              = Carried(commands, FlattenSeq(pending.submissions)) \o Carried(commands, encoder.submitted)
        BY <1>2, <4>2, CarriedConcat DEF Types
      <4>6. Carried(commands, FlattenSeq(pending.submissions)) = pending.indices
        BY <4>1 DEF Resides
      <4>7. commands' = commands
        BY <2>5 DEF EndSubmit
      <4>8. /\ pending'.submissions = Append(pending.submissions, encoder.submitted)
            /\ pending'.indices = pending.indices \o prepared.items
        BY <3>1, <3>3
      <4>9. QED
        BY <4>3, <4>4, <4>5, <4>6, <4>7, <4>8
    <3>4. QED
      BY <3>2, <3>3
  <2>6. \A c : CompleteCommand(c) => pending' = pending
    BY DEF CompleteCommand
  <2>7. QED
    BY <2>1, <2>2, <2>3, <2>4, <2>5, <2>6, NextCases
       DEF CountCandidates, StageChunk, DrainChunks, DecodeEntropy, BeginSubmit, CommitCommand,
           FailEncoding, JoinScope, FinishGroup, ReturnBatch, WaitGroup, ReturnResult, DropBatch
<1>7. GroupsPart'
  <2>1. CASE groups' = groups
    BY <1>4, <2>1
  <2>2. CASE FinishGroup
    <3>1. CASE groups' = groups
      BY <1>4, <3>1
    <3>2. CASE groups' # groups
      <4> DEFINE one == [indices |-> pending.indices, submissions |-> pending.submissions, images |-> <<>>]
      <4>1. ~pending.failed /\ pending.indices # <<>> /\ groups' = Append(groups, one)
        BY <2>2, <3>2 DEF FinishGroup
      <4>2. Carried(commands, FlattenSeq(pending.submissions)) = pending.indices
        BY <4>1 DEF Resides
      <4>3. pending.submissions # <<>>
        BY <1>5, <4>1, <4>2
      <4>4. Holds(commands', one)
        BY <1>3, <4>2, <4>3 DEF Holds
      <4>5. groups \in Seq(Submitted(DOMAIN commands))
        BY DEF Types
      <4> DEFINE R == Submitted(DOMAIN commands)
      <4> HIDE DEF one, R
      <4>6. /\ DOMAIN groups' = DOMAIN groups \cup {Len(groups) + 1}
            /\ groups'[Len(groups) + 1] = one
            /\ \A g \in DOMAIN groups : groups'[g] = groups[g]
        <5>1. groups \in Seq(R)
          BY <4>5 DEF R
        <5>2. QED
          BY <4>1, <5>1
      <4>7. QED
        BY <1>4, <4>4, <4>6
    <3>3. QED
      BY <3>1, <3>2
  <2>3. CASE WaitGroup
    <3>1. PICK g \in DOMAIN groups :
            /\ groups[g].submissions # <<>>
            /\ \/ groups' = [groups EXCEPT ![g] =
                    [indices |-> groups[g].indices, submissions |-> <<>>,
                     images  |-> Carried(commands, FlattenSeq(groups[g].submissions))]]
               \/ groups' = RemoveAt(groups, g)
      BY <2>3, WaitGroupFacts
    <3>2. groups \in Seq(Submitted(DOMAIN commands)) /\ DOMAIN groups = 1..Len(groups) /\ Len(groups) \in Nat
      BY TypesFacts DEF Types
    <3>3. CASE groups' = RemoveAt(groups, g)
      <4>1. /\ Len(RemoveAt(groups, g)) = Len(groups) - 1
            /\ RemoveAt(groups, g) \in Seq(Submitted(DOMAIN commands))
            /\ \A i \in 1..Len(groups) - 1 : RemoveAt(groups, g)[i] = IF i < g THEN groups[i] ELSE groups[i + 1]
        BY <3>2, Removed
      <4>2. DOMAIN groups' = 1..Len(groups) - 1
        BY <3>3, <4>1
      <4>3. \A i \in DOMAIN groups' : \E h \in DOMAIN groups : groups'[i] = groups[h]
        <5>1. \A i \in 1..Len(groups) - 1 : i \in 1..Len(groups) /\ i + 1 \in 1..Len(groups)
          BY <3>2
        <5>2. QED
          BY <3>2, <3>3, <4>1, <4>2, <5>1
      <4>4. QED
        BY <1>4, <4>3
    <3>4. CASE groups' # RemoveAt(groups, g)
      <4> DEFINE one == [indices |-> groups[g].indices, submissions |-> <<>>,
                         images  |-> Carried(commands, FlattenSeq(groups[g].submissions))]
      <4>1. groups' = [groups EXCEPT ![g] = one]
        BY <3>1, <3>4
      <4>2. Carried(commands, FlattenSeq(groups[g].submissions)) = groups[g].indices
        BY <3>1 DEF Resides, Holds
      <4>3. Holds(commands', one)
        BY <4>2 DEF Holds
      <4> HIDE DEF one
      <4>4. DOMAIN groups' = DOMAIN groups /\ \A h \in DOMAIN groups : groups'[h] = IF h = g THEN one ELSE groups[h]
        BY <4>1
      <4>5. QED
        BY <1>4, <4>3, <4>4
    <3>5. QED
      BY <3>3, <3>4
  <2>4. \A c : CompleteCommand(c) => groups' = groups
    BY DEF CompleteCommand
  <2>5. QED
    BY <2>1, <2>2, <2>3, <2>4, NextCases
       DEF CountCandidates, StageChunk, FailChunk, DrainChunks, DecodeEntropy, RecordOnly, BeginSubmit,
           CommitCommand, FailEncoding, EndSubmit, JoinScope, ReturnBatch, ReturnResult, DropBatch
<1>8. QED
  BY <1>6, <1>7 DEF Resides

-----------------------------------------------------------------------------
(***************************************************************************)
(* Where the images are.                                                   *)
(***************************************************************************)
\* The indices of the groups that were submitted, group by group.
LEMMA IndicesOfFacts ==
  ASSUME NEW K, NEW gs \in Seq(Submitted(K))
  PROVE  /\ IndicesOf(gs) \in Seq(Items) /\ Len(IndicesOf(gs)) = Len(gs)
         /\ \A g \in 1..Len(gs) : IndicesOf(gs)[g] = gs[g].indices
<1>1. DOMAIN gs = 1..Len(gs) /\ Len(gs) \in Nat /\ \A g \in 1..Len(gs) : gs[g] \in Submitted(K)
  OBVIOUS
<1>2. \A g \in 1..Len(gs) : gs[g].indices \in Items
  BY <1>1 DEF Submitted
<1>3. /\ IndicesOf(gs) = [g \in 1..Len(gs) |-> gs[g].indices]
      /\ \A g \in 1..Len(gs) : IndicesOf(gs)[g] = gs[g].indices
  BY <1>1, Zenon DEF IndicesOf
<1> DEFINE G(g) == gs[g].indices
<1>4. \A g \in 1..Len(gs) : G(g) \in Items
  BY <1>2
<1> HIDE DEF G
<1>5. [g \in 1..Len(gs) |-> G(g)] \in Seq(Items) /\ Len([g \in 1..Len(gs) |-> G(g)]) = Len(gs)
  BY <1>1, <1>4
<1>6. QED
  BY <1>3, <1>5 DEF G

\* A group that is appended.
LEMMA IndicesOfAppend ==
  ASSUME NEW K, NEW gs \in Seq(Submitted(K)), NEW r \in Submitted(K)
  PROVE  FlattenSeq(IndicesOf(Append(gs, r))) = FlattenSeq(IndicesOf(gs)) \o r.indices
<1> DEFINE R == Submitted(K)
           n == Len(gs)
<1>1. gs \in Seq(R) /\ r \in R /\ n \in Nat
  OBVIOUS
<1>2. r.indices \in Items
  BY DEF Submitted
<1>3. IndicesOf(gs) \in Seq(Items) /\ Len(IndicesOf(gs)) = n /\ \A g \in 1..n : IndicesOf(gs)[g] = gs[g].indices
  BY IndicesOfFacts
<1> HIDE DEF R
<1>4. /\ Append(gs, r) \in Seq(R) /\ Len(Append(gs, r)) = n + 1
      /\ \A g \in 1..n : Append(gs, r)[g] = gs[g]
      /\ Append(gs, r)[n + 1] = r
  BY <1>1
<1> DEFINE u == Append(gs, r)
<1>5. u \in Seq(R) /\ Len(u) = n + 1 /\ (\A g \in 1..n : u[g] = gs[g]) /\ u[n + 1] = r
  BY <1>4
<1> HIDE DEF u
<1>6. IndicesOf(u) \in Seq(Items) /\ Len(IndicesOf(u)) = n + 1 /\ \A g \in 1..n + 1 : IndicesOf(u)[g] = u[g].indices
  BY <1>5, IndicesOfFacts DEF R
<1> HIDE DEF n
<1> DEFINE a == IndicesOf(gs)
           b == IndicesOf(u)
           x == r.indices
<1>7. /\ a \in Seq(Items) /\ Len(a) = n /\ b \in Seq(Items) /\ Len(b) = n + 1 /\ x \in Items
      /\ (\A g \in 1..n : b[g] = a[g]) /\ b[n + 1] = x
  <2>1. \A g \in 1..n : g \in 1..n + 1
    BY <1>1
  <2>2. n + 1 \in 1..n + 1
    BY <1>1
  <2>3. QED
    BY <1>2, <1>3, <1>5, <1>6, <2>1, <2>2
<1> HIDE DEF a, b, x
<1>8. b = Append(a, x)
  <2> DEFINE w == Append(a, x)
  <2>1. w \in Seq(Items) /\ Len(w) = n + 1 /\ (\A g \in 1..n : w[g] = a[g]) /\ w[n + 1] = x
    BY <1>7
  <2> HIDE DEF w
  <2>2. \A g \in 1..n + 1 : w[g] = b[g]
    <3>1. \A g \in 1..n + 1 : g \in 1..n \/ g = n + 1
      BY <1>1
    <3>2. QED
      BY <1>7, <2>1, <3>1
  <2>3. w = b
    BY <1>7, <2>1, <2>2, SeqEqual
  <2>4. QED
    BY <2>3 DEF w
<1>9. FlattenSeq(Append(a, x)) = FlattenSeq(a) \o x
  BY <1>7, FlattenAppend DEF Items
<1>10. QED
  BY <1>8, <1>9 DEF a, b, x, u

\* A group that is removed.
LEMMA IndicesOfRemoved ==
  ASSUME NEW K, NEW gs \in Seq(Submitted(K)), NEW g \in 1..Len(gs)
  PROVE  IndicesOf(RemoveAt(gs, g)) = RemoveAt(IndicesOf(gs), g)
<1> DEFINE R == Submitted(K)
           n == Len(gs)
           u == RemoveAt(gs, g)
<1>1. gs \in Seq(R) /\ n \in Nat /\ g \in 1..n
  OBVIOUS
<1>2. IndicesOf(gs) \in Seq(Items) /\ Len(IndicesOf(gs)) = n /\ \A h \in 1..n : IndicesOf(gs)[h] = gs[h].indices
  BY IndicesOfFacts
<1> HIDE DEF R
<1>3. u \in Seq(R) /\ Len(u) = n - 1 /\ \A i \in 1..n - 1 : u[i] = IF i < g THEN gs[i] ELSE gs[i + 1]
  BY <1>1, Removed
<1> HIDE DEF u
<1>4. /\ IndicesOf(u) \in Seq(Items) /\ Len(IndicesOf(u)) = n - 1
      /\ \A h \in 1..n - 1 : IndicesOf(u)[h] = u[h].indices
  BY <1>3, IndicesOfFacts DEF R
<1> HIDE DEF n
<1> DEFINE a == IndicesOf(gs)
           b == IndicesOf(u)
           w == RemoveAt(a, g)
<1>5. a \in Seq(Items) /\ Len(a) = n /\ b \in Seq(Items) /\ Len(b) = n - 1
  BY <1>2, <1>4
<1> HIDE DEF a
<1>6. w \in Seq(Items) /\ Len(w) = n - 1 /\ \A i \in 1..n - 1 : w[i] = IF i < g THEN a[i] ELSE a[i + 1]
  BY <1>1, <1>5, Removed
<1> HIDE DEF b, w
<1>7. \A i \in 1..n - 1 : b[i] = w[i]
  <2>1. SUFFICES ASSUME NEW i \in 1..n - 1
                 PROVE  b[i] = w[i]
    OBVIOUS
  <2>2. i \in 1..n /\ i + 1 \in 1..n
    BY <1>1
  <2>3. b[i] = u[i].indices /\ a[i] = gs[i].indices /\ a[i + 1] = gs[i + 1].indices
    BY <1>2, <1>4, <2>2 DEF a, b
  <2>4. QED
    BY <1>3, <1>6, <2>3
<1>8. b = w
  BY <1>5, <1>6, <1>7, SeqEqual
<1>9. QED
  BY <1>8 DEF a, b, w, u

\* A group that keeps its indices.
LEMMA IndicesOfSame ==
  ASSUME NEW gs, NEW g \in DOMAIN gs, NEW r, r.indices = gs[g].indices
  PROVE  IndicesOf([gs EXCEPT ![g] = r]) = IndicesOf(gs)
<1> DEFINE u == [gs EXCEPT ![g] = r]
<1>1. DOMAIN u = DOMAIN gs /\ \A h \in DOMAIN gs : u[h] = IF h = g THEN r ELSE gs[h]
  OBVIOUS
<1> HIDE DEF u
<1>2. \A h \in DOMAIN gs : u[h].indices = gs[h].indices
  BY <1>1
<1>3. IndicesOf(u) = IndicesOf(gs)
  BY <1>1, <1>2 DEF IndicesOf
<1>4. QED
  BY <1>3 DEF u

\* The images wherever they are have their types.
LEMMA PartsTypes ==
  ASSUME Types, Stages
  PROVE  /\ errors \in Seq(Everyone) /\ GroupImages \in Items /\ ErrorImages \in Items
         /\ pending.indices \in Items /\ prepared.items \in Items /\ staged.items \in Items
         /\ candidates \in Items /\ Remaining \in Items
         /\ Len(errors) \in Nat /\ Len(GroupImages) \in Nat /\ Len(ErrorImages) \in Nat
         /\ Len(pending.indices) \in Nat /\ Len(prepared.items) \in Nat /\ Len(staged.items) \in Nat
         /\ Len(candidates) \in Nat /\ Len(Remaining) \in Nat
<1>1. errors \in Seq(Everyone) /\ candidates \in Items /\ groupErrors \in Seq(Items)
      /\ groups \in Seq(Submitted(DOMAIN commands))
  BY DEF Types
<1>2. pending.indices \in Items /\ prepared.items \in Items /\ staged.items \in Items
  BY TypesFacts
<1>3. ErrorImages \in Items
  BY <1>1, FlattenType DEF ErrorImages, Items
<1>4. GroupImages \in Items
  <2>1. IndicesOf(groups) \in Seq(Items)
    BY <1>1, IndicesOfFacts
  <2>2. QED
    BY <2>1, FlattenType DEF GroupImages, Items
<1>5. Remaining \in Items
  <2>1. PICK n : n = IF step \in {"chunk", "scope", "encode"} THEN group + 1 ELSE group
    OBVIOUS
  <2>2. group \in 1..Len(Batch) + 1 /\ Len(Batch) \in Nat
    BY BatchParts DEF Types
  <2>3. step \in {"chunk", "scope", "encode"} => group <= Len(Batch)
    BY <2>2 DEF Stages, LastSteps
  <2>4. n \in 1..Len(Batch) + 1
    BY <2>1, <2>2, <2>3
  <2>5. Remaining = From(n)
    BY <2>1, Zenon DEF Remaining
  <2>6. QED
    BY <2>4, <2>5, FromParts
<1>6. \A S : \A q \in Seq(S) : Len(q) \in Nat
  OBVIOUS
<1>7. QED
  BY <1>1, <1>2, <1>3, <1>4, <1>5, <1>6 DEF Items

\* At first the images are those of the batch.
LEMMA InitAccount == Init => Account
<1>1. SUFFICES ASSUME Init
               PROVE  Account
  OBVIOUS
<1>2. /\ errors = PreparedErrors /\ groups = <<>> /\ groupErrors = <<>> /\ pending.indices = <<>>
      /\ prepared.items = <<>> /\ staged.items = <<>> /\ candidates = <<>> /\ step = "group" /\ group = 1
  BY <1>1 DEF Init, NoPending, Nothing
<1>3. GroupImages = <<>> /\ ErrorImages = <<>>
  <2>1. IndicesOf(<<>>) = <<>>
    BY DEF IndicesOf
  <2>2. QED
    BY <1>2, <2>1, FlattenEmpty DEF GroupImages, ErrorImages
<1>4. Remaining = FlattenSeq(Batch)
  BY <1>2, FromParts DEF Remaining
<1>5. ToSet(<<>>) = {} /\ Len(<<>>) = 0
  BY DEF ToSet
<1>6. /\ Len(Origin) = Len(PreparedErrors) + Len(FlattenSeq(Batch))
      /\ ToSet(Origin) = ToSet(PreparedErrors) \cup ToSet(FlattenSeq(Batch))
      /\ Len(PreparedErrors) \in Nat /\ Len(FlattenSeq(Batch)) \in Nat
  <2>1. PreparedErrors \in Seq(Nat) /\ FlattenSeq(Batch) \in Seq(Nat)
    <3>1. Batch \in Seq(Seq(Nat))
      BY BatchAssumption
    <3>2. QED
      BY <3>1, FlattenType, BatchAssumption
  <2>2. ToSet(Origin) = ToSet(PreparedErrors) \cup ToSet(FlattenSeq(Batch))
    BY <2>1, ConcatSet DEF Origin
  <2>3. QED
    BY <2>1, <2>2, OriginFacts
<1>7. Size = Len(Origin)
  BY <1>2, <1>3, <1>4, <1>5, <1>6 DEF Size
<1>8. Everywhere = ToSet(Origin)
  BY <1>2, <1>3, <1>4, <1>5, <1>6 DEF Everywhere
<1>9. QED
  BY <1>7, <1>8 DEF Account

\* A step moves images, and neither drops nor copies one.
LEMMA AccountStep ==
  ASSUME Types, Stages, Account, [Next]_vars
  PROVE  Account'
<1> USE DEF vars, chunks, results
<1>1. /\ Len(errors) \in Nat /\ Len(GroupImages) \in Nat /\ Len(ErrorImages) \in Nat
      /\ Len(pending.indices) \in Nat /\ Len(prepared.items) \in Nat /\ Len(staged.items) \in Nat
      /\ Len(candidates) \in Nat /\ Len(Remaining) \in Nat
  BY PartsTypes
<1>2. /\ errors \in Seq(Everyone) /\ pending.indices \in Seq(Indices) /\ prepared.items \in Seq(Indices)
      /\ staged.items \in Seq(Indices) /\ candidates \in Seq(Indices)
      /\ GroupImages \in Seq(Indices) /\ ErrorImages \in Seq(Indices) /\ Remaining \in Seq(Indices)
  BY PartsTypes DEF Items
<1>3. /\ Nothing.items = <<>> /\ NoPending.indices = <<>> /\ ToSet(<<>>) = {} /\ Len(<<>>) = 0
  BY DEF Nothing, NoPending, ToSet
<1>4. \A S : \A q, r \in Seq(S) : Len(q \o r) = Len(q) + Len(r) /\ ToSet(q \o r) = ToSet(q) \cup ToSet(r)
  <2>1. \A S : \A q, r \in Seq(S) : Len(q \o r) = Len(q) + Len(r)
    OBVIOUS
  <2>2. QED
    BY <2>1, ConcatSet
<1>5. \A q \in Seq(Indices) : q \in Seq(Everyone) /\ Len(q) \in Nat
  <2>1. Indices \subseteq Everyone
    BY DEF Everyone
  <2>2. QED
    BY <2>1
<1>22. PICK n1 \in Nat, n2 \in Nat, n3 \in Nat, n4 \in Nat, n5 \in Nat, n6 \in Nat, n7 \in Nat, n8 \in Nat :
         /\ n1 = Len(errors) /\ n2 = Len(GroupImages) /\ n3 = Len(ErrorImages) /\ n4 = Len(pending.indices)
         /\ n5 = Len(prepared.items) /\ n6 = Len(staged.items) /\ n7 = Len(candidates) /\ n8 = Len(Remaining)
         /\ Size = n1 + n2 + n3 + n4 + n5 + n6 + n7 + n8
  BY <1>1 DEF Size
<1>23. Size = n1 + n2 + n3 + n4 + n5 + n6 + n7 + n8
  BY <1>22
<1>6. UNCHANGED groups => GroupImages' = GroupImages
  BY DEF GroupImages
<1>7. UNCHANGED groupErrors => ErrorImages' = ErrorImages
  BY DEF ErrorImages
<1>8. /\ UNCHANGED <<group, step>> => Remaining' = Remaining
      /\ UNCHANGED group /\ step \in {"chunk", "scope", "encode"} /\ step' \in {"chunk", "scope", "encode"}
           => Remaining' = Remaining
  BY DEF Remaining
<1>9. ASSUME UNCHANGED <<errors, groups, groupErrors, candidates>>, pending'.indices = pending.indices,
             prepared'.items = prepared.items, staged'.items = staged.items, Remaining' = Remaining
      PROVE  Account'
  <2>1. Size' = Size
    BY <1>6, <1>7, <1>9 DEF Size
  <2>2. Everywhere' = Everywhere
    BY <1>6, <1>7, <1>9 DEF Everywhere
  <2>3. QED
    BY <2>1, <2>2 DEF Account
<1>10. CASE CountCandidates
  <2>1. PICK lost : /\ candidates' = Keep(Batch[group], ToSet(Batch[group]) \ lost)
                 /\ errors' = errors \o Keep(Batch[group], lost)
    BY <1>10 DEF CountCandidates
  <2>2. /\ step = "group" /\ group <= Len(Batch) /\ step' = "chunk" /\ pending' = NoPending
        /\ UNCHANGED <<group, staged, planned, prepared, encoder, commands, groups, groupErrors>>
    BY <1>10 DEF CountCandidates
  <2>3. pending = NoPending /\ candidates = <<>>
    BY <2>2 DEF Stages
  <2>4. group \in 1..Len(Batch)
    BY <2>2, BatchParts DEF Types
  <2>5. Batch[group] \in Seq(Indices)
    BY <2>4, BatchParts DEF Items
  <2> DEFINE out == Keep(Batch[group], lost)
             new == Keep(Batch[group], ToSet(Batch[group]) \ lost)
  <2>6. /\ Len(Batch[group]) = Len(out) + Len(new) /\ ToSet(Batch[group]) = ToSet(out) \cup ToSet(new)
        /\ out \in Seq(Indices) /\ new \in Seq(Indices)
    <3>1. PICK all : all = Batch[group]
      OBVIOUS
    <3>2. all \in Seq(Indices)
      BY <2>5, <3>1
    <3>3. /\ Len(all) = Len(Keep(all, lost)) + Len(Keep(all, ToSet(all) \ lost))
          /\ ToSet(all) = ToSet(Keep(all, lost)) \cup ToSet(Keep(all, ToSet(all) \ lost))
          /\ ToSet(Keep(all, lost)) = ToSet(all) \cap lost
      BY <3>2, KeepSplit
    <3>4. Keep(all, lost) \in Seq(Indices) /\ Keep(all, ToSet(all) \ lost) \in Seq(Indices)
      BY <3>2, KeepType
    <3>5. QED
      BY <3>1, <3>3, <3>4
  <2> HIDE DEF out, new
  <2>7. Remaining = From(group) /\ Remaining' = From(group + 1)
    BY <2>2 DEF Remaining
  <2>8. Remaining = Batch[group] \o Remaining' /\ Remaining' \in Seq(Indices)
    <3>1. From(group) = Batch[group] \o From(group + 1)
      BY <2>4, FromParts
    <3>2. group + 1 \in 1..Len(Batch) + 1
      BY <2>4, BatchParts
    <3>3. From(group + 1) \in Items
      BY <3>2, FromParts
    <3>4. QED
      BY <2>7, <3>1, <3>3 DEF Items
  <2>9. /\ Len(Remaining) = Len(Batch[group]) + Len(Remaining')
        /\ ToSet(Remaining) = ToSet(Batch[group]) \cup ToSet(Remaining')
        /\ Len(Remaining') \in Nat
    BY <1>4, <1>5, <2>5, <2>8
  <2>10. Len(errors') = Len(errors) + Len(out) /\ ToSet(errors') = ToSet(errors) \cup ToSet(out)
    BY <1>2, <1>4, <1>5, <2>1, <2>6 DEF out
  <2>11. candidates' = new
    BY <2>1 DEF new
  <2>12. Len(out) \in Nat /\ Len(new) \in Nat
    BY <1>5, <2>6
  <2>13. Size' = Size
    <3>1. PICK o, n, t : o = Len(out) /\ n = Len(new) /\ t = Len(Remaining')
      OBVIOUS
    <3>2. o \in Nat /\ n \in Nat /\ t \in Nat
      BY <2>9, <2>12, <3>1
    <3>3. n8 = (o + n) + t /\ n7 = 0
      BY <1>3, <1>22, <2>3, <2>6, <2>9, <3>1
    <3>4. Size' = (n1 + o) + n2 + n3 + n4 + n5 + n6 + n + t
      BY <1>3, <1>6, <1>7, <1>22, <2>2, <2>3, <2>10, <2>11, <3>1 DEF Size
    <3>6. (n1 + o) + n2 + n3 + n4 + n5 + n6 + n + t = n1 + n2 + n3 + n4 + n5 + n6 + n7 + n8
      BY <3>2, <3>3
    <3>5. QED
      BY <1>23, <3>4, <3>6, Zenon
  <2>14. Everywhere' = Everywhere
    BY <1>3, <1>6, <1>7, <2>2, <2>3, <2>6, <2>9, <2>10, <2>11 DEF Everywhere
  <2>15. QED
    BY <2>13, <2>14 DEF Account
<1>11. CASE StageChunk \/ FailChunk
  <2> DEFINE new == Take(candidates, ChunkImages)
  <2>1. /\ candidates' = Skip(candidates, ChunkImages) /\ step = "chunk" /\ step' = "scope"
        /\ UNCHANGED <<group, planned, prepared, encoder, commands, results>>
    BY <1>11 DEF StageChunk, FailChunk
  <2>2. /\ Len(candidates) = Len(new) + Len(candidates')
        /\ ToSet(candidates) = ToSet(new) \cup ToSet(candidates')
        /\ new \in Seq(Indices) /\ candidates' \in Seq(Indices)
    <3>1. PICK m \in Nat : m = ChunkImages
      BY BatchAssumption
    <3>2. /\ Len(candidates) = Len(Take(candidates, m)) + Len(Skip(candidates, m))
          /\ ToSet(candidates) = ToSet(Take(candidates, m)) \cup ToSet(Skip(candidates, m))
          /\ Take(candidates, m) \in Seq(Indices) /\ Skip(candidates, m) \in Seq(Indices)
      BY <1>2, TakeSkip
    <3>3. QED
      BY <2>1, <3>1, <3>2
  <2>3. Len(new) \in Nat /\ Len(candidates') \in Nat
    BY <1>5, <2>2
  <2>4. staged = Nothing /\ Remaining' = Remaining
    BY <1>8, <2>1 DEF Stages
  <2>5. CASE StageChunk
    <3>1. staged'.items = new /\ pending' = pending
      BY <2>5 DEF StageChunk
    <3> HIDE DEF new
    <3>2. Size' = Size
      <4>1. PICK o, t : o = Len(new) /\ t = Len(candidates')
        OBVIOUS
      <4>2. o \in Nat /\ t \in Nat
        BY <2>3, <4>1
      <4>3. n7 = o + t /\ n6 = 0
        BY <1>3, <1>22, <2>2, <2>4, <4>1
      <4>4. Size' = n1 + n2 + n3 + n4 + n5 + o + t + n8
        BY <1>6, <1>7, <1>22, <2>1, <2>4, <3>1, <4>1 DEF Size
      <4>5. n1 + n2 + n3 + n4 + n5 + o + t + n8 = n1 + n2 + n3 + n4 + n5 + n6 + n7 + n8
        BY <4>2, <4>3
      <4>6. QED
        BY <1>23, <4>4, <4>5, Zenon
    <3>3. Everywhere' = Everywhere
      BY <1>3, <1>6, <1>7, <2>1, <2>2, <2>4, <3>1 DEF Everywhere
    <3>4. QED
      BY <3>2, <3>3 DEF Account
  <2>6. CASE FailChunk
    <3>1. /\ pending' = [pending EXCEPT !.indices = pending.indices \o new, !.failed = TRUE]
          /\ staged' = staged
      BY <2>6 DEF FailChunk, Unstaged
    <3>2. pending \in Pendings(DOMAIN commands)
      BY DEF Types
    <3> HIDE DEF new
    <3>3. pending'.indices = pending.indices \o new
      BY <3>1, <3>2 DEF Pendings
    <3>4. /\ Len(pending'.indices) = Len(pending.indices) + Len(new)
          /\ ToSet(pending'.indices) = ToSet(pending.indices) \cup ToSet(new)
      BY <1>2, <1>4, <2>2, <3>3
    <3>5. Size' = Size
      <4>1. PICK o, t : o = Len(new) /\ t = Len(candidates')
        OBVIOUS
      <4>2. o \in Nat /\ t \in Nat
        BY <2>3, <4>1
      <4>3. n7 = o + t
        BY <1>22, <2>2, <4>1
      <4>4. Size' = n1 + n2 + n3 + (n4 + o) + n5 + n6 + t + n8
        BY <1>6, <1>7, <1>22, <2>1, <2>4, <3>1, <3>4, <4>1 DEF Size
      <4>5. n1 + n2 + n3 + (n4 + o) + n5 + n6 + t + n8 = n1 + n2 + n3 + n4 + n5 + n6 + n7 + n8
        BY <4>2, <4>3
      <4>6. QED
        BY <1>23, <4>4, <4>5, Zenon
    <3>6. Everywhere' = Everywhere
      BY <1>6, <1>7, <2>1, <2>2, <2>4, <3>1, <3>4 DEF Everywhere
    <3>7. QED
      BY <3>5, <3>6 DEF Account
  <2>7. QED
    BY <1>11, <2>5, <2>6
<1>12. CASE DrainChunks \/ DecodeEntropy \/ BeginSubmit \/ CommitCommand \/ FailEncoding
  <2>1. /\ UNCHANGED <<group, errors, groups, groupErrors, candidates, pending, prepared, staged>>
        /\ step \in {"chunk", "scope", "encode"} /\ step' \in {"chunk", "scope", "encode"}
    BY <1>12 DEF DrainChunks, DecodeEntropy, BeginSubmit, CommitCommand, FailEncoding
  <2>2. QED
    BY <1>8, <1>9, <2>1
<1>13. CASE RecordOnly \/ EndSubmit
  <2>1. /\ UNCHANGED <<group, errors, groups, groupErrors, candidates, staged>>
        /\ step \in {"chunk", "scope", "encode"} /\ step' \in {"chunk", "scope", "encode"}
        /\ prepared' = Nothing
    BY <1>13 DEF RecordOnly, EndSubmit
  <2>2. pending'.indices = pending.indices \o prepared.items
    <3>1. CASE RecordOnly
      <4>1. pending' = [pending EXCEPT !.indices = pending.indices \o prepared.items]
        BY <3>1 DEF RecordOnly
      <4>2. pending \in Pendings(DOMAIN commands)
        BY DEF Types
      <4>3. QED
        BY <4>1, <4>2 DEF Pendings
    <3>2. CASE EndSubmit
      BY <3>2 DEF EndSubmit
    <3>3. QED
      BY <1>13, <3>1, <3>2
  <2>3. /\ Len(pending'.indices) = Len(pending.indices) + Len(prepared.items)
        /\ ToSet(pending'.indices) = ToSet(pending.indices) \cup ToSet(prepared.items)
    BY <1>2, <1>4, <2>2
  <2>4. Remaining' = Remaining
    BY <1>8, <2>1
  <2>5. Size' = Size
    <3>1. Size' = n1 + n2 + n3 + (n4 + n5) + 0 + n6 + n7 + n8
      BY <1>3, <1>6, <1>7, <1>22, <2>1, <2>3, <2>4 DEF Size
    <3>2. QED
      BY <1>23, <3>1
  <2>6. Everywhere' = Everywhere
    BY <1>3, <1>6, <1>7, <2>1, <2>3, <2>4 DEF Everywhere
  <2>7. QED
    BY <2>5, <2>6 DEF Account
<1>14. CASE JoinScope
  <2>1. /\ step = "scope" /\ step' = "chunk" /\ prepared.buffer = "none"
        /\ staged.buffer # "none" => planned.buffer # "none"
        /\ errors' = errors \o Keep(staged.items, ToSet(staged.items) \ ToSet(planned.items))
        /\ prepared' = planned /\ staged' = Nothing
        /\ UNCHANGED <<group, candidates, pending, groups, groupErrors>>
    BY <1>14 DEF JoinScope, DecodeErrors
  <2>2. prepared = Nothing
    BY <2>1 DEF Stages
  <2> DEFINE out == Keep(staged.items, ToSet(staged.items) \ ToSet(planned.items))
  <2>3. /\ Len(staged.items) = Len(planned.items) + Len(out)
        /\ ToSet(staged.items) = ToSet(planned.items) \cup ToSet(out)
    <3>1. PICK S \in SUBSET ToSet(staged.items) : planned.items = Keep(staged.items, S)
      <4>1. CASE staged.buffer = "none"
        <5>1. staged.items = <<>> /\ planned.items = <<>>
          BY <1>3, <4>1 DEF Stages
        <5>2. Len(staged.items) = Len(Keep(staged.items, {})) + Len(Keep(staged.items, ToSet(staged.items) \ {}))
          BY <1>2, KeepSplit
        <5>3. Keep(staged.items, {}) \in Seq(Indices) /\ Keep(staged.items, ToSet(staged.items) \ {}) \in Seq(Indices)
          BY <1>2, KeepType
        <5>4. Keep(staged.items, {}) = <<>>
          <6>1. Len(Keep(staged.items, {})) = 0
            BY <1>3, <1>5, <5>1, <5>2, <5>3
          <6>2. QED
            BY <5>3, <6>1
        <5>5. QED
          BY <5>1, <5>4
      <4>2. CASE staged.buffer # "none"
        BY <2>1, <4>2 DEF Stages
      <4>3. QED
        BY <4>1, <4>2
    <3>2. /\ Len(staged.items) = Len(Keep(staged.items, S)) + Len(Keep(staged.items, ToSet(staged.items) \ S))
          /\ ToSet(staged.items) = ToSet(Keep(staged.items, S)) \cup ToSet(Keep(staged.items, ToSet(staged.items) \ S))
          /\ ToSet(Keep(staged.items, S)) = ToSet(staged.items) \cap S
      BY <1>2, KeepSplit
    <3>3. ToSet(planned.items) = S
      BY <3>1, <3>2
    <3>4. QED
      BY <3>1, <3>2, <3>3
  <2>4. out \in Seq(Indices)
    BY <1>2, KeepType
  <2> HIDE DEF out
  <2>5. Len(errors') = Len(errors) + Len(out) /\ ToSet(errors') = ToSet(errors) \cup ToSet(out) /\ Len(out) \in Nat
    BY <1>2, <1>4, <1>5, <2>1, <2>4 DEF out
  <2>6. Remaining' = Remaining
    BY <1>8, <2>1
  <2>7. Len(planned.items) \in Nat
    BY TypesFacts DEF Items
  <2>8. Size' = Size
    <3>1. PICK o, t : o = Len(out) /\ t = Len(planned.items)
      OBVIOUS
    <3>2. o \in Nat /\ t \in Nat
      BY <2>5, <2>7, <3>1
    <3>3. n6 = t + o /\ n5 = 0
      BY <1>3, <1>22, <2>2, <2>3, <3>1
    <3>4. Size' = (n1 + o) + n2 + n3 + n4 + t + 0 + n7 + n8
      BY <1>3, <1>6, <1>7, <1>22, <2>1, <2>5, <2>6, <3>1 DEF Size
    <3>5. (n1 + o) + n2 + n3 + n4 + t + 0 + n7 + n8 = n1 + n2 + n3 + n4 + n5 + n6 + n7 + n8
      BY <3>2, <3>3
    <3>6. QED
      BY <1>23, <3>4, <3>5, Zenon
  <2>9. Everywhere' = Everywhere
    BY <1>3, <1>6, <1>7, <2>1, <2>2, <2>3, <2>5, <2>6 DEF Everywhere
  <2>10. QED
    BY <2>8, <2>9 DEF Account
<1>15. CASE FinishGroup
  <2>1. /\ step = "chunk" /\ step' = "group" /\ group' = group + 1 /\ pending' = NoPending
        /\ UNCHANGED <<candidates, staged, planned, prepared, errors>>
    BY <1>15 DEF FinishGroup
  <2>2. Remaining' = Remaining
    BY <2>1 DEF Remaining
  <2>3. CASE pending.failed
    <3>1. groupErrors' = Append(groupErrors, pending.indices) /\ groups' = groups
      BY <1>15, <2>3 DEF FinishGroup
    <3>2. groupErrors \in Seq(Seq(Indices))
      BY DEF Types, Items
    <3>3. ErrorImages' = ErrorImages \o pending.indices
      BY <1>2, <3>1, <3>2, FlattenAppend DEF ErrorImages
    <3>4. /\ Len(ErrorImages') = Len(ErrorImages) + Len(pending.indices)
          /\ ToSet(ErrorImages') = ToSet(ErrorImages) \cup ToSet(pending.indices)
      BY <1>2, <1>4, <3>3
    <3>5. Size' = Size
      <4>1. Size' = n1 + n2 + (n3 + n4) + 0 + n5 + n6 + n7 + n8
        BY <1>3, <1>6, <1>22, <2>1, <2>2, <3>1, <3>4 DEF Size
      <4>2. QED
        BY <1>23, <4>1
    <3>6. Everywhere' = Everywhere
      BY <1>3, <1>6, <2>1, <2>2, <3>1, <3>4 DEF Everywhere
    <3>7. QED
      BY <3>5, <3>6 DEF Account
  <2>4. CASE ~pending.failed /\ pending.indices = <<>>
    <3>1. UNCHANGED <<groups, groupErrors>>
      BY <1>15, <2>4 DEF FinishGroup
    <3>2. QED
      BY <1>3, <1>9, <2>1, <2>2, <2>4, <3>1
  <2>5. CASE ~pending.failed /\ pending.indices # <<>>
    <3> DEFINE one == [indices |-> pending.indices, submissions |-> pending.submissions, images |-> <<>>]
    <3>1. groups' = Append(groups, one) /\ groupErrors' = groupErrors
      BY <1>15, <2>5 DEF FinishGroup
    <3>2. one \in Submitted(DOMAIN commands) /\ one.indices = pending.indices
      <4>1. pending.indices \in Items /\ pending.submissions \in Seq(Seq(DOMAIN commands)) /\ <<>> \in Items
        BY TypesFacts DEF Items
      <4>2. QED
        BY <4>1 DEF Submitted
    <3> HIDE DEF one
    <3>3. groups \in Seq(Submitted(DOMAIN commands))
      BY DEF Types
    <3>4. GroupImages' = GroupImages \o pending.indices
      BY <3>1, <3>2, <3>3, IndicesOfAppend DEF GroupImages
    <3>5. /\ Len(GroupImages') = Len(GroupImages) + Len(pending.indices)
          /\ ToSet(GroupImages') = ToSet(GroupImages) \cup ToSet(pending.indices)
      BY <1>2, <1>4, <3>4
    <3>6. Size' = Size
      <4>1. Size' = n1 + (n2 + n4) + n3 + 0 + n5 + n6 + n7 + n8
        BY <1>3, <1>7, <1>22, <2>1, <2>2, <3>1, <3>5 DEF Size
      <4>2. QED
        BY <1>23, <4>1
    <3>7. Everywhere' = Everywhere
      BY <1>3, <1>7, <2>1, <2>2, <3>1, <3>5 DEF Everywhere
    <3>8. QED
      BY <3>6, <3>7 DEF Account
  <2>6. QED
    BY <2>3, <2>4, <2>5
<1>16. CASE ReturnBatch
  <2>1. /\ step = "group" /\ step' = "submitted" /\ errors' = Sorted(errors)
        /\ UNCHANGED <<group, candidates, staged, prepared, pending, groups, groupErrors>>
    BY <1>16 DEF ReturnBatch
  <2>2. Everyone \in SUBSET Nat
    BY BatchParts
  <2>3. Len(errors') = Len(errors) /\ ToSet(errors') = ToSet(errors)
    BY <1>2, <2>1, <2>2, SortedSame
  <2>4. Remaining' = Remaining
    BY <2>1 DEF Remaining
  <2>5. Size' = Size
    BY <1>6, <1>7, <2>1, <2>3, <2>4 DEF Size
  <2>6. Everywhere' = Everywhere
    BY <1>6, <1>7, <2>1, <2>3, <2>4 DEF Everywhere
  <2>7. QED
    BY <2>5, <2>6 DEF Account
<1>17. ASSUME NEW c \in DOMAIN commands, CompleteCommand(c)
       PROVE  Account'
  <2>1. UNCHANGED <<group, step, candidates, staged, prepared, pending, errors, groups, groupErrors>>
    BY <1>17 DEF CompleteCommand
  <2>2. QED
    BY <1>8, <1>9, <2>1
<1>18. CASE WaitGroup
  <2>1. PICK g \in DOMAIN groups :
          /\ \/ /\ groups' = [groups EXCEPT ![g] =
                      [indices |-> groups[g].indices, submissions |-> <<>>,
                       images  |-> Carried(commands, FlattenSeq(groups[g].submissions))]]
                /\ UNCHANGED groupErrors
             \/ /\ groups' = RemoveAt(groups, g)
                /\ groupErrors' = Append(groupErrors, groups[g].indices)
          /\ step \in {"submitted", "waiting"} /\ step' = "waiting"
          /\ UNCHANGED <<group, chunks, encoder, pending, commands, errors>>
    BY <1>18, WaitGroupFacts
  <2>2. Remaining' = Remaining
    BY <2>1 DEF Remaining
  <2>3. CASE UNCHANGED groupErrors /\ groups' = [groups EXCEPT ![g] =
                      [indices |-> groups[g].indices, submissions |-> <<>>,
                       images  |-> Carried(commands, FlattenSeq(groups[g].submissions))]]
    <3> DEFINE one == [indices |-> groups[g].indices, submissions |-> <<>>,
                       images  |-> Carried(commands, FlattenSeq(groups[g].submissions))]
    <3>1. one.indices = groups[g].indices /\ groups' = [groups EXCEPT ![g] = one]
      BY <2>3
    <3> HIDE DEF one
    <3>2. GroupImages' = GroupImages
      BY <3>1, IndicesOfSame DEF GroupImages
    <3>3. Size' = Size
      BY <1>7, <2>1, <2>2, <2>3, <3>2 DEF Size
    <3>4. Everywhere' = Everywhere
      BY <1>7, <2>1, <2>2, <2>3, <3>2 DEF Everywhere
    <3>5. QED
      BY <3>3, <3>4 DEF Account
  <2>4. CASE groups' = RemoveAt(groups, g) /\ groupErrors' = Append(groupErrors, groups[g].indices)
    <3>1. /\ groups \in Seq(Submitted(DOMAIN commands)) /\ groupErrors \in Seq(Seq(Indices))
          /\ g \in 1..Len(groups) /\ groups[g].indices \in Seq(Indices)
      BY TypesFacts DEF Types, Items
    <3> DEFINE all == IndicesOf(groups)
    <3>2. all \in Seq(Seq(Indices)) /\ Len(all) = Len(groups) /\ all[g] = groups[g].indices
      BY <3>1, IndicesOfFacts DEF Items
    <3>3. IndicesOf(groups') = RemoveAt(all, g)
      BY <2>4, <3>1, IndicesOfRemoved
    <3> HIDE DEF all
    <3>4. /\ FlattenSeq(RemoveAt(all, g)) \in Seq(Indices)
          /\ Len(FlattenSeq(all)) = Len(FlattenSeq(RemoveAt(all, g))) + Len(all[g])
          /\ ToSet(FlattenSeq(all)) = ToSet(FlattenSeq(RemoveAt(all, g))) \cup ToSet(all[g])
      BY <3>1, <3>2, FlattenRemoved
    <3>5. GroupImages = FlattenSeq(all) /\ GroupImages' = FlattenSeq(RemoveAt(all, g))
      BY <3>3 DEF GroupImages, all
    <3>6. ErrorImages' = ErrorImages \o groups[g].indices
      BY <2>4, <3>1, FlattenAppend DEF ErrorImages
    <3>7. /\ Len(ErrorImages') = Len(ErrorImages) + Len(groups[g].indices)
          /\ ToSet(ErrorImages') = ToSet(ErrorImages) \cup ToSet(groups[g].indices)
      BY <1>2, <1>4, <3>1, <3>6
    <3>8. Len(groups[g].indices) \in Nat /\ Len(GroupImages') \in Nat
      BY <1>5, <3>1, <3>4, <3>5
    <3>9. Size' = Size
      <4>1. PICK o, t : o = Len(groups[g].indices) /\ t = Len(GroupImages')
        OBVIOUS
      <4>2. o \in Nat /\ t \in Nat
        BY <3>8, <4>1
      <4>3. n2 = t + o
        BY <1>22, <3>2, <3>4, <3>5, <4>1
      <4>4. Size' = n1 + t + (n3 + o) + n4 + n5 + n6 + n7 + n8
        BY <1>22, <2>1, <2>2, <3>7, <4>1 DEF Size
      <4>5. n1 + t + (n3 + o) + n4 + n5 + n6 + n7 + n8 = n1 + n2 + n3 + n4 + n5 + n6 + n7 + n8
        BY <4>2, <4>3
      <4>6. QED
        BY <1>23, <4>4, <4>5, Zenon
    <3>10. Everywhere' = Everywhere
      BY <2>1, <2>2, <3>2, <3>4, <3>5, <3>7 DEF Everywhere
    <3>11. QED
      BY <3>9, <3>10 DEF Account
  <2>5. QED
    BY <2>1, <2>3, <2>4
<1>19. CASE ReturnResult \/ DropBatch
  <2>1. /\ UNCHANGED <<group, candidates, staged, prepared, pending, errors, groups, groupErrors>>
        /\ step \in {"submitted", "waiting"} /\ step' \in {"returned", "dropped"}
    BY <1>19 DEF ReturnResult, DropBatch
  <2>2. Remaining' = Remaining
    BY <2>1 DEF Remaining
  <2>3. QED
    BY <1>9, <2>1, <2>2
<1>20. CASE UNCHANGED vars
  BY <1>8, <1>9, <1>20
<1>21. QED
  BY <1>10, <1>11, <1>12, <1>13, <1>14, <1>15, <1>16, <1>17, <1>18, <1>19, <1>20, NextCases

-----------------------------------------------------------------------------
(***************************************************************************)
(* Leases.                                                                 *)
(***************************************************************************)
\* A command is leased by the encoding under way, by what the group at hand
\* submitted, or by a group.
LEMMA LeasedParts ==
  /\ \A c : c \in Leased <=>
       \/ c \in ToSet(encoder.encoded) \/ c \in ToSet(encoder.submitted)
       \/ c \in CommandsOf(pending.submissions)
       \/ \E g \in DOMAIN groups : c \in CommandsOf(groups[g].submissions)
  /\ \A c : c \in Leased' <=>
       \/ c \in ToSet(encoder'.encoded) \/ c \in ToSet(encoder'.submitted)
       \/ c \in CommandsOf(pending'.submissions)
       \/ \E g \in DOMAIN groups' : c \in CommandsOf(groups'[g].submissions)
<1>1. \A c : c \in Leased <=>
        \/ c \in ToSet(encoder.encoded) \/ c \in ToSet(encoder.submitted)
        \/ c \in CommandsOf(pending.submissions)
        \/ \E g \in DOMAIN groups : c \in CommandsOf(groups[g].submissions)
  BY Zenon DEF Leased
<1>2. \A c : c \in Leased' <=>
        \/ c \in ToSet(encoder'.encoded) \/ c \in ToSet(encoder'.submitted)
        \/ c \in CommandsOf(pending'.submissions)
        \/ \E g \in DOMAIN groups' : c \in CommandsOf(groups'[g].submissions)
  BY Zenon DEF Leased
<1>3. QED
  BY <1>1, <1>2

\* What submissions lease.
LEMMA CommandsOfFacts ==
  /\ CommandsOf(<<>>) = {}
  /\ \A K : \A s \in Seq(Seq(K)) :
       /\ CommandsOf(s) \subseteq K
       /\ \A x \in Seq(K) : CommandsOf(Append(s, x)) = CommandsOf(s) \cup ToSet(x)
<1>1. CommandsOf(<<>>) = {}
  BY FlattenEmpty DEF CommandsOf, ToSet
<1>2. ASSUME NEW K, NEW s \in Seq(Seq(K))
      PROVE  CommandsOf(s) \subseteq K
  <2>1. FlattenSeq(s) \in Seq(K)
    BY <1>2, FlattenType
  <2>2. \A q \in Seq(K) : ToSet(q) \subseteq K
    BY DEF ToSet
  <2>3. QED
    BY <2>1, <2>2 DEF CommandsOf
<1>3. ASSUME NEW K, NEW s \in Seq(Seq(K)), NEW x \in Seq(K)
      PROVE  CommandsOf(Append(s, x)) = CommandsOf(s) \cup ToSet(x)
  <2>1. FlattenSeq(Append(s, x)) = FlattenSeq(s) \o x /\ FlattenSeq(s) \in Seq(K)
    BY <1>3, FlattenAppend, FlattenType
  <2>2. \A q, r \in Seq(K) : ToSet(q \o r) = ToSet(q) \cup ToSet(r)
    BY ConcatSet
  <2>3. QED
    BY <1>3, <2>1, <2>2 DEF CommandsOf
<1>4. QED
  BY <1>1, <1>2, <1>3

\* A command keeps its staging and, once complete, stays so; a new one reads the
\* chunk at hand.
LEMMA CommandsStep ==
  ASSUME Types, [Next]_vars
  PROVE  /\ \A c \in DOMAIN commands :
              /\ c \in DOMAIN commands'
              /\ commands'[c].buffer = commands[c].buffer
              /\ commands'[c].state = "running" => commands[c].state = "running"
         /\ \A c \in DOMAIN commands' \ DOMAIN commands :
              CommitCommand /\ c = Len(commands) + 1 /\ commands'[c].buffer = prepared.buffer
<1>1. commands \in Seq(Commands)
  BY DEF Types
<1>2. CASE UNCHANGED commands
  BY <1>2
<1>3. CASE CommitCommand
  <2> DEFINE one == [images |-> NextCommand, buffer |-> prepared.buffer, state |-> "running"]
  <2>1. commands' = Append(commands, one) /\ one.buffer = prepared.buffer
    BY <1>3 DEF CommitCommand
  <2> HIDE DEF one
  <2>2. /\ Len(commands) \in Nat /\ DOMAIN commands = 1..Len(commands)
        /\ DOMAIN Append(commands, one) = 1..Len(commands) + 1
        /\ \A c \in 1..Len(commands) : Append(commands, one)[c] = commands[c]
        /\ Append(commands, one)[Len(commands) + 1] = one
    BY <1>1
  <2>3. \A c \in (1..Len(commands) + 1) \ (1..Len(commands)) : c = Len(commands) + 1
    BY <2>2
  <2>4. \A c \in 1..Len(commands) : c \in 1..Len(commands) + 1
    BY <2>2
  <2>5. QED
    BY <1>3, <2>1, <2>2, <2>3, <2>4
<1>4. ASSUME NEW d \in DOMAIN commands, CompleteCommand(d)
      PROVE  /\ \A c \in DOMAIN commands :
                  /\ c \in DOMAIN commands'
                  /\ commands'[c].buffer = commands[c].buffer
                  /\ commands'[c].state = "running" => commands[c].state = "running"
             /\ DOMAIN commands' = DOMAIN commands
  <2>1. PICK s \in {"ok", "bad"} : commands' = [commands EXCEPT ![d].state = s]
    BY <1>4 DEF CompleteCommand
  <2>2. commands[d] \in Commands
    BY <1>1
  <2>3. [commands[d] EXCEPT !.state = s].buffer = commands[d].buffer /\ [commands[d] EXCEPT !.state = s].state = s
    BY <2>2 DEF Commands
  <2>4. DOMAIN commands' = DOMAIN commands /\ commands'[d] = [commands[d] EXCEPT !.state = s]
        /\ \A c \in DOMAIN commands \ {d} : commands'[c] = commands[c]
    BY <1>1, <2>1
  <2>5. QED
    BY <2>3, <2>4
<1>5. QED
  BY <1>2, <1>3, <1>4, NextCases
     DEF vars, chunks, results, CountCandidates, StageChunk, FailChunk, DrainChunks, DecodeEntropy,
         RecordOnly, BeginSubmit, FailEncoding, EndSubmit, JoinScope, FinishGroup, ReturnBatch,
         WaitGroup, ReturnResult, DropBatch
\* A command that is committed is leased by the encoding under way, or, when its
\* range is complete, by the submissions made of it.
LEMMA CommitLeases ==
  ASSUME Types, CommitCommand
  PROVE  ToSet(encoder'.encoded) \cup ToSet(encoder'.submitted)
           = ToSet(encoder.encoded) \cup ToSet(encoder.submitted) \cup {Len(commands) + 1}
<1> DEFINE rest == Skip(encoder.todo, Len(NextCommand))
           left == encoder.range - Len(NextCommand)
           one  == Len(commands) + 1
           all  == Append(encoder.encoded, one)
<1>1. /\ encoder.encoded \in Seq(DOMAIN commands) /\ encoder.submitted \in Seq(DOMAIN commands)
      /\ encoder \in Encoders(DOMAIN commands)
  BY TypesFacts DEF Types
<1>2. ToSet(<<>>) = {}
  BY DEF ToSet
<1>3. encoder' = IF rest = <<>> \/ left = 0
                 THEN [encoder EXCEPT !.todo = rest, !.range = ScratchImages,
                                      !.encoded = <<>>, !.submitted = encoder.submitted \o all]
                 ELSE [encoder EXCEPT !.todo = rest, !.range = left, !.encoded = all]
  BY DEF CommitCommand
<1>4. ToSet(all) = ToSet(encoder.encoded) \cup {one} /\ ToSet(encoder.submitted \o all) = ToSet(encoder.submitted) \cup ToSet(all)
  <2> DEFINE K == DOMAIN commands \cup {one}
  <2>1. encoder.encoded \in Seq(K) /\ encoder.submitted \in Seq(K) /\ one \in K
    BY <1>1
  <2> HIDE DEF K, one
  <2>2. PICK a, b : a = encoder.encoded /\ b = encoder.submitted
    OBVIOUS
  <2>3. ToSet(Append(a, one)) = ToSet(a) \cup {one} /\ Append(a, one) \in Seq(K)
    BY <2>1, <2>2, AppendSet
  <2>4. ToSet(b \o Append(a, one)) = ToSet(b) \cup ToSet(Append(a, one))
    BY <2>1, <2>2, <2>3, ConcatSet
  <2>5. QED
    BY <2>2, <2>3, <2>4
<1> HIDE DEF rest, left, all, one
<1>5. ToSet(encoder'.encoded) \cup ToSet(encoder'.submitted)
        = ToSet(encoder.encoded) \cup ToSet(encoder.submitted) \cup {one}
  <2>1. CASE rest = <<>> \/ left = 0
    <3>1. encoder'.encoded = <<>> /\ encoder'.submitted = encoder.submitted \o all
      BY <1>1, <1>3, <2>1 DEF Encoders
    <3>2. QED
      BY <1>2, <1>4, <3>1
  <2>2. CASE ~ (rest = <<>> \/ left = 0)
    <3>1. encoder'.encoded = all /\ encoder'.submitted = encoder.submitted
      BY <1>1, <1>3, <2>2 DEF Encoders
    <3>2. QED
      BY <1>4, <3>1
  <2>3. QED
    BY <2>1, <2>2
<1>6. QED
  BY <1>5 DEF one

\* A step drops the lease of a command only when the command is complete.
LEMMA LeasesKept ==
  ASSUME Types, Stages, Encoding, Resides, "encode_later" \notin Faults, [Next]_vars, NEW c \in Leased
  PROVE  c \in Leased' \/ Completed(c)
<1> USE DEF vars, chunks, results
<1>1. /\ encoder.encoded \in Seq(DOMAIN commands) /\ encoder.submitted \in Seq(DOMAIN commands)
      /\ pending.submissions \in Seq(Seq(DOMAIN commands))
      /\ encoder \in Encoders(DOMAIN commands) /\ pending \in Pendings(DOMAIN commands)
  BY TypesFacts DEF Types
<1>2. /\ NoEncoder.encoded = <<>> /\ NoEncoder.submitted = <<>> /\ NoPending.submissions = <<>>
      /\ ToSet(<<>>) = {} /\ CommandsOf(<<>>) = {}
  BY CommandsOfFacts DEF NoEncoder, NoPending, ToSet
<1>3. \/ c \in ToSet(encoder.encoded) \/ c \in ToSet(encoder.submitted)
      \/ c \in CommandsOf(pending.submissions)
      \/ \E g \in DOMAIN groups : c \in CommandsOf(groups[g].submissions)
  BY LeasedParts
<1>4. ASSUME UNCHANGED <<encoder, groups>>, pending'.submissions = pending.submissions
      PROVE  c \in Leased'
  BY <1>3, <1>4, LeasedParts
<1>5. CASE CountCandidates
  <2>1. pending = NoPending /\ pending' = NoPending /\ UNCHANGED <<encoder, groups>>
    BY <1>5 DEF CountCandidates, Stages
  <2>2. QED
    BY <1>4, <2>1
<1>6. CASE FailChunk \/ RecordOnly
  <2>1. UNCHANGED <<encoder, groups>> /\ \E q, b : \/ pending' = [pending EXCEPT !.indices = q, !.failed = b]
                                                   \/ pending' = [pending EXCEPT !.indices = q]
    BY <1>6 DEF FailChunk, RecordOnly
  <2>2. pending'.submissions = pending.submissions
    BY <1>1, <2>1 DEF Pendings
  <2>3. QED
    BY <1>4, <2>1, <2>2
<1>7. CASE BeginSubmit
  <2>1. encoder = NoEncoder /\ UNCHANGED <<pending, groups>>
    BY <1>7 DEF BeginSubmit, Stages
  <2>2. QED
    BY <1>2, <1>3, <2>1, LeasedParts
<1>8. CASE CommitCommand
  <2>1. UNCHANGED <<pending, groups>>
    BY <1>8 DEF CommitCommand
  <2>2. QED
    BY <1>3, <1>8, <2>1, CommitLeases, LeasedParts
<1>9. CASE FailEncoding
  <2>1. encoder' = [encoder EXCEPT !.encoded = <<>>, !.failed = TRUE] /\ UNCHANGED <<pending, groups>>
    BY <1>9 DEF FailEncoding
  <2>2. encoder.encoded = <<>>
    BY <1>9 DEF FailEncoding
  <2>3. encoder'.encoded = encoder.encoded /\ encoder'.submitted = encoder.submitted
    BY <1>1, <2>1, <2>2 DEF Encoders
  <2>4. QED
    BY <1>3, <2>1, <2>3, LeasedParts
<1>10. CASE EndSubmit
  <2>1. /\ step = "encode" /\ UNCHANGED groups
        /\ \/ encoder.todo = <<>>
           \/ encoder.failed /\ \A d \in ToSet(encoder.submitted) : Completed(d)
        /\ pending'.submissions = IF encoder.failed THEN pending.submissions
                                  ELSE Append(pending.submissions, encoder.submitted)
    BY <1>10 DEF EndSubmit
  <2>2. encoder.encoded = <<>>
    BY <2>1 DEF Encoding
  <2>3. CASE encoder.failed
    <3>1. \A d \in ToSet(encoder.submitted) : Completed(d)
      BY <2>1, <2>3 DEF Encoding
    <3>2. QED
      BY <1>2, <1>3, <2>1, <2>2, <2>3, <3>1, LeasedParts
  <2>4. CASE ~encoder.failed
    <3>1. PICK a, b, K : a = encoder.submitted /\ b = pending.submissions /\ K = DOMAIN commands
      OBVIOUS
    <3>2. CommandsOf(Append(b, a)) = CommandsOf(b) \cup ToSet(a)
      BY <1>1, <3>1, CommandsOfFacts
    <3>3. CommandsOf(pending'.submissions) = CommandsOf(pending.submissions) \cup ToSet(encoder.submitted)
      BY <2>1, <2>4, <3>1, <3>2
    <3>4. QED
      BY <1>2, <1>3, <2>1, <2>2, <3>3, LeasedParts
  <2>5. QED
    BY <2>3, <2>4
<1>11. CASE FinishGroup
  <2>1. step = "chunk" /\ pending' = NoPending /\ UNCHANGED encoder
    BY <1>11 DEF FinishGroup
  <2>2. CASE c \notin CommandsOf(pending.submissions)
    <3>1. \A g \in DOMAIN groups : g \in DOMAIN groups' /\ groups'[g] = groups[g]
      <4>1. groups' = groups \/ \E r : groups' = Append(groups, r)
        BY <1>11 DEF FinishGroup
      <4>2. DOMAIN groups = 1..Len(groups) /\ Len(groups) \in Nat
        BY TypesFacts
      <4>3. \A r : /\ DOMAIN Append(groups, r) = 1..Len(groups) + 1
                   /\ \A g \in 1..Len(groups) : Append(groups, r)[g] = groups[g]
        <5>1. groups \in Seq(Submitted(DOMAIN commands))
          BY DEF Types
        <5>2. PICK all, R : all = groups /\ R = Submitted(DOMAIN commands)
          OBVIOUS
        <5>3. all \in Seq(R)
          BY <5>1, <5>2
        <5>4. \A r : /\ DOMAIN Append(all, r) = 1..Len(all) + 1
                     /\ \A g \in 1..Len(all) : Append(all, r)[g] = all[g]
          BY <5>3
        <5>5. QED
          BY <5>2, <5>4
      <4>4. QED
        BY <4>1, <4>2, <4>3
    <3>2. QED
      BY <1>3, <2>1, <2>2, <3>1, LeasedParts
  <2>3. CASE c \in CommandsOf(pending.submissions)
    <3>1. CASE pending.failed
      BY <1>11, <2>3, <3>1 DEF FinishGroup
    <3>2. CASE ~pending.failed /\ pending.indices = <<>>
      <4>1. FlattenSeq(pending.submissions) \in Seq(DOMAIN commands)
        BY <1>1, FlattenType
      <4>2. Carried(commands, FlattenSeq(pending.submissions)) = <<>>
        BY <3>2 DEF Resides
      <4>3. FlattenSeq(pending.submissions) = <<>>
        BY <4>1, <4>2, CarriedType DEF Types
      <4>4. QED
        BY <1>2, <2>3, <4>3 DEF CommandsOf
    <3>3. CASE ~pending.failed /\ pending.indices # <<>>
      <4> DEFINE one == [indices |-> pending.indices, submissions |-> pending.submissions, images |-> <<>>]
      <4>1. groups' = Append(groups, one) /\ one.submissions = pending.submissions
        BY <1>11, <3>3 DEF FinishGroup
      <4> HIDE DEF one
      <4>2. Len(groups) + 1 \in DOMAIN groups' /\ groups'[Len(groups) + 1] = one
        <5>1. PICK all, R : all = groups /\ R = Submitted(DOMAIN commands)
          OBVIOUS
        <5>2. all \in Seq(R)
          BY <5>1 DEF Types
        <5>3. Len(all) + 1 \in DOMAIN Append(all, one) /\ Append(all, one)[Len(all) + 1] = one
          BY <5>2
        <5>4. QED
          BY <4>1, <5>1, <5>3
      <4>3. QED
        BY <2>3, <4>1, <4>2, LeasedParts
    <3>4. QED
      BY <3>1, <3>2, <3>3
  <2>4. QED
    BY <2>2, <2>3
<1>12. CASE WaitGroup
  <2>1. PICK g \in DOMAIN groups :
          /\ \A d \in CommandsOf(groups[g].submissions) : Completed(d)
          /\ \/ groups' = [groups EXCEPT ![g] =
                  [indices |-> groups[g].indices, submissions |-> <<>>,
                   images  |-> Carried(commands, FlattenSeq(groups[g].submissions))]]
             \/ groups' = RemoveAt(groups, g)
          /\ UNCHANGED <<encoder, pending>>
    BY <1>12, WaitGroupFacts
  <2>2. CASE ~ \E h \in DOMAIN groups \ {g} : c \in CommandsOf(groups[h].submissions)
    BY <1>3, <2>1, <2>2, LeasedParts
  <2>3. ASSUME NEW h \in DOMAIN groups \ {g}, c \in CommandsOf(groups[h].submissions)
        PROVE  c \in Leased'
    <3>1. CASE groups' # RemoveAt(groups, g)
      <4>1. h \in DOMAIN groups' /\ groups'[h] = groups[h]
        BY <2>1, <2>3, <3>1
      <4>2. QED
        BY <2>3, <4>1, LeasedParts
    <3>2. CASE groups' = RemoveAt(groups, g)
      <4>1. PICK all, R : all = groups /\ R = Submitted(DOMAIN commands)
        OBVIOUS
      <4>2. all \in Seq(R) /\ Len(all) \in Nat /\ g \in 1..Len(all) /\ h \in 1..Len(all) /\ h # g
        BY <2>3, <4>1, TypesFacts DEF Types
      <4>3. /\ RemoveAt(all, g) \in Seq(R) /\ Len(RemoveAt(all, g)) = Len(all) - 1
            /\ \A i \in 1..Len(all) - 1 : RemoveAt(all, g)[i] = IF i < g THEN all[i] ELSE all[i + 1]
        BY <4>2, Removed
      <4>4. DOMAIN RemoveAt(all, g) = 1..Len(all) - 1
        BY <4>3
      <4>5. PICK i \in 1..Len(all) - 1 : RemoveAt(all, g)[i] = all[h]
        <5>1. CASE h < g
          <6>1. h \in 1..Len(all) - 1
            BY <4>2, <5>1
          <6>2. QED
            BY <4>3, <5>1, <6>1
        <5>2. CASE h > g
          <6>1. h - 1 \in 1..Len(all) - 1 /\ ~ (h - 1 < g) /\ (h - 1) + 1 = h
            BY <4>2, <5>2
          <6>2. QED
            BY <4>3, <6>1
        <5>3. QED
          BY <4>2, <5>1, <5>2
      <4>6. i \in DOMAIN groups' /\ groups'[i] = groups[h]
        BY <3>2, <4>1, <4>4, <4>5
      <4>7. QED
        BY <2>3, <4>6, LeasedParts
    <3>3. QED
      BY <3>1, <3>2
  <2>4. QED
    BY <2>2, <2>3
<1>13. ASSUME NEW d, CompleteCommand(d)
       PROVE  c \in Leased'
  BY <1>4, <1>13 DEF CompleteCommand
<1>14. CASE StageChunk \/ DrainChunks \/ DecodeEntropy \/ JoinScope \/ ReturnBatch \/ ReturnResult \/ DropBatch
  <2>1. UNCHANGED <<encoder, pending, groups>>
    BY <1>14 DEF StageChunk, DrainChunks, DecodeEntropy, JoinScope, ReturnBatch, ReturnResult, DropBatch
  <2>2. QED
    BY <1>4, <2>1
<1>15. CASE UNCHANGED vars
  BY <1>4, <1>15
<1>16. QED
  BY <1>5, <1>6, <1>7, <1>8, <1>9, <1>10, <1>11, <1>12, <1>13, <1>14, <1>15, NextCases
\* At first nothing is leased and nothing runs.
LEMMA InitLeasing == Init => Leasing
  BY DEF Init, Leasing, Nothing

\* Unless an encoding can fail after others of its range were committed, a running
\* command keeps its lease, entropy is decoded only into an allocation no command
\* on the GPU reads, and a result that is returned or dropped leaves none behind.
LEMMA LeasingStep ==
  ASSUME Types, Stages, Encoding, Resides, Leasing, "encode_later" \notin Faults, [Next]_vars
  PROVE  Leasing'
<1> USE DEF vars, chunks, results
<1> DEFINE Leased1 == \A c \in DOMAIN commands : commands[c].state = "running" => c \in Leased
           Apart   == staged.buffer # "none" =>
                        /\ \A c \in DOMAIN commands : commands[c].buffer = staged.buffer => Completed(c)
                        /\ prepared.items # <<>> => prepared.buffer # staged.buffer
           Quiet   == step \in {"returned", "dropped"} => \A c \in DOMAIN commands : Completed(c)
<1>1. Leased1 /\ Apart /\ Quiet
  BY DEF Leasing
<1>2. /\ \A c \in DOMAIN commands :
           /\ c \in DOMAIN commands'
           /\ commands'[c].buffer = commands[c].buffer
           /\ commands'[c].state = "running" => commands[c].state = "running"
      /\ \A c \in DOMAIN commands' \ DOMAIN commands :
           CommitCommand /\ c = Len(commands) + 1 /\ commands'[c].buffer = prepared.buffer
  BY CommandsStep
<1>3. \A c : (Completed(c) <=> commands[c].state # "running") /\ (Completed(c)' <=> commands'[c].state # "running")
  BY DEF Completed
<1>4. Leased1'
  <2>1. SUFFICES ASSUME NEW c \in DOMAIN commands', commands'[c].state = "running"
                 PROVE  c \in Leased'
    OBVIOUS
  <2>2. CASE c \in DOMAIN commands
    <3>1. commands[c].state = "running" /\ c \in Leased
      BY <1>1, <1>2, <2>1, <2>2
    <3>2. c \in Leased' \/ Completed(c)
      BY <3>1, LeasesKept
    <3>3. QED
      BY <1>3, <3>1, <3>2
  <2>3. CASE c \notin DOMAIN commands
    <3>1. CommitCommand /\ c = Len(commands) + 1
      BY <1>2, <2>1, <2>3
    <3>2. c \in ToSet(encoder'.encoded) \cup ToSet(encoder'.submitted)
      BY <3>1, CommitLeases
    <3>3. QED
      BY <3>2, LeasedParts
  <2>4. QED
    BY <2>2, <2>3
<1>5. Apart'
  <2>1. CASE StageChunk
    <3>1. PICK b \in Buffers : ~Referenced(b) /\ staged' = [items |-> Take(candidates, ChunkImages), buffer |-> b]
      BY <2>1 DEF StageChunk
    <3>2. staged'.buffer = b /\ UNCHANGED <<prepared, commands>>
      BY <2>1, <3>1 DEF StageChunk
    <3>3. prepared.items # <<>> => prepared.buffer # b
      BY <3>1 DEF Referenced
    <3>4. \A c \in Leased : commands[c].buffer # b
      BY <3>1 DEF Referenced
    <3>5. QED
      BY <1>1, <1>3, <3>2, <3>3, <3>4
  <2>2. CASE staged' = Nothing
    BY <2>2 DEF Nothing
  <2>3. CASE CommitCommand
    <3>1. step = "encode" /\ UNCHANGED <<staged, prepared>>
      BY <2>3 DEF CommitCommand
    <3>2. prepared.items # <<>>
      BY <3>1 DEF Stages
    <3>3. QED
      BY <1>1, <1>2, <1>3, <3>1, <3>2
  <2>4. ASSUME staged' = staged, prepared' = prepared \/ prepared' = Nothing,
               \A c \in DOMAIN commands' : c \in DOMAIN commands
        PROVE  Apart'
    <3>1. Nothing.items = <<>>
      BY DEF Nothing
    <3>2. QED
      BY <1>1, <1>2, <1>3, <2>4, <3>1
  <2>5. ASSUME NEW c, CompleteCommand(c)
        PROVE  staged' = staged /\ prepared' = prepared /\ \A d \in DOMAIN commands' : d \in DOMAIN commands
    <3>1. ~CommitCommand
      BY <2>5 DEF CompleteCommand, CommitCommand
    <3>2. QED
      BY <1>2, <2>5, <3>1 DEF CompleteCommand
  <2>6. QED
    BY <2>1, <2>2, <2>3, <2>4, <2>5, NextCases
       DEF CountCandidates, FailChunk, DrainChunks, DecodeEntropy, RecordOnly, BeginSubmit,
           FailEncoding, EndSubmit, JoinScope, FinishGroup, ReturnBatch, WaitGroup, ReturnResult, DropBatch
<1>6. Quiet'
  <2>1. CASE ReturnResult \/ DropBatch
    <3>1. /\ step \in {"submitted", "waiting"} /\ UNCHANGED commands
          /\ \A g \in DOMAIN groups : \A c \in CommandsOf(groups[g].submissions) : Completed(c)
      <4>1. CASE ReturnResult
        <5>1. \A g \in DOMAIN groups : groups[g].submissions = <<>>
          BY <4>1 DEF ReturnResult, Waiting
        <5>2. QED
          BY <4>1, <5>1, CommandsOfFacts DEF ReturnResult
      <4>2. CASE DropBatch
        BY <4>2 DEF DropBatch
      <4>3. QED
        BY <2>1, <4>1, <4>2
    <3>2. encoder = NoEncoder /\ pending = NoPending
      BY <3>1 DEF Stages
    <3>3. ToSet(encoder.encoded) = {} /\ ToSet(encoder.submitted) = {} /\ CommandsOf(pending.submissions) = {}
      BY <3>2, CommandsOfFacts DEF NoEncoder, NoPending, ToSet
    <3>4. \A c \in Leased : Completed(c)
      BY <3>1, <3>3, LeasedParts
    <3>5. QED
      BY <1>1, <1>3, <3>1, <3>4
  <2>2. ASSUME step' = step, commands' = commands
        PROVE  Quiet'
    BY <1>1, <1>3, <2>2
  <2>3. ASSUME step' \notin {"returned", "dropped"}
        PROVE  Quiet'
    BY <2>3
  <2>4. ASSUME NEW c \in DOMAIN commands, CompleteCommand(c)
        PROVE  Quiet'
    <3>1. step' = step /\ commands[c].state = "running"
      BY <2>4 DEF CompleteCommand
    <3>2. QED
      BY <1>1, <1>3, <3>1
  <2>5. QED
    BY <2>1, <2>2, <2>3, <2>4, NextCases
       DEF CountCandidates, StageChunk, FailChunk, DrainChunks, DecodeEntropy, RecordOnly, BeginSubmit,
           CommitCommand, FailEncoding, EndSubmit, JoinScope, FinishGroup, ReturnBatch, WaitGroup
<1>7. QED
  BY <1>4, <1>5, <1>6 DEF Leasing
-----------------------------------------------------------------------------
(***************************************************************************)
(* The properties.                                                         *)
(***************************************************************************)
\* Every step of submit_prepared, wait and the device keeps the invariant.
LEMMA Invariance == Spec => []IInv
<1>1. Init => IInv
  BY InitTypes, InitStages, InitEncoding, InitAccount DEF IInv
<1>2. IInv /\ [Next]_vars => IInv'
  BY TypesStep, StagesStep, EncodingStep, ResidesStep, AccountStep DEF IInv
<1>3. QED
  BY <1>1, <1>2, PTL DEF Spec

\* And, with it, the leases.
LEMMA LeasingInvariance ==
  ASSUME "encode_later" \notin Faults
  PROVE  Spec => []Leasing
<1>1. Init => Leasing
  BY InitLeasing
<1>2. IInv /\ Leasing /\ [Next]_vars => Leasing'
  BY LeasingStep DEF IInv
<1>3. QED
  BY <1>1, <1>2, Invariance, PTL DEF Spec

\* The state of the pipeline is well typed, and leases name committed commands.
THEOREM Typing == Spec => []TypeOK
<1>1. IInv => TypeOK
  <2>1. SUFFICES ASSUME IInv
                 PROVE  TypeOK
    OBVIOUS
  <2>2. Types
    BY <2>1 DEF IInv
  <2>3. \A c \in DOMAIN commands :
          /\ commands[c].images \in Seq(Indices) \ {<<>>}
          /\ commands[c].buffer \in Buffers
          /\ commands[c].state \in {"running", "ok", "bad"}
    BY <2>2, TypesFacts DEF Commands, Items
  <2>4. Leased \subseteq DOMAIN commands
    <3>1. SUFFICES ASSUME NEW c \in Leased
                   PROVE  c \in DOMAIN commands
      OBVIOUS
    <3>2. \A q \in Seq(DOMAIN commands) : ToSet(q) \subseteq DOMAIN commands
      BY DEF ToSet
    <3>3. \A s \in Seq(Seq(DOMAIN commands)) : CommandsOf(s) \subseteq DOMAIN commands
      BY CommandsOfFacts
    <3>4. /\ encoder.encoded \in Seq(DOMAIN commands) /\ encoder.submitted \in Seq(DOMAIN commands)
          /\ pending.submissions \in Seq(Seq(DOMAIN commands))
          /\ \A g \in DOMAIN groups : groups[g].submissions \in Seq(Seq(DOMAIN commands))
      BY <2>2, TypesFacts
    <3>5. QED
      BY <3>1, <3>2, <3>3, <3>4, LeasedParts
  <2>5. pending.indices \in Seq(Indices)
    BY <2>2, TypesFacts DEF Items
  <2>6. QED
    BY <2>2, <2>3, <2>4, <2>5 DEF TypeOK, Types, Steps, Items
<1>2. QED
  BY <1>1, Invariance, PTL

\* Unless an encoding can fail after others of its range were committed, the pool
\* never decodes entropy into an allocation that a command on the GPU may read.
THEOREM StagingApart ==
  ASSUME "encode_later" \notin Faults
  PROVE  Spec => []StagingUnshared
<1>1. Leasing => StagingUnshared
  BY DEF Leasing, StagingUnshared
<1>2. QED
  BY <1>1, LeasingInvariance, PTL

\* Under the same condition a result that was returned or dropped leaves no command
\* running, although wait and drop know only the submissions of the groups.
THEOREM Quiescence ==
  ASSUME "encode_later" \notin Faults
  PROVE  Spec => []NothingRunsOn
<1>1. Leasing => NothingRunsOn
  BY DEF Leasing, NothingRunsOn
<1>2. QED
  BY <1>1, LeasingInvariance, PTL

\* Three sequences repeat nothing and share nothing, with one another or with R.
Parted(a, b, c, R) ==
  /\ IsInjective(a \o b \o c)
  /\ ToSet(a \o b \o c) = ToSet(a) \cup ToSet(b) \cup ToSet(c)
  /\ ToSet(a) \cap ToSet(b) = {} /\ (ToSet(a) \cup ToSet(b)) \cap ToSet(c) = {}
  /\ (ToSet(a) \cup ToSet(b) \cup ToSet(c)) \cap R = {}

\* Parts that rearrange an injective sequence share nothing and repeat nothing.
LEMMA PartsApart ==
  ASSUME NEW S, NEW a \in Seq(S), NEW b \in Seq(S), NEW c \in Seq(S), NEW d \in Seq(S),
         NEW e \in Seq(S), NEW f \in Seq(S), NEW g \in Seq(S), NEW h \in Seq(S), NEW t \in Seq(S),
         IsInjective(t),
         Len(a) + Len(b) + Len(c) + Len(d) + Len(e) + Len(f) + Len(g) + Len(h) = Len(t),
         ToSet(a) \cup ToSet(b) \cup ToSet(c) \cup ToSet(d) \cup ToSet(e) \cup ToSet(f) \cup ToSet(g)
           \cup ToSet(h) = ToSet(t)
  PROVE  Parted(a, b, c, ToSet(d) \cup ToSet(e) \cup ToSet(f) \cup ToSet(g) \cup ToSet(h))
<1>1. \A q, r \in Seq(S) : /\ q \o r \in Seq(S) /\ Len(q \o r) = Len(q) + Len(r)
                           /\ ToSet(q \o r) = ToSet(q) \cup ToSet(r)
                           /\ IsInjective(q \o r) => IsInjective(q) /\ ToSet(q) \cap ToSet(r) = {}
  <2>1. \A q, r \in Seq(S) : Len(q \o r) = Len(q) + Len(r)
    BY ConcatProperties
  <2>2. QED
    BY <2>1, ConcatSet
<1>2. PICK s3 : s3 = a \o b \o c
  OBVIOUS
<1>3. PICK s2 : s2 = a \o b
  OBVIOUS
<1>4. PICK s4 : s4 = s3 \o d
  OBVIOUS
<1>5. PICK s5 : s5 = s4 \o e
  OBVIOUS
<1>6. PICK s6 : s6 = s5 \o f
  OBVIOUS
<1>7. PICK s7 : s7 = s6 \o g
  OBVIOUS
<1>8. PICK s8 : s8 = s7 \o h
  OBVIOUS
<1>9. s3 = s2 \o c
  BY <1>2, <1>3
<1>10. s2 \in Seq(S) /\ Len(s2) = Len(a) + Len(b) /\ ToSet(s2) = ToSet(a) \cup ToSet(b)
  BY <1>1, <1>3
<1>11. s3 \in Seq(S) /\ Len(s3) = Len(s2) + Len(c) /\ ToSet(s3) = ToSet(s2) \cup ToSet(c)
  BY <1>1, <1>9, <1>10
<1>12. s4 \in Seq(S) /\ Len(s4) = Len(s3) + Len(d) /\ ToSet(s4) = ToSet(s3) \cup ToSet(d)
  BY <1>1, <1>4, <1>11
<1>13. s5 \in Seq(S) /\ Len(s5) = Len(s4) + Len(e) /\ ToSet(s5) = ToSet(s4) \cup ToSet(e)
  BY <1>1, <1>5, <1>12
<1>14. s6 \in Seq(S) /\ Len(s6) = Len(s5) + Len(f) /\ ToSet(s6) = ToSet(s5) \cup ToSet(f)
  BY <1>1, <1>6, <1>13
<1>15. s7 \in Seq(S) /\ Len(s7) = Len(s6) + Len(g) /\ ToSet(s7) = ToSet(s6) \cup ToSet(g)
  BY <1>1, <1>7, <1>14
<1>16. s8 \in Seq(S) /\ Len(s8) = Len(s7) + Len(h) /\ ToSet(s8) = ToSet(s7) \cup ToSet(h)
  BY <1>1, <1>8, <1>15
<1>17. Len(s8) = Len(a) + Len(b) + Len(c) + Len(d) + Len(e) + Len(f) + Len(g) + Len(h)
  BY <1>10, <1>11, <1>12, <1>13, <1>14, <1>15, <1>16, Zenon
<1>18. ToSet(s8) = ToSet(a) \cup ToSet(b) \cup ToSet(c) \cup ToSet(d) \cup ToSet(e) \cup ToSet(f)
                    \cup ToSet(g) \cup ToSet(h)
  BY <1>10, <1>11, <1>12, <1>13, <1>14, <1>15, <1>16, Zenon
<1>19. IsInjective(s8)
  <2>1. Len(s8) = Len(t) /\ ToSet(s8) = ToSet(t)
    BY <1>17, <1>18
  <2>2. QED
    BY <1>16, <2>1, Rearranged
<1>20. IsInjective(s7) /\ ToSet(s7) \cap ToSet(h) = {}
  BY <1>1, <1>8, <1>15, <1>19
<1>21. IsInjective(s6) /\ ToSet(s6) \cap ToSet(g) = {}
  BY <1>1, <1>7, <1>14, <1>20
<1>22. IsInjective(s5) /\ ToSet(s5) \cap ToSet(f) = {}
  BY <1>1, <1>6, <1>13, <1>21
<1>23. IsInjective(s4) /\ ToSet(s4) \cap ToSet(e) = {}
  BY <1>1, <1>5, <1>12, <1>22
<1>24. IsInjective(s3) /\ ToSet(s3) \cap ToSet(d) = {}
  BY <1>1, <1>4, <1>11, <1>23
<1>25. IsInjective(s2) /\ ToSet(s2) \cap ToSet(c) = {}
  BY <1>1, <1>9, <1>10, <1>24
<1>26. ToSet(a) \cap ToSet(b) = {}
  BY <1>1, <1>3, <1>25
<1>27. ToSet(s3) \cap (ToSet(d) \cup ToSet(e) \cup ToSet(f) \cup ToSet(g) \cup ToSet(h)) = {}
  BY <1>12, <1>13, <1>14, <1>15, <1>20, <1>21, <1>22, <1>23, <1>24
<1>28. QED
  BY <1>2, <1>10, <1>11, <1>24, <1>25, <1>26, <1>27 DEF Parted

\* No image is in two places, and each is in one.
LEMMA Apart ==
  ASSUME IInv
  PROVE  LET E == ToSet(errors)
             G == ToSet(GroupImages)
             X == ToSet(ErrorImages)
             W == ToSet(pending.indices) \cup ToSet(prepared.items) \cup ToSet(staged.items)
                    \cup ToSet(candidates) \cup ToSet(Remaining)
         IN  /\ IsInjective(errors \o GroupImages \o ErrorImages)
             /\ ToSet(errors \o GroupImages \o ErrorImages) = E \cup G \cup X
             /\ E \cap G = {} /\ (E \cup G) \cap X = {} /\ (E \cup G \cup X) \cap W = {}
             /\ E \cup G \cup X \cup W = Everyone
<1>1. Types /\ Stages /\ Account
  BY DEF IInv
<1>2. \A q \in Items : q \in Seq(Everyone)
  <2>1. Indices \subseteq Everyone
    BY DEF Everyone
  <2>2. QED
    BY <2>1 DEF Items
<1>3. /\ errors \in Seq(Everyone) /\ GroupImages \in Seq(Everyone) /\ ErrorImages \in Seq(Everyone)
      /\ pending.indices \in Seq(Everyone) /\ prepared.items \in Seq(Everyone)
      /\ staged.items \in Seq(Everyone) /\ candidates \in Seq(Everyone) /\ Remaining \in Seq(Everyone)
  BY <1>1, <1>2, PartsTypes
<1>4. /\ Origin \in Seq(Everyone) /\ IsInjective(Origin) /\ ToSet(Origin) = Everyone
  BY OriginFacts
<1>5. PICK a, b, c, d, e, f, g, h : /\ a = errors /\ b = GroupImages /\ c = ErrorImages
                                    /\ d = pending.indices /\ e = prepared.items
                                    /\ f = staged.items /\ g = candidates /\ h = Remaining
  OBVIOUS
<1>6. /\ a \in Seq(Everyone) /\ b \in Seq(Everyone) /\ c \in Seq(Everyone) /\ d \in Seq(Everyone)
      /\ e \in Seq(Everyone) /\ f \in Seq(Everyone) /\ g \in Seq(Everyone) /\ h \in Seq(Everyone)
  BY <1>3, <1>5
<1>7. Len(a) + Len(b) + Len(c) + Len(d) + Len(e) + Len(f) + Len(g) + Len(h) = Len(Origin)
  BY <1>1, <1>5, Zenon DEF Account, Size
<1>8. ToSet(a) \cup ToSet(b) \cup ToSet(c) \cup ToSet(d) \cup ToSet(e) \cup ToSet(f) \cup ToSet(g)
        \cup ToSet(h) = ToSet(Origin)
  BY <1>1, <1>5, Zenon DEF Account, Everywhere
<1>9. Parted(a, b, c, ToSet(d) \cup ToSet(e) \cup ToSet(f) \cup ToSet(g) \cup ToSet(h))
  BY <1>4, <1>6, <1>7, <1>8, PartsApart, Zenon
<1>10. QED
  BY <1>4, <1>5, <1>8, <1>9 DEF Parted

\* Whatever failed before, no image is in two results or twice in one, every image
\* is in one when the batch is submitted and when it is returned, and those of a
\* completed group reside in the order of its indices.
THEOREM Accounting == Spec => []EveryImageAccounted
<1>1. IInv => EveryImageAccounted
  <2>1. SUFFICES ASSUME IInv
                 PROVE  EveryImageAccounted
    OBVIOUS
  <2>2. Types /\ Stages /\ Resides /\ Account
    BY <2>1 DEF IInv
  <2>3. Accounted = errors \o GroupImages \o ErrorImages
    BY Zenon DEF Accounted, GroupImages, ErrorImages, IndicesOf
  <2>4. /\ IsInjective(Accounted)
        /\ ToSet(Accounted) = ToSet(errors) \cup ToSet(GroupImages) \cup ToSet(ErrorImages)
    BY <2>1, <2>3, Apart
  <2>5. ResidentOrder
    BY <2>2 DEF Resides, Holds, ResidentOrder
  <2>6. ASSUME step \in {"submitted", "returned"}
        PROVE  ToSet(Accounted) = Indices \cup ToSet(PreparedErrors)
    <3>1. /\ candidates = <<>> /\ prepared.items = <<>> /\ pending.indices = <<>> /\ staged.items = <<>>
          /\ group > Len(Batch)
      BY <2>2, <2>6 DEF Stages, LastSteps, Nothing, NoPending
    <3>2. group = Len(Batch) + 1
      BY <2>2, <3>1, BatchParts DEF Types
    <3>3. Remaining = <<>>
      BY <2>6, <3>2, FromParts DEF Remaining
    <3>4. ToSet(<<>>) = {}
      BY DEF ToSet
    <3>5. ToSet(errors) \cup ToSet(GroupImages) \cup ToSet(ErrorImages) = Everyone
      BY <2>2, <3>1, <3>3, <3>4, OriginFacts DEF Account, Everywhere
    <3>6. QED
      BY <2>4, <3>5 DEF Everyone
  <2>7. QED
    BY <2>4, <2>5, <2>6 DEF EveryImageAccounted
<1>2. QED
  BY <1>1, Invariance, PTL
-----------------------------------------------------------------------------
(***************************************************************************)
(* The groups that images belong to.                                       *)
(***************************************************************************)
\* An index is in one group.
LEMMA GroupOfFacts ==
  /\ DOMAIN GroupOf = Indices
  /\ \A b \in DOMAIN Batch : \A i \in ToSet(Batch[b]) : i \in Indices /\ GroupOf[i] = b
  /\ \A i \in Indices : GroupOf[i] \in DOMAIN Batch /\ i \in ToSet(Batch[GroupOf[i]])
<1>1. DOMAIN GroupOf = Indices /\ \A i \in Indices : GroupOf[i] = CHOOSE g \in DOMAIN Batch : i \in ToSet(Batch[g])
  BY DEF GroupOf
<1>2. \A i \in Indices : \E g \in DOMAIN Batch : i \in ToSet(Batch[g])
  BY Zenon DEF Indices
<1>3. \A i \in Indices : GroupOf[i] \in DOMAIN Batch /\ i \in ToSet(Batch[GroupOf[i]])
  BY <1>1, <1>2
<1>4. ASSUME NEW b \in DOMAIN Batch, NEW i \in ToSet(Batch[b])
      PROVE  i \in Indices /\ GroupOf[i] = b
  <2>1. i \in Indices
    BY <1>4 DEF Indices
  <2>2. \A g, h \in DOMAIN Batch : g # h => ToSet(Batch[g]) \cap ToSet(Batch[h]) = {}
    BY BatchAssumption
  <2>3. QED
    BY <1>3, <1>4, <2>1, <2>2
<1>5. QED
  BY <1>1, <1>3, <1>4

\* The groups to come have the images of those groups.
LEMMA FromHomes ==
  ASSUME NEW g \in 1..Len(Batch) + 1, NEW i \in ToSet(From(g))
  PROVE  i \in Indices /\ GroupOf[i] >= g
<1> DEFINE n == Len(Batch)
           u == SubSeq(Batch, g, n)
<1>1. n \in Nat /\ Batch \in Seq(Items) /\ DOMAIN Batch = 1..n
  BY BatchParts
<1>2. g - 1 \in 0..n /\ (g - 1) + 1 = g
  BY <1>1
<1>3. /\ u \in Seq(Items) /\ Len(u) = n - (g - 1)
      /\ \A k \in 1..n - (g - 1) : u[k] = Batch[(g - 1) + k]
  BY <1>1, <1>2, Split
<1> HIDE DEF u
<1>4. ToSet(FlattenSeq(u)) = UNION {ToSet(u[k]) : k \in DOMAIN u}
  BY <1>3, FlattenParts DEF Items
<1>5. PICK k \in DOMAIN u : i \in ToSet(u[k])
  BY <1>4 DEF From, u
<1>6. k \in 1..n - (g - 1)
  BY <1>3, <1>5
<1>7. (g - 1) + k \in 1..n /\ (g - 1) + k >= g
  BY <1>1, <1>2, <1>6
<1>8. i \in ToSet(Batch[(g - 1) + k])
  BY <1>3, <1>5, <1>6
<1>9. i \in Indices /\ GroupOf[i] = (g - 1) + k
  BY <1>1, <1>7, <1>8, GroupOfFacts
<1>10. QED
  BY <1>7, <1>9

\* At first there are no images to place.
LEMMA InitHomes == Init => Homes
<1>1. ToSet(<<>>) = {} /\ Nothing.items = <<>> /\ NoPending.indices = <<>>
  BY DEF ToSet, Nothing, NoPending
<1>2. QED
  BY <1>1 DEF Init, Homes

\* The images of a group stay together, and no other group gets any of them.
LEMMA HomesStep ==
  ASSUME Types, Stages, Homes, [Next]_vars
  PROVE  Homes'
<1> USE DEF vars, chunks, results
<1> DEFINE Here  == ToSet(candidates) \cup ToSet(staged.items) \cup ToSet(prepared.items) \cup ToSet(pending.indices)
           Local == \A i \in Here : GroupOf[i] = group
           Each  == /\ \A g, h \in DOMAIN groups : \A i \in ToSet(groups[g].indices), j \in ToSet(groups[h].indices) :
                         GroupOf[i] = GroupOf[j] <=> g = h
                    /\ \A g \in DOMAIN groups :
                         /\ \A i \in ToSet(groups[g].indices) : GroupOf[i] < group
                         /\ groups[g].submissions # <<>> => groups[g].images = <<>>
<1>1. Local /\ Each
  BY DEF Homes
<1>2. /\ ToSet(<<>>) = {} /\ Nothing.items = <<>> /\ NoPending.indices = <<>>
      /\ \A q, r \in Items : ToSet(q \o r) = ToSet(q) \cup ToSet(r)
  <2>1. \A q, r \in Seq(Indices) : ToSet(q \o r) = ToSet(q) \cup ToSet(r)
    BY ConcatSet
  <2>2. ToSet(<<>>) = {} /\ Nothing.items = <<>> /\ NoPending.indices = <<>>
    BY DEF ToSet, Nothing, NoPending
  <2>3. QED
    BY <2>1, <2>2 DEF Items
<1>3. /\ candidates \in Items /\ staged.items \in Items /\ planned.items \in Items /\ prepared.items \in Items
      /\ pending.indices \in Items /\ pending \in Pendings(DOMAIN commands)
      /\ DOMAIN groups = 1..Len(groups) /\ Len(groups) \in Nat /\ group \in Nat
  BY TypesFacts DEF Types
<1>16. \A g \in DOMAIN groups : \A i \in ToSet(groups[g].indices) : GroupOf[i] \in Nat
  <2>1. \A q \in Items : ToSet(q) \subseteq Indices
    BY DEF Items, ToSet
  <2>2. \A g \in DOMAIN groups : groups[g].indices \in Items
    BY TypesFacts
  <2>3. \A i \in Indices : GroupOf[i] \in Nat
    BY BatchParts, GroupOfFacts
  <2>4. QED
    BY <2>1, <2>2, <2>3
<1>4. ASSUME group' = group, Here' \subseteq Here
      PROVE  Local'
  BY <1>1, <1>4
<1>5. ASSUME group' = group, groups' = groups
      PROVE  Each'
  BY <1>1, <1>5
<1>6. CASE CountCandidates
  <2>1. PICK S : candidates' = Keep(Batch[group], S)
    BY <1>6 DEF CountCandidates
  <2>2. /\ step = "group" /\ group <= Len(Batch) /\ pending' = NoPending /\ UNCHANGED <<group, staged, prepared, groups>>
    BY <1>6 DEF CountCandidates
  <2>3. staged = Nothing /\ prepared = Nothing
    BY <2>2 DEF Stages
  <2>4. group \in DOMAIN Batch
    BY <2>2, BatchParts DEF Types
  <2>5. ToSet(candidates') \subseteq ToSet(Batch[group])
    <3>1. PICK all : all = Batch[group]
      OBVIOUS
    <3>2. all \in Seq(Indices)
      BY <2>4, <3>1, BatchParts DEF Items
    <3>3. ToSet(Keep(all, S)) = ToSet(all) \cap S
      BY <3>2, KeepRest
    <3>4. QED
      BY <2>1, <3>1, <3>3
  <2>6. \A i \in ToSet(Batch[group]) : GroupOf[i] = group
    BY <2>4, GroupOfFacts
  <2>7. Local'
    BY <1>2, <2>2, <2>3, <2>5, <2>6
  <2>8. QED
    BY <1>5, <2>2, <2>7 DEF Homes
<1>7. CASE StageChunk \/ FailChunk
  <2> DEFINE new == Take(candidates, ChunkImages)
  <2>1. /\ candidates' = Skip(candidates, ChunkImages) /\ step = "chunk" /\ UNCHANGED <<group, prepared, groups>>
    BY <1>7 DEF StageChunk, FailChunk
  <2>2. ToSet(candidates) = ToSet(new) \cup ToSet(candidates') /\ new \in Items
    <3>1. PICK m \in Nat : m = ChunkImages
      BY BatchAssumption
    <3>2. /\ ToSet(candidates) = ToSet(Take(candidates, m)) \cup ToSet(Skip(candidates, m))
          /\ Take(candidates, m) \in Seq(Indices)
      BY <1>3, TakeSkip DEF Items
    <3>3. QED
      BY <2>1, <3>1, <3>2 DEF Items
  <2>3. \/ staged'.items = new /\ pending' = pending
        \/ staged' = staged /\ pending' = [pending EXCEPT !.indices = pending.indices \o new, !.failed = TRUE]
    BY <1>7 DEF StageChunk, FailChunk, Unstaged
  <2> HIDE DEF new
  <2>4. \/ staged'.items = new /\ pending'.indices = pending.indices
        \/ staged' = staged /\ pending'.indices = pending.indices \o new
    BY <1>3, <2>3 DEF Pendings
  <2>5. Here' \subseteq Here
    <3>1. staged = Nothing
      BY <2>1 DEF Stages
    <3>2. CASE staged'.items = new /\ pending'.indices = pending.indices
      BY <2>1, <2>2, <3>2
    <3>3. CASE staged' = staged /\ pending'.indices = pending.indices \o new
      <4>1. ToSet(pending'.indices) = ToSet(pending.indices) \cup ToSet(new)
        BY <1>2, <1>3, <2>2, <3>3
      <4>2. QED
        BY <2>1, <2>2, <3>3, <4>1
    <3>4. QED
      BY <2>4, <3>2, <3>3
  <2>6. QED
    BY <1>4, <1>5, <2>1, <2>5 DEF Homes
<1>8. CASE RecordOnly \/ EndSubmit
  <2>1. UNCHANGED <<group, candidates, staged, groups>> /\ prepared' = Nothing
    BY <1>8 DEF RecordOnly, EndSubmit
  <2>2. pending'.indices = pending.indices \o prepared.items
    <3>1. CASE RecordOnly
      <4>1. pending' = [pending EXCEPT !.indices = pending.indices \o prepared.items]
        BY <3>1 DEF RecordOnly
      <4>2. QED
        BY <1>3, <4>1 DEF Pendings
    <3>2. CASE EndSubmit
      BY <3>2 DEF EndSubmit
    <3>3. QED
      BY <1>8, <3>1, <3>2
  <2>3. Here' \subseteq Here
    BY <1>2, <1>3, <2>1, <2>2
  <2>4. QED
    BY <1>4, <1>5, <2>1, <2>3 DEF Homes
<1>9. CASE JoinScope
  <2>1. /\ prepared' = planned /\ staged' = Nothing /\ UNCHANGED <<group, candidates, pending, groups>>
    BY <1>9 DEF JoinScope
  <2>2. ToSet(planned.items) \subseteq ToSet(staged.items)
    <3>1. CASE planned.buffer = "none"
      BY <1>2, <3>1 DEF Stages
    <3>2. CASE planned.buffer # "none"
      <4>1. PICK S : planned.items = Keep(staged.items, S)
        BY <3>2 DEF Stages
      <4>2. PICK all : all = staged.items
        OBVIOUS
      <4>3. all \in Seq(Indices)
        BY <1>3, <4>2 DEF Items
      <4>4. ToSet(Keep(all, S)) = ToSet(all) \cap S
        BY <4>3, KeepRest
      <4>5. QED
        BY <4>1, <4>2, <4>4
    <3>3. QED
      BY <3>1, <3>2
  <2>3. Here' \subseteq Here
    BY <1>2, <2>1, <2>2
  <2>4. QED
    BY <1>4, <1>5, <2>1, <2>3 DEF Homes
<1>10. CASE FinishGroup
  <2>1. /\ step' = "group" /\ group' = group + 1 /\ pending' = NoPending
        /\ step = "chunk" /\ candidates = <<>> /\ prepared.buffer = "none" /\ UNCHANGED chunks
    BY <1>10 DEF FinishGroup, MoreChunks
  <2>2. staged = Nothing /\ prepared = Nothing
    BY <2>1 DEF Stages
  <2>3. Local'
    BY <1>2, <2>1, <2>2
  <2>4. CASE groups' = groups
    <3>1. Each'
      <4>1. \A g \in DOMAIN groups : \A i \in ToSet(groups[g].indices) : GroupOf[i] < group'
        BY <1>1, <1>3, <1>16, <2>1
      <4>2. QED
        BY <1>1, <2>4, <4>1
    <3>2. QED
      BY <2>3, <3>1 DEF Homes
  <2>5. CASE groups' # groups
    <3> DEFINE one == [indices |-> pending.indices, submissions |-> pending.submissions, images |-> <<>>]
               n   == Len(groups) + 1
    <3>1. groups' = Append(groups, one) /\ one.indices = pending.indices /\ one.images = <<>>
      BY <1>10, <2>5 DEF FinishGroup
    <3> HIDE DEF one
    <3>2. /\ DOMAIN groups' = DOMAIN groups \cup {n} /\ n \notin DOMAIN groups /\ groups'[n] = one
          /\ \A g \in DOMAIN groups : groups'[g] = groups[g]
      <4>1. PICK all, R : all = groups /\ R = Submitted(DOMAIN commands)
        OBVIOUS
      <4>2. all \in Seq(R)
        BY <4>1 DEF Types
      <4>3. /\ DOMAIN Append(all, one) = DOMAIN all \cup {Len(all) + 1}
            /\ Len(all) + 1 \notin DOMAIN all /\ Append(all, one)[Len(all) + 1] = one
            /\ \A g \in DOMAIN all : Append(all, one)[g] = all[g]
        BY <4>2
      <4>4. QED
        BY <3>1, <4>1, <4>3
    <3> HIDE DEF n
    <3>3. \A i \in ToSet(one.indices) : GroupOf[i] = group
      BY <1>1, <3>1
    <3>4. \A g \in DOMAIN groups : \A i \in ToSet(groups[g].indices) : GroupOf[i] # group /\ GroupOf[i] < group'
      BY <1>1, <1>3, <1>16, <2>1
    <3>5. group < group'
      BY <1>3, <2>1
    <3>6. Each'
      BY <1>1, <3>1, <3>2, <3>3, <3>4, <3>5
    <3>7. QED
      BY <2>3, <3>6 DEF Homes
  <2>6. QED
    BY <2>4, <2>5
<1>11. CASE WaitGroup
  <2>1. PICK g \in DOMAIN groups :
          /\ \/ groups' = [groups EXCEPT ![g] =
                  [indices |-> groups[g].indices, submissions |-> <<>>,
                   images  |-> Carried(commands, FlattenSeq(groups[g].submissions))]]
             \/ groups' = RemoveAt(groups, g)
          /\ UNCHANGED <<group, chunks, pending>>
    BY <1>11, WaitGroupFacts
  <2>2. Local'
    BY <1>4, <2>1
  <2>3. CASE groups' = RemoveAt(groups, g)
    <3>1. PICK all, R : all = groups /\ R = Submitted(DOMAIN commands)
      OBVIOUS
    <3>2. all \in Seq(R) /\ Len(all) \in Nat /\ g \in 1..Len(all)
      BY <1>3, <2>1, <3>1 DEF Types
    <3>3. /\ RemoveAt(all, g) \in Seq(R) /\ Len(RemoveAt(all, g)) = Len(all) - 1
          /\ \A i \in 1..Len(all) - 1 : RemoveAt(all, g)[i] = IF i < g THEN all[i] ELSE all[i + 1]
      BY <3>2, Removed
    <3> DEFINE at(i) == IF i < g THEN i ELSE i + 1
    <3>4. DOMAIN RemoveAt(all, g) = 1..Len(all) - 1
      BY <3>3
    <3>5. \A i \in DOMAIN groups' : at(i) \in DOMAIN groups /\ groups'[i] = groups[at(i)]
      <4>1. \A i \in 1..Len(all) - 1 : i \in 1..Len(all) /\ i + 1 \in 1..Len(all)
        BY <3>2
      <4>2. QED
        BY <1>3, <2>3, <3>1, <3>3, <3>4, <4>1
    <3>6. \A i, j \in DOMAIN groups' : at(i) = at(j) <=> i = j
      <4>1. \A i, j \in 1..Len(all) - 1 : at(i) = at(j) <=> i = j
        BY <3>2
      <4>2. QED
        BY <2>3, <3>1, <3>4, <4>1
    <3> HIDE DEF at
    <3>7. Each'
      BY <1>1, <2>1, <3>5, <3>6
    <3>8. QED
      BY <2>2, <3>7 DEF Homes
  <2>4. CASE groups' # RemoveAt(groups, g)
    <3> DEFINE one == [indices |-> groups[g].indices, submissions |-> <<>>,
                       images  |-> Carried(commands, FlattenSeq(groups[g].submissions))]
    <3>1. groups' = [groups EXCEPT ![g] = one] /\ one.indices = groups[g].indices /\ one.submissions = <<>>
      BY <2>1, <2>4
    <3> HIDE DEF one
    <3>2. /\ DOMAIN groups' = DOMAIN groups /\ \A h \in DOMAIN groups : groups'[h].indices = groups[h].indices
          /\ \A h \in DOMAIN groups : groups'[h] = IF h = g THEN one ELSE groups[h]
      BY <3>1
    <3>3. Each'
      BY <1>1, <2>1, <3>1, <3>2
    <3>4. QED
      BY <2>2, <3>3 DEF Homes
  <2>5. QED
    BY <2>3, <2>4
<1>12. ASSUME NEW c, CompleteCommand(c)
       PROVE  Homes'
  <2>1. UNCHANGED <<group, chunks, pending, groups>>
    BY <1>12 DEF CompleteCommand
  <2>2. QED
    BY <1>4, <1>5, <2>1 DEF Homes
<1>13. CASE DrainChunks \/ DecodeEntropy \/ BeginSubmit \/ CommitCommand \/ FailEncoding \/ ReturnBatch
              \/ ReturnResult \/ DropBatch
  <2>1. UNCHANGED <<group, candidates, staged, prepared, pending, groups>>
    BY <1>13 DEF DrainChunks, DecodeEntropy, BeginSubmit, CommitCommand, FailEncoding, ReturnBatch,
                 ReturnResult, DropBatch
  <2>2. QED
    BY <1>4, <1>5, <2>1 DEF Homes
<1>14. CASE UNCHANGED vars
  BY <1>4, <1>5, <1>14 DEF Homes
<1>15. QED
  BY <1>6, <1>7, <1>8, <1>9, <1>10, <1>11, <1>12, <1>13, <1>14, NextCases

-----------------------------------------------------------------------------
(***************************************************************************)
(* The promise of every batch decoder.                                     *)
(***************************************************************************)
\* The images of the groups that wait has read, and the outcome that the images of
\* each result give.
Done == UNION {ToSet(groups[g].images) : g \in DOMAIN groups}
Out(E, X, G, D, i) ==
  IF i \in E THEN "error"
  ELSE IF i \in X THEN "group_error"
  ELSE IF i \in G THEN IF i \in D THEN "complete" ELSE "submitted"
  ELSE "pending"

\* An image is in one of several sequences when it is in their concatenation.
LEMMA FlatMember ==
  ASSUME NEW s \in Seq(Items), NEW i
  PROVE  (\E k \in DOMAIN s : i \in ToSet(s[k])) <=> i \in ToSet(FlattenSeq(s))
<1>1. ToSet(FlattenSeq(s)) = UNION {ToSet(s[k]) : k \in DOMAIN s}
  BY FlattenParts DEF Items
<1>2. QED
  BY <1>1

\* And in one of several groups when it is in the indices of all.
LEMMA GroupMember ==
  ASSUME NEW K, NEW gs \in Seq(Submitted(K)), NEW i
  PROVE  (\E g \in DOMAIN gs : i \in ToSet(gs[g].indices)) <=> i \in ToSet(FlattenSeq(IndicesOf(gs)))
<1>1. /\ IndicesOf(gs) \in Seq(Items) /\ Len(IndicesOf(gs)) = Len(gs)
      /\ \A g \in 1..Len(gs) : IndicesOf(gs)[g] = gs[g].indices
  BY IndicesOfFacts
<1>2. DOMAIN IndicesOf(gs) = DOMAIN gs /\ \A g \in DOMAIN gs : IndicesOf(gs)[g] = gs[g].indices
  BY DEF IndicesOf
<1>3. (\E k \in DOMAIN IndicesOf(gs) : i \in ToSet(IndicesOf(gs)[k])) <=> i \in ToSet(FlattenSeq(IndicesOf(gs)))
  BY <1>1, FlatMember
<1>4. QED
  BY <1>2, <1>3

\* Outcomes before and after a step, from the images of each result.
LEMMA OutcomeParts ==
  ASSUME Types, Types'
  PROVE  /\ \A i : Outcome(i) = Out(ToSet(errors), ToSet(ErrorImages), ToSet(GroupImages), Done, i)
         /\ \A i : Outcome(i)' = Out(ToSet(errors'), ToSet(ErrorImages'), ToSet(GroupImages'), Done', i)
<1>1. /\ groups \in Seq(Submitted(DOMAIN commands)) /\ groupErrors \in Seq(Items)
      /\ groups' \in Seq(Submitted(DOMAIN commands')) /\ groupErrors' \in Seq(Items)
  BY DEF Types
<1>2. \A i : /\ (\E k \in DOMAIN groupErrors : i \in ToSet(groupErrors[k])) <=> i \in ToSet(FlattenSeq(groupErrors))
             /\ (\E k \in DOMAIN groupErrors' : i \in ToSet(groupErrors'[k])) <=> i \in ToSet(FlattenSeq(groupErrors'))
  BY <1>1, FlatMember
<1>3. \A i : /\ (\E g \in DOMAIN groups : i \in ToSet(groups[g].indices)) <=> i \in ToSet(FlattenSeq(IndicesOf(groups)))
             /\ (\E g \in DOMAIN groups' : i \in ToSet(groups'[g].indices)) <=> i \in ToSet(FlattenSeq(IndicesOf(groups')))
  BY <1>1, GroupMember
<1>4. \A i : /\ (\E g \in DOMAIN groups : i \in ToSet(groups[g].images)) <=> i \in Done
             /\ (\E g \in DOMAIN groups' : i \in ToSet(groups'[g].images)) <=> i \in Done'
  BY DEF Done
<1>5. QED
  BY <1>2, <1>3, <1>4 DEF Outcome, Out, ErrorImages, GroupImages

\* Images that fail on their own, as BatchOutcomes has it.
LEMMA PromiseReject ==
  ASSUME NEW S \in SUBSET Everyone, \A i \in S : Outcome(i) = "pending",
         \A i \in Everyone : Outcome(i)' = IF i \in S THEN "error" ELSE Outcome(i)
  PROVE  Promise!Next
<1>1. Promise!Reject(S)
  BY DEF Promise!Reject, Everyone
<1>2. QED
  BY <1>1 DEF Promise!Next, Everyone

\* A group that is submitted or settled as a whole.
LEMMA PromiseMove ==
  ASSUME NEW b \in DOMAIN Batch, NEW from, NEW to,
         <<from, to>> \in {<<"pending", "submitted">>, <<"pending", "group_error">>,
                           <<"submitted", "complete">>, <<"submitted", "group_error">>},
         \E i \in Indices : GroupOf[i] = b /\ Outcome(i) = from,
         \A i \in Everyone : Outcome(i)' = IF i \in Indices /\ GroupOf[i] = b /\ Outcome(i) = from
                                           THEN to ELSE Outcome(i)
  PROVE  Promise!Next
<1>1. DOMAIN GroupOf = Indices
  BY GroupOfFacts
<1>2. Promise!Move(b, from, to)
  BY <1>1 DEF Promise!Move, Promise!Members, Everyone
<1>3. QED
  BY <1>2 DEF Promise!Next, Promise!Submit, Promise!FailEarly, Promise!Complete, Promise!FailLate

\* At first the images of a group are pending, and the others are errors.
LEMMA InitOutcomes == Init => Promise!Init
<1>1. SUFFICES ASSUME Init
               PROVE  Promise!Init
  OBVIOUS
<1>2. errors = PreparedErrors /\ groups = <<>> /\ groupErrors = <<>>
  BY <1>1 DEF Init
<1>3. \A i : Outcome(i) = IF i \in ToSet(PreparedErrors) THEN "error" ELSE "pending"
  BY <1>2 DEF Outcome
<1>4. Indices \cap ToSet(PreparedErrors) = {}
  BY BatchAssumption DEF Indices
<1>5. DOMAIN GroupOf = Indices
  BY GroupOfFacts
<1>6. QED
  BY <1>3, <1>4, <1>5 DEF Promise!Init

\* What is left of a sequence when an element is removed.
LEMMA RemovedElements ==
  ASSUME NEW S, NEW s \in Seq(S), NEW k \in 1..Len(s)
  PROVE  /\ \A i \in DOMAIN RemoveAt(s, k) : \E j \in DOMAIN s \ {k} : RemoveAt(s, k)[i] = s[j]
         /\ \A j \in DOMAIN s \ {k} : \E i \in DOMAIN RemoveAt(s, k) : RemoveAt(s, k)[i] = s[j]
<1> DEFINE r == RemoveAt(s, k)
<1>1. /\ r \in Seq(S) /\ Len(r) = Len(s) - 1
      /\ \A i \in 1..Len(s) - 1 : r[i] = IF i < k THEN s[i] ELSE s[i + 1]
  BY Removed
<1>2. DOMAIN r = 1..Len(s) - 1 /\ DOMAIN s = 1..Len(s) /\ Len(s) \in Nat
  BY <1>1
<1> HIDE DEF r
<1>3. ASSUME NEW i \in 1..Len(s) - 1
      PROVE  \E j \in DOMAIN s \ {k} : r[i] = s[j]
  <2>1. CASE i < k
    BY SMTT(30), <1>1, <1>2, <2>1
  <2>2. CASE ~(i < k)
    <3>1. i + 1 \in DOMAIN s \ {k} /\ r[i] = s[i + 1]
      BY <1>1, <1>2, <2>2
    <3>2. QED
      BY <3>1
  <2>3. QED
    BY <2>1, <2>2
<1>4. ASSUME NEW j \in DOMAIN s \ {k}
      PROVE  \E i \in 1..Len(s) - 1 : r[i] = s[j]
  <2>1. CASE j < k
    BY <1>1, <1>2, <2>1
  <2>2. CASE ~(j < k)
    <3>1. j - 1 \in 1..Len(s) - 1 /\ ~(j - 1 < k) /\ (j - 1) + 1 = j
      BY <1>2, <2>2
    <3>2. r[j - 1] = s[j]
      BY <1>1, <3>1
    <3>3. QED
      BY <3>1, <3>2
  <2>3. QED
    BY <2>1, <2>2
<1>5. QED
  BY <1>2, <1>3, <1>4 DEF r

\* Every step of the pipeline is one of BatchOutcomes, or changes no outcome.
LEMMA PromiseStep ==
  ASSUME IInv, IInv', Homes, [Next]_vars
  PROVE  Promise!Next \/ UNCHANGED Outcomes
<1> USE DEF vars, chunks, results
<1> DEFINE E == ToSet(errors)
           G == ToSet(GroupImages)
           X == ToSet(ErrorImages)
           W == ToSet(pending.indices) \cup ToSet(prepared.items) \cup ToSet(staged.items)
                  \cup ToSet(candidates) \cup ToSet(Remaining)
<1>1. Types /\ Stages /\ Resides /\ Account /\ Types'
  BY DEF IInv
<1>2. /\ \A i : Outcome(i) = Out(E, X, G, Done, i)
      /\ \A i : Outcome(i)' = Out(E', X', G', Done', i)
  BY <1>1, OutcomeParts
<1>3. /\ E \cap G = {} /\ (E \cup G) \cap X = {} /\ (E \cup G \cup X) \cap W = {}
      /\ E \cup G \cup X \cup W = Everyone
  BY Apart
<1>4. /\ ToSet(<<>>) = {} /\ Nothing.items = <<>> /\ NoPending.indices = <<>>
      /\ Indices \subseteq Everyone
  BY DEF ToSet, Nothing, NoPending, Everyone
<1>5. \A q \in Seq(Everyone), r \in Seq(Indices) :
        r \in Seq(Everyone) /\ ToSet(q \o r) = ToSet(q) \cup ToSet(r)
  <2>1. \A r \in Seq(Indices) : r \in Seq(Everyone)
    BY <1>4
  <2>2. QED
    BY <2>1, ConcatSet
<1>6. ASSUME UNCHANGED <<groups, groupErrors>>, E' = E
      PROVE  UNCHANGED Outcomes
  BY <1>6 DEF Outcomes, Outcome
<1>7. ASSUME UNCHANGED <<groups, groupErrors>>, NEW S \in SUBSET W, E' = E \cup S
      PROVE  Promise!Next
  <2>1. X' = X /\ G' = G /\ Done' = Done
    BY <1>7 DEF ErrorImages, GroupImages, Done
  <2>2. S \in SUBSET Everyone /\ \A i \in S : Outcome(i) = "pending"
    BY <1>2, <1>3 DEF Out
  <2>3. \A i \in Everyone : Outcome(i)' = IF i \in S THEN "error" ELSE Outcome(i)
    BY <1>2, <1>3, <1>7, <2>1 DEF Out
  <2>4. QED
    BY <2>2, <2>3, PromiseReject
\* The errors of the group that count_candidates rejects, and of a chunk.
<1>8. CASE CountCandidates
  <2>1. PICK S : errors' = errors \o Keep(Batch[group], S)
    BY <1>8 DEF CountCandidates
  <2>2. step = "group" /\ group <= Len(Batch) /\ UNCHANGED <<groups, groupErrors>>
    BY <1>8 DEF CountCandidates
  <2>3. PICK all, T : all = Batch[group] /\ T = Keep(Batch[group], S)
    OBVIOUS
  <2>4. group \in 1..Len(Batch)
    BY <1>1, <2>2, BatchParts DEF Types
  <2>5. all \in Seq(Indices)
    BY <2>3, <2>4, BatchParts DEF Items
  <2>6. T \in Seq(Indices) /\ ToSet(T) \subseteq ToSet(all)
    <3>1. Keep(all, S) \in Seq(Indices) /\ ToSet(Keep(all, S)) = ToSet(all) \cap S
      BY <2>5, KeepRest
    <3>2. QED
      BY <2>3, <3>1
  <2>7. ToSet(all) \subseteq ToSet(Remaining)
    <3>1. Remaining = From(group)
      BY <2>2 DEF Remaining
    <3>2. From(group) = Batch[group] \o From(group + 1) /\ From(group + 1) \in Seq(Indices)
      <4>1. group + 1 \in 1..Len(Batch) + 1
        BY <2>4, BatchParts
      <4>2. From(group + 1) \in Items
        BY <4>1, FromParts
      <4>3. From(group) = Batch[group] \o From(group + 1)
        BY <2>4, FromParts
      <4>4. QED
        BY <4>2, <4>3 DEF Items
    <3>3. PICK u : u = From(group + 1)
      OBVIOUS
    <3>4. ToSet(all \o u) = ToSet(all) \cup ToSet(u)
      BY <2>5, <3>2, <3>3, ConcatSet
    <3>5. QED
      BY <2>3, <3>1, <3>2, <3>3, <3>4
  <2>8. E' = E \cup ToSet(T)
    BY <1>1, <1>5, <2>1, <2>3, <2>6 DEF Types
  <2>9. ToSet(T) \in SUBSET W
    BY <2>6, <2>7
  <2>10. QED
    BY <1>7, <2>2, <2>8, <2>9
<1>9. CASE JoinScope
  <2>1. errors' = errors \o Keep(staged.items, ToSet(staged.items) \ ToSet(planned.items))
    BY <1>9 DEF JoinScope, DecodeErrors
  <2>2. PICK all, S, T : /\ all = staged.items /\ S = ToSet(staged.items) \ ToSet(planned.items)
                         /\ T = Keep(all, S)
    OBVIOUS
  <2>3. all \in Seq(Indices)
    BY <1>1, <2>2, TypesFacts DEF Items
  <2>4. T \in Seq(Indices) /\ ToSet(T) \subseteq ToSet(all)
    <3>1. Keep(all, S) \in Seq(Indices) /\ ToSet(Keep(all, S)) = ToSet(all) \cap S
      BY <2>3, KeepRest
    <3>2. QED
      BY <2>2, <3>1
  <2>5. E' = E \cup ToSet(T)
    BY <1>1, <1>5, <2>1, <2>2, <2>4 DEF Types
  <2>6. UNCHANGED <<groups, groupErrors>> /\ ToSet(T) \in SUBSET W
    BY <1>9, <2>2, <2>4 DEF JoinScope
  <2>7. QED
    BY <1>7, <2>5, <2>6
<1>10. CASE ReturnBatch
  <2>1. errors' = Sorted(errors) /\ UNCHANGED <<groups, groupErrors>>
    BY <1>10 DEF ReturnBatch
  <2>2. Everyone \in SUBSET Nat
    BY BatchParts
  <2>3. PICK s, S : s = errors /\ S = Everyone
    OBVIOUS
  <2>4. ToSet(Sorted(s)) = ToSet(s)
    <3>1. S \in SUBSET Nat /\ s \in Seq(S)
      BY <1>1, <2>2, <2>3 DEF Types
    <3>2. QED
      BY <3>1, SortedSame
  <2>5. E' = E
    BY <2>1, <2>3, <2>4
  <2>6. QED
    BY <1>6, <2>1, <2>5
\* The images of a group that was submitted, read or not, and those of its commands.
<1>11. /\ \A i : i \in G <=> \E g \in DOMAIN groups : i \in ToSet(groups[g].indices)
       /\ \A i : i \in G' <=> \E g \in DOMAIN groups' : i \in ToSet(groups'[g].indices)
  <2>1. groups \in Seq(Submitted(DOMAIN commands)) /\ groups' \in Seq(Submitted(DOMAIN commands'))
    BY <1>1 DEF Types
  <2>2. QED
    BY <2>1, GroupMember DEF GroupImages
<1>12. /\ \A g \in DOMAIN groups : ToSet(groups[g].images) \subseteq ToSet(groups[g].indices)
       /\ Done \subseteq G
  <2>1. \A g \in DOMAIN groups : ToSet(groups[g].images) \subseteq ToSet(groups[g].indices)
    BY <1>1, <1>4 DEF Resides, Holds, Homes
  <2>2. QED
    BY <1>11, <2>1 DEF Done
<1>13. \A g \in DOMAIN groups : groups[g].indices \in Items
  BY <1>1, TypesFacts
<1>14. \A q \in Items : ToSet(q) \subseteq Indices
  BY DEF Items, ToSet
<1>15. groupErrors \in Seq(Items) /\ pending.indices \in Items
  BY <1>1, TypesFacts DEF Types
<1>16. ASSUME NEW q \in Items, groupErrors' = Append(groupErrors, q)
       PROVE  X' = X \cup ToSet(q)
  <2>1. PICK all, T : all = groupErrors /\ T = FlattenSeq(groupErrors)
    OBVIOUS
  <2>2. all \in Seq(Seq(Indices)) /\ q \in Seq(Indices)
    BY <1>15, <1>16, <2>1 DEF Items
  <2>3. FlattenSeq(Append(all, q)) = T \o q /\ T \in Seq(Indices)
    BY <2>1, <2>2, FlattenAppend, FlattenType
  <2>4. ToSet(T \o q) = ToSet(T) \cup ToSet(q)
    BY <2>2, <2>3, ConcatSet
  <2>5. QED
    BY <1>16, <2>1, <2>3, <2>4 DEF ErrorImages
<1>17. CASE FinishGroup
  <2> DEFINE P == ToSet(pending.indices)
  <2>1. /\ step = "chunk" /\ candidates = <<>> /\ prepared.buffer = "none" /\ errors' = errors
    BY <1>17 DEF FinishGroup, MoreChunks
  <2>2. staged = Nothing /\ prepared = Nothing /\ group \in DOMAIN Batch /\ group \in Nat
    <3>1. staged = Nothing /\ prepared = Nothing
      BY <1>1, <2>1 DEF Stages
    <3>2. group <= Len(Batch)
      BY <1>1, <2>1, BatchParts DEF Stages, LastSteps, Types
    <3>3. QED
      BY <1>1, <3>1, <3>2, BatchParts DEF Types
  <2>3. W = P \cup ToSet(Remaining)
    BY <1>4, <2>1, <2>2
  <2>4. \A i \in ToSet(Remaining) : i \in Indices /\ GroupOf[i] # group
    <3>1. Remaining = From(group + 1)
      BY <2>1 DEF Remaining
    <3>2. group + 1 \in 1..Len(Batch) + 1
      BY <2>2, BatchParts
    <3>3. \A i \in ToSet(From(group + 1)) : i \in Indices /\ GroupOf[i] >= group + 1
      BY <3>2, FromHomes
    <3>4. \A i \in Indices : GroupOf[i] \in Nat
      BY BatchParts, GroupOfFacts
    <3>5. QED
      BY <2>2, <3>1, <3>3, <3>4
  <2>5. \A i \in P : i \in Indices /\ GroupOf[i] = group
    BY <1>14, <1>15 DEF Homes
  <2>6. P \cap (E \cup G \cup X) = {}
    BY <1>3, <2>3
  <2>7. \A i \in Everyone : i \in P <=> i \in Indices /\ GroupOf[i] = group /\ Outcome(i) = "pending"
    <3>1. \A i : Outcome(i) = "pending" <=> i \notin E \cup G \cup X
      BY <1>2 DEF Out
    <3>2. \A i \in Everyone : i \notin E \cup G \cup X => i \in P \/ i \in ToSet(Remaining)
      BY <1>3, <2>3
    <3>3. QED
      BY <2>4, <2>5, <2>6, <3>1, <3>2
  <2> HIDE DEF P
  <2>8. CASE P = {}
    <3>1. E' = E /\ X' = X /\ G' = G /\ Done' = Done
      <4>1. CASE pending.failed
        BY <1>15, <1>16, <1>17, <2>1, <2>8, <4>1 DEF FinishGroup, GroupImages, Done, P
      <4>2. CASE ~pending.failed
        <5>1. groupErrors' = groupErrors
          BY <1>17, <4>2 DEF FinishGroup
        <5>2. pending.indices = <<>>
          <6>1. PICK q : q = pending.indices
            OBVIOUS
          <6>2. q \in Seq(Indices) /\ ToSet(q) = {}
            BY <1>15, <2>8, <6>1 DEF P, Items
          <6>3. q = <<>>
            BY <6>2 DEF ToSet
          <6>4. QED
            BY <6>1, <6>3
        <5>3. groups' = groups
          BY <1>17, <4>2, <5>2 DEF FinishGroup
        <5>4. QED
          BY <2>1, <5>1, <5>3 DEF ErrorImages, GroupImages, Done
      <4>3. QED
        BY <4>1, <4>2
    <3>2. QED
      BY <1>2, <3>1 DEF Outcomes
  <2>9. CASE P # {}
    <3>1. PICK to \in {"group_error", "submitted"} :
            \A i \in Everyone : Outcome(i)' = IF i \in P THEN to ELSE Outcome(i)
      <4>1. CASE pending.failed
        <5>1. groups' = groups /\ groupErrors' = Append(groupErrors, pending.indices)
          BY <1>17, <4>1 DEF FinishGroup
        <5>2. X' = X \cup P
          BY <1>15, <1>16, <5>1 DEF P
        <5>3. E' = E /\ G' = G /\ Done' = Done
          BY <2>1, <5>1 DEF GroupImages, Done
        <5>4. \A i : Outcome(i)' = IF i \in P THEN "group_error" ELSE Outcome(i)
          BY <1>2, <2>6, <5>2, <5>3 DEF Out
        <5>5. QED
          BY <5>4
      <4>2. CASE ~pending.failed
        <5> DEFINE one == [indices |-> pending.indices, submissions |-> pending.submissions, images |-> <<>>]
        <5>1. pending.indices # <<>>
          BY <1>4, <2>9 DEF P
        <5>2. /\ groups' = Append(groups, one) /\ one.indices = pending.indices /\ one.images = <<>>
              /\ groupErrors' = groupErrors
          BY <1>17, <4>2, <5>1 DEF FinishGroup
        <5> HIDE DEF one
        <5>3. PICK n : /\ DOMAIN groups' = DOMAIN groups \cup {n} /\ n \notin DOMAIN groups /\ groups'[n] = one
                       /\ \A g \in DOMAIN groups : groups'[g] = groups[g]
          <6>1. PICK all, R : all = groups /\ R = Submitted(DOMAIN commands)
            OBVIOUS
          <6>2. all \in Seq(R)
            BY <1>1, <6>1 DEF Types
          <6>3. /\ DOMAIN Append(all, one) = DOMAIN all \cup {Len(all) + 1}
                /\ Len(all) + 1 \notin DOMAIN all /\ Append(all, one)[Len(all) + 1] = one
                /\ \A g \in DOMAIN all : Append(all, one)[g] = all[g]
            BY <6>2
          <6>4. QED
            BY <5>2, <6>1, <6>3
        <5>4. \A i : i \in G' <=> i \in G \/ i \in P
          BY <1>11, <5>2, <5>3 DEF P
        <5>5. \A i : i \in Done' <=> i \in Done
          BY <1>4, <5>2, <5>3 DEF Done
        <5>6. E' = E /\ X' = X
          BY <2>1, <5>2 DEF ErrorImages
        <5>7. \A i : Outcome(i)' = IF i \in P THEN "submitted" ELSE Outcome(i)
          BY <1>2, <1>12, <2>6, <5>4, <5>5, <5>6 DEF Out
        <5>8. QED
          BY <5>7
      <4>3. QED
        BY <4>1, <4>2
    <3>2. \E i \in Indices : GroupOf[i] = group /\ Outcome(i) = "pending"
      BY <1>4, <2>5, <2>7, <2>9
    <3>3. \A i \in Everyone : Outcome(i)' = IF i \in Indices /\ GroupOf[i] = group /\ Outcome(i) = "pending"
                                            THEN to ELSE Outcome(i)
      BY <2>7, <3>1
    <3>4. QED
      BY <2>2, <3>1, <3>2, <3>3, PromiseMove
  <2>10. QED
    BY <2>8, <2>9
<1>18. CASE WaitGroup
  <2>1. PICK g \in DOMAIN groups :
          /\ groups[g].submissions # <<>>
          /\ \/ /\ groups' = [groups EXCEPT ![g] =
                       [indices |-> groups[g].indices, submissions |-> <<>>,
                        images  |-> Carried(commands, FlattenSeq(groups[g].submissions))]]
                /\ UNCHANGED groupErrors
             \/ /\ groups' = RemoveAt(groups, g)
                /\ groupErrors' = Append(groupErrors, groups[g].indices)
          /\ errors' = errors
    BY <1>1, <1>18, WaitGroupFacts
  <2> DEFINE Q == ToSet(groups[g].indices)
  <2>2. /\ ToSet(groups[g].images) = {} /\ Q \subseteq Indices /\ Q \subseteq G
        /\ Carried(commands, FlattenSeq(groups[g].submissions)) = groups[g].indices
    BY <1>1, <1>4, <1>11, <1>13, <1>14, <2>1 DEF Homes, Resides, Holds
  <2>3. \A h \in DOMAIN groups : h # g => ToSet(groups[h].indices) \cap Q = {}
    BY DEF Homes
  <2>4. Q \cap Done = {} /\ Q \cap (E \cup X) = {}
    <3>1. Q \cap Done = {}
      BY <1>12, <2>2, <2>3 DEF Done
    <3>2. QED
      BY <1>3, <2>2, <3>1
  <2>5. \A q \in Q : \A i \in Everyone :
          i \in Q <=> i \in Indices /\ GroupOf[i] = GroupOf[q] /\ Outcome(i) = "submitted"
    <3>1. SUFFICES ASSUME NEW q \in Q, NEW i \in Everyone
                   PROVE  i \in Q <=> i \in Indices /\ GroupOf[i] = GroupOf[q] /\ Outcome(i) = "submitted"
      OBVIOUS
    <3>2. ASSUME i \in Q
          PROVE  i \in Indices /\ GroupOf[i] = GroupOf[q] /\ Outcome(i) = "submitted"
      <4>1. GroupOf[i] = GroupOf[q]
        BY <3>1, <3>2 DEF Homes
      <4>2. QED
        BY <1>2, <2>2, <2>4, <3>2, <4>1 DEF Out
    <3>3. ASSUME GroupOf[i] = GroupOf[q], Outcome(i) = "submitted"
          PROVE  i \in Q
      <4>1. i \in G
        BY <1>2, <3>3 DEF Out
      <4>2. PICK h \in DOMAIN groups : i \in ToSet(groups[h].indices)
        BY <1>11, <4>1
      <4>3. h = g
        BY <3>1, <3>3, <4>2 DEF Homes
      <4>4. QED
        BY <4>2, <4>3
    <3>4. QED
      BY <3>2, <3>3
  <2> HIDE DEF Q
  <2>6. \E to \in {"complete", "group_error"} : \A i : Outcome(i)' = IF i \in Q THEN to ELSE Outcome(i)
    <3>1. CASE groups' = RemoveAt(groups, g) /\ groupErrors' = Append(groupErrors, groups[g].indices)
      <4>1. X' = X \cup Q /\ E' = E
        BY <1>13, <1>16, <2>1, <3>1 DEF Q
      <4>2. /\ \A h \in DOMAIN groups' : \E j \in DOMAIN groups \ {g} : groups'[h] = groups[j]
            /\ \A j \in DOMAIN groups \ {g} : \E h \in DOMAIN groups' : groups'[h] = groups[j]
        <5>1. PICK all, R : all = groups /\ R = Submitted(DOMAIN commands)
          OBVIOUS
        <5>2. all \in Seq(R) /\ g \in 1..Len(all)
          BY <1>1, <2>1, <5>1 DEF Types
        <5>3. /\ \A i \in DOMAIN RemoveAt(all, g) : \E j \in DOMAIN all \ {g} : RemoveAt(all, g)[i] = all[j]
              /\ \A j \in DOMAIN all \ {g} : \E i \in DOMAIN RemoveAt(all, g) : RemoveAt(all, g)[i] = all[j]
          BY <5>2, RemovedElements
        <5>4. QED
          BY <3>1, <5>1, <5>3
      <4>3. \A i : i \in G' <=> i \in G /\ i \notin Q
        BY <1>11, <2>3, <4>2 DEF Q
      <4>4. \A i : i \in Done' <=> i \in Done
        BY <2>2, <4>2 DEF Done
      <4>5. \A i : Outcome(i)' = IF i \in Q THEN "group_error" ELSE Outcome(i)
        BY <1>2, <2>4, <4>1, <4>3, <4>4 DEF Out
      <4>6. QED
        BY <4>5
    <3>2. CASE /\ groups' = [groups EXCEPT ![g] =
                     [indices |-> groups[g].indices, submissions |-> <<>>,
                      images  |-> Carried(commands, FlattenSeq(groups[g].submissions))]]
               /\ UNCHANGED groupErrors
      <4> DEFINE one == [indices |-> groups[g].indices, submissions |-> <<>>,
                         images  |-> Carried(commands, FlattenSeq(groups[g].submissions))]
      <4>1. groups' = [groups EXCEPT ![g] = one] /\ one.indices = groups[g].indices /\ one.images = groups[g].indices
        BY <2>2, <3>2
      <4> HIDE DEF one
      <4>2. DOMAIN groups' = DOMAIN groups /\ \A h \in DOMAIN groups : groups'[h] = IF h = g THEN one ELSE groups[h]
        BY <4>1
      <4>3. \A i : i \in G' <=> i \in G
        BY <1>11, <4>1, <4>2
      <4>4. \A i : i \in Done' <=> i \in Done \/ i \in Q
        BY <2>1, <2>2, <4>1, <4>2 DEF Done, Q
      <4>5. E' = E /\ X' = X
        BY <2>1, <3>2 DEF ErrorImages
      <4>6. \A i : Outcome(i)' = IF i \in Q THEN "complete" ELSE Outcome(i)
        BY <1>2, <2>2, <2>4, <4>3, <4>4, <4>5 DEF Out
      <4>7. QED
        BY <4>6
    <3>3. QED
      BY <2>1, <3>1, <3>2
  <2>7. PICK to \in {"complete", "group_error"} : \A i : Outcome(i)' = IF i \in Q THEN to ELSE Outcome(i)
    BY <2>6
  <2>8. CASE Q = {}
    BY <2>7, <2>8 DEF Outcomes
  <2>9. CASE Q # {}
    <3>1. PICK q \in Q : TRUE
      BY <2>9
    <3>2. q \in Everyone /\ q \in Indices /\ GroupOf[q] \in DOMAIN Batch
      BY <1>4, <2>2, <3>1, GroupOfFacts
    <3>3. PICK b : b = GroupOf[q]
      OBVIOUS
    <3>4. GroupOf[q] = b /\ Outcome(q) = "submitted"
      BY <2>5, <3>1, <3>2, <3>3
    <3>5. \A i \in Everyone : Outcome(i)' = IF i \in Indices /\ GroupOf[i] = b /\ Outcome(i) = "submitted"
                                            THEN to ELSE Outcome(i)
      BY <2>5, <2>7, <3>1, <3>3
    <3>6. QED
      BY <2>7, <3>2, <3>3, <3>4, <3>5, PromiseMove
  <2>10. QED
    BY <2>8, <2>9
<1>19. ASSUME NEW c \in DOMAIN commands, CompleteCommand(c)
       PROVE  UNCHANGED Outcomes
  BY <1>6, <1>19 DEF CompleteCommand
<1>20. CASE \/ StageChunk \/ FailChunk \/ DrainChunks \/ DecodeEntropy \/ RecordOnly \/ BeginSubmit \/ CommitCommand
            \/ FailEncoding \/ EndSubmit \/ ReturnResult \/ DropBatch
  <2>1. UNCHANGED results
    BY <1>20 DEF StageChunk, FailChunk, DrainChunks, DecodeEntropy, RecordOnly, BeginSubmit, CommitCommand,
                 FailEncoding, EndSubmit, ReturnResult, DropBatch
  <2>2. QED
    BY <1>6, <2>1
<1>21. CASE UNCHANGED vars
  BY <1>6, <1>21
<1>22. QED
  BY <1>8, <1>9, <1>10, <1>17, <1>18, <1>19, <1>20, <1>21, NextCases

\* submit_prepared and wait settle each image once, its own error or the outcome of
\* its group, and take none back, for any batch and whatever fails.
THEOREM Refinement == Spec => KeepsPromise
<1>1. Spec => []Homes
  <2>1. IInv /\ Homes /\ [Next]_vars => Homes'
    BY HomesStep DEF IInv
  <2>2. QED
    BY <2>1, InitHomes, Invariance, PTL DEF Spec
<1>2. IInv /\ IInv' /\ Homes /\ [Next]_vars => [Promise!Next]_Outcomes
  BY PromiseStep
<1>3. QED
  BY <1>1, <1>2, InitOutcomes, Invariance, PTL DEF Spec, KeepsPromise, Promise!Spec, Outcomes, Everyone
=============================================================================
