--------------------------- MODULE SequenceLemmas ---------------------------
(***************************************************************************)
(* What the proofs need of sequences: a set of numbers has a least         *)
(* element, which gives induction by the least counterexample; the sum of  *)
(* a concatenation; a sequence with one element removed; the concatenation *)
(* of the sequences in a sequence; rearrangements.                         *)
(***************************************************************************)
EXTENDS Totals, SequencesExt, SequenceTheorems, FiniteSetTheorems, WellFoundedInduction, TLAPS

NatLess == {p \in Nat \X Nat : p[1] < p[2]}

\* The order of the naturals has no infinite descent.
LEMMA NatLessWellFounded == IsWellFoundedOn(NatLess, Nat)
  BY NatLessThanWellFounded, Zenon DEF OpToRel, NatLess

\* A set of naturals that is not empty has a least element.
LEMMA LeastElement ==
  ASSUME NEW S \in SUBSET Nat, S # {}
  PROVE  \E x \in S : \A y \in S : x <= y
<1>1. \E x \in S : \A y \in S : ~ (<<y, x>> \in NatLess)
  BY NatLessWellFounded, WFMin
<1>2. PICK x \in S : \A y \in S : ~ (<<y, x>> \in NatLess)
  BY <1>1
<1>3. ASSUME NEW y \in S
      PROVE  x <= y
  <2>1. <<y, x>> \notin NatLess
    BY <1>2
  <2>2. y \in Nat /\ x \in Nat
    OBVIOUS
  <2>3. ~ (y < x)
    BY <2>1, <2>2 DEF NatLess
  <2>4. QED
    BY <2>2, <2>3
<1>4. QED
  BY <1>3

-----------------------------------------------------------------------------
Sums(f, s, n) == f = [k \in 0..n |-> IF k = 0 THEN 0 ELSE f[k - 1] + s[k]]

\* The function of partial sums exists.
LEMMA SumsExist ==
  ASSUME NEW s \in Seq(Nat), NEW n \in 0..Len(s)
  PROVE  \E f : Sums(f, s, n)
<1> DEFINE Bad == {m \in 0..Len(s) : ~ \E f : Sums(f, s, m)}
<1>1. SUFFICES ASSUME Bad # {}
               PROVE  FALSE
  OBVIOUS
<1>2. Bad \in SUBSET Nat
  OBVIOUS
<1>3. \E m \in Bad : \A k \in Bad : m <= k
  BY <1>1, <1>2, LeastElement
<1>4. PICK m \in Bad : \A k \in Bad : m <= k
  BY <1>3
<1>5. m # 0
  <2>1. Sums([k \in 0..0 |-> 0], s, 0)
    BY DEF Sums
  <2>2. QED
    BY <2>1
<1>6. PICK f : Sums(f, s, m - 1)
  BY <1>4, <1>5
<1>7. Sums([k \in 0..m |-> IF k = m THEN f[m - 1] + s[m] ELSE f[k]], s, m)
  BY <1>5, <1>6 DEF Sums
<1>8. QED
  BY <1>7

\* The sum of n elements, step by step.
LEMMA UpToSums ==
  ASSUME NEW s \in Seq(Nat), NEW n \in 0..Len(s)
  PROVE  \E f : Sums(f, s, n) /\ UpTo(s, n) = f[n]
  BY SumsExist, Zenon DEF UpTo, Sums

\* Functions of partial sums agree wherever the sequences do.
LEMMA SumsAgree ==
  ASSUME NEW s \in Seq(Nat), NEW t \in Seq(Nat), NEW n \in 0..Len(s), NEW m \in 0..Len(t),
         NEW f, Sums(f, s, n), NEW g, Sums(g, t, m),
         n <= m, \A i \in 1..n : s[i] = t[i]
  PROVE  \A k \in 0..n : f[k] = g[k] /\ f[k] \in Nat
<1> DEFINE Bad == {k \in 0..n : ~ (f[k] = g[k] /\ f[k] \in Nat)}
<1>1. SUFFICES ASSUME Bad # {}
               PROVE  FALSE
  OBVIOUS
<1>2. Bad \in SUBSET Nat
  OBVIOUS
<1>3. \E k \in Bad : \A j \in Bad : k <= j
  BY <1>1, <1>2, LeastElement
<1>4. PICK k \in Bad : \A j \in Bad : k <= j
  BY <1>3
<1>5. k # 0
  BY DEF Sums
<1>6. f[k - 1] = g[k - 1] /\ f[k - 1] \in Nat
  BY <1>4, <1>5
<1>7. f[k] = f[k - 1] + s[k] /\ g[k] = g[k - 1] + t[k]
  <2>1. k \in 0..n /\ k \in 0..m
    OBVIOUS
  <2>2. QED
    BY <1>5, <2>1 DEF Sums
<1>8. s[k] = t[k] /\ s[k] \in Nat
  BY <1>5
<1>9. QED
  BY <1>6, <1>7, <1>8

\* The sum of the first elements: none, or one more.
LEMMA UpToZero ==
  ASSUME NEW s \in Seq(Nat)
  PROVE  UpTo(s, 0) = 0
  BY UpToSums DEF Sums

\* One more summand.
LEMMA UpToStep ==
  ASSUME NEW s \in Seq(Nat), NEW n \in 1..Len(s)
  PROVE  UpTo(s, n) = UpTo(s, n - 1) + s[n]
<1>1. PICK f : Sums(f, s, n) /\ UpTo(s, n) = f[n]
  BY UpToSums
<1>2. PICK g : Sums(g, s, n - 1) /\ UpTo(s, n - 1) = g[n - 1]
  BY UpToSums
<1>3. \A k \in 0..n - 1 : g[k] = f[k] /\ g[k] \in Nat
  BY <1>1, <1>2, SumsAgree
<1>4. f[n] = f[n - 1] + s[n]
  BY <1>1 DEF Sums
<1>5. QED
  BY <1>1, <1>2, <1>3, <1>4

\* Partial sums are naturals.
LEMMA UpToType ==
  ASSUME NEW s \in Seq(Nat), NEW n \in 0..Len(s)
  PROVE  UpTo(s, n) \in Nat
<1>1. PICK f : Sums(f, s, n) /\ UpTo(s, n) = f[n]
  BY UpToSums
<1>2. QED
  BY <1>1, SumsAgree

\* It depends on those elements alone.
LEMMA UpToAgree ==
  ASSUME NEW s \in Seq(Nat), NEW t \in Seq(Nat), NEW n \in 0..Len(s), n <= Len(t),
         \A i \in 1..n : s[i] = t[i]
  PROVE  UpTo(s, n) = UpTo(t, n)
<1>0. n \in 0..Len(t)
  OBVIOUS
<1>1. PICK f : Sums(f, s, n) /\ UpTo(s, n) = f[n]
  BY UpToSums
<1>2. PICK g : Sums(g, t, n) /\ UpTo(t, n) = g[n]
  BY <1>0, UpToSums
<1>3. QED
  BY <1>0, <1>1, <1>2, SumsAgree

-----------------------------------------------------------------------------
\* The total is a natural number.
LEMMA TotalType ==
  ASSUME NEW s \in Seq(Nat)
  PROVE  Total(s) \in Nat
  BY UpToType DEF Total

\* Nothing sums to zero.
LEMMA TotalEmpty == Total(<<>>) = 0
<1>1. <<>> \in Seq(Nat) /\ Len(<<>>) = 0
  OBVIOUS
<1>2. QED
  BY <1>1, UpToZero DEF Total

\* The sum of a concatenation.
LEMMA TotalConcat ==
  ASSUME NEW s \in Seq(Nat), NEW t \in Seq(Nat)
  PROVE  Total(s \o t) = Total(s) + Total(t)
<1> DEFINE u == s \o t
           Bad == {k \in 0..Len(t) : UpTo(u, Len(s) + k) # UpTo(s, Len(s)) + UpTo(t, k)}
<1>1. u \in Seq(Nat) /\ Len(u) = Len(s) + Len(t)
  OBVIOUS
<1>2. Bad = {}
  <2>1. SUFFICES ASSUME Bad # {}
                 PROVE  FALSE
    OBVIOUS
  <2>2. \E k \in Bad : \A j \in Bad : k <= j
    <3>1. Bad \in SUBSET Nat
      OBVIOUS
    <3>2. QED
      BY <2>1, <3>1, LeastElement
  <2>3. PICK k \in Bad : \A j \in Bad : k <= j
    BY <2>2
  <2>4. k # 0
    <3>1. UpTo(u, Len(s)) = UpTo(s, Len(s))
      <4>1. \A i \in 1..Len(s) : s[i] = u[i]
        OBVIOUS
      <4>2. Len(s) \in 0..Len(s) /\ Len(s) <= Len(u)
        BY <1>1
      <4>3. QED
        BY <1>1, <4>1, <4>2, UpToAgree
    <3>2. UpTo(t, 0) = 0 /\ UpTo(s, Len(s)) \in Nat
      BY UpToZero, UpToType
    <3>3. QED
      BY <3>1, <3>2
  <2>5. UpTo(u, Len(s) + (k - 1)) = UpTo(s, Len(s)) + UpTo(t, k - 1)
    BY <2>3, <2>4
  <2>6. UpTo(u, Len(s) + k) = UpTo(u, Len(s) + (k - 1)) + u[Len(s) + k]
    <3>1. Len(s) + k \in 1..Len(u) /\ (Len(s) + k) - 1 = Len(s) + (k - 1)
      BY <1>1, <2>4
    <3>2. QED
      BY <1>1, <3>1, UpToStep
  <2>7. UpTo(t, k) = UpTo(t, k - 1) + t[k]
    BY <2>4, UpToStep
  <2>8. u[Len(s) + k] = t[k] /\ t[k] \in Nat
    BY <2>4
  <2>9. UpTo(s, Len(s)) \in Nat /\ UpTo(t, k - 1) \in Nat
    BY <2>4, UpToType
  <2>10. QED
    BY <2>5, <2>6, <2>7, <2>8, <2>9
<1>3. UpTo(u, Len(s) + Len(t)) = UpTo(s, Len(s)) + UpTo(t, Len(t))
  BY <1>2
<1>4. QED
  BY <1>1, <1>3 DEF Total

\* The sum with one more element.
LEMMA TotalAppend ==
  ASSUME NEW s \in Seq(Nat), NEW x \in Nat
  PROVE  Total(Append(s, x)) = Total(s) + x
<1> DEFINE u == Append(s, x)
<1>1. u \in Seq(Nat) /\ Len(u) = Len(s) + 1 /\ u[Len(u)] = x
  OBVIOUS
<1>2. \A i \in 1..Len(s) : s[i] = u[i]
  OBVIOUS
<1>3. Len(s) \in 0..Len(s) /\ Len(s) <= Len(u) /\ Len(u) \in 1..Len(u)
  BY <1>1
<1>4. UpTo(s, Len(s)) = UpTo(u, Len(s))
  BY <1>1, <1>2, <1>3, UpToAgree
<1>5. UpTo(u, Len(u)) = UpTo(u, Len(u) - 1) + x
  BY <1>1, <1>3, UpToStep
<1>6. Len(u) - 1 = Len(s)
  BY <1>1
<1>7. QED
  BY <1>4, <1>5, <1>6 DEF Total

-----------------------------------------------------------------------------
\* The first n elements of a sequence, and the rest.
LEMMA Split ==
  ASSUME NEW S, NEW s \in Seq(S), NEW n \in 0..Len(s)
  PROVE  /\ SubSeq(s, 1, n) \in Seq(S)
         /\ Len(SubSeq(s, 1, n)) = n
         /\ \A i \in 1..n : SubSeq(s, 1, n)[i] = s[i]
         /\ SubSeq(s, n + 1, Len(s)) \in Seq(S)
         /\ Len(SubSeq(s, n + 1, Len(s))) = Len(s) - n
         /\ \A i \in 1..Len(s) - n : SubSeq(s, n + 1, Len(s))[i] = s[n + i]
         /\ s = SubSeq(s, 1, n) \o SubSeq(s, n + 1, Len(s))
<1>1. Len(s) \in Nat /\ n \in Nat /\ n <= Len(s) /\ \A i \in 1..Len(s) : s[i] \in S
  OBVIOUS
<1>2. /\ SubSeq(s, 1, n) \in Seq(S)
      /\ Len(SubSeq(s, 1, n)) = n
      /\ \A i \in 1..n : SubSeq(s, 1, n)[i] = s[i]
  BY <1>1, SubSeqProperties
<1>3. /\ SubSeq(s, n + 1, Len(s)) \in Seq(S)
      /\ Len(SubSeq(s, n + 1, Len(s))) = Len(s) - n
      /\ \A i \in 1..Len(s) - n : SubSeq(s, n + 1, Len(s))[i] = s[n + i]
  BY <1>1, SubSeqProperties
<1>4. s = SubSeq(s, 1, n) \o SubSeq(s, n + 1, Len(s))
  <2> DEFINE t == SubSeq(s, 1, n)
             u == SubSeq(s, n + 1, Len(s))
  <2> HIDE DEF t, u
  <2>1. /\ t \in Seq(S) /\ Len(t) = n /\ \A i \in 1..n : t[i] = s[i]
        /\ u \in Seq(S) /\ Len(u) = Len(s) - n /\ \A i \in 1..Len(s) - n : u[i] = s[n + i]
    BY <1>2, <1>3 DEF t, u
  <2>2. /\ t \o u \in Seq(S)
        /\ Len(t \o u) = Len(s)
        /\ \A i \in 1..Len(s) : (t \o u)[i] = IF i <= n THEN t[i] ELSE u[i - n]
    BY <1>1, <2>1, ConcatProperties
  <2>3. \A i \in 1..Len(s) : (t \o u)[i] = s[i]
    BY <1>1, <2>1, <2>2
  <2>4. s = t \o u
    BY <2>2, <2>3, SeqEqual
  <2>5. QED
    BY <2>4 DEF t, u
<1>5. QED
  BY <1>2, <1>3, <1>4

\* A sequence without its element at k.
LEMMA Removed ==
  ASSUME NEW S, NEW s \in Seq(S), NEW k \in 1..Len(s)
  PROVE  /\ RemoveAt(s, k) \in Seq(S)
         /\ Len(RemoveAt(s, k)) = Len(s) - 1
         /\ \A i \in 1..Len(s) - 1 : RemoveAt(s, k)[i] = IF i < k THEN s[i] ELSE s[i + 1]
<1> DEFINE t == SubSeq(s, 1, k - 1)
           u == SubSeq(s, k + 1, Len(s))
<1> HIDE DEF t, u
<1>1. k - 1 \in 0..Len(s) /\ k \in 0..Len(s) /\ (k - 1) + 1 = k
  OBVIOUS
<1>2. t \in Seq(S) /\ Len(t) = k - 1 /\ \A i \in 1..k - 1 : t[i] = s[i]
  BY <1>1, Split DEF t
<1>3. u \in Seq(S) /\ Len(u) = Len(s) - k /\ \A i \in 1..Len(s) - k : u[i] = s[k + i]
  BY <1>1, Split DEF u
<1>4. /\ t \o u \in Seq(S)
      /\ Len(t \o u) = Len(s) - 1
      /\ \A i \in 1..Len(s) - 1 : (t \o u)[i] = IF i <= k - 1 THEN t[i] ELSE u[i - (k - 1)]
  <2>1. /\ t \o u \in Seq(S)
        /\ Len(t \o u) = Len(t) + Len(u)
        /\ \A i \in 1..Len(t) + Len(u) :
             (t \o u)[i] = IF i <= Len(t) THEN t[i] ELSE u[i - Len(t)]
    BY <1>2, <1>3, ConcatProperties
  <2>2. Len(t) + Len(u) = Len(s) - 1
    BY <1>2, <1>3
  <2>3. QED
    BY <1>2, <2>1, <2>2
<1>5. \A i \in 1..Len(s) - 1 : (t \o u)[i] = IF i < k THEN s[i] ELSE s[i + 1]
  BY <1>2, <1>3, <1>4
<1>6. RemoveAt(s, k) = t \o u
  BY DEF RemoveAt, t, u
<1>7. QED
  BY <1>4, <1>5, <1>6

\* The weights of the elements of a sequence, and their sum.
Weights(s, w) == [k \in DOMAIN s |-> w[s[k]]]
Weight(s, w)  == Total(Weights(s, w))

\* The weights of the elements of a sequence.
LEMMA WeightsType ==
  ASSUME NEW S, NEW s \in Seq(S), NEW w, \A x \in S : w[x] \in Nat
  PROVE  /\ Weights(s, w) \in Seq(Nat)
         /\ Len(Weights(s, w)) = Len(s)
         /\ \A k \in 1..Len(s) : Weights(s, w)[k] = w[s[k]]
  BY DEF Weights

\* A weight is a natural.
LEMMA WeightType ==
  ASSUME NEW S, NEW s \in Seq(S), NEW w, \A x \in S : w[x] \in Nat
  PROVE  Weight(s, w) \in Nat
  BY WeightsType, TotalType DEF Weight

\* The empty sequence weighs nothing.
LEMMA WeightEmpty ==
  ASSUME NEW w
  PROVE  Weight(<<>>, w) = 0
<1>1. Weights(<<>>, w) = <<>>
  BY DEF Weights
<1>2. QED
  BY <1>1, TotalEmpty DEF Weight

\* Weights of a sequence depend on its elements alone.
LEMMA WeightAgree ==
  ASSUME NEW S, NEW s \in Seq(S), NEW w, NEW v, \A x \in S : w[x] = v[x]
  PROVE  Weight(s, w) = Weight(s, v)
<1>1. Weights(s, w) = Weights(s, v)
  BY DEF Weights
<1>2. QED
  BY <1>1 DEF Weight

\* An element that is appended adds its weight.
LEMMA WeightAppend ==
  ASSUME NEW S, NEW s \in Seq(S), NEW w, \A x \in S : w[x] \in Nat, NEW x \in S
  PROVE  Weight(Append(s, x), w) = Weight(s, w) + w[x]
<1>1. Weights(Append(s, x), w) = Append(Weights(s, w), w[x])
  BY DEF Weights
<1>2. QED
  BY <1>1, WeightsType, TotalAppend DEF Weight

\* The weight of a concatenation.
LEMMA WeightConcat ==
  ASSUME NEW S, NEW s \in Seq(S), NEW t \in Seq(S), NEW w, \A x \in S : w[x] \in Nat
  PROVE  Weight(s \o t, w) = Weight(s, w) + Weight(t, w)
<1> DEFINE a == Weights(s, w)
           b == Weights(t, w)
           c == Weights(s \o t, w)
<1> HIDE DEF a, b, c
<1>1. /\ s \o t \in Seq(S)
      /\ Len(s \o t) = Len(s) + Len(t)
      /\ \A i \in 1..Len(s) + Len(t) : (s \o t)[i] = IF i <= Len(s) THEN s[i] ELSE t[i - Len(s)]
  BY ConcatProperties
<1>2. /\ a \in Seq(Nat) /\ Len(a) = Len(s) /\ \A k \in 1..Len(s) : a[k] = w[s[k]]
      /\ b \in Seq(Nat) /\ Len(b) = Len(t) /\ \A k \in 1..Len(t) : b[k] = w[t[k]]
      /\ c \in Seq(Nat) /\ Len(c) = Len(s) + Len(t) /\ \A k \in 1..Len(c) : c[k] = w[(s \o t)[k]]
  <2>1. a \in Seq(Nat) /\ Len(a) = Len(s) /\ \A k \in 1..Len(s) : a[k] = w[s[k]]
    BY WeightsType DEF a
  <2>2. b \in Seq(Nat) /\ Len(b) = Len(t) /\ \A k \in 1..Len(t) : b[k] = w[t[k]]
    BY WeightsType DEF b
  <2>3. c \in Seq(Nat) /\ Len(c) = Len(s \o t) /\ \A k \in 1..Len(s \o t) : c[k] = w[(s \o t)[k]]
    <3>1. s \o t \in Seq(S)
      BY <1>1
    <3>2. \A u \in Seq(S) :
            /\ Weights(u, w) \in Seq(Nat)
            /\ Len(Weights(u, w)) = Len(u)
            /\ \A k \in 1..Len(u) : Weights(u, w)[k] = w[u[k]]
      BY WeightsType
    <3>3. QED
      BY <3>1, <3>2, Zenon DEF c
  <2>4. QED
    BY <1>1, <2>1, <2>2, <2>3
<1>3. /\ a \o b \in Seq(Nat)
      /\ Len(a \o b) = Len(c)
      /\ \A i \in 1..Len(c) : (a \o b)[i] = IF i <= Len(s) THEN a[i] ELSE b[i - Len(s)]
  <2>1. /\ a \o b \in Seq(Nat)
        /\ Len(a \o b) = Len(a) + Len(b)
        /\ \A i \in 1..Len(a) + Len(b) :
             (a \o b)[i] = IF i <= Len(a) THEN a[i] ELSE b[i - Len(a)]
    <3>1. a \in Seq(Nat) /\ b \in Seq(Nat)
      BY <1>2
    <3>2. QED
      BY <3>1, ConcatProperties
  <2>2. QED
    BY <1>2, <2>1
<1>4. ASSUME NEW i \in 1..Len(c)
      PROVE  (a \o b)[i] = c[i]
  <2>1. CASE i <= Len(s)
    <3>1. i \in 1..Len(s) /\ i \in 1..Len(s) + Len(t)
      BY <1>2, <2>1
    <3>2. QED
      BY ZenonT(60), <1>1, <1>2, <1>3, <2>1, <3>1
  <2>2. CASE ~ (i <= Len(s))
    <3>1. i - Len(s) \in 1..Len(t) /\ i \in 1..Len(s) + Len(t)
      BY <1>2, <2>2
    <3>2. QED
      BY <1>1, <1>2, <1>3, <2>2, <3>1
  <2>3. QED
    BY <2>1, <2>2
<1>5. c = a \o b
  BY <1>2, <1>3, <1>4, SeqEqual
<1>6. QED
  BY <1>2, <1>5, TotalConcat DEF Weight, a, b, c

\* The first n elements and the rest weigh what the sequence weighs.
LEMMA WeightSplit ==
  ASSUME NEW S, NEW s \in Seq(S), NEW w, \A x \in S : w[x] \in Nat, NEW n \in 0..Len(s)
  PROVE  Weight(s, w) = Weight(SubSeq(s, 1, n), w) + Weight(SubSeq(s, n + 1, Len(s)), w)
<1> DEFINE a == SubSeq(s, 1, n)
           b == SubSeq(s, n + 1, Len(s))
<1> HIDE DEF a, b
<1>1. a \in Seq(S) /\ b \in Seq(S) /\ s = a \o b
  BY Split DEF a, b
<1>2. Weight(a \o b, w) = Weight(a, w) + Weight(b, w)
  BY <1>1, WeightConcat
<1>3. QED
  BY <1>1, <1>2 DEF a, b

\* Without its element at k it weighs less by that element.
LEMMA WeightRemoved ==
  ASSUME NEW S, NEW s \in Seq(S), NEW w, \A x \in S : w[x] \in Nat, NEW k \in 1..Len(s)
  PROVE  Weight(RemoveAt(s, k), w) = Weight(s, w) - w[s[k]]
<1> DEFINE a == SubSeq(s, 1, k - 1)
           b == SubSeq(s, k + 1, Len(s))
           c == SubSeq(s, 1, k)
<1> HIDE DEF a, b, c
<1>1. k - 1 \in 0..Len(s) /\ k \in 0..Len(s) /\ s[k] \in S
  OBVIOUS
<1>2. a \in Seq(S) /\ b \in Seq(S) /\ c \in Seq(S)
  BY <1>1, Split DEF a, b, c
<1>3. c = Append(a, s[k])
  <2>1. Len(a) = k - 1 /\ Len(c) = k /\ \A i \in 1..k - 1 : a[i] = s[i]
    BY <1>1, Split DEF a, c
  <2>2. \A i \in 1..k : c[i] = s[i]
    BY <1>1, Split DEF c
  <2>3. /\ Append(a, s[k]) \in Seq(S)
        /\ Len(Append(a, s[k])) = k
        /\ \A i \in 1..k : Append(a, s[k])[i] = s[i]
    BY <1>1, <1>2, <2>1
  <2>4. QED
    BY <1>2, <2>1, <2>2, <2>3, SeqEqual
<1>4. Weight(s, w) = Weight(c, w) + Weight(b, w)
  BY <1>1, WeightSplit DEF b, c
<1>5. Weight(c, w) = Weight(a, w) + w[s[k]]
  BY <1>1, <1>2, <1>3, WeightAppend
<1>6. RemoveAt(s, k) = a \o b
  BY DEF RemoveAt, a, b
<1>7. Weight(a \o b, w) = Weight(a, w) + Weight(b, w)
  BY <1>2, WeightConcat
<1>8. Weight(a, w) \in Nat /\ Weight(b, w) \in Nat /\ w[s[k]] \in Nat
  BY <1>1, <1>2, WeightType
<1>9. QED
  BY <1>4, <1>5, <1>6, <1>7, <1>8

-----------------------------------------------------------------------------
\* The elements of a sequence that got one more.
LEMMA AppendSet ==
  ASSUME NEW S, NEW s \in Seq(S), NEW x \in S
  PROVE  /\ ToSet(Append(s, x)) = ToSet(s) \cup {x}
         /\ IsInjective(s) /\ x \notin ToSet(s) => IsInjective(Append(s, x))
<1>1. /\ Append(s, x) \in Seq(S)
      /\ Len(Append(s, x)) = Len(s) + 1
      /\ \A i \in 1..Len(s) : Append(s, x)[i] = s[i]
      /\ Append(s, x)[Len(s) + 1] = x
  OBVIOUS
<1>2. ToSet(Append(s, x)) = ToSet(s) \cup {x}
  BY <1>1 DEF ToSet
<1>3. IsInjective(s) /\ x \notin ToSet(s) => IsInjective(Append(s, x))
  BY <1>1 DEF ToSet, IsInjective
<1>4. QED
  BY <1>2, <1>3

\* Those that remain of distinct ones without the first.
LEMMA TailSet ==
  ASSUME NEW S, NEW s \in Seq(S), s # <<>>, IsInjective(s)
  PROVE  /\ Head(s) \in ToSet(s)
         /\ ToSet(Tail(s)) = ToSet(s) \ {Head(s)}
         /\ IsInjective(Tail(s))
<1>1. /\ Tail(s) \in Seq(S)
      /\ Len(Tail(s)) = Len(s) - 1
      /\ Len(s) \in Nat \ {0}
      /\ \A i \in 1..Len(s) - 1 : Tail(s)[i] = s[i + 1]
      /\ Head(s) = s[1]
  OBVIOUS
<1>2. IsInjective(Tail(s))
  BY <1>1 DEF IsInjective
<1>3. ToSet(Tail(s)) \subseteq ToSet(s) \ {Head(s)}
  BY <1>1 DEF ToSet, IsInjective
<1>4. ASSUME NEW x \in ToSet(s) \ {Head(s)}
      PROVE  x \in ToSet(Tail(s))
  <2>1. PICK i \in 1..Len(s) : s[i] = x
    BY DEF ToSet
  <2>2. i # 1 /\ i - 1 \in 1..Len(s) - 1 /\ Tail(s)[i - 1] = x
    BY <1>1, <2>1
  <2>3. DOMAIN Tail(s) = 1..Len(s) - 1
    BY <1>1
  <2>4. QED
    BY <2>2, <2>3, Zenon DEF ToSet
<1>5. QED
  BY <1>1, <1>2, <1>3, <1>4 DEF ToSet

\* Those that remain without the one at k.
LEMMA RemovedSet ==
  ASSUME NEW S, NEW s \in Seq(S), NEW k \in 1..Len(s), IsInjective(s)
  PROVE  /\ ToSet(RemoveAt(s, k)) = ToSet(s) \ {s[k]}
         /\ IsInjective(RemoveAt(s, k))
<1> DEFINE r == RemoveAt(s, k)
<1> HIDE DEF r
<1>1. /\ r \in Seq(S)
      /\ Len(r) = Len(s) - 1
      /\ \A i \in 1..Len(s) - 1 : r[i] = IF i < k THEN s[i] ELSE s[i + 1]
  BY Removed DEF r
<1>2. IsInjective(r)
  <2>1. SUFFICES ASSUME NEW i \in 1..Len(s) - 1, NEW j \in 1..Len(s) - 1, r[i] = r[j]
                 PROVE  i = j
    BY <1>1 DEF IsInjective
  <2>2. PICK a \in 1..Len(s) : a = (IF i < k THEN i ELSE i + 1) /\ r[i] = s[a]
    BY <1>1
  <2>3. PICK b \in 1..Len(s) : b = (IF j < k THEN j ELSE j + 1) /\ r[j] = s[b]
    BY <1>1
  <2>4. a = b
    <3>1. s[a] = s[b]
      BY <2>1, <2>2, <2>3
    <3>2. QED
      BY <3>1 DEF IsInjective
  <2>5. QED
    BY <2>2, <2>3, <2>4
<1>3. ToSet(r) \subseteq ToSet(s) \ {s[k]}
  BY <1>1 DEF ToSet, IsInjective
<1>4. ASSUME NEW x \in ToSet(s) \ {s[k]}
      PROVE  x \in ToSet(r)
  <2>1. PICK i \in 1..Len(s) : s[i] = x
    BY DEF ToSet
  <2>2. CASE i < k
    BY <1>1, <2>1, <2>2 DEF ToSet
  <2>3. CASE ~ (i < k)
    <3>1. i - 1 \in 1..Len(s) - 1 /\ r[i - 1] = x
      BY <1>1, <2>1, <2>3
    <3>2. QED
      BY <1>1, <3>1 DEF ToSet
  <2>4. QED
    BY <2>2, <2>3
<1>5. QED
  BY <1>2, <1>3, <1>4 DEF r

\* The first n of distinct elements, and the rest.
LEMMA SplitSet ==
  ASSUME NEW S, NEW s \in Seq(S), NEW n \in 0..Len(s), IsInjective(s)
  PROVE  /\ ToSet(SubSeq(s, n + 1, Len(s))) = ToSet(s) \ ToSet(SubSeq(s, 1, n))
         /\ ToSet(SubSeq(s, 1, n)) \subseteq ToSet(s)
         /\ IsInjective(SubSeq(s, n + 1, Len(s)))
<1> DEFINE t == SubSeq(s, 1, n)
           u == SubSeq(s, n + 1, Len(s))
<1> HIDE DEF t, u
<1>1. /\ t \in Seq(S) /\ Len(t) = n /\ \A i \in 1..n : t[i] = s[i]
      /\ u \in Seq(S) /\ Len(u) = Len(s) - n /\ \A i \in 1..Len(s) - n : u[i] = s[n + i]
  BY Split, ZenonT(60) DEF t, u
<1>2. IsInjective(u)
  <2>1. SUFFICES ASSUME NEW i \in 1..Len(s) - n, NEW j \in 1..Len(s) - n, u[i] = u[j]
                 PROVE  i = j
    BY <1>1 DEF IsInjective
  <2>2. n + i \in 1..Len(s) /\ n + j \in 1..Len(s) /\ s[n + i] = s[n + j]
    BY <1>1, <2>1
  <2>3. n + i = n + j
    BY <2>2 DEF IsInjective
  <2>4. QED
    BY <2>3
<1>3. ToSet(t) \subseteq ToSet(s)
  BY <1>1 DEF ToSet
<1>4. ToSet(u) \subseteq ToSet(s) \ ToSet(t)
  <2>1. SUFFICES ASSUME NEW i \in 1..Len(s) - n
                 PROVE  u[i] \in ToSet(s) /\ u[i] \notin ToSet(t)
    BY <1>1 DEF ToSet
  <2>2. n + i \in 1..Len(s) /\ u[i] = s[n + i]
    BY <1>1
  <2>3. ASSUME NEW j \in 1..n, t[j] = u[i]
        PROVE  FALSE
    <3>1. j \in 1..Len(s) /\ s[j] = s[n + i]
      BY <1>1, <2>2, <2>3
    <3>2. j = n + i
      BY <2>2, <3>1 DEF IsInjective
    <3>3. QED
      BY <3>2
  <2>4. u[i] \in ToSet(s)
    BY <2>2 DEF ToSet
  <2>5. u[i] \notin ToSet(t)
    BY <1>1, <2>3 DEF ToSet
  <2>6. QED
    BY <2>4, <2>5
<1>5. ASSUME NEW x \in ToSet(s) \ ToSet(t)
      PROVE  x \in ToSet(u)
  <2>1. PICK i \in 1..Len(s) : s[i] = x
    BY DEF ToSet
  <2>2. ~ (i <= n)
    BY <1>1, <2>1 DEF ToSet
  <2>3. i - n \in 1..Len(s) - n /\ u[i - n] = x
    BY <1>1, <2>1, <2>2
  <2>4. QED
    BY <1>1, <2>3 DEF ToSet
<1>6. QED
  BY <1>2, <1>3, <1>4, <1>5 DEF t, u

-----------------------------------------------------------------------------
(***************************************************************************)
(* Concatenations of two and of many sequences.                            *)
(***************************************************************************)
\* A set of sequences that has the empty one and all extensions of its own has
\* every sequence.
LEMMA SeqInduction ==
  ASSUME NEW S, NEW P, <<>> \in P, \A q \in P \cap Seq(S) : \A x \in S : Append(q, x) \in P
  PROVE  Seq(S) \subseteq P
<1> DEFINE Bad == {n \in Nat : \E q \in Seq(S) \ P : Len(q) = n}
<1>1. SUFFICES ASSUME NEW p \in Seq(S), p \notin P
               PROVE  FALSE
  OBVIOUS
<1>2. Bad \in SUBSET Nat /\ Len(p) \in Bad
  BY <1>1
<1>3. PICK n \in Bad : \A k \in Bad : n <= k
  <2> HIDE DEF Bad
  <2>1. QED
    BY <1>2, LeastElement
<1>4. PICK q \in Seq(S) \ P : Len(q) = n
  BY <1>3
<1>5. q # <<>> /\ n \in Nat \ {0}
  BY <1>4
<1> DEFINE r == SubSeq(q, 1, n - 1)
<1>6. r \in Seq(S) /\ Len(r) = n - 1 /\ q[n] \in S /\ q = Append(r, q[n])
  <2>1. /\ r \in Seq(S)
        /\ Len(r) = n - 1
        /\ \A i \in 1..n - 1 : r[i] = q[i]
    <3>1. n - 1 \in 0..Len(q)
      BY <1>4, <1>5
    <3>2. QED
      BY <3>1, Split
  <2> HIDE DEF r
  <2>2. q[n] \in S
    BY <1>4, <1>5
  <2>3. /\ Append(r, q[n]) \in Seq(S)
        /\ Len(Append(r, q[n])) = n
        /\ \A i \in 1..n : Append(r, q[n])[i] = q[i]
    BY <1>5, <2>1, <2>2
  <2>4. QED
    BY <1>4, <2>1, <2>2, <2>3, SeqEqual
<1> HIDE DEF r
<1>7. n - 1 \notin Bad
  BY <1>3, <1>5
<1>8. r \in P
  BY <1>5, <1>6, <1>7
<1>9. QED
  BY <1>4, <1>6, <1>8

\* Where the parts of a concatenation are.
LEMMA ConcatAt ==
  ASSUME NEW S, NEW s \in Seq(S), NEW t \in Seq(S)
  PROVE  /\ Len(s \o t) = Len(s) + Len(t)
         /\ \A i \in 1..Len(s) : (s \o t)[i] = s[i]
         /\ \A i \in 1..Len(t) : (s \o t)[Len(s) + i] = t[i]
<1>1. Len(s \o t) = Len(s) + Len(t)
  OBVIOUS
<1>2. ASSUME NEW i \in 1..Len(s)
      PROVE  (s \o t)[i] = s[i]
  OBVIOUS
<1>3. ASSUME NEW i \in 1..Len(t)
      PROVE  (s \o t)[Len(s) + i] = t[i]
  OBVIOUS
<1>4. QED
  BY <1>1, <1>2, <1>3

\* What a concatenation keeps of its parts.
LEMMA ConcatSet ==
  ASSUME NEW S, NEW s \in Seq(S), NEW t \in Seq(S)
  PROVE  /\ s \o t \in Seq(S)
         /\ ToSet(s \o t) = ToSet(s) \cup ToSet(t)
         /\ IsInjective(s \o t) <=>
              IsInjective(s) /\ IsInjective(t) /\ ToSet(s) \cap ToSet(t) = {}
<1> DEFINE u == s \o t
           n == Len(s)
           m == Len(t)
<1>1. /\ u \in Seq(S) /\ Len(u) = n + m /\ n \in Nat /\ m \in Nat
      /\ \A i \in 1..n : u[i] = s[i]
      /\ \A i \in 1..m : u[n + i] = t[i]
      /\ DOMAIN u = 1..n + m /\ DOMAIN s = 1..n /\ DOMAIN t = 1..m
  OBVIOUS
<1> HIDE DEF u, n, m
<1>2. \A i \in 1..n + m :
        \/ i \in 1..n /\ u[i] = s[i]
        \/ i - n \in 1..m /\ u[i] = t[i - n]
  <2>1. TAKE i \in 1..n + m
  <2>2. CASE i <= n
    BY <1>1, <2>2
  <2>3. CASE ~ (i <= n)
    <3>1. i - n \in 1..m /\ n + (i - n) = i
      BY <1>1, <2>3
    <3>2. QED
      BY <1>1, <3>1
  <2>4. QED
    BY <2>2, <2>3
<1>3. /\ \A i \in 1..n : i \in 1..n + m
      /\ \A i \in 1..m : n + i \in 1..n + m
  BY <1>1
<1>4. ToSet(u) = ToSet(s) \cup ToSet(t)
  <2>1. \A x \in ToSet(u) : x \in ToSet(s) \cup ToSet(t)
    BY <1>1, <1>2, Zenon DEF ToSet
  <2>2. \A x \in ToSet(s) : x \in ToSet(u)
    BY <1>1, <1>3, Zenon DEF ToSet
  <2>3. \A x \in ToSet(t) : x \in ToSet(u)
    BY <1>1, <1>3, Zenon DEF ToSet
  <2>4. QED
    BY <2>1, <2>2, <2>3
<1>5. ASSUME IsInjective(u)
      PROVE  IsInjective(s) /\ IsInjective(t) /\ ToSet(s) \cap ToSet(t) = {}
  <2>1. \A i, j \in 1..n + m : u[i] = u[j] => i = j
    BY <1>1, <1>5 DEF IsInjective
  <2>2. \A i, j \in 1..n : s[i] = s[j] => i = j
    BY <1>1, <1>3, <2>1
  <2>3. \A i, j \in 1..m : t[i] = t[j] => i = j
    <3>1. SUFFICES ASSUME NEW i \in 1..m, NEW j \in 1..m, t[i] = t[j] PROVE i = j
      OBVIOUS
    <3>2. n + i = n + j
      BY <1>1, <1>3, <2>1, <3>1
    <3>3. QED
      BY <1>1, <3>2
  <2>4. \A i \in 1..n, j \in 1..m : s[i] # t[j]
    <3>1. SUFFICES ASSUME NEW i \in 1..n, NEW j \in 1..m, s[i] = t[j] PROVE FALSE
      OBVIOUS
    <3>2. i = n + j
      BY <1>1, <1>3, <2>1, <3>1
    <3>3. QED
      BY <1>1, <3>2
  <2>5. ToSet(s) \cap ToSet(t) = {}
    BY <1>1, <2>4 DEF ToSet
  <2>6. QED
    BY <1>1, <2>2, <2>3, <2>5 DEF IsInjective
<1>6. ASSUME IsInjective(s), IsInjective(t), ToSet(s) \cap ToSet(t) = {}
      PROVE  IsInjective(u)
  <2>1. \A i, j \in 1..n : s[i] = s[j] => i = j
    BY <1>1, <1>6 DEF IsInjective
  <2>2. \A i, j \in 1..m : t[i] = t[j] => i = j
    BY <1>1, <1>6 DEF IsInjective
  <2>3. \A i \in 1..n, j \in 1..m : s[i] # t[j]
    BY <1>1, <1>6 DEF ToSet
  <2>4. ASSUME NEW i \in 1..n + m, NEW j \in 1..n + m, u[i] = u[j] PROVE i = j
    <3>1. CASE i \in 1..n /\ u[i] = s[i] /\ j \in 1..n /\ u[j] = s[j]
      BY <2>1, <2>4, <3>1
    <3>2. CASE i \in 1..n /\ u[i] = s[i] /\ j - n \in 1..m /\ u[j] = t[j - n]
      BY <2>3, <2>4, <3>2
    <3>3. CASE i - n \in 1..m /\ u[i] = t[i - n] /\ j \in 1..n /\ u[j] = s[j]
      BY <2>3, <2>4, <3>3
    <3>4. CASE i - n \in 1..m /\ u[i] = t[i - n] /\ j - n \in 1..m /\ u[j] = t[j - n]
      <4>1. i - n = j - n
        BY <2>2, <2>4, <3>4
      <4>2. QED
        BY <1>1, <4>1
    <3>5. QED
      BY <1>2, <3>1, <3>2, <3>3, <3>4
  <2>5. QED
    BY <1>1, <2>4 DEF IsInjective
<1>7. QED
  BY <1>1, <1>4, <1>5, <1>6 DEF u

Flats(f, s, n) == f = [i \in 1..n |-> IF i = 1 THEN s[i] ELSE f[i - 1] \o s[i]]

\* The function of concatenated prefixes exists.
LEMMA FlatsExist ==
  ASSUME NEW s, NEW n \in Nat
  PROVE  \E f : Flats(f, s, n)
<1> DEFINE Bad == {m \in Nat : ~ \E f : Flats(f, s, m)}
<1>1. SUFFICES ASSUME n \in Bad
               PROVE  FALSE
  OBVIOUS
<1>2. Bad \in SUBSET Nat
  OBVIOUS
<1>3. PICK m \in Bad : \A k \in Bad : m <= k
  <2> HIDE DEF Bad
  <2>1. QED
    BY <1>1, <1>2, LeastElement
<1>4. m # 0
  <2>1. Flats([i \in 1..0 |-> <<>>], s, 0)
    BY DEF Flats
  <2>2. QED
    BY <2>1
<1>5. m - 1 \in Nat /\ m - 1 \notin Bad
  BY <1>3, <1>4
<1>6. PICK f : Flats(f, s, m - 1)
  BY <1>5
<1> DEFINE last == IF m = 1 THEN s[m] ELSE f[m - 1] \o s[m]
           h    == [i \in 1..m |-> IF i = m THEN last ELSE f[i]]
<1>7. Flats(h, s, m)
  <2>1. \A i \in 1..m - 1 : f[i] = IF i = 1 THEN s[i] ELSE f[i - 1] \o s[i]
    BY <1>6, Zenon DEF Flats
  <2>2. /\ DOMAIN h = 1..m
        /\ \A i \in 1..m : h[i] = IF i = m THEN last ELSE f[i]
        /\ h = [i \in 1..m |-> h[i]]
    BY Zenon
  <2>3. ASSUME NEW i \in 1..m
        PROVE  h[i] = IF i = 1 THEN s[i] ELSE h[i - 1] \o s[i]
    <3>1. CASE i = 1
      BY <1>4, <2>1, <2>2, <2>3, <3>1
    <3>2. CASE i # 1
      <4>1. i - 1 \in 1..m /\ i - 1 # m
        BY <2>3, <3>2
      <4>2. h[i - 1] = f[i - 1]
        BY <2>2, <4>1, Zenon
      <4>3. CASE i = m
        BY <2>2, <3>2, <4>2, <4>3
      <4>4. CASE i # m
        <5>1. i \in 1..m - 1
          BY <2>3, <4>4
        <5>2. f[i] = f[i - 1] \o s[i]
          BY <2>1, <3>2, <5>1, Zenon
        <5>3. h[i] = f[i]
          BY <2>2, <2>3, <4>4, Zenon
        <5>4. QED
          BY <3>2, <4>2, <5>2, <5>3, Zenon
      <4>5. QED
        BY <4>3, <4>4
    <3>3. QED
      BY <3>1, <3>2
  <2> HIDE DEF h
  <2>4. [i \in 1..m |-> h[i]] = [i \in 1..m |-> IF i = 1 THEN s[i] ELSE h[i - 1] \o s[i]]
    BY <2>3, Zenon
  <2>5. QED
    BY <2>2, <2>4, Zenon DEF Flats
<1>8. QED
  BY <1>3, <1>7

\* Functions of concatenated prefixes agree wherever the sequences do.
LEMMA FlatsAgree ==
  ASSUME NEW s, NEW t, NEW n \in Nat, NEW m \in Nat, NEW f, NEW g,
         Flats(f, s, n), Flats(g, t, m), n <= m, \A i \in 1..n : s[i] = t[i]
  PROVE  \A k \in 1..n : f[k] = g[k]
<1> DEFINE Bad == {k \in 1..n : f[k] # g[k]}
<1>1. SUFFICES ASSUME Bad # {}
               PROVE  FALSE
  OBVIOUS
<1>2. Bad \in SUBSET Nat
  OBVIOUS
<1>3. PICK k \in Bad : \A j \in Bad : k <= j
  <2> HIDE DEF Bad
  <2>1. QED
    BY <1>1, <1>2, LeastElement
<1>4. k \in 1..n /\ k \in 1..m /\ s[k] = t[k]
  BY <1>3
<1>5. f[k] = IF k = 1 THEN s[k] ELSE f[k - 1] \o s[k]
  BY <1>4, Zenon DEF Flats
<1>6. g[k] = IF k = 1 THEN t[k] ELSE g[k - 1] \o t[k]
  BY <1>4, Zenon DEF Flats
<1>7. k # 1 => f[k - 1] = g[k - 1]
  <2>1. k # 1 => k - 1 \in 1..n /\ k - 1 \notin Bad
    BY <1>3, <1>4
  <2>2. QED
    BY <2>1
<1>8. f[k] = g[k]
  BY <1>4, <1>5, <1>6, <1>7, Zenon
<1>9. QED
  BY <1>3, <1>8

\* They have the elements of their sequence.
LEMMA FlatsType ==
  ASSUME NEW S, NEW s \in Seq(Seq(S)), NEW f, Flats(f, s, Len(s))
  PROVE  \A k \in 1..Len(s) : f[k] \in Seq(S)
<1> DEFINE Bad == {k \in 1..Len(s) : f[k] \notin Seq(S)}
<1>1. SUFFICES ASSUME Bad # {}
               PROVE  FALSE
  OBVIOUS
<1>2. Bad \in SUBSET Nat
  OBVIOUS
<1>3. PICK k \in Bad : \A j \in Bad : k <= j
  <2> HIDE DEF Bad
  <2>1. QED
    BY <1>1, <1>2, LeastElement
<1>4. k \in 1..Len(s)
  BY <1>3
<1>5. s[k] \in Seq(S)
  BY <1>4, ElementOfSeq, Zenon
<1>6. f[k] = IF k = 1 THEN s[k] ELSE f[k - 1] \o s[k]
  BY <1>4, Zenon DEF Flats
<1>7. k # 1 => f[k - 1] \in Seq(S)
  <2>1. k # 1 => k - 1 \in 1..Len(s) /\ k - 1 \notin Bad
    BY <1>3, <1>4
  <2>2. QED
    BY <2>1
<1>8. \A p, q \in Seq(S) : p \o q \in Seq(S)
  OBVIOUS
<1>9. f[k] \in Seq(S)
  BY <1>5, <1>6, <1>7, <1>8
<1>10. QED
  BY <1>3, <1>9

\* The concatenation of many sequences, by such a function.
LEMMA FlattenFlats ==
  ASSUME NEW s, Len(s) \in Nat \ {0}
  PROVE  \E f : Flats(f, s, Len(s)) /\ FlattenSeq(s) = f[Len(s)]
<1>1. Len(s) \in Nat /\ Len(s) # 0
  OBVIOUS
<1>2. \E f : Flats(f, s, Len(s))
  BY <1>1, FlatsExist
<1>3. QED
  BY <1>1, <1>2, Zenon DEF FlattenSeq, Flats

\* One sequence more is concatenated last.
LEMMA FlattenMore ==
  ASSUME NEW s, NEW u, NEW n \in Nat \ {0}, Len(s) = n, Len(u) = n + 1,
         \A i \in 1..n : s[i] = u[i]
  PROVE  FlattenSeq(u) = FlattenSeq(s) \o u[n + 1]
<1>1. PICK f : Flats(f, s, n) /\ FlattenSeq(s) = f[n]
  BY FlattenFlats
<1>2. n + 1 \in Nat /\ n \in Nat /\ n + 1 \in Nat \ {0} /\ n <= n + 1 /\ n \in 1..n
  OBVIOUS
<1>3. PICK g : Flats(g, u, n + 1) /\ FlattenSeq(u) = g[n + 1]
  BY <1>2, FlattenFlats
<1>4. \A k \in 1..n : f[k] = g[k]
  <2>1. PICK m : m = n + 1
    OBVIOUS
  <2>2. m \in Nat /\ n \in Nat /\ n <= m /\ Flats(g, u, m)
    BY <1>2, <1>3, <2>1
  <2>3. QED
    BY <1>1, <2>2, FlatsAgree, SMTT(30)
<1>5. g[n + 1] = IF n + 1 = 1 THEN u[n + 1] ELSE g[(n + 1) - 1] \o u[n + 1]
  <2>1. n + 1 \in 1..n + 1
    OBVIOUS
  <2>2. QED
    BY <1>3, <2>1, Zenon DEF Flats
<1>6. n + 1 # 1 /\ (n + 1) - 1 = n
  OBVIOUS
<1>7. QED
  BY <1>1, <1>2, <1>3, <1>4, <1>5, <1>6

\* Nothing is concatenated.
LEMMA FlattenEmpty == FlattenSeq(<<>>) = <<>>
  BY DEF FlattenSeq

\* A concatenation has the elements of its parts.
LEMMA FlattenType ==
  ASSUME NEW S, NEW s \in Seq(Seq(S))
  PROVE  FlattenSeq(s) \in Seq(S)
<1>1. CASE Len(s) = 0
  <2>1. s = <<>>
    BY <1>1
  <2>2. FlattenSeq(s) = <<>>
    BY <2>1, FlattenEmpty, Zenon
  <2>3. <<>> \in Seq(S)
    OBVIOUS
  <2>4. QED
    BY <2>2, <2>3, Zenon
<1>2. CASE Len(s) # 0
  <2>1. PICK f : Flats(f, s, Len(s)) /\ FlattenSeq(s) = f[Len(s)]
    BY <1>2, FlattenFlats
  <2>2. Len(s) \in 1..Len(s)
    BY <1>2
  <2>3. f[Len(s)] \in Seq(S)
    BY <2>1, <2>2, FlatsType
  <2>4. QED
    BY <2>1, <2>3
<1>3. QED
  BY <1>1, <1>2

\* One more sequence goes to the end.
LEMMA FlattenAppend ==
  ASSUME NEW S, NEW s \in Seq(Seq(S)), NEW x \in Seq(S)
  PROVE  FlattenSeq(Append(s, x)) = FlattenSeq(s) \o x
<1> DEFINE u == Append(s, x)
           n == Len(s)
<1>1. /\ u \in Seq(Seq(S)) /\ Len(u) = n + 1 /\ n \in Nat
      /\ \A i \in 1..n : s[i] = u[i]
      /\ u[n + 1] = x
  <2> DEFINE R == Seq(S)
  <2>1. s \in Seq(R) /\ x \in R
    OBVIOUS
  <2> HIDE DEF R
  <2>2. /\ u \in Seq(R) /\ Len(u) = n + 1 /\ n \in Nat
        /\ \A i \in 1..n : s[i] = u[i]
        /\ u[n + 1] = x
    BY <2>1
  <2>3. QED
    BY <2>2 DEF R
<1> HIDE DEF u, n
<1>2. CASE n = 0
  <2>1. s = <<>>
    BY <1>2 DEF n
  <2>2. Len(u) \in Nat \ {0} /\ Len(u) = 1 /\ 1 \in 1..1
    BY <1>1, <1>2
  <2>3. PICK g : Flats(g, u, 1) /\ FlattenSeq(u) = g[1]
    BY <2>2, FlattenFlats
  <2>4. g[1] = u[1]
    BY <2>2, <2>3, Zenon DEF Flats
  <2>5. FlattenSeq(s) = <<>>
    BY <2>1, FlattenEmpty, Zenon
  <2>6. <<>> \o x = x
    OBVIOUS
  <2>7. u[1] = x
    BY <1>1, <1>2
  <2>8. QED
    BY <2>3, <2>4, <2>5, <2>6, <2>7, Zenon DEF u
<1>3. CASE n # 0
  <2>1. n \in Nat \ {0} /\ Len(s) = n /\ Len(u) = n + 1 /\ \A i \in 1..n : s[i] = u[i]
    BY <1>1, <1>3 DEF n
  <2>2. FlattenSeq(u) = FlattenSeq(s) \o u[n + 1]
    BY <2>1, FlattenMore, Zenon
  <2>3. QED
    BY <1>1, <2>2, Zenon DEF u
<1>4. QED
  BY <1>2, <1>3

\* So do many more.
LEMMA FlattenConcat ==
  ASSUME NEW S, NEW s \in Seq(Seq(S)), NEW t \in Seq(Seq(S))
  PROVE  FlattenSeq(s \o t) = FlattenSeq(s) \o FlattenSeq(t)
<1> DEFINE R == Seq(S)
           P == {q \in Seq(R) : FlattenSeq(s \o q) = FlattenSeq(s) \o FlattenSeq(q)}
<1>1. FlattenSeq(s) \in Seq(S)
  BY FlattenType
<1>2. <<>> \in P
  <2>1. s \o <<>> = s
    OBVIOUS
  <2>2. \A q \in Seq(S) : q \o <<>> = q
    OBVIOUS
  <2>3. FlattenSeq(s) \o FlattenSeq(<<>>) = FlattenSeq(s)
    BY <1>1, <2>2, FlattenEmpty, Zenon
  <2>4. <<>> \in Seq(R)
    OBVIOUS
  <2>5. QED
    BY <2>1, <2>3, <2>4, Zenon
<1>3. ASSUME NEW q \in P \cap Seq(R), NEW x \in R
      PROVE  Append(q, x) \in P
  <2>1. FlattenSeq(s \o q) = FlattenSeq(s) \o FlattenSeq(q)
    BY <1>3
  <2>2. /\ s \o Append(q, x) = Append(s \o q, x)
        /\ s \o q \in Seq(R)
        /\ Append(q, x) \in Seq(R)
    <3>1. s \in Seq(R) /\ q \in Seq(R) /\ x \in R
      BY <1>3
    <3> HIDE DEF R
    <3>2. QED
      BY <3>1
  <2>3. FlattenSeq(Append(s \o q, x)) = FlattenSeq(s \o q) \o x
    BY <1>3, <2>2, FlattenAppend
  <2>4. FlattenSeq(Append(q, x)) = FlattenSeq(q) \o x
    BY <1>3, FlattenAppend
  <2>5. \A a, b, c \in Seq(S) : (a \o b) \o c = a \o (b \o c)
    BY SMTT(30)
  <2>6. FlattenSeq(q) \in Seq(S) /\ x \in Seq(S)
    BY <1>3, FlattenType
  <2>7. (FlattenSeq(s) \o FlattenSeq(q)) \o x = FlattenSeq(s) \o (FlattenSeq(q) \o x)
    BY <1>1, <2>5, <2>6
  <2>8. FlattenSeq(s \o Append(q, x)) = FlattenSeq(s) \o FlattenSeq(Append(q, x))
    BY <2>1, <2>2, <2>3, <2>4, <2>7
  <2>9. QED
    BY <2>2, <2>8
<1>4. Seq(R) \subseteq P
  <2> HIDE DEF P, R
  <2>1. QED
    BY <1>2, <1>3, SeqInduction
<1>5. QED
  BY <1>4

\* The elements of a concatenation, and when none of them comes twice.
LEMMA FlattenParts ==
  ASSUME NEW S, NEW s \in Seq(Seq(S))
  PROVE  /\ ToSet(FlattenSeq(s)) = UNION {ToSet(s[i]) : i \in DOMAIN s}
         /\ (\A i \in DOMAIN s : IsInjective(s[i]))
              /\ (\A i, j \in DOMAIN s : i # j => ToSet(s[i]) \cap ToSet(s[j]) = {})
            => IsInjective(FlattenSeq(s))
<1> DEFINE R == Seq(S)
           Elements(q) == UNION {ToSet(q[i]) : i \in DOMAIN q}
           Apart(q) == /\ \A i \in DOMAIN q : IsInjective(q[i])
                       /\ \A i, j \in DOMAIN q : i # j => ToSet(q[i]) \cap ToSet(q[j]) = {}
           P == {q \in Seq(R) : /\ ToSet(FlattenSeq(q)) = Elements(q)
                                /\ Apart(q) => IsInjective(FlattenSeq(q))}
<1>1. <<>> \in P
  <2>1. ToSet(<<>>) = {} /\ IsInjective(<<>>) /\ DOMAIN <<>> = {}
    BY DEF ToSet, IsInjective
  <2>2. QED
    BY <2>1, FlattenEmpty
<1>2. ASSUME NEW q \in P \cap Seq(R), NEW x \in R
      PROVE  Append(q, x) \in P
  <2> DEFINE u == Append(q, x)
             m == Len(q) + 1
  <2>1. /\ u \in Seq(R) /\ q \in Seq(R) /\ x \in R
        /\ DOMAIN u = DOMAIN q \cup {m}
        /\ m \notin DOMAIN q
        /\ \A i \in DOMAIN q : u[i] = q[i]
        /\ u[m] = x
    <3>1. q \in Seq(R)
      BY <1>2
    <3> HIDE DEF R
    <3>2. QED
      BY <1>2, <3>1
  <2>2. FlattenSeq(u) = FlattenSeq(q) \o x
    BY <2>1, FlattenAppend
  <2>3. FlattenSeq(q) \in Seq(S) /\ x \in Seq(S)
    BY <2>1, FlattenType
  <2> HIDE DEF u, m, R
  <2>4. /\ ToSet(FlattenSeq(u)) = ToSet(FlattenSeq(q)) \cup ToSet(x)
        /\ IsInjective(FlattenSeq(q)) /\ IsInjective(x) /\ ToSet(FlattenSeq(q)) \cap ToSet(x) = {}
           => IsInjective(FlattenSeq(u))
    BY <2>2, <2>3, ConcatSet
  <2>5. ToSet(FlattenSeq(q)) = Elements(q) /\ (Apart(q) => IsInjective(FlattenSeq(q)))
    BY <1>2
  <2>6. Elements(u) = Elements(q) \cup ToSet(x)
    BY <2>1
  <2>7. ASSUME Apart(u)
        PROVE  IsInjective(FlattenSeq(u))
    <3>1. Apart(q)
      BY <2>1, <2>7
    <3>2. IsInjective(x)
      BY <2>1, <2>7
    <3>3. \A i \in DOMAIN q : ToSet(q[i]) \cap ToSet(x) = {}
      BY <2>1, <2>7
    <3>4. Elements(q) \cap ToSet(x) = {}
      BY <3>3
    <3>5. QED
      BY <2>4, <2>5, <3>1, <3>2, <3>4
  <2>8. u \in P
    BY <2>1, <2>4, <2>5, <2>6, <2>7
  <2>9. QED
    BY <2>8 DEF u
<1>3. Seq(R) \subseteq P
  <2> HIDE DEF P, R
  <2>1. QED
    BY <1>1, <1>2, SeqInduction
<1>4. QED
  BY <1>3

\* A sequence that is as long as one of distinct elements and has the same ones
\* has each once.
LEMMA Rearranged ==
  ASSUME NEW S, NEW s \in Seq(S), NEW t \in Seq(S),
         Len(s) = Len(t), ToSet(s) = ToSet(t), IsInjective(t)
  PROVE  IsInjective(s)
<1> DEFINE n == Len(s)
           D == 1..n
           T == ToSet(s)
<1>1. n \in Nat /\ DOMAIN s = D /\ DOMAIN t = D
  OBVIOUS
<1>2. IsFiniteSet(D)
  BY <1>1, FS_Interval
<1>3. s \in Surjection(D, T) /\ t \in Surjection(D, T) /\ t \in Injection(D, T)
  <2>1. s = [i \in D |-> s[i]] /\ t = [i \in D |-> t[i]]
    BY <1>1
  <2>2. \A i \in D : s[i] \in T /\ t[i] \in T
    BY <1>1 DEF ToSet
  <2>3. \A x \in T : (\E i \in D : s[i] = x) /\ (\E i \in D : t[i] = x)
    BY <1>1 DEF ToSet
  <2> HIDE DEF D, T
  <2>4. s \in [D -> T] /\ t \in [D -> T]
    BY <1>1, <2>1, <2>2
  <2>5. QED
    BY <2>3, <2>4 DEF Surjection, Injection
<1> HIDE DEF D, T
<1>4. Cardinality(T) = Cardinality(D)
  BY <1>2, <1>3, FS_Surjection
<1>5. s \in Injection(D, T)
  BY <1>2, <1>3, <1>4, FS_Surjection
<1>6. QED
  BY <1>5 DEF Injection

\* A function from 1..n to itself that repeats nothing leaves nothing out.
LEMMA Permuted ==
  ASSUME NEW n \in Nat, NEW f \in [1..n -> 1..n], IsInjective(f)
  PROVE  \A k \in 1..n : \E i \in 1..n : f[i] = k
<1>1. IsFiniteSet(1..n)
  BY FS_Interval
<1>2. f \in Injection(1..n, 1..n)
  BY DEF Injection
<1>3. f \in Surjection(1..n, 1..n)
  BY <1>1, <1>2, FS_Injection
<1>4. QED
  BY <1>3 DEF Surjection

\* One sequence alone.
LEMMA FlattenSingle ==
  ASSUME NEW S, NEW x \in Seq(S)
  PROVE  FlattenSeq(<<x>>) = x
<1>1. <<>> \in Seq(Seq(S)) /\ <<>> \in Seq(S) /\ Append(<<>>, x) = <<x>> /\ <<>> \o x = x
  OBVIOUS
<1>2. FlattenSeq(Append(<<>>, x)) = FlattenSeq(<<>>) \o x
  BY <1>1, FlattenAppend
<1>3. QED
  BY <1>1, <1>2, FlattenEmpty

\* What is left of a sequence from its k-th element on starts with that element.
LEMMA SplitHead ==
  ASSUME NEW S, NEW s \in Seq(S), NEW k \in 1..Len(s)
  PROVE  /\ SubSeq(s, k, Len(s)) = <<s[k]>> \o SubSeq(s, k + 1, Len(s))
         /\ SubSeq(s, k, Len(s)) \in Seq(S)
         /\ SubSeq(s, k + 1, Len(s)) \in Seq(S)
<1> DEFINE n == Len(s)
           u == SubSeq(s, k, n)
           v == SubSeq(s, k + 1, n)
           h == <<s[k]>>
           w == h \o v
<1>1. n \in Nat /\ k - 1 \in 0..n /\ (k - 1) + 1 = k /\ k \in 0..n
  OBVIOUS
<1>2. u \in Seq(S) /\ Len(u) = n - (k - 1) /\ \A i \in 1..n - (k - 1) : u[i] = s[k - 1 + i]
  BY <1>1, Split
<1>3. v \in Seq(S) /\ Len(v) = n - k /\ \A i \in 1..n - k : v[i] = s[k + i]
  BY <1>1, Split
<1> HIDE DEF u, v
<1>4. h \in Seq(S) /\ Len(h) = 1 /\ h[1] = s[k]
  OBVIOUS
<1> HIDE DEF h
<1>5. /\ w \in Seq(S)
      /\ Len(w) = Len(h) + Len(v)
      /\ \A i \in 1..Len(h) + Len(v) : w[i] = IF i <= Len(h) THEN h[i] ELSE v[i - Len(h)]
  BY <1>3, <1>4, ConcatProperties
<1> HIDE DEF w
<1>6. \A i \in 1..Len(u) : w[i] = u[i]
  <2>1. SUFFICES ASSUME NEW i \in 1..Len(u)
                 PROVE  w[i] = u[i]
    OBVIOUS
  <2>2. i \in 1..n - (k - 1) /\ i \in 1..Len(h) + Len(v)
    BY <1>1, <1>2, <1>3, <1>4, <2>1
  <2>3. CASE i = 1
    BY <1>1, <1>2, <1>4, <1>5, <2>2, <2>3
  <2>4. CASE i # 1
    <3>1. i - 1 \in 1..n - k /\ k + (i - 1) = k - 1 + i /\ ~ (i <= 1)
      BY <1>1, <2>2, <2>4
    <3>2. v[i - 1] = s[k - 1 + i]
      BY <1>3, <3>1
    <3>3. QED
      BY <1>2, <1>4, <1>5, <2>2, <3>1, <3>2
  <2>5. QED
    BY <2>3, <2>4
<1>7. Len(w) = Len(u)
  BY <1>1, <1>2, <1>3, <1>4, <1>5
<1>8. w = u
  BY <1>2, <1>5, <1>6, <1>7, SeqEqual
<1>9. QED
  BY <1>2, <1>3, <1>8 DEF u, v, w, h

\* Without its part at k, and that part.
LEMMA FlattenRemoved ==
  ASSUME NEW S, NEW s \in Seq(Seq(S)), NEW k \in 1..Len(s)
  PROVE  /\ FlattenSeq(RemoveAt(s, k)) \in Seq(S)
         /\ Len(FlattenSeq(s)) = Len(FlattenSeq(RemoveAt(s, k))) + Len(s[k])
         /\ ToSet(FlattenSeq(s)) = ToSet(FlattenSeq(RemoveAt(s, k))) \cup ToSet(s[k])
<1> DEFINE a == SubSeq(s, 1, k - 1)
           b == SubSeq(s, k, Len(s))
           c == SubSeq(s, k + 1, Len(s))
           R == Seq(S)
<1>1. s[k] \in Seq(S) /\ k - 1 \in 0..Len(s) /\ k \in 0..Len(s) /\ (k - 1) + 1 = k
  BY ElementOfSeq
<1>2. a \in Seq(R) /\ b \in Seq(R) /\ c \in Seq(R) /\ s = a \o b /\ b = <<s[k]>> \o c
  <2>1. s \in Seq(R)
    OBVIOUS
  <2> HIDE DEF R
  <2>2. /\ SubSeq(s, 1, k - 1) \in Seq(R)
        /\ s = SubSeq(s, 1, k - 1) \o SubSeq(s, (k - 1) + 1, Len(s))
    BY <1>1, <2>1, Split
  <2>3. b = <<s[k]>> \o c /\ b \in Seq(R) /\ c \in Seq(R)
    BY <2>1, SplitHead
  <2>4. QED
    BY <1>1, <2>2, <2>3
<1>3. RemoveAt(s, k) = a \o c
  BY DEF RemoveAt
<1> HIDE DEF a, b, c
<1>4. <<s[k]>> \in Seq(Seq(S))
  BY <1>1
<1>5. /\ FlattenSeq(s) = FlattenSeq(a) \o FlattenSeq(b)
      /\ FlattenSeq(b) = FlattenSeq(<<s[k]>>) \o FlattenSeq(c)
      /\ FlattenSeq(a \o c) = FlattenSeq(a) \o FlattenSeq(c)
  BY <1>2, <1>4, FlattenConcat
<1>6. FlattenSeq(<<s[k]>>) = s[k]
  BY <1>1, FlattenSingle
<1>7. FlattenSeq(a) \in Seq(S) /\ FlattenSeq(c) \in Seq(S)
  BY <1>2, FlattenType
<1> DEFINE x == FlattenSeq(a)
           z == FlattenSeq(c)
           y == s[k]
<1> HIDE DEF x, z, y
<1>8. /\ x \in Seq(S) /\ y \in Seq(S) /\ z \in Seq(S)
      /\ FlattenSeq(s) = x \o (y \o z) /\ FlattenSeq(RemoveAt(s, k)) = x \o z
  BY <1>1, <1>3, <1>5, <1>6, <1>7 DEF x, y, z
<1>9. y \o z \in Seq(S) /\ x \o z \in Seq(S)
  BY <1>8
<1>10. /\ ToSet(x \o (y \o z)) = ToSet(x) \cup ToSet(y \o z)
       /\ ToSet(y \o z) = ToSet(y) \cup ToSet(z)
       /\ ToSet(x \o z) = ToSet(x) \cup ToSet(z)
  <2>1. ToSet(x \o (y \o z)) = ToSet(x) \cup ToSet(y \o z)
    <3> DEFINE w == y \o z
    <3>1. w \in Seq(S)
      BY <1>9
    <3> HIDE DEF w
    <3>2. ToSet(x \o w) = ToSet(x) \cup ToSet(w)
      BY <1>8, <3>1, ConcatSet
    <3>3. QED
      BY <3>2 DEF w
  <2>2. ToSet(y \o z) = ToSet(y) \cup ToSet(z) /\ ToSet(x \o z) = ToSet(x) \cup ToSet(z)
    BY <1>8, ConcatSet
  <2>3. QED
    BY <2>1, <2>2
<1>11. Len(x \o (y \o z)) = Len(x \o z) + Len(y)
  BY <1>8, <1>9
<1>12. QED
  BY <1>8, <1>9, <1>10, <1>11 DEF y

-----------------------------------------------------------------------------
(***************************************************************************)
(* FoldLeft, which the community module defines over the subsets of a      *)
(* sequence's domain.                                                      *)
(***************************************************************************)
\* What holds of 0 and of each number after one of which it holds.
LEMMA UpToInduction ==
  ASSUME NEW n \in Nat, NEW P, 0 \in P, \A k \in 0..n - 1 : k \in P => k + 1 \in P
  PROVE  \A k \in 0..n : k \in P
<1> DEFINE Bad == {k \in 0..n : k \notin P}
<1>1. SUFFICES ASSUME Bad # {}
               PROVE  FALSE
  OBVIOUS
<1>2. Bad \in SUBSET Nat
  OBVIOUS
<1>3. PICK k \in Bad : \A j \in Bad : k <= j
  <2> HIDE DEF Bad
  <2>1. QED
    BY <1>1, <1>2, LeastElement
<1>4. k \in Nat \ {0} /\ k - 1 \in 0..n - 1 /\ k - 1 \in 0..n /\ k - 1 \notin Bad
  BY <1>3
<1>5. (k - 1) + 1 \in P /\ (k - 1) + 1 = k
  BY <1>4
<1>6. QED
  BY <1>3, <1>5

\* The largest of the first n numbers.
LEMMA MaxOfPrefix ==
  ASSUME NEW n \in Nat \ {0}
  PROVE  Max(1..n) = n /\ (1..n) \ {n} = 1..n - 1 /\ 1..n # {}
<1>1. n \in 1..n /\ \A y \in 1..n : n >= y
  OBVIOUS
<1>2. \A x \in 1..n : (\A y \in 1..n : x >= y) => x = n
  BY <1>1
<1>3. Max(1..n) = n
  BY <1>1, <1>2, Zenon DEF Max
<1>4. QED
  BY <1>1, <1>3

\* The recursion by which FoldLeft is defined, for a function step.
Folds(g, base, step, s, n) ==
  g = [T \in SUBSET (1..n) |-> IF T = {} THEN base ELSE step[<<g[T \ {Max(T)}], s[Max(T)]>>]]

\* It defines a function.
LEMMA FoldExists ==
  ASSUME NEW M, NEW R, NEW base \in M, NEW s \in Seq(R), NEW step \in [M \X R -> M]
  PROVE  \E g \in [SUBSET (1..Len(s)) -> M] : Folds(g, base, step, s, Len(s))
<1> DEFINE P == {m \in 0..Len(s) : \E g \in [SUBSET (1..m) -> M] : Folds(g, base, step, s, m)}
<1>1. 0 \in P
  <2> DEFINE g == [T \in SUBSET (1..0) |-> base]
  <2>1. \A T \in SUBSET (1..0) : T = {}
    OBVIOUS
  <2>2. g = [T \in SUBSET (1..0) |-> IF T = {} THEN base ELSE step[<<g[T \ {Max(T)}], s[Max(T)]>>]]
    BY <2>1
  <2>3. g \in [SUBSET (1..0) -> M]
    OBVIOUS
  <2> HIDE DEF g
  <2>4. \E f \in [SUBSET (1..0) -> M] : Folds(f, base, step, s, 0)
    BY <2>2, <2>3, Zenon DEF Folds
  <2>5. 0 \in 0..Len(s)
    OBVIOUS
  <2>6. QED
    BY <2>4, <2>5, Zenon
<1>2. ASSUME NEW k \in 0..Len(s) - 1, k \in P
      PROVE  k + 1 \in P
  <2>1. PICK h \in [SUBSET (1..k) -> M] : Folds(h, base, step, s, k)
    BY <1>2
  <2> DEFINE m == k + 1
             g == [T \in SUBSET (1..m) |-> IF m \in T THEN step[<<h[T \ {m}], s[m]>>] ELSE h[T]]
  <2>2. s[m] \in R /\ m \in 1..Len(s)
    OBVIOUS
  <2>3. ASSUME NEW T \in SUBSET (1..m)
        PROVE  /\ g[T] \in M
               /\ g[T] = IF T = {} THEN base ELSE step[<<g[T \ {Max(T)}], s[Max(T)]>>]
    <3>1. CASE m \in T
      <4>1. Max(T) = m
        <5>1. \A y \in T : m >= y
          OBVIOUS
        <5>2. \A x \in T : (\A y \in T : x >= y) => x = m
          BY <3>1
        <5>3. QED
          BY <3>1, <5>1, <5>2, Zenon DEF Max
      <4>2. T \ {m} \in SUBSET (1..k) /\ T \ {m} \in SUBSET (1..m) /\ m \notin T \ {m}
        OBVIOUS
      <4>3. g[T] = step[<<h[T \ {m}], s[m]>>] /\ g[T \ {m}] = h[T \ {m}] /\ h[T \ {m}] \in M
        BY <3>1, <4>2
      <4>4. QED
        BY <2>2, <3>1, <4>1, <4>3
    <3>2. CASE m \notin T
      <4>1. T \in SUBSET (1..k)
        BY <3>2
      <4>2. g[T] = h[T] /\ h[T] \in M
        BY <3>2, <4>1
      <4>3. h[T] = IF T = {} THEN base ELSE step[<<h[T \ {Max(T)}], s[Max(T)]>>]
        BY <2>1, <4>1 DEF Folds
      <4>4. g[T \ {Max(T)}] = h[T \ {Max(T)}]
        BY <3>2, <4>1
      <4>5. QED
        BY <4>2, <4>3, <4>4
    <3>3. QED
      BY <3>1, <3>2
  <2>4. g \in [SUBSET (1..m) -> M]
    <3>1. g = [T \in SUBSET (1..m) |-> g[T]]
      OBVIOUS
    <3> HIDE DEF g
    <3>2. QED
      BY <2>3, <3>1
  <2>5. g = [T \in SUBSET (1..m) |-> g[T]]
    OBVIOUS
  <2> HIDE DEF g
  <2>6. g = [T \in SUBSET (1..m) |-> IF T = {} THEN base ELSE step[<<g[T \ {Max(T)}], s[Max(T)]>>]]
    BY <2>3, <2>5
  <2>7. \E f \in [SUBSET (1..m) -> M] : Folds(f, base, step, s, m)
    BY <2>4, <2>6 DEF Folds
  <2>8. QED
    BY <2>2, <2>7
<1>3. Len(s) \in P
  <2>1. PICK n : n = Len(s)
    OBVIOUS
  <2>2. n \in Nat /\ n \in 0..n
    BY <2>1
  <2> HIDE DEF P
  <2>3. \A k \in 0..n : k \in P
    BY <1>1, <1>2, <2>1, <2>2, UpToInduction
  <2>4. QED
    BY <2>1, <2>2, <2>3
<1>4. QED
  BY <1>3

\* The largest of some of the first n numbers is one of them.
LEMMA MaxOfSome ==
  ASSUME NEW n \in Nat, NEW T \in SUBSET (1..n), T # {}
  PROVE  Max(T) \in T
<1> DEFINE S == {m \in 0..n : \A y \in T : y <= m}
<1>1. S \in SUBSET Nat /\ n \in S
  OBVIOUS
<1>2. PICK m \in S : \A j \in S : m <= j
  <2> HIDE DEF S
  <2>1. QED
    BY <1>1, LeastElement
<1>3. m \in T
  <2>1. SUFFICES ASSUME m \notin T
                 PROVE  FALSE
    OBVIOUS
  <2>2. m # 0
    <3>1. PICK y \in T : TRUE
      OBVIOUS
    <3>2. y \in 1..n /\ y <= m
      BY <1>2, <3>1
    <3>3. QED
      BY <3>2
  <2>3. \A y \in T : y <= m - 1
    BY <1>2, <2>1
  <2>4. m - 1 \in S
    BY <1>2, <2>2, <2>3
  <2>5. m <= m - 1
    BY <1>2, <2>4
  <2>6. QED
    BY <1>2, <2>5
<1>4. \A y \in T : m >= y
  BY <1>2
<1>5. \E x \in T : \A y \in T : x >= y
  BY <1>3, <1>4
<1>6. QED
  BY <1>5, Zenon DEF Max

\* What each fold of a model needs: the function of FoldLeft, at the prefixes of a
\* sequence, takes a step per element.
LEMMA FoldPrefixes ==
  ASSUME NEW R, NEW s \in Seq(R)
  PROVE  /\ DOMAIN s = 1..Len(s) /\ Len(s) \in Nat /\ 1..0 = {}
         /\ \A T \in SUBSET DOMAIN s : T # {} => s[Max(T)] \in R
         /\ \A k \in 1..Len(s) : /\ 1..k \in SUBSET DOMAIN s /\ 1..k # {} /\ k - 1 \in 0..Len(s)
                                 /\ Max(1..k) = k /\ (1..k) \ {k} = 1..k - 1
<1>1. DOMAIN s = 1..Len(s) /\ Len(s) \in Nat /\ 1..0 = {}
  OBVIOUS
<1>2. \A k \in 1..Len(s) : k \in Nat \ {0} /\ 1..k \in SUBSET DOMAIN s /\ k - 1 \in 0..Len(s)
  BY <1>1
<1>3. \A k \in 1..Len(s) : Max(1..k) = k /\ (1..k) \ {k} = 1..k - 1 /\ 1..k # {}
  BY <1>2, MaxOfPrefix
<1>4. ASSUME NEW T \in SUBSET DOMAIN s, T # {}
      PROVE  s[Max(T)] \in R
  <2>1. PICK n : n = Len(s)
    OBVIOUS
  <2>2. n \in Nat /\ T \in SUBSET (1..n)
    BY <1>1, <1>4, <2>1
  <2>3. Max(T) \in T
    BY <1>4, <2>2, MaxOfSome
  <2>4. PICK x : x = Max(T)
    OBVIOUS
  <2>5. x \in 1..Len(s)
    BY <1>1, <2>3, <2>4
  <2>6. s[x] \in R
    BY <2>5, ElementOfSeq
  <2>7. QED
    BY <2>4, <2>6
<1>5. QED
  BY <1>1, <1>2, <1>3, <1>4
=============================================================================
