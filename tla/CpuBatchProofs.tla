---------------------------- MODULE CpuBatchProofs ----------------------------
(***************************************************************************)
(* Proofs about CpuBatch for any callers, calls and workers: a workspace   *)
(* has one user, also while the worker below it decodes another image on   *)
(* top, and the pool loses none that it needs.                             *)
(*                                                                         *)
(* The invariant says that the frames of all stacks are of different jobs  *)
(* and hold different workspaces, that each is of a job that runs, and     *)
(* that a workspace is retained or lent and never both.  The numbers of    *)
(* lent workspaces and of running jobs then change together.               *)
(*                                                                         *)
(* The second invariant adds the results.  A lent workspace holds the      *)
(* samples of the very image its job decodes, a slot of a group holds      *)
(* nothing or the image of its own index, and the results and errors       *)
(* gathered so far divide the inputs of the groups behind the caller: so   *)
(* when a group is joined and compacted, what is added is in order, apart  *)
(* from the rest, and each sample is that of its own input.                *)
(***************************************************************************)
EXTENDS CpuBatch, SequenceLemmas, FiniteSetTheorems

States == {"queued", "running", "decoded", "failed"}
Steps  == {"call", "group", "join", "returned", "refused"}
Jobs   == [caller : Callers, group : Nat, slot : Nat]
Frames == [job : Jobs, workspace : Nat]

Types ==
  /\ call \in [Callers -> AllCalls]
  /\ step \in [Callers -> Steps]
  /\ group \in [Callers -> Nat] /\ \A c \in Callers : group[c] \in 1..Len(call[c].groups) + 1
  /\ job = [c \in Callers |-> job[c]]
  /\ \A c \in Callers : job[c] \in [DOMAIN job[c] -> States] /\ DOMAIN job[c] \subseteq Nat
  /\ slots = [c \in Callers |-> slots[c]]
  /\ \A c \in Callers : DOMAIN slots[c] = DOMAIN job[c]
  /\ stack \in [Workers -> Seq(Frames)]
  /\ Created \subseteq Nat
  /\ retained \in Seq(Nat)

\* Positions of the frames of all stacks.
Held == {p \in Workers \X Nat : p[2] \in 1..Len(stack[p[1]])}
FrameAt(p) == stack[p[1]][p[2]]

\* Each frame is of a job of its own that runs and has a workspace of its own.
FramesApart ==
  /\ \A p \in Held :
       LET f == FrameAt(p).job
       IN  /\ step[f.caller] = "join" /\ f.group = group[f.caller]
           /\ f.slot \in DOMAIN job[f.caller] /\ job[f.caller][f.slot] = "running"
  /\ \A p, q \in Held :
       p # q => /\ FrameAt(p).workspace # FrameAt(q).workspace
                /\ <<FrameAt(p).job.caller, FrameAt(p).job.slot>> # <<FrameAt(q).job.caller, FrameAt(q).job.slot>>

\* Jobs run only while their caller waits for them.
JobsJoined ==
  \A c \in Callers :
    IF step[c] = "join" THEN group[c] <= Len(call[c].groups)
    ELSE \A s \in DOMAIN job[c] : job[c][s] # "running"

\* A workspace is retained or lent.
Homed ==
  /\ IsInjective(retained)
  /\ ToSet(retained) \cap Lent = {}
  /\ Created = ToSet(retained) \cup Lent

Counted ==
  /\ IsFiniteSet(Created) /\ IsFiniteSet(Lent) /\ IsFiniteSet(Running)
  /\ Cardinality(Lent) = Cardinality(Running)
  /\ Len(retained) <= Cardinality(Workers)
  /\ Len(retained) + Cardinality(Lent) >= Cardinality(Workers)

IInv == Types /\ FramesApart /\ JobsJoined /\ Homed /\ Counted

-----------------------------------------------------------------------------
(***************************************************************************)
(* Frames and workspaces.                                                  *)
(***************************************************************************)
\* The workspaces that the frames of all stacks hold.
LEMMA LentParts ==
  ASSUME NEW st \in [Workers -> Seq(Frames)], NEW k
  PROVE  k \in {f.workspace : f \in UNION {ToSet(st[w]) : w \in Workers}}
           <=> \E w \in Workers : \E n \in 1..Len(st[w]) : k = st[w][n].workspace
<1>1. \A w \in Workers : st[w] \in Seq(Frames) /\ DOMAIN st[w] = 1..Len(st[w])
  OBVIOUS
<1>2. \A w \in Workers : \A f : f \in ToSet(st[w]) <=> \E n \in 1..Len(st[w]) : f = st[w][n]
  BY <1>1 DEF ToSet
<1>3. QED
  BY <1>2

\* A frame that is pushed.
LEMMA Push ==
  ASSUME NEW S, NEW s \in Seq(S), NEW x \in S
  PROVE  /\ Append(s, x) \in Seq(S) /\ Len(Append(s, x)) = Len(s) + 1
         /\ Append(s, x)[Len(s) + 1] = x
         /\ \A k \in 1..Len(s) : Append(s, x)[k] = s[k]
  OBVIOUS

\* A frame that is popped.
LEMMA Pop ==
  ASSUME NEW S, NEW s \in Seq(S), s # <<>>
  PROVE  /\ Front(s) \in Seq(S) /\ Len(Front(s)) = Len(s) - 1
         /\ \A k \in 1..Len(s) - 1 : Front(s)[k] = s[k]
         /\ Last(s) = s[Len(s)] /\ Len(s) \in Nat \ {0} /\ Last(s) \in S
<1>1. Len(s) \in Nat \ {0}
  OBVIOUS
<1>2. Len(s) - 1 \in 0..Len(s)
  BY <1>1
<1>3. Front(s) = SubSeq(s, 1, Len(s) - 1) /\ Last(s) = s[Len(s)]
  BY DEF Front, Last
<1>4. PICK n \in 0..Len(s) : n = Len(s) - 1
  BY <1>2
<1>5. /\ SubSeq(s, 1, n) \in Seq(S) /\ Len(SubSeq(s, 1, n)) = n
      /\ \A k \in 1..n : SubSeq(s, 1, n)[k] = s[k]
  BY Split
<1>6. s[Len(s)] \in S
  BY <1>1
<1>7. QED
  BY <1>1, <1>3, <1>4, <1>5, <1>6

\* Without a retained workspace a job makes one that nobody has.
LEMMA FreshIsNew ==
  ASSUME Types, Homed, Counted
  PROVE  Fresh \in Nat /\ Fresh \notin ToSet(retained) \cup Lent
<1> DEFINE n == Cardinality(Created)
           S == {k \in 1..n + 1 : k \notin Created}
<1>1. n \in Nat /\ IsFiniteSet(Created) /\ Created = ToSet(retained) \cup Lent
  BY FS_CardinalityType DEF Counted, Homed
<1>2. S # {}
  <2>1. SUFFICES ASSUME 1..n + 1 \subseteq Created
                 PROVE  FALSE
    OBVIOUS
  <2>2. Cardinality(1..n + 1) <= n
    BY <1>1, <2>1, FS_Subset
  <2>3. Cardinality(1..n + 1) = n + 1
    BY <1>1, FS_Interval
  <2>4. QED
    BY <1>1, <2>2, <2>3
<1> HIDE DEF n
<1>3. PICK k \in S : \A j \in S : k <= j
  <2>1. S \in SUBSET Nat
    BY <1>1
  <2> HIDE DEF S
  <2>2. QED
    BY <1>2, <2>1, LeastElement
<1>4. \A j \in 1..k - 1 : j \in Created
  <2>1. SUFFICES ASSUME NEW j \in 1..k - 1, j \notin Created
                 PROVE  FALSE
    OBVIOUS
  <2>2. k \in Nat /\ k <= n + 1 /\ j \in Nat
    BY <1>1, <1>3
  <2>3. j \in 1..n + 1 /\ j < k
    BY <1>1, <2>1, <2>2
  <2>4. QED
    BY <1>3, <2>1, <2>2, <2>3
<1>5. \E m \in 1..n + 1 : /\ m \notin ToSet(retained) \cup Lent
                          /\ \A j \in 1..m - 1 : j \in ToSet(retained) \cup Lent
  BY <1>1, <1>3, <1>4
<1>6. Fresh \in 1..n + 1 /\ Fresh \notin ToSet(retained) \cup Lent
  BY <1>5, Zenon DEF Fresh, n
<1>7. QED
  BY <1>1, <1>6 DEF n

\* At first nothing runs and every worker has a workspace to come.
LEMMA InitInv == Init => IInv
<1>1. SUFFICES ASSUME Init
               PROVE  IInv
  OBVIOUS
<1> DEFINE n == Cardinality(Workers)
<1>2. n \in Nat /\ IsFiniteSet(Workers)
  BY CallAssumption, FS_CardinalityType
<1> HIDE DEF n
<1>3. /\ step = [c \in Callers |-> "call"] /\ group = [c \in Callers |-> 1]
      /\ job = [c \in Callers |-> <<>>] /\ slots = [c \in Callers |-> <<>>]
      /\ stack = [w \in Workers |-> <<>>] /\ content = [k \in 1..n |-> Nobody]
      /\ retained = [k \in 1..n |-> k] /\ call \in [Callers -> AllCalls]
  BY <1>1 DEF Init, n
<1>4. \A q \in AllCalls : Len(q.groups) \in Nat
  BY CallAssumption
<1>5. retained \in Seq(Nat) /\ Len(retained) = n /\ Created = 1..n /\ DOMAIN retained = 1..n
  BY <1>2, <1>3 DEF Created
<1>6. ToSet(retained) = 1..n /\ IsInjective(retained)
  BY <1>3, <1>5 DEF ToSet, IsInjective
<1>7. Lent = {} /\ Held = {}
  <2>1. stack \in [Workers -> Seq(Frames)] /\ \A w \in Workers : stack[w] = <<>>
    BY <1>3
  <2>2. \A w \in Workers : Len(stack[w]) = 0 /\ ToSet(stack[w]) = {}
    BY <2>1 DEF ToSet
  <2>3. QED
    BY <2>2 DEF Lent, Held
<1>8. Running = {}
  BY <1>3 DEF Running
<1>9. Types
  BY <1>2, <1>3, <1>4, <1>5 DEF Types, Steps
<1>10. FramesApart /\ JobsJoined
  BY <1>3, <1>7 DEF FramesApart, JobsJoined
<1>11. Homed
  BY <1>5, <1>6, <1>7 DEF Homed
<1>12. Counted
  <2>1. IsFiniteSet(Created)
    BY <1>2, <1>5, FS_Interval
  <2>2. QED
    BY <1>2, <1>5, <1>7, <1>8, <2>1, FS_EmptySet DEF Counted, n
<1>13. QED
  BY <1>9, <1>10, <1>11, <1>12 DEF IInv

-----------------------------------------------------------------------------
(***************************************************************************)
(* Steps.                                                                  *)
(***************************************************************************)
\* What is left of an injective sequence without its last element.
LEMMA PopSet ==
  ASSUME NEW S, NEW s \in Seq(S), s # <<>>, IsInjective(s)
  PROVE  /\ ToSet(Front(s)) = ToSet(s) \ {Last(s)} /\ IsInjective(Front(s)) /\ Last(s) \in ToSet(s)
<1> DEFINE n == Len(s)
           u == Front(s)
<1>1. /\ u \in Seq(S) /\ Len(u) = n - 1 /\ \A k \in 1..n - 1 : u[k] = s[k]
      /\ Last(s) = s[n] /\ n \in Nat \ {0} /\ DOMAIN s = 1..n
  <2>1. DOMAIN s = 1..n
    OBVIOUS
  <2>2. QED
    BY <2>1, Pop
<1>2. DOMAIN u = 1..n - 1
  BY <1>1
<1> HIDE DEF n, u
<1>3. \A j, k \in 1..n : s[j] = s[k] => j = k
  BY <1>1 DEF IsInjective
<1>4. ToSet(u) = ToSet(s) \ {Last(s)} /\ Last(s) \in ToSet(s)
  <2>1. \A x : x \in ToSet(s) <=> \E k \in 1..n : x = s[k]
    BY <1>1 DEF ToSet
  <2>2. \A x : x \in ToSet(u) <=> \E k \in 1..n - 1 : x = s[k]
    BY <1>1, <1>2 DEF ToSet
  <2>3. \A k \in 1..n : k \in 1..n - 1 \/ k = n
    BY <1>1
  <2>4. 1..n - 1 \subseteq 1..n /\ n \in 1..n /\ n \notin 1..n - 1
    BY <1>1
  <2>5. ASSUME NEW x
        PROVE  x \in ToSet(u) <=> x \in ToSet(s) /\ x # Last(s)
    BY <1>1, <1>3, <2>1, <2>2, <2>3, <2>4
  <2>6. QED
    BY <1>1, <2>1, <2>4, <2>5
<1>5. IsInjective(u)
  BY <1>1, <1>2, <1>3 DEF IsInjective
<1>6. QED
  BY <1>4, <1>5 DEF u

\* One job changes.
LEMMA JobChange ==
  ASSUME Types, NEW c \in Callers, NEW s \in DOMAIN job[c], NEW st \in States,
         job' = [job EXCEPT ![c] = [job[c] EXCEPT ![s] = st]]
  PROVE  /\ job' = [d \in Callers |-> job'[d]]
         /\ \A d \in Callers : job'[d] \in [DOMAIN job'[d] -> States] /\ DOMAIN job'[d] = DOMAIN job[d]
         /\ \A d \in Callers : \A t \in DOMAIN job[d] :
              job'[d][t] = IF d = c /\ t = s THEN st ELSE job[d][t]
         /\ Running' = IF st = "running" THEN Running \cup {<<c, s>>} ELSE Running \ {<<c, s>>}
<1>1. job = [d \in Callers |-> job[d]] /\ \A d \in Callers : job[d] \in [DOMAIN job[d] -> States]
  BY DEF Types
<1> DEFINE mine == [job[c] EXCEPT ![s] = st]
<1>2. mine \in [DOMAIN job[c] -> States] /\ \A t \in DOMAIN job[c] : mine[t] = IF t = s THEN st ELSE job[c][t]
  BY <1>1
<1> HIDE DEF mine
<1>3. job' = [job EXCEPT ![c] = mine]
  BY DEF mine
<1>4. job' = [d \in Callers |-> job'[d]] /\ \A d \in Callers : job'[d] = IF d = c THEN mine ELSE job[d]
  BY <1>1, <1>3
<1>5. \A d \in Callers : /\ job'[d] \in [DOMAIN job'[d] -> States] /\ DOMAIN job'[d] = DOMAIN job[d]
                         /\ \A t \in DOMAIN job[d] : job'[d][t] = IF d = c /\ t = s THEN st ELSE job[d][t]
  BY <1>1, <1>2, <1>4
<1>6. /\ \A p : p \in Running  <=> \E d \in Callers : \E t \in DOMAIN job[d] : p = <<d, t>> /\ job[d][t] = "running"
      /\ \A p : p \in Running' <=> \E d \in Callers : \E t \in DOMAIN job'[d] : p = <<d, t>> /\ job'[d][t] = "running"
  BY DEF Running
<1>7. \A p : p \in Running' <=> IF p = <<c, s>> THEN st = "running" ELSE p \in Running
  BY <1>5, <1>6
<1>8. QED
  BY <1>4, <1>5, <1>7

\* A caller moves on while none of its jobs runs.
LEMMA CallerMoves ==
  ASSUME IInv, NEW c \in Callers, \A s \in DOMAIN job[c] : job[c][s] # "running",
         UNCHANGED <<call, pool>>,
         NEW v \in Steps, step' = [step EXCEPT ![c] = v],
         NEW n \in 1..Len(call[c].groups) + 1, group' = [group EXCEPT ![c] = n],
         v = "join" => n <= Len(call[c].groups),
         NEW j, j \in [DOMAIN j -> States], DOMAIN j \subseteq Nat, \A s \in DOMAIN j : j[s] # "running",
         job' = [job EXCEPT ![c] = j],
         NEW k, DOMAIN k = DOMAIN j, slots' = [slots EXCEPT ![c] = k]
  PROVE  IInv'
<1> USE DEF pool
<1>1. Types /\ FramesApart /\ JobsJoined /\ Homed /\ Counted
  BY DEF IInv
<1>2. /\ job' = [d \in Callers |-> job'[d]] /\ \A d \in Callers : job'[d] = IF d = c THEN j ELSE job[d]
      /\ slots' = [d \in Callers |-> slots'[d]] /\ \A d \in Callers : slots'[d] = IF d = c THEN k ELSE slots[d]
      /\ step' \in [Callers -> Steps] /\ \A d \in Callers : step'[d] = IF d = c THEN v ELSE step[d]
      /\ DOMAIN group' = Callers /\ \A d \in Callers : group'[d] = IF d = c THEN n ELSE group[d]
  BY <1>1 DEF Types
<1>3. group' \in [Callers -> Nat] /\ \A d \in Callers : group'[d] \in 1..Len(call'[d].groups) + 1
  <2>1. n \in Nat /\ call' = call
    OBVIOUS
  <2>2. group \in [Callers -> Nat] /\ \A d \in Callers : group[d] \in 1..Len(call[d].groups) + 1
    BY <1>1 DEF Types
  <2>3. QED
    BY <2>1, <2>2
<1>4. Types'
  BY <1>1, <1>2, <1>3 DEF Types, Created
<1>5. Held' = Held /\ \A p \in Held : FrameAt(p)' = FrameAt(p)
  BY DEF Held, FrameAt
<1>6. \A p \in Held : FrameAt(p).job.caller \in Callers /\ FrameAt(p).job.caller # c
  <2>1. SUFFICES ASSUME NEW p \in Held
                 PROVE  FrameAt(p).job.caller \in Callers /\ FrameAt(p).job.caller # c
    OBVIOUS
  <2>2. FrameAt(p) \in Frames
    <3>1. stack[p[1]] \in Seq(Frames) /\ p[2] \in 1..Len(stack[p[1]])
      BY <1>1, <2>1 DEF Types, Held
    <3>2. QED
      BY <3>1, ElementOfSeq, Zenon DEF FrameAt
  <2>3. FrameAt(p).job.caller \in Callers
    BY <2>2 DEF Frames, Jobs
  <2>4. QED
    BY <1>1, <2>3 DEF FramesApart
<1>7. FramesApart'
  BY <1>1, <1>2, <1>5, <1>6 DEF FramesApart
<1>8. JobsJoined'
  BY <1>1, <1>2 DEF JobsJoined
<1>9. Lent' = Lent /\ Created' = Created
  BY DEF Lent, Created
<1>10. Running' = Running
  <2>1. /\ \A p : p \in Running  <=> \E d \in Callers : \E t \in DOMAIN job[d] : p = <<d, t>> /\ job[d][t] = "running"
        /\ \A p : p \in Running' <=> \E d \in Callers : \E t \in DOMAIN job'[d] : p = <<d, t>> /\ job'[d][t] = "running"
    BY DEF Running
  <2>2. \A p : p \in Running' <=> p \in Running
    BY <1>2, <2>1
  <2>3. QED
    BY <2>2
<1>11. Homed' /\ Counted'
  BY <1>1, <1>9, <1>10 DEF Homed, Counted
<1>12. QED
  BY <1>4, <1>7, <1>8, <1>11 DEF IInv

\* A worker takes a job and lends it a workspace that nobody has.
LEMMA StartJobStep ==
  ASSUME IInv, NEW w \in Workers, NEW c \in Callers, NEW s \in DOMAIN job[c], StartJob(w, c, s)
  PROVE  IInv'
<1> USE DEF calls, results
<1>0. PICK new : new = <<w, Len(stack[w]) + 1>>
  OBVIOUS
<1>1. Types /\ FramesApart /\ JobsJoined /\ Homed /\ Counted
  BY DEF IInv
<1> DEFINE x   == Popped(w)
           one == [job |-> [caller |-> c, group |-> group[c], slot |-> s], workspace |-> x]
<1>2. x \in Nat /\ x \notin Lent /\ (retained = <<>> => x \notin ToSet(retained))
  <2>1. CASE retained = <<>>
    BY <1>1, <2>1, FreshIsNew DEF Popped
  <2>2. CASE retained # <<>>
    <3>1. retained \in Seq(Nat) /\ IsInjective(retained)
      BY <1>1 DEF Types, Homed
    <3>2. Last(retained) \in ToSet(retained) /\ Last(retained) \in Nat
      BY <2>2, <3>1, Pop, PopSet
    <3>3. QED
      BY <1>1, <2>2, <3>2 DEF Popped, Homed
  <2>3. QED
    BY <2>1, <2>2
<1>3. /\ step[c] = "join" /\ job[c][s] = "queued"
      /\ stack' = [stack EXCEPT ![w] = Append(stack[w], one)]
      /\ content' = [k \in Created \cup {x} |-> IF k = x THEN [caller |-> c, group |-> group[c], slot |-> s] ELSE content[k]]
      /\ retained' = IF retained = <<>> THEN retained ELSE Front(retained)
      /\ job' = [job EXCEPT ![c] = [job[c] EXCEPT ![s] = "running"]]
      /\ UNCHANGED <<call, step, group, slots>>
  BY DEF StartJob
<1>4. one \in Frames /\ one.workspace = x /\ one.job.caller = c /\ one.job.slot = s /\ one.job.group = group[c]
  BY <1>1, <1>2 DEF Frames, Jobs, Types
<1>5. retained # <<>> => x = Last(retained)
  BY DEF Popped
<1> HIDE DEF x, one
<1>6. stack \in [Workers -> Seq(Frames)] /\ Len(stack[w]) \in Nat
  BY <1>1 DEF Types
<1>7. /\ stack' \in [Workers -> Seq(Frames)]
      /\ \A v \in Workers : v # w => stack'[v] = stack[v]
      /\ Len(stack'[w]) = Len(stack[w]) + 1 /\ stack'[w][Len(stack[w]) + 1] = one
      /\ \A k \in 1..Len(stack[w]) : stack'[w][k] = stack[w][k]
  <2>1. PICK q, F : q = stack[w] /\ F = Frames
    OBVIOUS
  <2>2. /\ Append(q, one) \in Seq(F) /\ Len(Append(q, one)) = Len(q) + 1
        /\ Append(q, one)[Len(q) + 1] = one
        /\ \A k \in 1..Len(q) : Append(q, one)[k] = q[k]
    BY <1>4, <1>6, <2>1, Push
  <2>3. QED
    BY <1>3, <1>6, <2>1, <2>2
<1>8. /\ Held' = Held \cup {new} /\ new \notin Held
      /\ FrameAt(new)' = one /\ \A p \in Held : FrameAt(p)' = FrameAt(p)
  <2>1. \A p : p \in Held' <=> p \in Held \/ p = new
    <3>1. \A v \in Workers : \A k \in Nat : k \in 1..Len(stack'[v]) <=> k \in 1..Len(stack[v]) \/ <<v, k>> = new
      BY <1>0, <1>6, <1>7
    <3>2. new \in Workers \X Nat
      BY <1>0, <1>6
    <3>3. QED
      BY <3>1, <3>2 DEF Held
  <2>2. new \notin Held
    BY <1>0, <1>6 DEF Held
  <2>3. \A p \in Held : FrameAt(p)' = FrameAt(p)
    BY <1>7 DEF Held, FrameAt
  <2>4. FrameAt(new)' = one
    BY <1>0, <1>7 DEF FrameAt
  <2>5. QED
    BY <2>1, <2>2, <2>3, <2>4
<1>9. Lent' = Lent \cup {x}
  <2>1. \A k : k \in Lent <=> \E v \in Workers : \E n \in 1..Len(stack[v]) : k = stack[v][n].workspace
    BY <1>6, LentParts DEF Lent
  <2>2. \A k : k \in Lent' <=> \E v \in Workers : \E n \in 1..Len(stack'[v]) : k = stack'[v][n].workspace
    BY <1>7, LentParts DEF Lent
  <2>3. \A v \in Workers : \A n : n \in 1..Len(stack'[v]) <=> n \in 1..Len(stack[v]) \/ (v = w /\ n = Len(stack[w]) + 1)
    BY <1>6, <1>7
  <2>4. \A v \in Workers : \A n \in 1..Len(stack[v]) : stack'[v][n] = stack[v][n]
    BY <1>7
  <2>5. ASSUME NEW k
        PROVE  k \in Lent' <=> k \in Lent \/ k = x
    <3>1. ASSUME k \in Lent'
          PROVE  k \in Lent \/ k = x
      <4>1. PICK v \in Workers : \E n \in 1..Len(stack'[v]) : k = stack'[v][n].workspace
        BY <2>2, <3>1
      <4>2. PICK n \in 1..Len(stack'[v]) : k = stack'[v][n].workspace
        BY <4>1
      <4>3. CASE v = w /\ n = Len(stack[w]) + 1
        BY <1>4, <1>7, <4>2, <4>3
      <4>4. CASE n \in 1..Len(stack[v])
        BY <2>1, <2>4, <4>2, <4>4
      <4>5. QED
        BY <2>3, <4>2, <4>3, <4>4
    <3>2. ASSUME k \in Lent
          PROVE  k \in Lent'
      <4>1. PICK v \in Workers : \E n \in 1..Len(stack[v]) : k = stack[v][n].workspace
        BY <2>1, <3>2
      <4>2. \E n \in 1..Len(stack'[v]) : k = stack'[v][n].workspace
        BY <2>3, <2>4, <4>1
      <4>3. QED
        BY <2>2, <4>2
    <3>3. ASSUME k = x
          PROVE  k \in Lent'
      <4>1. PICK n : n = Len(stack[w]) + 1
        OBVIOUS
      <4>2. n \in 1..Len(stack'[w]) /\ stack'[w][n].workspace = k
        BY <1>4, <1>7, <2>3, <3>3, <4>1
      <4>3. QED
        BY <2>2, <4>2
    <3>4. QED
      BY <3>1, <3>2, <3>3
  <2>6. QED
    BY <2>5
<1>10. /\ job' = [d \in Callers |-> job'[d]]
       /\ \A d \in Callers : job'[d] \in [DOMAIN job'[d] -> States] /\ DOMAIN job'[d] = DOMAIN job[d]
       /\ \A d \in Callers : \A t \in DOMAIN job[d] :
            job'[d][t] = IF d = c /\ t = s THEN "running" ELSE job[d][t]
       /\ Running' = Running \cup {<<c, s>>}
  <2>1. "running" \in States
    BY DEF States
  <2>2. QED
    BY <1>1, <1>3, <2>1, JobChange
<1>11. Created' = Created \cup {x}
  BY <1>3 DEF Created
<1>12. /\ retained' \in Seq(Nat) /\ IsInjective(retained') /\ ToSet(retained') = ToSet(retained) \ {x}
       /\ Len(retained') = IF retained = <<>> THEN 0 ELSE Len(retained) - 1
  <2>1. retained \in Seq(Nat) /\ IsInjective(retained)
    BY <1>1 DEF Types, Homed
  <2>2. CASE retained = <<>>
    BY <1>2, <1>3, <2>1, <2>2
  <2>3. CASE retained # <<>>
    <3>1. PICK q : q = retained
      OBVIOUS
    <3>2. q \in Seq(Nat) /\ IsInjective(q) /\ q # <<>>
      BY <2>1, <2>3, <3>1
    <3>3. Front(q) \in Seq(Nat) /\ Len(Front(q)) = Len(q) - 1
      BY <3>2, Pop
    <3>4. ToSet(Front(q)) = ToSet(q) \ {Last(q)} /\ IsInjective(Front(q))
      BY <3>2, PopSet
    <3>5. QED
      BY <1>3, <1>5, <2>3, <3>1, <3>3, <3>4
  <2>4. QED
    BY <2>2, <2>3
<1>13. Types'
  BY <1>1, <1>2, <1>3, <1>7, <1>10, <1>11, <1>12 DEF Types
<1>14. \A p \in Held : FrameAt(p).job.caller \in Callers
  <2>1. SUFFICES ASSUME NEW p \in Held
                 PROVE  FrameAt(p).job.caller \in Callers
    OBVIOUS
  <2>2. stack[p[1]] \in Seq(Frames) /\ p[2] \in 1..Len(stack[p[1]])
    BY <1>6, <2>1 DEF Held
  <2>3. FrameAt(p) \in Frames
    BY <2>2, ElementOfSeq, Zenon DEF FrameAt
  <2>4. QED
    BY <2>3 DEF Frames, Jobs
<1>15. \A p \in Held : FrameAt(p).workspace # x
  <2>1. SUFFICES ASSUME NEW p \in Held
                 PROVE  FrameAt(p).workspace \in Lent
    BY <1>2
  <2>2. p[1] \in Workers /\ p[2] \in 1..Len(stack[p[1]])
    BY <2>1 DEF Held
  <2>3. QED
    BY <1>6, <2>2, LentParts DEF Lent, FrameAt
<1>16. \A p \in Held : <<FrameAt(p).job.caller, FrameAt(p).job.slot>> # <<c, s>>
  BY <1>1, <1>3 DEF FramesApart
<1>17. FramesApart'
  <2>1. \A p \in Held' :
          LET f == FrameAt(p)'.job
          IN  /\ step'[f.caller] = "join" /\ f.group = group'[f.caller]
              /\ f.slot \in DOMAIN job'[f.caller] /\ job'[f.caller][f.slot] = "running"
    <3>1. SUFFICES ASSUME NEW p \in Held', NEW f, f = FrameAt(p)'.job
                   PROVE  /\ step'[f.caller] = "join" /\ f.group = group'[f.caller]
                          /\ f.slot \in DOMAIN job'[f.caller] /\ job'[f.caller][f.slot] = "running"
      OBVIOUS
    <3>2. CASE p = new
      <4>1. f = one.job
        BY <1>8, <3>1, <3>2
      <4>2. f.caller = c /\ f.slot = s /\ f.group = group[c]
        BY <1>4, <4>1
      <4>3. s \in DOMAIN job'[c] /\ job'[c][s] = "running" /\ step'[c] = "join" /\ group' = group
        BY <1>3, <1>10
      <4>4. QED
        BY <4>2, <4>3
    <3>3. CASE p \in Held
      <4>1. f = FrameAt(p).job /\ f.caller \in Callers
        BY <1>8, <1>14, <3>1, <3>3
      <4>2. /\ step[f.caller] = "join" /\ f.group = group[f.caller]
            /\ f.slot \in DOMAIN job[f.caller] /\ job[f.caller][f.slot] = "running"
        BY <1>1, <3>3, <4>1 DEF FramesApart
      <4>3. QED
        BY <1>3, <1>10, <4>1, <4>2
    <3>4. QED
      BY <1>8, <3>2, <3>3
  <2>2. \A p, q \in Held' :
          p # q => /\ FrameAt(p)'.workspace # FrameAt(q)'.workspace
                   /\ <<FrameAt(p)'.job.caller, FrameAt(p)'.job.slot>> # <<FrameAt(q)'.job.caller, FrameAt(q)'.job.slot>>
    <3>1. SUFFICES ASSUME NEW p \in Held', NEW q \in Held', p # q
                   PROVE  /\ FrameAt(p)'.workspace # FrameAt(q)'.workspace
                          /\ <<FrameAt(p)'.job.caller, FrameAt(p)'.job.slot>>
                               # <<FrameAt(q)'.job.caller, FrameAt(q)'.job.slot>>
      OBVIOUS
    <3>2. CASE p \in Held /\ q \in Held
      BY <1>1, <1>8, <3>1, <3>2 DEF FramesApart
    <3>3. CASE p = new /\ q \in Held
      BY <1>4, <1>8, <1>15, <1>16, <3>3
    <3>4. CASE q = new /\ p \in Held
      BY <1>4, <1>8, <1>15, <1>16, <3>4
    <3>5. QED
      BY <1>8, <3>1, <3>2, <3>3, <3>4
  <2>3. QED
    BY <2>1, <2>2 DEF FramesApart
<1>18. JobsJoined'
  BY <1>1, <1>3, <1>10 DEF JobsJoined
<1>19. Homed'
  BY <1>1, <1>2, <1>9, <1>11, <1>12 DEF Homed
<1>20. Counted'
  <2>1. /\ IsFiniteSet(Lent') /\ Cardinality(Lent') = Cardinality(Lent) + 1
        /\ IsFiniteSet(Created')
    BY <1>1, <1>2, <1>9, <1>11, FS_AddElement DEF Counted
  <2>2. <<c, s>> \notin Running
    BY <1>3 DEF Running
  <2>3. IsFiniteSet(Running') /\ Cardinality(Running') = Cardinality(Running) + 1
    BY <1>1, <1>10, <2>2, FS_AddElement DEF Counted
  <2>4. PICK l, m, n : l = Cardinality(Lent) /\ m = Len(retained) /\ n = Cardinality(Workers)
    OBVIOUS
  <2>5. l \in Nat /\ m \in Nat /\ n \in Nat /\ m <= n /\ m + l >= n /\ (retained = <<>> => m = 0)
    BY <1>1, <2>4, FS_CardinalityType, CallAssumption DEF Counted, Types
  <2>6. Len(retained') <= n /\ Len(retained') + (l + 1) >= n
    BY <1>12, <2>4, <2>5
  <2>7. QED
    BY <1>1, <2>1, <2>3, <2>4, <2>6 DEF Counted
<1>21. QED
  BY <1>13, <1>17, <1>18, <1>19, <1>20 DEF IInv

\* A job that ends returns its workspace, whatever became of its image.
LEMMA ReleaseStep ==
  ASSUME IInv, NEW w \in Workers, FinishJob(w) \/ FailJob(w)
  PROVE  IInv'
<1> USE DEF calls, results
<1>0. PICK f, N : f = Top(w) /\ N = Len(stack[w])
  OBVIOUS
<1>1. Types /\ FramesApart /\ JobsJoined /\ Homed /\ Counted
  BY DEF IInv
<1> DEFINE c == f.job.caller
           s == f.job.slot
           x == f.workspace
           old == <<w, N>>
<1>2. stack \in [Workers -> Seq(Frames)] /\ stack[w] # <<>>
  BY <1>1 DEF Types, FinishJob, FailJob
<1>3. /\ Front(stack[w]) \in Seq(Frames) /\ Len(Front(stack[w])) = N - 1
      /\ \A k \in 1..N - 1 : Front(stack[w])[k] = stack[w][k]
      /\ f = stack[w][N] /\ N \in Nat \ {0} /\ f \in Frames
  <2>1. PICK q, F : q = stack[w] /\ F = Frames
    OBVIOUS
  <2>2. /\ Front(q) \in Seq(F) /\ Len(Front(q)) = Len(q) - 1
        /\ \A k \in 1..Len(q) - 1 : Front(q)[k] = q[k]
        /\ Last(q) = q[Len(q)] /\ Len(q) \in Nat \ {0} /\ Last(q) \in F
    BY <1>2, <2>1, Pop
  <2>3. QED
    BY <1>0, <2>1, <2>2 DEF Top
<1>4. old \in Held /\ FrameAt(old) = f
  <2>1. N \in 1..Len(stack[w]) /\ <<w, N>> \in Workers \X Nat
    BY <1>0, <1>3
  <2>2. stack[w][N] = f
    BY <1>3
  <2>3. QED
    BY <2>1, <2>2 DEF Held, FrameAt
<1>5. /\ c \in Callers /\ s \in DOMAIN job[c] /\ job[c][s] = "running" /\ x \in Nat
  BY <1>1, <1>3, <1>4 DEF FramesApart, Frames, Jobs
<1>6. /\ stack' = [stack EXCEPT ![w] = Front(stack[w])]
      /\ retained' = IF Room THEN Append(retained, x) ELSE retained
      /\ content' = IF Room THEN content ELSE [k \in Created \ {x} |-> content[k]]
      /\ UNCHANGED <<call, step, group>>
  BY <1>0 DEF FinishJob, FailJob, Release
<1> DEFINE Ends(st, v) == /\ st \in {"decoded", "failed"}
                          /\ job' = [job EXCEPT ![c] = [job[c] EXCEPT ![s] = st]]
                          /\ slots' = [slots EXCEPT ![c] = [slots[c] EXCEPT ![s] = v]]
<1>7a. \E st, v : Ends(st, v)
  <2>1. CASE FinishJob(w)
    <3>1. Ends("decoded", Image(content[Top(w).workspace], Layout(Top(w).job)))
      BY <1>0, <2>1 DEF FinishJob
    <3> HIDE DEF Ends
    <3>2. QED
      BY <3>1
  <2>2. CASE FailJob(w)
    <3>1. Ends("failed", Partial)
      BY <1>0, <2>2 DEF FailJob
    <3> HIDE DEF Ends
    <3>2. QED
      BY <3>1
  <2>3. QED
    BY <2>1, <2>2
<1>7b. PICK st, v : Ends(st, v)
  BY <1>7a
<1>7. /\ st \in {"decoded", "failed"}
      /\ job' = [job EXCEPT ![c] = [job[c] EXCEPT ![s] = st]]
      /\ slots' = [slots EXCEPT ![c] = [slots[c] EXCEPT ![s] = v]]
  BY <1>7b
<1> HIDE DEF Ends
<1>8. /\ job' = [d \in Callers |-> job'[d]]
      /\ \A d \in Callers : job'[d] \in [DOMAIN job'[d] -> States] /\ DOMAIN job'[d] = DOMAIN job[d]
      /\ \A d \in Callers : \A t \in DOMAIN job[d] :
           job'[d][t] = IF d = c /\ t = s THEN st ELSE job[d][t]
      /\ Running' = Running \ {<<c, s>>}
  <2>1. st \in States /\ st # "running"
    BY <1>7 DEF States
  <2>2. PICK d, t : d = c /\ t = s
    OBVIOUS
  <2> HIDE DEF c, s
  <2>3. QED
    BY ZenonT(60), <1>1, <1>5, <1>7, <2>1, <2>2, JobChange
<1>9. slots' = [d \in Callers |-> slots'[d]] /\ \A d \in Callers : DOMAIN slots'[d] = DOMAIN slots[d]
  <2>1. slots = [d \in Callers |-> slots[d]]
    BY <1>1 DEF Types
  <2> DEFINE one == [slots[c] EXCEPT ![s] = v]
  <2>2. DOMAIN one = DOMAIN slots[c]
    OBVIOUS
  <2> HIDE DEF one
  <2>3. slots' = [slots EXCEPT ![c] = one]
    BY <1>7 DEF one
  <2>4. QED
    BY <1>5, <2>1, <2>2, <2>3
<1> HIDE DEF c, s, x, old
<1>10. /\ stack' \in [Workers -> Seq(Frames)]
       /\ \A u \in Workers : u # w => stack'[u] = stack[u]
       /\ Len(stack'[w]) = N - 1 /\ \A k \in 1..N - 1 : stack'[w][k] = stack[w][k]
  BY <1>2, <1>3, <1>6
<1>11. Held' = Held \ {old} /\ \A p \in Held' : FrameAt(p)' = FrameAt(p)
  <2>1. \A u \in Workers : \A k \in Nat : k \in 1..Len(stack'[u]) <=> k \in 1..Len(stack[u]) /\ <<u, k>> # old
    <3>1. SUFFICES ASSUME NEW u \in Workers, NEW k \in Nat
                   PROVE  k \in 1..Len(stack'[u]) <=> k \in 1..Len(stack[u]) /\ <<u, k>> # old
      OBVIOUS
    <3>2. CASE u = w
      BY <1>0, <1>3, <1>10, <3>2 DEF old
    <3>3. CASE u # w
      BY <1>10, <3>3 DEF old
    <3>4. QED
      BY <3>2, <3>3
  <2>2. Held' = Held \ {old}
    BY <2>1 DEF Held
  <2>3. \A p \in Held' : FrameAt(p)' = FrameAt(p)
    BY <1>10 DEF Held, FrameAt
  <2>4. QED
    BY <2>2, <2>3
<1>12. /\ \A k : k \in Lent <=> \E p \in Held : k = FrameAt(p).workspace
       /\ \A k : k \in Lent' <=> \E p \in Held' : k = FrameAt(p)'.workspace
  <2>1. \A k : k \in Lent <=> \E u \in Workers : \E n \in 1..Len(stack[u]) : k = stack[u][n].workspace
    BY <1>2, LentParts DEF Lent
  <2>2. \A k : k \in Lent' <=> \E u \in Workers : \E n \in 1..Len(stack'[u]) : k = stack'[u][n].workspace
    BY <1>10, LentParts DEF Lent
  <2>3. /\ \A u \in Workers : \A n \in 1..Len(stack[u]) : <<u, n>> \in Held /\ FrameAt(<<u, n>>) = stack[u][n]
        /\ \A u \in Workers : \A n \in 1..Len(stack'[u]) : <<u, n>> \in Held' /\ FrameAt(<<u, n>>)' = stack'[u][n]
    BY <1>2, <1>10 DEF Held, FrameAt
  <2>4. /\ \A p \in Held : p[1] \in Workers /\ p[2] \in 1..Len(stack[p[1]]) /\ FrameAt(p) = stack[p[1]][p[2]]
        /\ \A p \in Held' : p[1] \in Workers /\ p[2] \in 1..Len(stack'[p[1]]) /\ FrameAt(p)' = stack'[p[1]][p[2]]
    BY DEF Held, FrameAt
  <2>5. ASSUME NEW k
        PROVE  k \in Lent <=> \E p \in Held : k = FrameAt(p).workspace
    <3>1. ASSUME k \in Lent
          PROVE  \E p \in Held : k = FrameAt(p).workspace
      <4>1. PICK u \in Workers : \E n \in 1..Len(stack[u]) : k = stack[u][n].workspace
        BY <2>1, <3>1
      <4>2. PICK n \in 1..Len(stack[u]) : k = stack[u][n].workspace
        BY <4>1
      <4>3. <<u, n>> \in Held /\ FrameAt(<<u, n>>) = stack[u][n]
        BY <2>3
      <4>4. QED
        BY <4>2, <4>3
    <3>2. ASSUME NEW p \in Held, k = FrameAt(p).workspace
          PROVE  k \in Lent
      BY <2>1, <2>4, <3>2
    <3>3. QED
      BY <3>1, <3>2
  <2>6. ASSUME NEW k
        PROVE  k \in Lent' <=> \E p \in Held' : k = FrameAt(p)'.workspace
    <3>1. ASSUME k \in Lent'
          PROVE  \E p \in Held' : k = FrameAt(p)'.workspace
      <4>1. PICK u \in Workers : \E n \in 1..Len(stack'[u]) : k = stack'[u][n].workspace
        BY <2>2, <3>1
      <4>2. PICK n \in 1..Len(stack'[u]) : k = stack'[u][n].workspace
        BY <4>1
      <4>3. PICK p : p = <<u, n>>
        OBVIOUS
      <4>4. p \in Held' /\ FrameAt(p)' = stack'[u][n]
        BY <2>3, <4>3
      <4>5. QED
        BY <4>2, <4>4
    <3>2. ASSUME NEW p \in Held', k = FrameAt(p)'.workspace
          PROVE  k \in Lent'
      BY <2>2, <2>4, <3>2
    <3>3. QED
      BY <3>1, <3>2
  <2>7. QED
    BY <2>5, <2>6
<1>13. Lent' = Lent \ {x} /\ x \in Lent
  <2>1. \A p \in Held : p # old => FrameAt(p).workspace # x
    BY <1>1, <1>4 DEF FramesApart, x
  <2>2. FrameAt(old).workspace = x
    BY <1>4 DEF x
  <2>3. \A k : k \in Lent' <=> k \in Lent /\ k # x
    BY <1>4, <1>11, <1>12, <2>1, <2>2
  <2>4. QED
    BY <1>4, <1>12, <2>2, <2>3
<1>14. FramesApart'
  <2>1. \A p \in Held' :
          LET g == FrameAt(p)'.job
          IN  /\ step'[g.caller] = "join" /\ g.group = group'[g.caller]
              /\ g.slot \in DOMAIN job'[g.caller] /\ job'[g.caller][g.slot] = "running"
    <3>1. SUFFICES ASSUME NEW p \in Held', NEW g, g = FrameAt(p)'.job
                   PROVE  /\ step'[g.caller] = "join" /\ g.group = group'[g.caller]
                          /\ g.slot \in DOMAIN job'[g.caller] /\ job'[g.caller][g.slot] = "running"
      OBVIOUS
    <3>2. p \in Held /\ p # old /\ g = FrameAt(p).job
      BY <1>11, <3>1
    <3>3. g.caller \in Callers
      <4>1. stack[p[1]] \in Seq(Frames) /\ p[2] \in 1..Len(stack[p[1]])
        BY <1>2, <3>2 DEF Held
      <4>2. FrameAt(p) \in Frames
        BY <4>1, ElementOfSeq, Zenon DEF FrameAt
      <4>3. QED
        BY <3>2, <4>2 DEF Frames, Jobs
    <3>4. /\ step[g.caller] = "join" /\ g.group = group[g.caller]
          /\ g.slot \in DOMAIN job[g.caller] /\ job[g.caller][g.slot] = "running"
      BY <1>1, <3>2 DEF FramesApart
    <3>5. ~(g.caller = c /\ g.slot = s)
      BY <1>1, <1>4, <3>2 DEF FramesApart, c, s
    <3>6. QED
      BY <1>6, <1>8, <3>3, <3>4, <3>5
  <2>2. \A p, q \in Held' :
          p # q => /\ FrameAt(p)'.workspace # FrameAt(q)'.workspace
                   /\ <<FrameAt(p)'.job.caller, FrameAt(p)'.job.slot>> # <<FrameAt(q)'.job.caller, FrameAt(q)'.job.slot>>
    BY <1>1, <1>11 DEF FramesApart
  <2>3. QED
    BY <2>1, <2>2 DEF FramesApart
<1>15. JobsJoined'
  BY <1>1, <1>5, <1>6, <1>8 DEF JobsJoined
<1>16. /\ retained' \in Seq(Nat) /\ IsInjective(retained')
       /\ ToSet(retained') = IF Room THEN ToSet(retained) \cup {x} ELSE ToSet(retained)
       /\ Len(retained') = IF Room THEN Len(retained) + 1 ELSE Len(retained)
  <2>1. retained \in Seq(Nat) /\ IsInjective(retained) /\ x \notin ToSet(retained)
    BY <1>1, <1>13 DEF Types, Homed
  <2>2. CASE Room
    <3>1. PICK q : q = retained
      OBVIOUS
    <3>2. /\ Append(q, x) \in Seq(Nat) /\ Len(Append(q, x)) = Len(q) + 1
          /\ ToSet(Append(q, x)) = ToSet(q) \cup {x} /\ IsInjective(Append(q, x))
      BY <1>5, <2>1, <3>1, AppendSet, Push
    <3>3. QED
      BY <1>6, <2>2, <3>1, <3>2
  <2>3. CASE ~Room
    BY <1>6, <2>1, <2>3
  <2>4. QED
    BY <2>2, <2>3
<1>17. Created' = IF Room THEN Created ELSE Created \ {x}
  BY <1>6 DEF Created
<1>18. Types'
  BY <1>1, <1>6, <1>8, <1>9, <1>10, <1>16, <1>17 DEF Types
<1>19. Homed'
  BY <1>1, <1>13, <1>16, <1>17 DEF Homed
<1>20. Counted'
  <2>1. /\ IsFiniteSet(Lent') /\ Cardinality(Lent') = Cardinality(Lent) - 1
        /\ IsFiniteSet(Created')
    BY <1>1, <1>13, <1>17, FS_RemoveElement DEF Counted
  <2>2. <<c, s>> \in Running
    BY <1>5 DEF Running
  <2>3. IsFiniteSet(Running') /\ Cardinality(Running') = Cardinality(Running) - 1
    BY <1>1, <1>8, <2>2, FS_RemoveElement DEF Counted
  <2>4. PICK l, m, n : l = Cardinality(Lent) /\ m = Len(retained) /\ n = Cardinality(Workers)
    OBVIOUS
  <2>5. l \in Nat /\ l # 0 /\ m \in Nat /\ n \in Nat /\ m <= n /\ m + l >= n /\ (Room <=> m < n)
    <3>1. l # 0
      BY <1>1, <1>13, <2>4, FS_EmptySet DEF Counted
    <3>2. QED
      BY <1>1, <2>4, <3>1, FS_CardinalityType, CallAssumption DEF Counted, Types, Room
  <2>6. Len(retained') <= n /\ Len(retained') + (l - 1) >= n
    BY <1>16, <2>4, <2>5
  <2>7. QED
    BY <1>1, <2>1, <2>3, <2>4, <2>6 DEF Counted
<1>21. QED
  BY <1>14, <1>15, <1>18, <1>19, <1>20 DEF IInv

\* Every step of callers and workers keeps the invariant.
LEMMA NextStep ==
  ASSUME IInv, [Next]_vars
  PROVE  IInv'
<1> USE DEF calls, output, pool, results
<1>1. Types /\ JobsJoined
  BY DEF IInv
<1>2. ASSUME NEW c \in Callers, CallStep(c)
      PROVE  IInv'
  <2>1. /\ call \in [Callers -> AllCalls] /\ step \in [Callers -> Steps] /\ group \in [Callers -> Nat]
        /\ group[c] \in 1..Len(call[c].groups) + 1 /\ Len(call[c].groups) \in Nat
        /\ job = [d \in Callers |-> job[d]] /\ slots = [d \in Callers |-> slots[d]]
        /\ job[c] \in [DOMAIN job[c] -> States] /\ DOMAIN job[c] \subseteq Nat
        /\ DOMAIN slots[c] = DOMAIN job[c]
    <3>1. call[c] \in AllCalls
      BY <1>1, <1>2 DEF Types
    <3>2. Len(call[c].groups) \in Nat
      BY <3>1, CallAssumption
    <3>3. QED
      BY <1>1, <3>2 DEF Types
  <2>2. /\ job = [job EXCEPT ![c] = job[c]] /\ slots = [slots EXCEPT ![c] = slots[c]]
        /\ group = [group EXCEPT ![c] = group[c]]
    BY <2>1
  <2>3. CASE BeginCall(c)
    <3>1. PICK v \in {"refused", "group"} : step' = [step EXCEPT ![c] = v]
      BY <2>3 DEF BeginCall
    <3>2. step[c] # "join" /\ UNCHANGED <<call, pool, group, job, slots>>
      BY <2>3 DEF BeginCall
    <3>3. \A s \in DOMAIN job[c] : job[c][s] # "running"
      BY <1>1, <3>2 DEF JobsJoined
    <3>4. v \in Steps /\ v # "join"
      BY DEF Steps
    <3>5. QED
      BY <2>1, <2>2, <3>1, <3>2, <3>3, <3>4, CallerMoves
  <2>4. CASE InstallGroup(c)
    <3> DEFINE j == [s \in DOMAIN Slots(c) |-> "queued"]
               k == Slots(c)
    <3>1. /\ step[c] = "group" /\ group[c] <= Len(call[c].groups) /\ UNCHANGED <<call, pool, group>>
          /\ step' = [step EXCEPT ![c] = "join"] /\ job' = [job EXCEPT ![c] = j] /\ slots' = [slots EXCEPT ![c] = k]
      BY <2>4 DEF InstallGroup
    <3>2. DOMAIN k = DOMAIN j /\ j \in [DOMAIN j -> States] /\ \A s \in DOMAIN j : j[s] # "running"
      BY DEF States
    <3>3. DOMAIN j \subseteq Nat
      <4>1. call[c].groups \in Seq([layout : {"nhwc", "nchw"}, indices : Seq(Nat), tiled : SUBSET Nat])
        BY <2>1, CallAssumption
      <4>2. Group(c).indices \in Seq(Nat)
        <5>1. PICK q, R : q = call[c].groups /\ R = [layout : {"nhwc", "nchw"}, indices : Seq(Nat), tiled : SUBSET Nat]
          OBVIOUS
        <5>2. q \in Seq(R) /\ group[c] \in 1..Len(q)
          BY <2>1, <3>1, <4>1, <5>1
        <5>3. q[group[c]] \in R
          BY <5>2, ElementOfSeq, Zenon
        <5>4. QED
          BY <5>1, <5>3 DEF Group
      <4>3. DOMAIN j = DOMAIN Group(c).indices
        BY DEF Slots
      <4>4. QED
        BY <4>2, <4>3
    <3>4. \A s \in DOMAIN job[c] : job[c][s] # "running"
      BY <1>1, <3>1 DEF JobsJoined
    <3>5. "join" \in Steps
      BY DEF Steps
    <3> HIDE DEF j, k
    <3>6. QED
      BY <2>1, <2>2, <3>1, <3>2, <3>3, <3>4, <3>5, CallerMoves
  <2>5. CASE JoinGroup(c)
    <3>1. /\ step[c] = "join" /\ \A s \in DOMAIN job[c] : job[c][s] \in {"decoded", "failed"}
          /\ group' = [group EXCEPT ![c] = group[c] + 1] /\ step' = [step EXCEPT ![c] = "group"]
          /\ UNCHANGED <<call, pool, job, slots>>
      BY <2>5 DEF JoinGroup, Joined
    <3>2. \A s \in DOMAIN job[c] : job[c][s] # "running"
      BY <3>1
    <3>3. group[c] + 1 \in 1..Len(call[c].groups) + 1
      BY <1>1, <2>1, <3>1 DEF JobsJoined
    <3>4. "group" \in Steps
      BY DEF Steps
    <3>5. QED
      BY ZenonT(60), <2>1, <2>2, <3>1, <3>2, <3>3, <3>4, CallerMoves
  <2>6. CASE ReturnCall(c)
    <3>1. /\ step[c] = "group" /\ step' = [step EXCEPT ![c] = "returned"]
          /\ UNCHANGED <<call, pool, group, job, slots>>
      BY <2>6 DEF ReturnCall
    <3>2. \A s \in DOMAIN job[c] : job[c][s] # "running"
      BY <1>1, <3>1 DEF JobsJoined
    <3>3. PICK v : v = "returned"
      OBVIOUS
    <3>4. v \in Steps /\ v # "join" /\ step' = [step EXCEPT ![c] = v]
      BY <3>1, <3>3 DEF Steps
    <3>5. UNCHANGED <<call, pool, group, job, slots>>
      BY <3>1
    <3>6. QED
      BY <2>1, <2>2, <3>2, <3>4, <3>5, CallerMoves
  <2>7. QED
    BY <1>2, <2>3, <2>4, <2>5, <2>6 DEF CallStep
<1>3. ASSUME NEW w \in Workers, Work(w)
      PROVE  IInv'
  BY <1>3, StartJobStep, ReleaseStep DEF Work
<1>4. CASE UNCHANGED vars
  <2>1. UNCHANGED <<call, step, group, job, slots, stack, content, retained>>
    BY <1>4 DEF vars
  <2>2. Held' = Held /\ Lent' = Lent /\ Running' = Running /\ Created' = Created
    BY <2>1 DEF Held, Lent, Running, Created
  <2>3. Types'
    BY <1>1, <2>1, <2>2 DEF Types
  <2>4. FramesApart'
    <3>1. \A p : FrameAt(p)' = FrameAt(p)
      BY <2>1 DEF FrameAt
    <3>2. FramesApart
      BY DEF IInv
    <3>3. ASSUME NEW p \in Held
          PROVE  LET f == FrameAt(p)'.job
                 IN  /\ step'[f.caller] = "join" /\ f.group = group'[f.caller]
                     /\ f.slot \in DOMAIN job'[f.caller] /\ job'[f.caller][f.slot] = "running"
      BY <2>1, <3>1, <3>2 DEF FramesApart
    <3>4. ASSUME NEW p \in Held, NEW q \in Held, p # q
          PROVE  /\ FrameAt(p)'.workspace # FrameAt(q)'.workspace
                 /\ <<FrameAt(p)'.job.caller, FrameAt(p)'.job.slot>>
                      # <<FrameAt(q)'.job.caller, FrameAt(q)'.job.slot>>
      BY <3>1, <3>2, <3>4 DEF FramesApart
    <3>5. QED
      BY <2>2, <3>3, <3>4 DEF FramesApart
  <2>5. JobsJoined'
    BY <1>1, <2>1 DEF JobsJoined
  <2>6. Homed' /\ Counted'
    BY <2>1, <2>2 DEF IInv, Homed, Counted
  <2>7. QED
    BY <2>3, <2>4, <2>5, <2>6 DEF IInv
<1>5. QED
  BY <1>2, <1>3, <1>4 DEF Next

\* The invariant holds in every reachable state.
LEMMA Invariance == Spec => []IInv
  BY InitInv, NextStep, PTL DEF Spec

-----------------------------------------------------------------------------
(***************************************************************************)
(* Lists in ascending order: InOrder is one, and so is Ordered.            *)
(***************************************************************************)
\* As many elements as places, when none is repeated.
LEMMA InjectiveCount ==
  ASSUME NEW S, NEW s \in Seq(S), IsInjective(s)
  PROVE  IsFiniteSet(ToSet(s)) /\ Cardinality(ToSet(s)) = Len(s)
<1>1. s \in [1..Len(s) -> ToSet(s)] /\ Len(s) \in Nat /\ DOMAIN s = 1..Len(s)
  BY DEF ToSet
<1>2. s \in Bijection(1..Len(s), ToSet(s))
  <2>1. \A j, k \in 1..Len(s) : s[j] = s[k] => j = k
    BY <1>1 DEF IsInjective
  <2>2. \A x \in ToSet(s) : \E k \in 1..Len(s) : s[k] = x
    BY <1>1 DEF ToSet
  <2>3. QED
    BY <1>1, <2>1, <2>2 DEF Bijection, Injection, Surjection
<1>3. ExistsBijection(1..Len(s), ToSet(s))
  BY <1>2 DEF ExistsBijection
<1>4. IsFiniteSet(1..Len(s)) /\ Cardinality(1..Len(s)) = Len(s)
  <2>1. PICK n : n = Len(s)
    OBVIOUS
  <2>2. n \in Nat /\ 1 \in Int /\ n \in Int
    BY <1>1, <2>1
  <2>3. IsFiniteSet(1..n) /\ Cardinality(1..n) = IF 1 > n THEN 0 ELSE n - 1 + 1
    BY <2>2, FS_Interval
  <2>4. QED
    BY <2>1, <2>2, <2>3
<1>5. QED
  BY <1>3, <1>4, FS_Bijection

\* The elements of S in ascending order are t.
Lists(t, S) == t \in [1..Cardinality(S) -> S] /\ Ascending(t) /\ ToSet(t) = S

\* A finite set of numbers can be listed in ascending order.
LEMMA AscendingExists ==
  ASSUME NEW S \in SUBSET Nat, IsFiniteSet(S)
  PROVE  \E t : Lists(t, S)
<1> DEFINE P == {m \in Nat : \A T \in SUBSET Nat : IsFiniteSet(T) /\ Cardinality(T) = m => \E t : Lists(t, T)}
<1>1. 0 \in P
  <2>1. SUFFICES ASSUME NEW T \in SUBSET Nat, IsFiniteSet(T), Cardinality(T) = 0
                 PROVE  \E t : Lists(t, T)
    OBVIOUS
  <2>2. T = {}
    BY <2>1, FS_EmptySet
  <2>3. Lists([k \in 1..0 |-> 0], T)
    BY <2>1, <2>2 DEF Lists, Ascending, ToSet
  <2>4. QED
    BY <2>3
<1>2. ASSUME NEW m \in Nat, m \in P
      PROVE  m + 1 \in P
  <2>1. SUFFICES ASSUME NEW T \in SUBSET Nat, IsFiniteSet(T), Cardinality(T) = m + 1
                 PROVE  \E t : Lists(t, T)
    BY <1>2
  <2>2. T # {}
    BY <2>1, FS_EmptySet
  <2>3. PICK x \in T : \A y \in T : x <= y
    BY <2>2, LeastElement
  <2> DEFINE U == T \ {x}
  <2>4. IsFiniteSet(U) /\ Cardinality(U) = m
    <3>1. IsFiniteSet(U) /\ Cardinality(U) = Cardinality(T) - 1
      BY <2>1, <2>3, FS_RemoveElement
    <3>2. QED
      BY <1>2, <2>1, <3>1
  <2>5. PICK u : Lists(u, U)
    <3>1. U \in SUBSET Nat
      OBVIOUS
    <3> HIDE DEF U
    <3>2. QED
      BY <1>2, <2>4, <3>1
  <2>6. u \in [1..m -> U] /\ Ascending(u) /\ ToSet(u) = U /\ DOMAIN u = 1..m
    BY <2>4, <2>5 DEF Lists
  <2> DEFINE t == [k \in 1..m + 1 |-> IF k = 1 THEN x ELSE u[k - 1]]
  <2>7. \A k \in 1..m + 1 : k # 1 => k - 1 \in 1..m
    OBVIOUS
  <2>8. t \in [1..m + 1 -> T]
    BY <2>6, <2>7
  <2>9. Ascending(t)
    <3>1. SUFFICES ASSUME NEW j \in 1..m + 1, NEW k \in 1..m + 1, j < k
                   PROVE  t[j] < t[k]
      BY DEF Ascending
    <3>2. k # 1 /\ t[k] = u[k - 1] /\ k - 1 \in 1..m
      BY <3>1, <2>7
    <3>3. u[k - 1] \in U
      BY <2>6, <3>2
    <3>4. CASE j = 1
      <4>1. t[j] = x /\ x <= u[k - 1] /\ x # u[k - 1] /\ x \in Nat /\ u[k - 1] \in Nat
        BY <2>3, <3>3, <3>4
      <4>2. QED
        BY <3>2, <4>1
    <3>5. CASE j # 1
      <4>1. t[j] = u[j - 1] /\ j - 1 \in 1..m /\ j - 1 < k - 1
        BY <2>7, <3>1, <3>5
      <4>2. u[j - 1] < u[k - 1]
        BY <2>6, <3>2, <4>1 DEF Ascending
      <4>3. QED
        BY <3>2, <4>1, <4>2
    <3>6. QED
      BY <3>4, <3>5
  <2>10. ToSet(t) = T
    <3>1. \A y \in U : \E k \in 1..m : u[k] = y
      BY <2>6 DEF ToSet
    <3>2. ASSUME NEW y \in U
          PROVE  \E k \in 1..m + 1 : t[k] = y
      <4>1. PICK k \in 1..m : u[k] = y
        BY <3>1
      <4>2. k + 1 \in 1..m + 1 /\ k + 1 # 1 /\ (k + 1) - 1 = k
        OBVIOUS
      <4>3. t[k + 1] = y
        BY <4>1, <4>2
      <4>4. QED
        BY <4>2, <4>3
    <3>3. t[1] = x /\ 1 \in 1..m + 1
      OBVIOUS
    <3>4. DOMAIN t = 1..m + 1 /\ \A k \in 1..m + 1 : t[k] \in T
      BY <2>8
    <3> HIDE DEF t
    <3>5. \A y : y \in ToSet(t) <=> \E k \in 1..m + 1 : t[k] = y
      BY <3>4 DEF ToSet
    <3>6. \A y \in T : y = x \/ y \in U
      OBVIOUS
    <3>7. ASSUME NEW y \in T
          PROVE  y \in ToSet(t)
      <4>1. CASE y = x
        BY <3>3, <3>5, <4>1
      <4>2. CASE y \in U
        BY <3>2, <3>5, <4>2
      <4>3. QED
        BY <3>6, <4>1, <4>2
    <3>8. QED
      BY <3>4, <3>5, <3>7
  <2> HIDE DEF t
  <2>11. Lists(t, T)
    BY <2>1, <2>8, <2>9, <2>10 DEF Lists
  <2>12. QED
    BY <2>11
<1> HIDE DEF P
<1>3. PICK n : n = Cardinality(S)
  OBVIOUS
<1>4. n \in Nat
  BY <1>3, FS_CardinalityType
<1>5. \A k \in 0..n : k \in P
  BY <1>1, <1>2, <1>4, UpToInduction
<1>6. n \in P
  BY <1>4, <1>5
<1>7. QED
  BY <1>3, <1>6 DEF P

\* InOrder lists the slots of a set.
LEMMA InOrderLists ==
  ASSUME NEW S \in SUBSET Nat, IsFiniteSet(S)
  PROVE  Lists(InOrder(S), S) /\ IsInjective(InOrder(S)) /\ InOrder(S) \in Seq(Nat)
<1>1. \E t \in [1..Cardinality(S) -> S] : Ascending(t)
  BY AscendingExists DEF Lists
<1>2. PICK t : t = InOrder(S)
  OBVIOUS
<1>3. PICK n : n = Cardinality(S)
  OBVIOUS
<1>4. n \in Nat /\ t \in [1..n -> S] /\ Ascending(t)
  BY <1>1, <1>2, <1>3, FS_CardinalityType, Zenon DEF InOrder
<1>5. \A j, k \in 1..n : t[j] = t[k] => j = k
  <2>1. SUFFICES ASSUME NEW j \in 1..n, NEW k \in 1..n, j < k
                 PROVE  t[j] # t[k]
    BY <1>4
  <2>2. t[j] < t[k] /\ t[j] \in Nat /\ t[k] \in Nat
    BY <1>4, <2>1 DEF Ascending
  <2>3. QED
    BY <2>2
<1>6. t \in Injection(1..n, S)
  BY <1>4, <1>5 DEF Injection, IsInjective
<1>7. IsFiniteSet(1..n) /\ Cardinality(1..n) = n
  BY <1>4, FS_Interval
<1>8. t \in Surjection(1..n, S)
  BY <1>3, <1>6, <1>7, FS_Injection
<1>9. ToSet(t) = S
  BY <1>4, <1>8 DEF Surjection, ToSet
<1>10. IsInjective(t) /\ t \in Seq(Nat)
  <2>1. IsInjective(t)
    BY <1>4, <1>5 DEF IsInjective
  <2>2. t \in [1..n -> Nat]
    BY <1>4
  <2>3. QED
    BY <1>4, <2>1, <2>2
<1>11. QED
  BY <1>2, <1>3, <1>4, <1>9, <1>10 DEF Lists

\* Sorting keeps different source indices and puts them in order.
LEMMA OrderedLists ==
  ASSUME NEW s \in Seq(Nat), IsInjective(s)
  PROVE  /\ Ordered(s) \in Seq(Nat) /\ Ascending(Ordered(s)) /\ IsInjective(Ordered(s))
         /\ ToSet(Ordered(s)) = ToSet(s)
<1> DEFINE Sorts(p) == /\ IsInjective(p)
                       /\ \A j, k \in DOMAIN s : j < k => s[p[j]] <= s[p[k]]
<1>1. PICK n : n = Len(s)
  OBVIOUS
<1>2. n \in Nat /\ DOMAIN s = 1..n /\ s \in [1..n -> Nat]
  BY <1>1
<1>3. IsFiniteSet(ToSet(s)) /\ Cardinality(ToSet(s)) = n /\ ToSet(s) \in SUBSET Nat
  BY <1>1, <1>2, InjectiveCount DEF ToSet
<1>4. \A j, k \in 1..n : s[j] = s[k] => j = k
  BY <1>2 DEF IsInjective
<1>5. \E p \in [DOMAIN s -> DOMAIN s] : Sorts(p)
  <2>1. PICK t : Lists(t, ToSet(s))
    BY <1>3, AscendingExists
  <2>2. t \in [1..n -> Nat] /\ Ascending(t) /\ ToSet(t) = ToSet(s) /\ DOMAIN t = 1..n
    BY <1>3, <2>1 DEF Lists
  <2>3. \A k \in 1..n : \E i \in 1..n : s[i] = t[k]
    BY <1>2, <2>2 DEF ToSet
  <2> DEFINE p == [k \in 1..n |-> CHOOSE i \in 1..n : s[i] = t[k]]
  <2>4. \A k \in 1..n : p[k] \in 1..n /\ s[p[k]] = t[k]
    BY <2>3
  <2>5. p \in [1..n -> 1..n]
    BY <2>4
  <2> HIDE DEF p
  <2>6. \A j, k \in 1..n : j < k => t[j] < t[k]
    BY <2>2 DEF Ascending
  <2>7. \A j, k \in 1..n : p[j] = p[k] => j = k
    <3>1. SUFFICES ASSUME NEW j \in 1..n, NEW k \in 1..n, j < k
                   PROVE  p[j] # p[k]
      BY <1>2
    <3>2. t[j] < t[k] /\ t[j] \in Nat /\ t[k] \in Nat
      BY <2>2, <2>6, <3>1
    <3>3. t[j] # t[k]
      BY <3>2
    <3>4. QED
      BY <2>4, <3>3
  <2>8. IsInjective(p)
    BY <2>5, <2>7 DEF IsInjective
  <2>9. \A j, k \in 1..n : j < k => s[p[j]] <= s[p[k]]
    <3>1. SUFFICES ASSUME NEW j \in 1..n, NEW k \in 1..n, j < k
                   PROVE  s[p[j]] <= s[p[k]]
      OBVIOUS
    <3>2. t[j] < t[k] /\ t[j] \in Nat /\ t[k] \in Nat
      BY <2>2, <2>6, <3>1
    <3>3. QED
      BY <2>4, <3>2
  <2>10. QED
    BY <1>2, <2>5, <2>8, <2>9
<1>6. PICK p : p = CHOOSE q \in [DOMAIN s -> DOMAIN s] : Sorts(q)
  OBVIOUS
<1>7. p \in [DOMAIN s -> DOMAIN s] /\ Sorts(p)
  <2> HIDE DEF Sorts
  <2>1. QED
    BY <1>5, <1>6, Zenon
<1>8. Ordered(s) = [k \in DOMAIN s |-> s[p[k]]]
  <2>1. p = CHOOSE q \in [DOMAIN s -> DOMAIN s] :
              /\ IsInjective(q)
              /\ \A j, k \in DOMAIN s : j < k => s[q[j]] <= s[q[k]]
    BY <1>6
  <2>2. QED
    BY <2>1 DEF Ordered
<1>9. p \in [1..n -> 1..n] /\ \A j, k \in 1..n : p[j] = p[k] => j = k
  BY <1>2, <1>7 DEF IsInjective
<1>10. p \in Surjection(1..n, 1..n)
  <2>1. IsFiniteSet(1..n)
    BY <1>2, FS_Interval
  <2>2. p \in Injection(1..n, 1..n)
    BY <1>9 DEF Injection, IsInjective
  <2>3. QED
    BY <2>1, <2>2, FS_Injection
<1> DEFINE u == [k \in 1..n |-> s[p[k]]]
<1>11. u \in [1..n -> Nat] /\ DOMAIN u = 1..n
  BY <1>2, <1>9
<1>12. \A k \in 1..n : u[k] = s[p[k]]
  OBVIOUS
<1>13. u = Ordered(s)
  BY <1>2, <1>8
<1> HIDE DEF u
<1>14. u \in Seq(Nat)
  BY <1>2, <1>11
<1>15. Ascending(u)
  <2>1. SUFFICES ASSUME NEW j \in 1..n, NEW k \in 1..n, j < k
                 PROVE  u[j] < u[k]
    BY <1>11 DEF Ascending
  <2>2. s[p[j]] <= s[p[k]]
    BY <1>2, <1>7, <2>1
  <2>3. p[j] \in 1..n /\ p[k] \in 1..n /\ p[j] # p[k]
    BY <1>9, <2>1
  <2>4. s[p[j]] # s[p[k]] /\ s[p[j]] \in Nat /\ s[p[k]] \in Nat
    BY <1>2, <1>4, <2>3
  <2>5. QED
    BY <1>12, <2>2, <2>4
<1>16. IsInjective(u)
  BY <1>4, <1>9, <1>11, <1>12 DEF IsInjective
<1>17. ToSet(u) = ToSet(s)
  <2>1. \A i \in 1..n : \E k \in 1..n : p[k] = i
    BY <1>10 DEF Surjection
  <2>2. \A y : y \in ToSet(u) <=> \E k \in 1..n : s[p[k]] = y
    BY <1>11, <1>12 DEF ToSet
  <2>3. \A y : y \in ToSet(s) <=> \E k \in 1..n : s[k] = y
    BY <1>2 DEF ToSet
  <2>4. ASSUME NEW k \in 1..n
        PROVE  s[k] \in ToSet(u)
    <3>1. PICK i \in 1..n : p[i] = k
      BY <2>1
    <3>2. QED
      BY <2>2, <3>1
  <2>5. \A k \in 1..n : s[p[k]] \in ToSet(s)
    BY <1>9, <2>3
  <2>6. \A y : y \in ToSet(u) <=> y \in ToSet(s)
    BY <2>2, <2>3, <2>4, <2>5
  <2>7. QED
    BY <2>6
<1>18. QED
  BY <1>13, <1>14, <1>15, <1>16, <1>17

-----------------------------------------------------------------------------
(***************************************************************************)
(* Compaction: a walk over the slots, by induction on the place, leaves at *)
(* the front what was decoded, in its order.                               *)
(***************************************************************************)
\* The slots of a group of n images, whose source indices are in order.
Filled(c, n, V) ==
  /\ n \in Nat /\ slots[c] \in [1..n -> V] /\ job[c] \in [1..n -> States]
  /\ Group(c).indices \in Seq(Nat) /\ Len(Group(c).indices) = n /\ Ascending(Group(c).indices)

\* The slots of one outcome in order, and the source indices there.
At(c, state, t) ==
  /\ Lists(t, {s \in DOMAIN job[c] : job[c][s] = state}) /\ IsInjective(t) /\ t \in Seq(Nat)
  /\ IndicesOf(c, state) = [k \in DOMAIN t |-> Group(c).indices[t[k]]]

\* Source indices in ascending order are different.
LEMMA AscendingInjective ==
  ASSUME NEW s \in Seq(Nat), Ascending(s)
  PROVE  IsInjective(s)
<1>1. \A k \in DOMAIN s : s[k] \in Nat /\ k \in Nat
  OBVIOUS
<1>2. SUFFICES ASSUME NEW j \in DOMAIN s, NEW k \in DOMAIN s, j < k
               PROVE  s[j] # s[k]
  BY <1>1 DEF IsInjective
<1>3. s[j] < s[k]
  BY <1>2 DEF Ascending
<1>4. QED
  BY <1>1, <1>3

\* The images of one outcome, in slot order.
LEMMA IndicesAt ==
  ASSUME NEW c, NEW n, NEW V, Filled(c, n, V), NEW state
  PROVE  /\ \E t : At(c, state, t)
         /\ IndicesOf(c, state) \in Seq(Nat) /\ Ascending(IndicesOf(c, state))
         /\ ToSet(IndicesOf(c, state)) = {Group(c).indices[s] : s \in {q \in 1..n : job[c][q] = state}}
<1> DEFINE S == {s \in DOMAIN job[c] : job[c][s] = state}
           t == InOrder(S)
<1>1. PICK ind : ind = Group(c).indices
  OBVIOUS
<1>2. n \in Nat /\ DOMAIN job[c] = 1..n /\ ind \in Seq(Nat) /\ Len(ind) = n /\ Ascending(ind) /\ DOMAIN ind = 1..n
  BY <1>1 DEF Filled
<1>3. S \in SUBSET (1..n) /\ S \in SUBSET Nat /\ IsFiniteSet(S)
  <2>1. IsFiniteSet(1..n)
    BY <1>2, FS_Interval
  <2>2. S \in SUBSET (1..n)
    BY <1>2
  <2> HIDE DEF S
  <2>3. IsFiniteSet(S)
    BY <2>1, <2>2, FS_Subset
  <2>4. QED
    BY <1>2, <2>2, <2>3
<1>4. IndicesOf(c, state) = [k \in DOMAIN t |-> ind[t[k]]]
  BY <1>1 DEF IndicesOf
<1> HIDE DEF S
<1>5. Lists(t, S) /\ IsInjective(t) /\ t \in Seq(Nat)
  BY <1>3, InOrderLists
<1> HIDE DEF t
<1>6. At(c, state, t)
  BY <1>1, <1>4, <1>5 DEF At, S
<1>7. PICK m : m = Len(t)
  OBVIOUS
<1>8. m \in Nat /\ DOMAIN t = 1..m /\ (\A k \in 1..m : t[k] \in S /\ t[k] \in 1..n)
  <2>1. m \in Nat /\ DOMAIN t = 1..m
    BY <1>5, <1>7
  <2>2. \A k \in DOMAIN t : t[k] \in S
    BY <1>5 DEF Lists
  <2>3. QED
    BY <1>3, <2>1, <2>2
<1> DEFINE u == [k \in 1..m |-> ind[t[k]]]
<1>9. u = IndicesOf(c, state) /\ u \in [1..m -> Nat] /\ DOMAIN u = 1..m
  BY <1>2, <1>4, <1>8
<1>10. \A k \in 1..m : u[k] = ind[t[k]]
  OBVIOUS
<1> HIDE DEF u
<1>11. u \in Seq(Nat)
  BY <1>8, <1>9
<1>12. Ascending(u)
  <2>1. SUFFICES ASSUME NEW j \in 1..m, NEW k \in 1..m, j < k
                 PROVE  u[j] < u[k]
    BY <1>9 DEF Ascending
  <2>2. t[j] < t[k]
    BY <1>5, <1>8, <2>1 DEF Lists, Ascending
  <2>3. ind[t[j]] < ind[t[k]]
    BY <1>2, <1>8, <2>2 DEF Ascending
  <2>4. QED
    BY <1>10, <2>3
<1>13. ToSet(u) = {ind[s] : s \in {q \in 1..n : job[c][q] = state}}
  <2>1. \A s \in S : \E k \in 1..m : t[k] = s
    BY <1>5, <1>8 DEF Lists, ToSet
  <2>2. \A y : y \in ToSet(u) <=> \E k \in 1..m : ind[t[k]] = y
    BY <1>9, <1>10 DEF ToSet
  <2>3. S = {q \in 1..n : job[c][q] = state}
    BY <1>2 DEF S
  <2>4. ASSUME NEW s \in S
        PROVE  ind[s] \in ToSet(u)
    <3>1. PICK k \in 1..m : t[k] = s
      BY <2>1
    <3>2. QED
      BY <2>2, <3>1
  <2>5. ASSUME NEW y \in ToSet(u)
        PROVE  y \in {ind[s] : s \in S}
    BY <1>8, <2>2
  <2>6. QED
    BY <2>3, <2>4, <2>5
<1>14. QED
  BY <1>1, <1>6, <1>9, <1>11, <1>12, <1>13

-----------------------------------------------------------------------------
Walks(h, c, base, n) ==
  /\ h[0] = base /\ h[n] = FoldLeft(LAMBDA a, s : CopyDown(c, a, s), base, [s \in 1..n |-> s])
  /\ \A k \in 1..n : h[k] = CopyDown(c, h[k - 1], k)
WalkIn(c, M, n) == \A a \in M : \A s \in 1..n : CopyDown(c, a, s) \in M

\* The walk over the slots takes one after another.
LEMMA WalkFold ==
  ASSUME NEW c, NEW n \in Nat, NEW M, NEW base \in M, WalkIn(c, M, n)
  PROVE  \E h : Walks(h, c, base, n)
<1> DEFINE R == 1..n
           s == [k \in R |-> k]
           next == [x \in M \X R |-> CopyDown(c, x[1], x[2])]
<1>0. s \in Seq(R) /\ Len(s) = n /\ \A k \in 1..n : s[k] = k
  OBVIOUS
<1> HIDE DEF s
<1>1. /\ DOMAIN s = 1..Len(s) /\ Len(s) \in Nat /\ 1..0 = {}
      /\ \A T \in SUBSET DOMAIN s : T # {} => s[Max(T)] \in R
      /\ \A k \in 1..Len(s) : /\ 1..k \in SUBSET DOMAIN s /\ 1..k # {} /\ k - 1 \in 0..Len(s)
                              /\ Max(1..k) = k /\ (1..k) \ {k} = 1..k - 1
  <2> HIDE DEF R
  <2>1. QED
    BY <1>0, FoldPrefixes
<1>2. next \in [M \X R -> M] /\ \A m \in M : \A r \in R : next[<<m, r>>] = CopyDown(c, m, r)
  BY DEF WalkIn
<1>3. PICK g \in [SUBSET (1..Len(s)) -> M] : Folds(g, base, next, s, Len(s))
  <2> HIDE DEF next, R
  <2>1. QED
    BY <1>0, <1>2, FoldExists
<1> HIDE DEF next
<1>4. g = [T \in SUBSET (DOMAIN s) |-> IF T = {} THEN base ELSE CopyDown(c, g[T \ {Max(T)}], s[Max(T)])]
  <2> HIDE DEF R
  <2>1. \A T \in SUBSET DOMAIN s : g[T] \in M /\ T \ {Max(T)} \in SUBSET DOMAIN s
    BY <1>1, <1>3
  <2>2. \A T \in SUBSET DOMAIN s : T # {} =>
          next[<<g[T \ {Max(T)}], s[Max(T)]>>] = CopyDown(c, g[T \ {Max(T)}], s[Max(T)])
    BY <1>1, <1>2, <2>1
  <2>3. QED
    BY <1>1, <1>3, <2>2 DEF Folds
<1>5. PICK f : /\ f[DOMAIN s] = FoldLeft(LAMBDA a, q : CopyDown(c, a, q), base, s)
               /\ f = [T \in SUBSET (DOMAIN s) |-> IF T = {} THEN base ELSE CopyDown(c, f[T \ {Max(T)}], s[Max(T)])]
  BY <1>4, Zenon DEF FoldLeft, MapThenFoldSet
<1> DEFINE h == [k \in 0..Len(s) |-> f[1..k]]
<1>6. h[0] = base /\ h[Len(s)] = FoldLeft(LAMBDA a, q : CopyDown(c, a, q), base, s)
  <2>1. h[0] = f[1..0] /\ h[Len(s)] = f[1..Len(s)]
    BY <1>1
  <2>2. f[{}] = base
    BY <1>5
  <2>3. QED
    BY <1>1, <1>5, <2>1, <2>2
<1>7. \A k \in 1..Len(s) : h[k] = CopyDown(c, h[k - 1], k)
  <2>1. SUFFICES ASSUME NEW k \in 1..Len(s)
                 PROVE  h[k] = CopyDown(c, h[k - 1], k)
    OBVIOUS
  <2>2. f[1..k] = CopyDown(c, f[(1..k) \ {Max(1..k)}], s[Max(1..k)])
    BY <1>1, <1>5, Zenon
  <2>3. f[1..k] = CopyDown(c, f[1..k - 1], s[k])
    BY <1>1, <2>2, Zenon
  <2>4. h[k] = f[1..k] /\ h[k - 1] = f[1..k - 1] /\ s[k] = k
    BY <1>0, <1>1
  <2>5. QED
    BY <2>3, <2>4
<1> HIDE DEF h
<1>8. Walks(h, c, base, n)
  <2>1. s = [k \in 1..n |-> k]
    BY DEF s
  <2>2. QED
    BY <1>0, <1>6, <1>7, <2>1 DEF Walks
<1>9. QED
  BY <1>8

\* What the walk has after k slots: the images that succeeded among them, together,
\* and the slots ahead as they were.
Copied(c, n, V, t, a, k) ==
  /\ a.samples \in [1..n -> V] /\ a.moved \in 0..k /\ a.moved \in 0..Len(t)
  /\ a = [samples |-> a.samples, moved |-> a.moved]
  /\ \A j \in 1..a.moved : t[j] <= k /\ a.samples[j] = slots[c][t[j]]
  /\ \A j \in a.moved + 1..Len(t) : t[j] > k
  /\ \A s \in k + 1..n : a.samples[s] = slots[c][s]

\* A slot more.
LEMMA CopiedMore ==
  ASSUME NEW c, NEW n, NEW V, Filled(c, n, V), NEW t, At(c, "decoded", t),
         NEW k \in 0..n - 1, NEW a, Copied(c, n, V, t, a, k)
  PROVE  Copied(c, n, V, t, CopyDown(c, a, k + 1), k + 1)
<1> DEFINE S == {s \in 1..n : job[c][s] = "decoded"}
<1>1. PICK ind, m, sm, mv, sl : ind = Group(c).indices /\ m = Len(t) /\ sm = a.samples /\ mv = a.moved /\ sl = slots[c]
  OBVIOUS
<1>2. /\ n \in Nat /\ k \in Nat /\ k + 1 \in 1..n /\ sl \in [1..n -> V] /\ DOMAIN job[c] = 1..n
      /\ ind \in Seq(Nat) /\ Len(ind) = n /\ DOMAIN ind = 1..n /\ Ascending(ind)
  BY <1>1 DEF Filled
<1>3. IsInjective(ind)
  BY <1>2, AscendingInjective
<1>4. \A i, j \in 1..n : ind[i] = ind[j] => i = j
  BY <1>2, <1>3 DEF IsInjective
<1>5. /\ Lists(t, S) /\ t \in Seq(Nat) /\ Decoded(c) = [j \in DOMAIN t |-> ind[t[j]]]
  BY <1>1, <1>2 DEF At, Decoded
<1>6. m \in Nat /\ DOMAIN t = 1..m /\ (\A j \in 1..m : t[j] \in 1..n)
  <2>1. m \in Nat /\ DOMAIN t = 1..m
    BY <1>1, <1>5
  <2>2. \A j \in DOMAIN t : t[j] \in S
    BY <1>5 DEF Lists
  <2>3. QED
    BY <2>1, <2>2
<1>7. Len(Decoded(c)) = m /\ \A j \in 1..m : Decoded(c)[j] = ind[t[j]]
  BY <1>5, <1>6
<1>8. \A i, j \in 1..m : i < j => t[i] < t[j]
  BY <1>5, <1>6 DEF Lists, Ascending
<1>9. /\ sm \in [1..n -> V] /\ mv \in 0..k /\ mv \in 0..m
      /\ a = [samples |-> sm, moved |-> mv]
      /\ (\A j \in 1..mv : t[j] <= k /\ sm[j] = sl[t[j]])
      /\ (\A j \in mv + 1..m : t[j] > k)
      /\ (\A s \in k + 1..n : sm[s] = sl[s])
  BY <1>1 DEF Copied
<1>10. IsNext(c, k + 1, mv) <=> mv < m /\ t[mv + 1] = k + 1
  <2>1. CASE mv < m
    <3>1. mv + 1 \in 1..m
      BY <1>6, <1>9, <2>1
    <3>2. IsNext(c, k + 1, mv) <=> ind[t[mv + 1]] = ind[k + 1]
      BY <1>1, <1>7, <2>1, <3>1 DEF IsNext
    <3>3. t[mv + 1] \in 1..n
      BY <1>6, <3>1
    <3>4. QED
      BY <1>2, <1>4, <2>1, <3>2, <3>3
  <2>2. CASE ~(mv < m)
    BY <1>7, <2>2 DEF IsNext
  <2>3. QED
    BY <2>1, <2>2
<1>11. CASE mv < m /\ t[mv + 1] = k + 1
  <2> DEFINE sn == [sm EXCEPT ![mv + 1] = sm[k + 1]]
  <2>1. CopyDown(c, a, k + 1) = [samples |-> sn, moved |-> mv + 1]
    BY <1>1, <1>10, <1>11 DEF CopyDown, Target
  <2>2. mv + 1 \in 1..n /\ mv + 1 \in 1..m /\ mv + 1 \in 0..k + 1 /\ mv \in Nat
    BY <1>2, <1>6, <1>9, <1>11
  <2>3. sn \in [1..n -> V] /\ \A j \in 1..n : sn[j] = IF j = mv + 1 THEN sm[k + 1] ELSE sm[j]
    BY <1>2, <1>9, <2>2
  <2> HIDE DEF sn
  <2>4. \A j \in 1..mv + 1 : t[j] <= k + 1 /\ sn[j] = sl[t[j]]
    <3>1. SUFFICES ASSUME NEW j \in 1..mv + 1
                   PROVE  t[j] <= k + 1 /\ sn[j] = sl[t[j]]
      OBVIOUS
    <3>2. CASE j = mv + 1
      <4>1. sm[k + 1] = sl[k + 1]
        BY <1>2, <1>9
      <4>2. QED
        BY <1>2, <1>11, <2>2, <2>3, <3>2, <4>1
    <3>3. CASE j # mv + 1
      <4>1. j \in 1..mv /\ j \in 1..n /\ j \in 1..m
        BY <1>2, <1>6, <1>9, <2>2, <3>1, <3>3
      <4>2. t[j] <= k /\ sm[j] = sl[t[j]] /\ t[j] \in Nat
        BY <1>6, <1>9, <4>1
      <4>3. QED
        BY <1>2, <2>3, <3>3, <4>1, <4>2
    <3>4. QED
      BY <3>2, <3>3
  <2>5. \A j \in mv + 2..m : t[j] > k + 1
    <3>1. SUFFICES ASSUME NEW j \in mv + 2..m
                   PROVE  t[j] > k + 1
      OBVIOUS
    <3>2. j \in 1..m /\ mv + 1 < j
      BY <2>2, <3>1
    <3>3. t[mv + 1] < t[j]
      BY <1>8, <2>2, <3>2
    <3>4. t[j] \in Nat
      BY <1>6, <3>2
    <3>5. QED
      BY <1>11, <3>3, <3>4, <1>2
  <2>6. \A s \in k + 2..n : sn[s] = sl[s]
    <3>1. SUFFICES ASSUME NEW s \in k + 2..n
                   PROVE  sn[s] = sl[s]
      OBVIOUS
    <3>2. s \in k + 1..n /\ s \in 1..n /\ s # mv + 1
      BY <1>2, <2>2, <3>1
    <3>3. QED
      BY <1>9, <2>3, <3>2
  <2>7. /\ (mv + 1) + 1 = mv + 2 /\ (k + 1) + 1 = k + 2
    BY <1>2, <2>2
  <2>8. PICK b : b = [samples |-> sn, moved |-> mv + 1]
    OBVIOUS
  <2>9. b.samples = sn /\ b.moved = mv + 1
    BY <2>8
  <2>10. Copied(c, n, V, t, b, k + 1)
    BY <1>1, <2>2, <2>3, <2>4, <2>5, <2>6, <2>7, <2>8, <2>9 DEF Copied
  <2>11. QED
    BY <2>1, <2>8, <2>10
<1>12. CASE ~(mv < m /\ t[mv + 1] = k + 1)
  <2>1. CopyDown(c, a, k + 1) = a
    BY <1>1, <1>10, <1>12 DEF CopyDown
  <2>2. \A j \in mv + 1..m : t[j] > k + 1
    <3>1. SUFFICES ASSUME NEW j \in mv + 1..m
                   PROVE  t[j] > k + 1
      OBVIOUS
    <3>2. mv < m /\ mv + 1 \in 1..m /\ mv + 1 \in mv + 1..m /\ j \in 1..m /\ j \in Nat /\ mv \in Nat
      BY <1>6, <1>9, <3>1
    <3>3. t[mv + 1] # k + 1 /\ t[mv + 1] > k /\ t[mv + 1] \in Nat /\ t[j] \in Nat
      BY <1>6, <1>9, <1>12, <3>2
    <3>4. t[mv + 1] > k + 1
      BY <1>2, <3>3
    <3>5. CASE j = mv + 1
      BY <3>4, <3>5
    <3>6. CASE j # mv + 1
      <4>1. mv + 1 < j
        BY <3>1, <3>2, <3>6
      <4>2. t[mv + 1] < t[j]
        BY <1>8, <3>2, <4>1
      <4>3. QED
        BY <1>2, <3>3, <3>4, <4>2
    <3>7. QED
      BY <3>5, <3>6
  <2>3. \A j \in 1..mv : t[j] <= k + 1
    <3>1. \A j \in 1..mv : t[j] <= k /\ t[j] \in Nat
      BY <1>6, <1>9
    <3>2. QED
      BY <1>2, <3>1
  <2>4. \A s \in (k + 1) + 1..n : sm[s] = sl[s]
    BY <1>2, <1>9
  <2>5. mv \in 0..k + 1
    BY <1>2, <1>9
  <2>6. Copied(c, n, V, t, a, k + 1)
    BY <1>1, <1>9, <2>2, <2>3, <2>4, <2>5 DEF Copied
  <2>7. QED
    BY <2>1, <2>6
<1>13. QED
  BY <1>11, <1>12

\* The images that succeeded are moved together in slot order.
LEMMA Compacts ==
  ASSUME NEW c, NEW n, NEW V, Filled(c, n, V), NEW t, At(c, "decoded", t)
  PROVE  /\ Compacted(c) \in Seq(V) /\ Len(Compacted(c)) = Len(t)
         /\ \A k \in 1..Len(t) : Compacted(c)[k] = slots[c][t[k]]
<1> DEFINE M == [samples : [1..n -> V], moved : Nat]
           base == [samples |-> slots[c], moved |-> 0]
<1>1. n \in Nat /\ slots[c] \in [1..n -> V] /\ DOMAIN slots[c] = 1..n
  BY DEF Filled
<1>2. base \in M
  BY <1>1
<1>3. WalkIn(c, M, n)
  <2>1. SUFFICES ASSUME NEW a \in M, NEW s \in 1..n
                 PROVE  CopyDown(c, a, s) \in M
    BY DEF WalkIn
  <2>2. a.samples \in [1..n -> V] /\ a.moved \in Nat /\ a.samples[s] \in V /\ a.moved + 1 \in Nat
    <3>1. a.samples \in [1..n -> V] /\ a.moved \in Nat
      BY <2>1
    <3>2. s \in 1..n
      OBVIOUS
    <3>3. PICK sm, mv : sm = a.samples /\ mv = a.moved
      OBVIOUS
    <3> HIDE DEF M
    <3>4. sm[s] \in V /\ mv + 1 \in Nat
      <4>1. sm \in [1..n -> V] /\ mv \in Nat
        BY <3>1, <3>3
      <4>2. mv + 1 \in Nat
        BY <4>1
      <4>3. sm[s] \in V
        BY <3>2, <4>1
      <4>4. QED
        BY <4>2, <4>3
    <3>5. QED
      BY <3>1, <3>3, <3>4
  <2>3. PICK x, i : x = a.samples[s] /\ i = Target(s, a.moved)
    OBVIOUS
  <2>4. [a.samples EXCEPT ![i] = x] \in [1..n -> V]
    BY <2>2, <2>3
  <2>5. CASE IsNext(c, s, a.moved)
    <3>1. CopyDown(c, a, s) = [samples |-> [a.samples EXCEPT ![i] = x], moved |-> a.moved + 1]
      BY <2>3, <2>5 DEF CopyDown
    <3>2. QED
      BY <2>2, <2>4, <3>1
  <2>6. CASE ~IsNext(c, s, a.moved)
    BY <2>1, <2>6 DEF CopyDown
  <2>7. QED
    BY <2>5, <2>6
<1> HIDE DEF M
<1>4. PICK h : Walks(h, c, base, n)
  BY <1>1, <1>2, <1>3, WalkFold
<1>5. PICK m, sl : m = Len(t) /\ sl = slots[c]
  OBVIOUS
<1>6. m \in Nat /\ DOMAIN t = 1..m /\ (\A j \in 1..m : t[j] \in 1..n)
  <2>1. m \in Nat /\ DOMAIN t = 1..m
    BY <1>5 DEF At
  <2>2. \A j \in DOMAIN t : t[j] \in DOMAIN job[c]
    BY DEF At, Lists
  <2>3. DOMAIN job[c] = 1..n
    BY DEF Filled
  <2>4. QED
    BY <2>1, <2>2, <2>3
<1> DEFINE P == {k \in 0..n : Copied(c, n, V, t, h[k], k)}
<1>7. 0 \in P
  <2>1. h[0] = base
    BY <1>4 DEF Walks
  <2>2. Copied(c, n, V, t, base, 0)
    BY <1>1, <1>5, <1>6 DEF Copied
  <2>3. QED
    BY <1>1, <2>1, <2>2
<1>8. ASSUME NEW k \in 0..n - 1, k \in P
      PROVE  k + 1 \in P
  <2>1. Copied(c, n, V, t, h[k], k)
    BY <1>8
  <2>2. Copied(c, n, V, t, CopyDown(c, h[k], k + 1), k + 1)
    BY <1>8, <2>1, CopiedMore
  <2>3. k + 1 \in 1..n /\ k + 1 \in 0..n /\ (k + 1) - 1 = k
    BY <1>1
  <2>4. h[k + 1] = CopyDown(c, h[k], k + 1)
    BY <1>4, <2>3 DEF Walks
  <2>5. QED
    BY <2>2, <2>3, <2>4
<1> HIDE DEF P
<1>9. \A k \in 0..n : k \in P
  BY <1>1, <1>7, <1>8, UpToInduction
<1>10. Copied(c, n, V, t, h[n], n)
  BY <1>1, <1>9 DEF P
<1>11. h[n].moved = m
  <2>1. h[n].moved \in 0..m /\ \A j \in h[n].moved + 1..m : t[j] > n
    BY <1>5, <1>10 DEF Copied
  <2>2. PICK q : q = h[n].moved
    OBVIOUS
  <2>3. CASE q < m
    <3>1. q + 1 \in q + 1..m /\ q + 1 \in 1..m
      BY <1>6, <2>1, <2>2, <2>3
    <3>2. t[q + 1] > n /\ t[q + 1] \in 1..n
      BY <1>6, <2>1, <2>2, <3>1
    <3>3. QED
      BY <1>1, <3>2
  <2>4. QED
    BY <1>6, <2>1, <2>2, <2>3
<1>12. PICK sm : sm = h[n].samples
  OBVIOUS
<1>13. sm \in [1..n -> V] /\ (\A j \in 1..m : sm[j] = sl[t[j]]) /\ m \in 0..n
  BY <1>5, <1>10, <1>11, <1>12 DEF Copied
<1>14. Compacted(c) = SubSeq(sm, 1, m)
  <2>1. h[n] = FoldLeft(LAMBDA a, s : CopyDown(c, a, s), base, [s \in DOMAIN slots[c] |-> s])
    BY <1>1, <1>4 DEF Walks
  <2>2. Compacted(c) = SubSeq(h[n].samples, 1, h[n].moved)
    BY <2>1 DEF Compacted
  <2>3. QED
    BY <1>11, <1>12, <2>2
<1>15. /\ SubSeq(sm, 1, m) \in Seq(V) /\ Len(SubSeq(sm, 1, m)) = m
       /\ \A k \in 1..m : SubSeq(sm, 1, m)[k] = sm[k]
  <2>1. sm \in Seq(V) /\ Len(sm) = n
    BY <1>1, <1>13
  <2>2. QED
    BY <1>13, <2>1, Split
<1>16. QED
  BY <1>5, <1>13, <1>14, <1>15

-----------------------------------------------------------------------------
(***************************************************************************)
(* What the results are, while a call is under way and afterwards.         *)
(***************************************************************************)
Layouts == {"nhwc", "nchw"}
Groups  == [layout : Layouts, indices : Seq(Nat), tiled : SUBSET Nat]
Decodes == {Undecoded, Partial} \cup {Image(j, l) : j \in Jobs, l \in Layouts}
Results == [indices : Seq(Nat), samples : Seq(Decodes)]

\* A workspace that a job has holds the coefficients of that job.
ContentsTrue == \A p \in Held : content[FrameAt(p).workspace] = FrameAt(p).job

\* A slot whose job is done holds the image of that slot.
SlotsOf(c) ==
  step[c] = "join" =>
    /\ DOMAIN job[c] = 1..Len(Group(c).indices) /\ slots[c] \in [DOMAIN job[c] -> Decodes]
    /\ \A s \in DOMAIN job[c] : job[c][s] = "decoded" =>
         slots[c][s] = Image([caller |-> c, group |-> group[c], slot |-> s], Group(c).layout)

\* Source indices of a caller's results, and of the groups that are behind it.
IndexLists(q) == [g \in DOMAIN q |-> q[g].indices]
Succeeded(c) == FlattenSeq(IndexLists(groups[c]))
Behind(c, g) == UNION {ToSet(call[c].groups[h].indices) : h \in 1..g - 1}
Done(c) == Behind(c, group[c])

\* Each member of B is in one of two sequences, once.
Divided(s, t, B) ==
  IsInjective(s) /\ IsInjective(t) /\ ToSet(s) \cap ToSet(t) = {} /\ ToSet(s) \cup ToSet(t) = B

\* Every input of the groups behind a caller is in a result or an error, once.
Kept(c) ==
  /\ Divided(Succeeded(c), errors[c], Done(c) \cup ToSet(call[c].errors))
  /\ \A g \in DOMAIN groups[c] : Ascending(groups[c][g].indices)
  /\ call[c].kind = "into" => Ascending(errors[c]) /\ (group[c] = 1 => errors[c] = <<>>)
  /\ step[c] = "returned" => group[c] = Len(call[c].groups) + 1 /\ Ascending(errors[c])

\* A result has the samples of the images it names.
Owns(c, r) ==
  /\ call[c].kind = "decode" => Len(r.samples) = Len(r.indices)
  /\ \A k \in DOMAIN r.indices :
       r.samples[IF call[c].kind = "decode" THEN k ELSE Position(c, 1, r.indices[k])] = Expected(c, r.indices[k])

Gathered(c) ==
  /\ groups[c] \in Seq(Results) /\ errors[c] \in Seq(Nat)
  /\ step[c] = "call" => groups[c] = <<>> /\ group[c] = 1
  /\ step[c] \in {"group", "join", "returned"} => Kept(c)
  /\ \A g \in DOMAIN groups[c] : Owns(c, groups[c][g])

CallersTrue ==
  /\ groups = [c \in Callers |-> groups[c]] /\ errors = [c \in Callers |-> errors[c]]
  /\ \A c \in Callers : SlotsOf(c) /\ Gathered(c)

RInv == IInv /\ ContentsTrue /\ CallersTrue

-----------------------------------------------------------------------------
\* What a call is.
LEMMA CallParts ==
  ASSUME NEW q \in AllCalls
  PROVE  /\ q.kind \in {"decode", "into"} /\ (q.kind = "into" => Len(q.groups) = 1 /\ q.errors = <<>>)
         /\ q.groups \in Seq(Groups) /\ Len(q.groups) \in Nat /\ DOMAIN q.groups = 1..Len(q.groups)
         /\ q.errors \in Seq(Nat) /\ IsInjective(q.errors)
         /\ \A g \in DOMAIN q.groups :
              /\ q.groups[g] \in Groups /\ q.groups[g].indices \in Seq(Nat) /\ q.groups[g].layout \in Layouts
              /\ Ascending(q.groups[g].indices) /\ IsInjective(q.groups[g].indices)
              /\ ToSet(q.groups[g].indices) \cap ToSet(q.errors) = {}
         /\ \A g, h \in DOMAIN q.groups :
              g # h => ToSet(q.groups[g].indices) \cap ToSet(q.groups[h].indices) = {}
<1>1. /\ q.kind \in {"decode", "into"} /\ (q.kind = "into" => Len(q.groups) = 1 /\ q.errors = <<>>)
      /\ q.groups \in Seq(Groups) /\ q.errors \in Seq(Nat) /\ PreparedOnce(q)
  BY CallAssumption DEF Groups, Layouts
<1>2. PICK s, G : s = q.groups /\ G = Groups
  OBVIOUS
<1>3. s \in Seq(G) /\ Len(s) \in Nat /\ DOMAIN s = 1..Len(s)
  BY <1>1, <1>2
<1>4. \A g \in DOMAIN s : s[g] \in G
  BY <1>3
<1>5. \A g \in DOMAIN s : s[g].indices \in Seq(Nat) /\ s[g].layout \in Layouts
  BY <1>2, <1>4 DEF Groups
<1>6. \A g \in DOMAIN s : Ascending(s[g].indices)
  BY <1>1, <1>2 DEF PreparedOnce
<1>7. \A g \in DOMAIN s : IsInjective(s[g].indices)
  <2>1. SUFFICES ASSUME NEW g \in DOMAIN s
                 PROVE  IsInjective(s[g].indices)
    OBVIOUS
  <2>2. PICK i : i = s[g].indices
    OBVIOUS
  <2>3. i \in Seq(Nat) /\ Ascending(i)
    BY <1>5, <1>6, <2>1, <2>2
  <2>4. IsInjective(i)
    BY <2>3, AscendingInjective
  <2>5. QED
    BY <2>2, <2>4
<1>8. QED
  BY <1>1, <1>2, <1>3, <1>4, <1>5, <1>6, <1>7 DEF PreparedOnce

\* A source index stands for one slot of one group.
LEMMA ExpectedAt ==
  ASSUME NEW c, call[c] \in AllCalls, NEW g \in DOMAIN call[c].groups,
         NEW s \in DOMAIN call[c].groups[g].indices, NEW i, i = call[c].groups[g].indices[s]
  PROVE  /\ Position(c, g, i) = s
         /\ Expected(c, i) = Image([caller |-> c, group |-> g, slot |-> s], call[c].groups[g].layout)
<1>1. PICK gs : gs = call[c].groups
  OBVIOUS
<1>2. \A h \in DOMAIN gs : IsInjective(gs[h].indices)
  BY <1>1, CallParts
<1>3. \A h \in DOMAIN gs : h # g => ToSet(gs[h].indices) \cap ToSet(gs[g].indices) = {}
  BY <1>1, CallParts
<1>4. \A r \in DOMAIN gs[g].indices : gs[g].indices[r] = i => r = s
  BY <1>1, <1>2 DEF IsInjective
<1>5. Position(c, g, i) = s
  BY <1>1, <1>4 DEF Position
<1>6. i \in ToSet(gs[g].indices)
  BY <1>1 DEF ToSet
<1>7. \A h \in DOMAIN gs : i \in ToSet(gs[h].indices) => h = g
  BY <1>3, <1>6
<1>8. GroupOf(c, i) = g
  BY <1>1, <1>6, <1>7 DEF GroupOf
<1>9. QED
  BY <1>5, <1>8 DEF Expected

\* The source indices of one more result.
LEMMA MoreIndices ==
  ASSUME NEW q \in Seq(Results), NEW r \in Results
  PROVE  /\ IndexLists(q) \in Seq(Seq(Nat)) /\ FlattenSeq(IndexLists(q)) \in Seq(Nat)
         /\ FlattenSeq(IndexLists(Append(q, r))) = FlattenSeq(IndexLists(q)) \o r.indices
<1>1. PICK R, S, n : R = Results /\ S = Seq(Nat) /\ n = Len(q)
  OBVIOUS
<1>2. q \in Seq(R) /\ r \in R /\ n \in Nat /\ DOMAIN q = 1..n /\ \A x \in R : x.indices \in S
  BY <1>1 DEF Results
<1>3. /\ DOMAIN Append(q, r) = 1..n + 1 /\ Append(q, r)[n + 1] = r
      /\ \A g \in 1..n : Append(q, r)[g] = q[g] /\ q[g] \in R
  BY <1>1, <1>2
<1>4. IndexLists(q) = [g \in 1..n |-> q[g].indices] /\ IndexLists(q) \in Seq(S) /\ Len(IndexLists(q)) = n
  BY <1>2, <1>3 DEF IndexLists
<1>5. PICK l, x : l = IndexLists(q) /\ x = r.indices
  OBVIOUS
<1>6. l \in Seq(S) /\ x \in S /\ Len(l) = n /\ \A g \in 1..n : l[g] = q[g].indices
  BY <1>2, <1>4, <1>5
<1>7. IndexLists(Append(q, r)) = Append(l, x)
  <2>1. IndexLists(Append(q, r)) = [g \in 1..n + 1 |-> Append(q, r)[g].indices]
    BY <1>3 DEF IndexLists
  <2>2. /\ Append(l, x) \in Seq(S) /\ Len(Append(l, x)) = n + 1 /\ DOMAIN Append(l, x) = 1..n + 1
        /\ Append(l, x)[n + 1] = x /\ \A g \in 1..n : Append(l, x)[g] = l[g]
    BY <1>6
  <2>3. \A g \in 1..n + 1 : g \in 1..n \/ g = n + 1
    BY <1>2
  <2>4. \A g \in 1..n + 1 : Append(q, r)[g].indices = Append(l, x)[g]
    BY <1>3, <1>5, <1>6, <2>2, <2>3
  <2>5. PICK y : y = Append(l, x)
    OBVIOUS
  <2>6. y \in Seq(S) /\ Len(y) = n + 1
    BY <2>2, <2>5
  <2>7. y = [g \in 1..n + 1 |-> y[g]]
    BY <2>6
  <2>8. QED
    BY <2>1, <2>4, <2>5, <2>7
<1>8. l \in Seq(Seq(Nat)) /\ x \in Seq(Nat)
  BY <1>1, <1>6
<1>9. FlattenSeq(l) \in Seq(Nat) /\ FlattenSeq(Append(l, x)) = FlattenSeq(l) \o x
  BY <1>8, FlattenType, FlattenAppend
<1>10. QED
  BY <1>5, <1>7, <1>8, <1>9

-----------------------------------------------------------------------------
(***************************************************************************)
(* Callers keep their results; a call begins.                              *)
(***************************************************************************)
\* The inputs of a group join those behind it.
LEMMA JoinSets ==
  ASSUME NEW su \in Seq(Nat), NEW er \in Seq(Nat), NEW de \in Seq(Nat), NEW fa \in Seq(Nat), NEW B, NEW I,
         Divided(su, er, B), Divided(de, fa, I), B \cap I = {}
  PROVE  su \o de \in Seq(Nat) /\ er \o fa \in Seq(Nat) /\ Divided(su \o de, er \o fa, B \cup I)
<1>1. PICK S, E, D, F : S = ToSet(su) /\ E = ToSet(er) /\ D = ToSet(de) /\ F = ToSet(fa)
  OBVIOUS
<1>2. /\ su \o de \in Seq(Nat) /\ ToSet(su \o de) = S \cup D
      /\ IsInjective(su \o de) <=> IsInjective(su) /\ IsInjective(de) /\ S \cap D = {}
  BY <1>1, ConcatSet
<1>3. /\ er \o fa \in Seq(Nat) /\ ToSet(er \o fa) = E \cup F
      /\ IsInjective(er \o fa) <=> IsInjective(er) /\ IsInjective(fa) /\ E \cap F = {}
  BY <1>1, ConcatSet
<1>4. /\ S \cap E = {} /\ S \cup E = B /\ D \cap F = {} /\ D \cup F = I /\ B \cap I = {}
      /\ IsInjective(su) /\ IsInjective(er) /\ IsInjective(de) /\ IsInjective(fa)
  BY <1>1 DEF Divided
<1>5. S \cap D = {} /\ E \cap F = {} /\ (S \cup D) \cap (E \cup F) = {} /\ (S \cup D) \cup (E \cup F) = B \cup I
  BY <1>4
<1>6. QED
  BY <1>2, <1>3, <1>4, <1>5 DEF Divided

\* A caller's step leaves the others what they have.
LEMMA CallerResults ==
  ASSUME RInv, IInv', NEW c \in Callers, UNCHANGED <<call, pool>>,
         NEW st, step' = [step EXCEPT ![c] = st], NEW gr, group' = [group EXCEPT ![c] = gr],
         NEW jo, job' = [job EXCEPT ![c] = jo], NEW sl, slots' = [slots EXCEPT ![c] = sl],
         NEW gs, groups' = [groups EXCEPT ![c] = gs], NEW er, errors' = [errors EXCEPT ![c] = er],
         SlotsOf(c)', Gathered(c)'
  PROVE  RInv'
<1>1. IInv /\ ContentsTrue /\ CallersTrue /\ Types
  BY DEF RInv, IInv
<1>2. ContentsTrue'
  BY <1>1 DEF ContentsTrue, Held, FrameAt, pool
<1>3. \A d \in Callers : d # c =>
        /\ step'[d] = step[d] /\ group'[d] = group[d] /\ job'[d] = job[d] /\ slots'[d] = slots[d]
        /\ groups'[d] = groups[d] /\ errors'[d] = errors[d] /\ call'[d] = call[d]
  BY <1>1 DEF Types, CallersTrue
<1>4. ASSUME NEW d \in Callers, d # c
      PROVE  SlotsOf(d)' /\ Gathered(d)'
  <2>1. SlotsOf(d) /\ Gathered(d)
    BY <1>1 DEF CallersTrue
  <2>2. /\ step'[d] = step[d] /\ group'[d] = group[d] /\ job'[d] = job[d] /\ slots'[d] = slots[d]
        /\ groups'[d] = groups[d] /\ errors'[d] = errors[d] /\ call' = call
    BY <1>3, <1>4
  <2>3. SlotsOf(d)'
    BY <2>1, <2>2 DEF SlotsOf, Group
  <2>4. Kept(d) => Kept(d)'
    BY <2>2 DEF Kept, Divided, Succeeded, Done, Behind
  <2>5. \A r : Owns(d, r)' <=> Owns(d, r)
    BY <2>2 DEF Owns, Expected, Position, GroupOf
  <2>6. Gathered(d)'
    BY <2>1, <2>2, <2>4, <2>5 DEF Gathered
  <2>7. QED
    BY <2>3, <2>6
<1>5. groups' = [d \in Callers |-> groups'[d]] /\ errors' = [d \in Callers |-> errors'[d]]
  BY <1>1 DEF CallersTrue
<1>6. CallersTrue'
  BY <1>4, <1>5 DEF CallersTrue
<1>7. QED
  BY <1>2, <1>6 DEF RInv

\* A result does not depend on where the caller is.
LEMMA OwnsKept ==
  ASSUME NEW c, NEW r, call' = call
  PROVE  Owns(c, r)' <=> Owns(c, r)
  BY DEF Owns, Expected, Position, GroupOf

\* The first state.
LEMMA InitResults == Init => RInv
<1>1. SUFFICES ASSUME Init
               PROVE  RInv
  OBVIOUS
<1>2. IInv
  BY <1>1, InitInv
<1>3. Held = {}
  <2>1. \A w \in Workers : stack[w] = <<>> /\ Len(stack[w]) = 0
    BY <1>1 DEF Init
  <2>2. QED
    BY <2>1 DEF Held
<1>4. ContentsTrue
  BY <1>3 DEF ContentsTrue
<1>5. groups = [c \in Callers |-> groups[c]] /\ errors = [c \in Callers |-> errors[c]]
  BY <1>1 DEF Init
<1>6. ASSUME NEW c \in Callers
      PROVE  SlotsOf(c) /\ Gathered(c)
  <2>1. step[c] = "call" /\ groups[c] = <<>> /\ errors[c] = <<>> /\ group[c] = 1
    BY <1>1 DEF Init
  <2>2. <<>> \in Seq(Results) /\ <<>> \in Seq(Nat) /\ DOMAIN <<>> = {}
    OBVIOUS
  <2>3. QED
    BY <2>1, <2>2 DEF SlotsOf, Gathered
<1>7. QED
  BY <1>2, <1>4, <1>5, <1>6 DEF RInv, CallersTrue

\* What is known of a caller.
LEMMA CallerParts ==
  ASSUME RInv, NEW c \in Callers
  PROVE  /\ call[c] \in AllCalls /\ step \in [Callers -> Steps] /\ group \in [Callers -> Nat]
         /\ group[c] \in 1..Len(call[c].groups) + 1
         /\ job = [d \in Callers |-> job[d]] /\ slots = [d \in Callers |-> slots[d]]
         /\ groups = [d \in Callers |-> groups[d]] /\ errors = [d \in Callers |-> errors[d]]
         /\ job[c] \in [DOMAIN job[c] -> States] /\ DOMAIN job[c] \subseteq Nat
         /\ SlotsOf(c) /\ Gathered(c)
         /\ step[c] = "join" => group[c] \in DOMAIN call[c].groups
<1>1. Types /\ CallersTrue /\ JobsJoined
  BY DEF RInv, IInv
<1>2. /\ call[c] \in AllCalls /\ step \in [Callers -> Steps] /\ group \in [Callers -> Nat]
      /\ group[c] \in 1..Len(call[c].groups) + 1
      /\ job = [d \in Callers |-> job[d]] /\ slots = [d \in Callers |-> slots[d]]
      /\ job[c] \in [DOMAIN job[c] -> States] /\ DOMAIN job[c] \subseteq Nat
  BY <1>1 DEF Types
<1>3. DOMAIN call[c].groups = 1..Len(call[c].groups) /\ Len(call[c].groups) \in Nat
  BY <1>2, CallParts
<1>4. step[c] = "join" => group[c] \in DOMAIN call[c].groups
  BY <1>1, <1>2, <1>3 DEF JobsJoined
<1>5. QED
  BY <1>1, <1>2, <1>4 DEF CallersTrue

\* A call begins without results; a batch takes over the errors of its preparation.
LEMMA BeginResults ==
  ASSUME RInv, IInv', NEW c \in Callers, BeginCall(c)
  PROVE  RInv'
<1>1. /\ call[c] \in AllCalls /\ step \in [Callers -> Steps] /\ group \in [Callers -> Nat]
      /\ job = [d \in Callers |-> job[d]] /\ slots = [d \in Callers |-> slots[d]]
      /\ groups = [d \in Callers |-> groups[d]] /\ errors = [d \in Callers |-> errors[d]]
      /\ Gathered(c)
  BY CallerParts
<1>2. step[c] = "call" /\ groups[c] = <<>> /\ group[c] = 1
  BY <1>1 DEF BeginCall, Gathered
<1>3. UNCHANGED <<call, pool, group, job, slots, groups>>
  BY DEF BeginCall, output
<1>4. /\ group' = [group EXCEPT ![c] = group[c]] /\ job' = [job EXCEPT ![c] = job[c]]
      /\ slots' = [slots EXCEPT ![c] = slots[c]] /\ groups' = [groups EXCEPT ![c] = groups[c]]
  BY <1>1, <1>3
<1> DEFINE Begins(st, er) ==
      /\ st \in {"refused", "group"}
      /\ step' = [step EXCEPT ![c] = st] /\ errors' = [errors EXCEPT ![c] = er]
      /\ er = IF st = "refused" THEN errors[c] ELSE IF call[c].kind = "decode" THEN call[c].errors ELSE <<>>
<1>5a. \E st, er : Begins(st, er)
  <2>1. CASE Refused(call[c])
    <3>1. step' = [step EXCEPT ![c] = "refused"] /\ errors' = errors
      BY <2>1 DEF BeginCall
    <3>2. Begins("refused", errors[c])
      BY <1>1, <3>1
    <3> HIDE DEF Begins
    <3>3. QED
      BY <3>2
  <2>2. CASE ~Refused(call[c])
    <3>1. Begins("group", IF call[c].kind = "decode" THEN call[c].errors ELSE <<>>)
      BY <2>2 DEF BeginCall
    <3> HIDE DEF Begins
    <3>2. QED
      BY <3>1
  <2>3. QED
    BY <2>1, <2>2
<1>5b. PICK st, er : Begins(st, er)
  BY <1>5a
<1>5. /\ st \in {"refused", "group"}
      /\ step' = [step EXCEPT ![c] = st] /\ errors' = [errors EXCEPT ![c] = er]
      /\ er = IF st = "refused" THEN errors[c] ELSE IF call[c].kind = "decode" THEN call[c].errors ELSE <<>>
  BY <1>5b
<1> HIDE DEF Begins
<1>6. /\ step'[c] = st /\ errors'[c] = er /\ groups'[c] = <<>> /\ group'[c] = 1 /\ call'[c] = call[c]
  BY <1>1, <1>2, <1>3, <1>5
<1>7. SlotsOf(c)'
  BY <1>5, <1>6 DEF SlotsOf
<1>8. /\ call[c].kind \in {"decode", "into"} /\ (call[c].kind = "into" => call[c].errors = <<>>)
      /\ call[c].errors \in Seq(Nat) /\ IsInjective(call[c].errors)
  BY <1>1, CallParts
<1>9. er \in Seq(Nat)
  BY <1>1, <1>5, <1>8 DEF Gathered
<1>10. ASSUME st = "group"
       PROVE  Kept(c)'
  <2>1. er = call[c].errors
    BY <1>5, <1>8, <1>10
  <2>2. FlattenSeq(IndexLists(<<>>)) = <<>>
    <3>1. IndexLists(<<>>) = <<>>
      BY DEF IndexLists
    <3>2. QED
      BY <3>1, FlattenEmpty
  <2>3. Succeeded(c)' = <<>>
    BY <1>6, <2>2 DEF Succeeded
  <2>4. IsInjective(<<>>) /\ ToSet(<<>>) = {} /\ Ascending(<<>>)
    BY DEF IsInjective, ToSet, Ascending
  <2>5. Done(c)' = {}
    BY <1>6 DEF Done, Behind
  <2>6. /\ IsInjective(Succeeded(c)') /\ IsInjective(errors'[c]) /\ ToSet(Succeeded(c)') = {}
        /\ ToSet(errors'[c]) = ToSet(call[c].errors)
    BY <1>6, <1>8, <2>1, <2>3, <2>4
  <2>7. step'[c] # "returned" /\ DOMAIN groups'[c] = {}
    BY <1>6, <1>10
  <2>8. call'[c].kind = "into" => errors'[c] = <<>>
    BY <1>6, <1>8, <2>1
  <2>9. QED
    BY <1>6, <2>4, <2>5, <2>6, <2>7, <2>8 DEF Kept, Divided
<1>11. Gathered(c)'
  <2>1. <<>> \in Seq(Results) /\ DOMAIN <<>> = {}
    OBVIOUS
  <2>2. step'[c] \in {"group", "join", "returned"} => st = "group"
    BY <1>5, <1>6
  <2>3. step'[c] # "call"
    BY <1>5, <1>6
  <2>4. QED
    BY <1>6, <1>9, <1>10, <2>1, <2>2, <2>3 DEF Gathered
<1>12. QED
  BY <1>3, <1>4, <1>5, <1>7, <1>11, CallerResults

-----------------------------------------------------------------------------
(***************************************************************************)
(* A group gets its slots; a call returns.                                 *)
(***************************************************************************)
\* A group gets a slot per image.
LEMMA InstallResults ==
  ASSUME RInv, IInv', NEW c \in Callers, InstallGroup(c)
  PROVE  RInv'
<1>1. /\ call[c] \in AllCalls /\ step \in [Callers -> Steps] /\ group \in [Callers -> Nat]
      /\ group[c] \in 1..Len(call[c].groups) + 1
      /\ job = [d \in Callers |-> job[d]] /\ slots = [d \in Callers |-> slots[d]]
      /\ groups = [d \in Callers |-> groups[d]] /\ errors = [d \in Callers |-> errors[d]]
      /\ Gathered(c)
  BY CallerParts
<1> DEFINE n  == Len(Group(c).indices)
           sl == Slots(c)
           jo == [s \in DOMAIN Slots(c) |-> "queued"]
<1>2. /\ step[c] = "group" /\ group[c] <= Len(call[c].groups) /\ UNCHANGED <<call, group, pool, groups, errors>>
      /\ slots' = [slots EXCEPT ![c] = sl] /\ job' = [job EXCEPT ![c] = jo]
      /\ step' = [step EXCEPT ![c] = "join"]
  BY DEF InstallGroup, results
<1>3. group[c] \in DOMAIN call[c].groups
  <2>1. DOMAIN call[c].groups = 1..Len(call[c].groups) /\ Len(call[c].groups) \in Nat
    BY <1>1, CallParts
  <2>2. QED
    BY <1>1, <1>2, <2>1
<1>4. Group(c).indices \in Seq(Nat)
  BY <1>1, <1>3, CallParts DEF Group
<1>5. n \in Nat /\ DOMAIN sl = 1..n /\ sl \in [1..n -> Decodes] /\ DOMAIN jo = 1..n /\ \A s \in 1..n : jo[s] = "queued"
  BY <1>4 DEF Slots, Decodes
<1> HIDE DEF sl, jo
<1>6. /\ group' = [group EXCEPT ![c] = group[c]]
      /\ groups' = [groups EXCEPT ![c] = groups[c]] /\ errors' = [errors EXCEPT ![c] = errors[c]]
  BY <1>1, <1>2
<1>7. step'[c] = "join" /\ job'[c] = jo /\ slots'[c] = sl /\ Group(c)' = Group(c)
  BY <1>1, <1>2 DEF Group
<1>8. SlotsOf(c)'
  BY <1>5, <1>7 DEF SlotsOf
<1>9. Kept(c)'
  <2>1. Kept(c)
    BY <1>1, <1>2 DEF Gathered
  <2>2. QED
    BY <1>2, <1>7, <2>1 DEF Kept, Divided, Succeeded, Done, Behind
<1>10. Gathered(c)'
  BY <1>1, <1>2, <1>7, <1>9, OwnsKept DEF Gathered
<1>11. QED
  BY <1>2, <1>6, <1>8, <1>10, CallerResults

\* A call returns what it gathered, errors sorted.
LEMMA ReturnResults ==
  ASSUME RInv, IInv', NEW c \in Callers, ReturnCall(c)
  PROVE  RInv'
<1>1. /\ call[c] \in AllCalls /\ step \in [Callers -> Steps] /\ group \in [Callers -> Nat]
      /\ group[c] \in 1..Len(call[c].groups) + 1
      /\ job = [d \in Callers |-> job[d]] /\ slots = [d \in Callers |-> slots[d]]
      /\ groups = [d \in Callers |-> groups[d]] /\ errors = [d \in Callers |-> errors[d]]
      /\ Gathered(c)
  BY CallerParts
<1> DEFINE er == IF call[c].kind = "decode" THEN Ordered(errors[c]) ELSE errors[c]
<1>2. /\ step[c] = "group" /\ group[c] > Len(call[c].groups) /\ UNCHANGED <<call, group, job, slots, pool, groups>>
      /\ errors' = [errors EXCEPT ![c] = er] /\ step' = [step EXCEPT ![c] = "returned"]
  BY DEF ReturnCall, output
<1>3. /\ call[c].kind \in {"decode", "into"} /\ Len(call[c].groups) \in Nat
  BY <1>1, CallParts
<1>4. errors[c] \in Seq(Nat) /\ Kept(c)
  BY <1>1, <1>2 DEF Gathered
<1>5. er \in Seq(Nat) /\ IsInjective(er) /\ Ascending(er) /\ ToSet(er) = ToSet(errors[c])
  <2>1. CASE call[c].kind = "decode"
    <3>1. IsInjective(errors[c])
      BY <1>4 DEF Kept, Divided
    <3>2. QED
      BY <1>4, <2>1, <3>1, OrderedLists
  <2>2. CASE call[c].kind = "into"
    BY <1>4, <2>2 DEF Kept, Divided
  <2>3. QED
    BY <1>3, <2>1, <2>2
<1> HIDE DEF er
<1>6. /\ group' = [group EXCEPT ![c] = group[c]] /\ job' = [job EXCEPT ![c] = job[c]]
      /\ slots' = [slots EXCEPT ![c] = slots[c]] /\ groups' = [groups EXCEPT ![c] = groups[c]]
  BY <1>1, <1>2
<1>7. step'[c] = "returned" /\ errors'[c] = er
  BY <1>1, <1>2
<1>8. SlotsOf(c)'
  BY <1>7 DEF SlotsOf
<1>9. group[c] = Len(call[c].groups) + 1
  <2>1. PICK g, l : g = group[c] /\ l = Len(call[c].groups)
    OBVIOUS
  <2>2. g \in 1..l + 1 /\ g > l /\ l \in Nat
    BY <1>1, <1>2, <1>3, <2>1
  <2>3. QED
    BY <2>1, <2>2
<1>10. call[c].kind = "into" => group[c] # 1
  <2>1. call[c].kind = "into" => Len(call[c].groups) = 1
    BY <1>1, CallParts
  <2>2. PICK g, l : g = group[c] /\ l = Len(call[c].groups)
    OBVIOUS
  <2>3. g = l + 1
    BY <1>9, <2>2
  <2>4. l = 1 => g # 1
    BY <2>3
  <2>5. QED
    BY <2>1, <2>2, <2>4
<1>11. Kept(c)'
  <2>1. /\ IsInjective(Succeeded(c)) /\ ToSet(Succeeded(c)) \cap ToSet(errors[c]) = {}
        /\ ToSet(Succeeded(c)) \cup ToSet(errors[c]) = Done(c) \cup ToSet(call[c].errors)
        /\ \A g \in DOMAIN groups[c] : Ascending(groups[c][g].indices)
    BY <1>4 DEF Kept, Divided
  <2>2. Succeeded(c)' = Succeeded(c) /\ Done(c)' = Done(c) /\ groups'[c] = groups[c] /\ call'[c] = call[c] /\ group'[c] = group[c]
    BY <1>2 DEF Succeeded, Done, Behind
  <2>3. QED
    BY <1>5, <1>7, <1>9, <1>10, <2>1, <2>2 DEF Kept, Divided
<1>12. Gathered(c)'
  BY <1>1, <1>2, <1>5, <1>7, <1>11, OwnsKept DEF Gathered
<1>13. QED
  BY <1>2, <1>6, <1>8, <1>12, CallerResults

-----------------------------------------------------------------------------
(***************************************************************************)
(* The slots of a group whose images all came to an end.                   *)
(***************************************************************************)
\* A group whose images all came to an end, succeeded or failed.
LEMMA Outcomes ==
  ASSUME RInv, NEW c \in Callers, step[c] = "join", Joined(c)
  PROVE  /\ Filled(c, Len(Group(c).indices), Decodes)
         /\ Decoded(c) \in Seq(Nat) /\ Ascending(Decoded(c)) /\ IsInjective(Decoded(c))
         /\ IndicesOf(c, "failed") \in Seq(Nat) /\ Ascending(IndicesOf(c, "failed"))
         /\ IsInjective(IndicesOf(c, "failed"))
         /\ ToSet(Decoded(c)) \cap ToSet(IndicesOf(c, "failed")) = {}
         /\ ToSet(Decoded(c)) \cup ToSet(IndicesOf(c, "failed")) = ToSet(Group(c).indices)
<1>1. /\ call[c] \in AllCalls /\ SlotsOf(c) /\ group[c] \in DOMAIN call[c].groups
      /\ job[c] \in [DOMAIN job[c] -> States]
  BY CallerParts
<1>2. PICK ind, n : ind = Group(c).indices /\ n = Len(ind)
  OBVIOUS
<1>3. ind \in Seq(Nat) /\ Ascending(ind) /\ IsInjective(ind) /\ n \in Nat /\ DOMAIN ind = 1..n
  <2>1. ind \in Seq(Nat) /\ Ascending(ind) /\ IsInjective(ind)
    BY <1>1, <1>2, CallParts DEF Group
  <2>2. QED
    BY <1>2, <2>1
<1>4. DOMAIN job[c] = 1..n /\ slots[c] \in [1..n -> Decodes]
  BY <1>1, <1>2 DEF SlotsOf
<1>5. Filled(c, n, Decodes)
  BY <1>1, <1>2, <1>3, <1>4 DEF Filled
<1>6. PICK D, F : D = {q \in 1..n : job[c][q] = "decoded"} /\ F = {q \in 1..n : job[c][q] = "failed"}
  OBVIOUS
<1>7. D \cap F = {} /\ D \cup F = 1..n
  BY <1>4, <1>6 DEF Joined
<1>8. /\ Decoded(c) \in Seq(Nat) /\ Ascending(Decoded(c)) /\ ToSet(Decoded(c)) = {ind[s] : s \in D}
  BY <1>2, <1>5, <1>6, IndicesAt DEF Decoded
<1>9. /\ IndicesOf(c, "failed") \in Seq(Nat) /\ Ascending(IndicesOf(c, "failed"))
      /\ ToSet(IndicesOf(c, "failed")) = {ind[s] : s \in F}
  BY <1>2, <1>5, <1>6, IndicesAt
<1>10. IsInjective(Decoded(c)) /\ IsInjective(IndicesOf(c, "failed"))
  BY <1>8, <1>9, AscendingInjective
<1>11. \A i, j \in 1..n : ind[i] = ind[j] => i = j
  BY <1>3 DEF IsInjective
<1>12. ToSet(ind) = {ind[s] : s \in 1..n}
  BY <1>3 DEF ToSet
<1>13. {ind[s] : s \in D} \cap {ind[s] : s \in F} = {}
  <2>1. SUFFICES ASSUME NEW i \in D, NEW j \in F, ind[i] = ind[j]
                 PROVE  FALSE
    OBVIOUS
  <2>2. i \in 1..n /\ j \in 1..n
    BY <1>6
  <2>3. i = j
    BY <1>11, <2>1, <2>2
  <2>4. QED
    BY <1>7, <2>1, <2>3
<1>14. {ind[s] : s \in D} \cup {ind[s] : s \in F} = ToSet(ind)
  BY <1>7, <1>12
<1>15. QED
  BY <1>2, <1>5, <1>8, <1>9, <1>10, <1>13, <1>14

\* The result of a group has the samples of the images that succeeded.
LEMMA JoinOwns ==
  ASSUME RInv, NEW c \in Callers, step[c] = "join", Joined(c)
  PROVE  /\ [indices |-> Decoded(c), samples |-> Samples(c)] \in Results
         /\ Owns(c, [indices |-> Decoded(c), samples |-> Samples(c)])
<1>1. /\ call[c] \in AllCalls /\ SlotsOf(c) /\ group[c] \in DOMAIN call[c].groups
  BY CallerParts
<1>2. PICK ind, n, g, de, sa : ind = Group(c).indices /\ n = Len(ind) /\ g = group[c] /\ de = Decoded(c) /\ sa = Samples(c)
  OBVIOUS
<1>3. Filled(c, n, Decodes) /\ de \in Seq(Nat)
  BY <1>2, Outcomes
<1>4. PICK t : At(c, "decoded", t)
  BY <1>3, IndicesAt
<1>5. /\ n \in Nat /\ slots[c] \in [1..n -> Decodes] /\ DOMAIN job[c] = 1..n /\ DOMAIN ind = 1..n
  BY <1>2, <1>3 DEF Filled
<1>6. PICK m : m = Len(t)
  OBVIOUS
<1>7. m \in Nat /\ DOMAIN t = 1..m /\ \A k \in 1..m : t[k] \in 1..n /\ job[c][t[k]] = "decoded"
  <2>1. m \in Nat /\ DOMAIN t = 1..m
    BY <1>4, <1>6 DEF At
  <2>2. \A k \in DOMAIN t : t[k] \in {s \in DOMAIN job[c] : job[c][s] = "decoded"}
    BY <1>4 DEF At, Lists
  <2>3. QED
    BY <1>5, <2>1, <2>2
<1>8. Len(de) = m /\ DOMAIN de = 1..m /\ \A k \in 1..m : de[k] = ind[t[k]]
  <2>1. de = [k \in 1..m |-> ind[t[k]]]
    BY <1>2, <1>4, <1>7 DEF At, Decoded
  <2>2. QED
    BY <1>3, <1>7, <2>1
<1>9. \A k \in 1..m : slots[c][t[k]] = Image([caller |-> c, group |-> g, slot |-> t[k]], Group(c).layout)
  BY <1>1, <1>2, <1>5, <1>7 DEF SlotsOf
<1>10. \A k \in 1..m : Position(c, g, de[k]) = t[k] /\ slots[c][t[k]] = Expected(c, de[k])
  <2>1. SUFFICES ASSUME NEW k \in 1..m
                 PROVE  Position(c, g, de[k]) = t[k] /\ slots[c][t[k]] = Expected(c, de[k])
    OBVIOUS
  <2>2. PICK s, i : s = t[k] /\ i = de[k]
    OBVIOUS
  <2>3. s \in DOMAIN call[c].groups[g].indices /\ i = call[c].groups[g].indices[s] /\ g \in DOMAIN call[c].groups
    BY <1>1, <1>2, <1>5, <1>7, <1>8, <2>2 DEF Group
  <2>4. /\ Position(c, g, i) = s
        /\ Expected(c, i) = Image([caller |-> c, group |-> g, slot |-> s], call[c].groups[g].layout)
    BY <1>1, <2>3, ExpectedAt
  <2>5. QED
    BY <1>2, <1>9, <2>2, <2>4 DEF Group
<1>11. CASE call[c].kind = "decode"
  <2>1. /\ sa \in Seq(Decodes) /\ Len(sa) = m
        /\ \A k \in 1..m : sa[k] = slots[c][t[k]]
    BY <1>2, <1>3, <1>4, <1>6, <1>11, Compacts DEF Samples
  <2>2. QED
    BY <1>2, <1>3, <1>8, <1>10, <1>11, <2>1 DEF Results, Owns
<1>12. CASE call[c].kind = "into"
  <2>1. g = 1
    <3>1. DOMAIN call[c].groups = 1..1
      BY <1>1, <1>12, CallParts
    <3>2. QED
      BY <1>1, <1>2, <3>1
  <2>2. sa = slots[c] /\ sa \in Seq(Decodes)
    BY <1>2, <1>5, <1>12 DEF Samples
  <2>3. QED
    BY <1>2, <1>3, <1>8, <1>10, <1>12, <2>1, <2>2 DEF Results, Owns
<1>13. QED
  BY <1>1, <1>11, <1>12, CallParts

\* The inputs of a group are none of the call's other inputs.
LEMMA GroupApart ==
  ASSUME NEW c, call[c] \in AllCalls, NEW g \in DOMAIN call[c].groups
  PROVE  /\ (Behind(c, g) \cup ToSet(call[c].errors)) \cap ToSet(call[c].groups[g].indices) = {}
         /\ Behind(c, g + 1) = Behind(c, g) \cup ToSet(call[c].groups[g].indices)
<1>1. PICK q, n : q = call[c].groups /\ n = Len(q)
  OBVIOUS
<1>2. DOMAIN q = 1..n /\ n \in Nat /\ g \in 1..n
  BY <1>1, CallParts
<1>3. \A h \in 1..n : h # g => ToSet(q[h].indices) \cap ToSet(q[g].indices) = {}
  BY <1>1, <1>2, CallParts
<1>4. ToSet(q[g].indices) \cap ToSet(call[c].errors) = {}
  BY <1>1, <1>2, CallParts
<1>5. 1..g = (1..g - 1) \cup {g} /\ \A h \in 1..g - 1 : h \in 1..n /\ h # g
  BY <1>2
<1> DEFINE Of(h) == ToSet(call[c].groups[h].indices)
           U == UNION {Of(h) : h \in 1..g - 1}
           V == UNION {Of(h) : h \in 1..g}
<1>6. (\A h \in 1..g - 1 : Of(h) \cap Of(g) = {}) /\ Of(g) \cap ToSet(call[c].errors) = {}
  BY <1>1, <1>3, <1>4, <1>5
<1> HIDE DEF Of
<1>7. U \cap Of(g) = {}
  <2>1. SUFFICES ASSUME NEW x \in U, x \in Of(g)
                 PROVE  FALSE
    OBVIOUS
  <2>2. PICK h \in 1..g - 1 : x \in Of(h)
    OBVIOUS
  <2>3. QED
    BY <1>6, <2>1, <2>2
<1>8. V = U \cup Of(g)
  <2>1. ASSUME NEW x \in V
        PROVE  x \in U \cup Of(g)
    <3>1. PICK h \in 1..g : x \in Of(h)
      BY <2>1
    <3>2. QED
      BY <1>5, <3>1
  <2>2. ASSUME NEW x \in U
        PROVE  x \in V
    <3>1. PICK h \in 1..g - 1 : x \in Of(h)
      BY <2>2
    <3>2. QED
      BY <1>5, <3>1
  <2>3. Of(g) \subseteq V
    BY <1>5
  <2>4. QED
    BY <2>1, <2>2, <2>3
<1>9. g + 1 - 1 = g
  BY <1>2
<1>10. U = Behind(c, g) /\ V = Behind(c, g + 1)
  <2>1. U = Behind(c, g)
    BY DEF Behind, Of
  <2>2. V = UNION {ToSet(call[c].groups[h].indices) : h \in 1..g}
    BY DEF Of
  <2>3. Behind(c, g + 1) = UNION {ToSet(call[c].groups[h].indices) : h \in 1..g}
    <3>1. 1..(g + 1) - 1 = 1..g
      BY <1>2, <1>9
    <3>2. QED
      BY <3>1, Zenon DEF Behind
  <2>4. QED
    BY <2>1, <2>2, <2>3
<1> HIDE DEF U, V
<1>11. (U \cup ToSet(call[c].errors)) \cap Of(g) = {}
  BY <1>6, <1>7
<1>12. QED
  BY <1>8, <1>10, <1>11 DEF Of

-----------------------------------------------------------------------------
(***************************************************************************)
(* A group is compacted and joined to those before it.                     *)
(***************************************************************************)
\* The result and the errors of a group are added to those of the groups before it.
LEMMA JoinKept ==
  ASSUME RInv, NEW c \in Callers, JoinGroup(c)
  PROVE  Kept(c)' /\ groups'[c] \in Seq(Results) /\ errors'[c] \in Seq(Nat)
<1>1. /\ call[c] \in AllCalls /\ step \in [Callers -> Steps] /\ group \in [Callers -> Nat]
      /\ groups = [d \in Callers |-> groups[d]] /\ errors = [d \in Callers |-> errors[d]]
      /\ Gathered(c) /\ group[c] \in DOMAIN call[c].groups /\ step[c] = "join" /\ Joined(c)
  BY CallerParts DEF JoinGroup
<1>2. PICK ind, de, fa, gs, er, r :
        /\ ind = Group(c).indices /\ de = Decoded(c) /\ fa = IndicesOf(c, "failed")
        /\ gs = groups[c] /\ er = errors[c] /\ r = [indices |-> de, samples |-> Samples(c)]
  OBVIOUS
<1>3. /\ de \in Seq(Nat) /\ Ascending(de) /\ IsInjective(de)
      /\ fa \in Seq(Nat) /\ Ascending(fa) /\ IsInjective(fa)
      /\ ToSet(de) \cap ToSet(fa) = {} /\ ToSet(de) \cup ToSet(fa) = ToSet(ind)
  BY <1>1, <1>2, Outcomes
<1>4. r \in Results
  BY <1>1, <1>2, JoinOwns
<1>5. gs \in Seq(Results) /\ er \in Seq(Nat) /\ Kept(c)
  BY <1>1, <1>2 DEF Gathered
<1>6. /\ groups'[c] = IF call[c].kind = "decode" /\ de = <<>> THEN gs ELSE Append(gs, r)
      /\ errors'[c] = er \o fa /\ group'[c] = group[c] + 1 /\ step'[c] = "group" /\ call' = call
  BY <1>1, <1>2 DEF JoinGroup
<1>7. PICK su, B : su = Succeeded(c) /\ B = Done(c) \cup ToSet(call[c].errors)
  OBVIOUS
<1>8. /\ IsInjective(su) /\ IsInjective(er) /\ ToSet(su) \cap ToSet(er) = {} /\ ToSet(su) \cup ToSet(er) = B
      /\ \A g \in DOMAIN gs : Ascending(gs[g].indices)
      /\ call[c].kind = "into" => Ascending(er) /\ (group[c] = 1 => er = <<>>)
  BY <1>2, <1>5, <1>7 DEF Kept, Divided
<1>9. /\ su \in Seq(Nat) /\ FlattenSeq(IndexLists(Append(gs, r))) = su \o de
  BY <1>2, <1>4, <1>5, <1>7, MoreIndices DEF Succeeded
<1>10. B \cap ToSet(ind) = {} /\ Done(c)' \cup ToSet(call[c].errors) = B \cup ToSet(ind)
  <2>1. PICK g : g = group[c]
    OBVIOUS
  <2>2. g \in DOMAIN call[c].groups /\ g \in Nat /\ g + 1 - 1 = g /\ ind = call[c].groups[g].indices
    BY <1>1, <1>2, <2>1 DEF Group
  <2>3. Done(c) = Behind(c, g)
    BY <2>1 DEF Done
  <2>4. Done(c)' = Behind(c, g + 1)
    BY <1>6, <2>1 DEF Done, Behind
  <2>5. /\ (Behind(c, g) \cup ToSet(call[c].errors)) \cap ToSet(ind) = {}
        /\ Behind(c, g + 1) = Behind(c, g) \cup ToSet(ind)
    BY <1>1, <2>2, GroupApart
  <2>6. QED
    BY <1>7, <2>3, <2>4, <2>5
<1>11. /\ su \o de \in Seq(Nat) /\ er \o fa \in Seq(Nat)
       /\ IsInjective(su \o de) /\ IsInjective(er \o fa)
       /\ ToSet(su \o de) \cap ToSet(er \o fa) = {}
       /\ ToSet(su \o de) \cup ToSet(er \o fa) = B \cup ToSet(ind)
  <2>1. PICK I : I = ToSet(ind)
    OBVIOUS
  <2>2. Divided(su, er, B) /\ Divided(de, fa, I) /\ B \cap I = {}
    BY <1>3, <1>8, <1>10, <2>1 DEF Divided
  <2>3. su \o de \in Seq(Nat) /\ er \o fa \in Seq(Nat) /\ Divided(su \o de, er \o fa, B \cup I)
    BY <1>3, <1>5, <1>9, <2>2, JoinSets
  <2>4. QED
    BY <2>1, <2>3 DEF Divided
<1>12. /\ groups'[c] \in Seq(Results) /\ Succeeded(c)' = su \o de
       /\ \A g \in DOMAIN groups'[c] : Ascending(groups'[c][g].indices)
  <2>1. CASE call[c].kind = "decode" /\ de = <<>>
    <3>1. su \o de = su
      BY <1>9, <2>1
    <3>2. QED
      BY <1>2, <1>5, <1>6, <1>7, <1>8, <2>1, <3>1 DEF Succeeded
  <2>2. CASE ~(call[c].kind = "decode" /\ de = <<>>)
    <3>1. PICK R, n : R = Results /\ n = Len(gs)
      OBVIOUS
    <3>2. /\ Append(gs, r) \in Seq(R) /\ DOMAIN Append(gs, r) = 1..n + 1 /\ n \in Nat /\ DOMAIN gs = 1..n
          /\ Append(gs, r)[n + 1] = r /\ \A g \in 1..n : Append(gs, r)[g] = gs[g]
      BY <1>4, <1>5, <3>1
    <3>3. r.indices = de
      BY <1>2
    <3>4. \A g \in 1..n + 1 : g \in 1..n \/ g = n + 1
      BY <3>2
    <3>5. \A g \in 1..n + 1 : Ascending(Append(gs, r)[g].indices)
      BY <1>3, <1>8, <3>2, <3>3, <3>4
    <3>6. QED
      BY <1>6, <1>9, <2>2, <3>1, <3>2, <3>5 DEF Succeeded
  <2>3. QED
    BY <2>1, <2>2
<1>13. call[c].kind = "into" => Ascending(errors'[c]) /\ group'[c] # 1
  <2>1. SUFFICES ASSUME call[c].kind = "into"
                 PROVE  Ascending(errors'[c]) /\ group'[c] # 1
    OBVIOUS
  <2>2. group[c] = 1
    <3>1. DOMAIN call[c].groups = 1..1
      BY <1>1, <2>1, CallParts
    <3>2. QED
      BY <1>1, <3>1
  <2>3. er \o fa = fa
    <3>1. er = <<>>
      BY <1>8, <2>1, <2>2
    <3>2. QED
      BY <1>3, <3>1
  <2>4. QED
    BY <1>3, <1>6, <2>2, <2>3
<1>14. Kept(c)'
  BY <1>6, <1>10, <1>11, <1>12, <1>13 DEF Kept, Divided
<1>15. QED
  BY <1>6, <1>11, <1>12, <1>14

\* A group's result joins those of the call.
LEMMA JoinResults ==
  ASSUME RInv, IInv', NEW c \in Callers, JoinGroup(c)
  PROVE  RInv'
<1>1. /\ call[c] \in AllCalls /\ step \in [Callers -> Steps] /\ group \in [Callers -> Nat]
      /\ job = [d \in Callers |-> job[d]] /\ slots = [d \in Callers |-> slots[d]]
      /\ groups = [d \in Callers |-> groups[d]] /\ errors = [d \in Callers |-> errors[d]]
      /\ Gathered(c) /\ step[c] = "join" /\ Joined(c)
  BY CallerParts DEF JoinGroup
<1> DEFINE r  == [indices |-> Decoded(c), samples |-> Samples(c)]
           gs == IF call[c].kind = "decode" /\ Decoded(c) = <<>> THEN groups[c] ELSE Append(groups[c], r)
           er == errors[c] \o IndicesOf(c, "failed")
<1>2. r \in Results /\ Owns(c, r)
  BY <1>1, JoinOwns
<1> HIDE DEF r
<1>3. /\ UNCHANGED <<call, job, slots, pool>>
      /\ groups' = [groups EXCEPT ![c] = gs] /\ errors' = [errors EXCEPT ![c] = er]
      /\ group' = [group EXCEPT ![c] = group[c] + 1] /\ step' = [step EXCEPT ![c] = "group"]
  BY DEF JoinGroup, output, r
<1>4. /\ job' = [job EXCEPT ![c] = job[c]] /\ slots' = [slots EXCEPT ![c] = slots[c]]
  BY <1>1, <1>3
<1>5. step'[c] = "group" /\ groups'[c] = gs
  BY <1>1, <1>3
<1>6. SlotsOf(c)'
  BY <1>5 DEF SlotsOf
<1>7. Kept(c)' /\ groups'[c] \in Seq(Results) /\ errors'[c] \in Seq(Nat)
  BY JoinKept
<1>8. \A g \in DOMAIN gs : Owns(c, gs[g])
  <2>1. PICK q, n, R : q = groups[c] /\ n = Len(q) /\ R = Results
    OBVIOUS
  <2>2. q \in Seq(R) /\ r \in R /\ \A g \in DOMAIN q : Owns(c, q[g])
    BY <1>1, <1>2, <2>1 DEF Gathered
  <2>3. /\ DOMAIN Append(q, r) = 1..n + 1 /\ n \in Nat /\ DOMAIN q = 1..n
        /\ Append(q, r)[n + 1] = r /\ \A g \in 1..n : Append(q, r)[g] = q[g]
    BY <2>1, <2>2
  <2>4. \A g \in 1..n + 1 : g \in 1..n \/ g = n + 1
    BY <2>3
  <2>5. \A g \in DOMAIN Append(q, r) : Owns(c, Append(q, r)[g])
    BY <1>2, <2>2, <2>3, <2>4
  <2>6. QED
    BY <2>1, <2>2, <2>5
<1> HIDE DEF gs, er
<1>9. Gathered(c)'
  BY <1>3, <1>5, <1>7, <1>8, OwnsKept DEF Gathered
<1>10. QED
  BY <1>3, <1>4, <1>6, <1>9, CallerResults

-----------------------------------------------------------------------------
(***************************************************************************)
(* Workers decode into the slots of the images, and never into another's.  *)
(***************************************************************************)
\* A frame of a stack is of a job of some caller.
LEMMA FrameParts ==
  ASSUME Types, NEW p \in Held
  PROVE  /\ FrameAt(p) \in Frames /\ FrameAt(p).job \in Jobs /\ FrameAt(p).job.caller \in Callers
         /\ FrameAt(p).workspace \in Lent
<1>1. p[1] \in Workers /\ p[2] \in 1..Len(stack[p[1]])
  BY DEF Held
<1>2. stack \in [Workers -> Seq(Frames)] /\ stack[p[1]] \in Seq(Frames)
  BY <1>1 DEF Types
<1>3. FrameAt(p) \in Frames
  BY <1>1, <1>2, ElementOfSeq, Zenon DEF FrameAt
<1>4. FrameAt(p).workspace \in Lent
  BY <1>1, <1>2, LentParts DEF Lent, FrameAt
<1>5. QED
  BY <1>3, <1>4 DEF Frames, Jobs

\* A worker's step leaves the results that callers have gathered.
LEMMA WorkerResults ==
  ASSUME RInv, IInv', UNCHANGED <<call, step, group, groups, errors>>,
         ContentsTrue', \A c \in Callers : SlotsOf(c)'
  PROVE  RInv'
<1>1. CallersTrue
  BY DEF RInv
<1>2. ASSUME NEW c \in Callers
      PROVE  Gathered(c)'
  <2>1. Gathered(c)
    BY <1>1 DEF CallersTrue
  <2>2. Kept(c) => Kept(c)'
    BY DEF Kept, Succeeded, Done, Behind
  <2>3. QED
    BY <2>1, <2>2, OwnsKept DEF Gathered
<1>3. QED
  BY <1>1, <1>2 DEF RInv, CallersTrue

\* The frame that a worker pushes.
LEMMA StartFrames ==
  ASSUME Types, NEW w \in Workers, NEW one \in Frames, stack' = [stack EXCEPT ![w] = Append(stack[w], one)]
  PROVE  \E new : /\ Held' = Held \cup {new} /\ new \notin Held
                  /\ FrameAt(new)' = one /\ \A p \in Held : FrameAt(p)' = FrameAt(p)
<1>0. PICK new : new = <<w, Len(stack[w]) + 1>>
  OBVIOUS
<1>6. stack \in [Workers -> Seq(Frames)] /\ Len(stack[w]) \in Nat
  BY DEF Types
<1>7. /\ \A v \in Workers : v # w => stack'[v] = stack[v]
      /\ Len(stack'[w]) = Len(stack[w]) + 1 /\ stack'[w][Len(stack[w]) + 1] = one
      /\ \A k \in 1..Len(stack[w]) : stack'[w][k] = stack[w][k]
  <2>1. PICK q, F : q = stack[w] /\ F = Frames
    OBVIOUS
  <2>2. /\ Append(q, one) \in Seq(F) /\ Len(Append(q, one)) = Len(q) + 1
        /\ Append(q, one)[Len(q) + 1] = one
        /\ \A k \in 1..Len(q) : Append(q, one)[k] = q[k]
    BY <1>6, <2>1, Push
  <2>3. QED
    BY <1>6, <2>1, <2>2
<1>8. \A p : p \in Held' <=> p \in Held \/ p = new
  <2>1. \A v \in Workers : \A k \in Nat : k \in 1..Len(stack'[v]) <=> k \in 1..Len(stack[v]) \/ <<v, k>> = new
    BY <1>0, <1>6, <1>7
  <2>2. new \in Workers \X Nat
    BY <1>0, <1>6
  <2>3. QED
    BY <2>1, <2>2 DEF Held
<1>9. new \notin Held
  BY <1>0, <1>6 DEF Held
<1>10. \A p \in Held : FrameAt(p)' = FrameAt(p)
  BY <1>7 DEF Held, FrameAt
<1>11. FrameAt(new)' = one
  BY <1>0, <1>7 DEF FrameAt
<1>12. QED
  BY <1>8, <1>9, <1>10, <1>11

\* The frame that a worker pops.
LEMMA ReleaseFrames ==
  ASSUME Types, NEW w \in Workers, stack[w] # <<>>, stack' = [stack EXCEPT ![w] = Front(stack[w])]
  PROVE  \E old \in Held : /\ FrameAt(old) = Top(w) /\ Held' = Held \ {old}
                           /\ \A p \in Held' : FrameAt(p)' = FrameAt(p)
<1>0. PICK N, old : N = Len(stack[w]) /\ old = <<w, N>>
  OBVIOUS
<1>2. stack \in [Workers -> Seq(Frames)]
  BY DEF Types
<1>3. /\ Front(stack[w]) \in Seq(Frames) /\ Len(Front(stack[w])) = N - 1
      /\ \A k \in 1..N - 1 : Front(stack[w])[k] = stack[w][k]
      /\ N \in Nat \ {0} /\ Top(w) = stack[w][N]
  <2>1. PICK q, F : q = stack[w] /\ F = Frames
    OBVIOUS
  <2>2. /\ Front(q) \in Seq(F) /\ Len(Front(q)) = Len(q) - 1
        /\ \A k \in 1..Len(q) - 1 : Front(q)[k] = q[k]
        /\ Last(q) = q[Len(q)] /\ Len(q) \in Nat \ {0} /\ Last(q) \in F
    BY <1>2, <2>1, Pop
  <2>3. QED
    BY <1>0, <2>1, <2>2 DEF Top
<1>4. old \in Held /\ FrameAt(old) = Top(w)
  <2>1. N \in 1..Len(stack[w]) /\ old \in Workers \X Nat
    BY <1>0, <1>3
  <2>2. QED
    BY <1>0, <1>3, <2>1 DEF Held, FrameAt
<1>5. /\ \A u \in Workers : u # w => stack'[u] = stack[u]
      /\ Len(stack'[w]) = N - 1 /\ \A k \in 1..N - 1 : stack'[w][k] = stack[w][k]
  BY <1>2, <1>3
<1>6. Held' = Held \ {old}
  <2>1. SUFFICES ASSUME NEW u \in Workers, NEW k \in Nat
                 PROVE  k \in 1..Len(stack'[u]) <=> k \in 1..Len(stack[u]) /\ <<u, k>> # old
    BY DEF Held
  <2>2. CASE u = w
    BY <1>0, <1>3, <1>5, <2>2
  <2>3. CASE u # w
    BY <1>0, <1>5, <2>3
  <2>4. QED
    BY <2>2, <2>3
<1>7. \A p \in Held' : FrameAt(p)' = FrameAt(p)
  BY <1>5 DEF Held, FrameAt
<1>8. QED
  BY <1>4, <1>6, <1>7

\* A job that starts has its workspace for itself.
LEMMA StartResults ==
  ASSUME RInv, IInv', NEW w \in Workers, NEW c \in Callers, NEW s \in DOMAIN job[c], StartJob(w, c, s)
  PROVE  RInv'
<1>1. IInv /\ Types /\ Homed /\ ContentsTrue /\ CallersTrue /\ FramesApart' /\ Types'
  BY DEF RInv, IInv
<1> DEFINE mine == [caller |-> c, group |-> group[c], slot |-> s]
           one == [job |-> mine, workspace |-> Popped(w)]
<1>2. /\ step[c] = "join" /\ job[c][s] = "queued"
      /\ stack' = [stack EXCEPT ![w] = Append(stack[w], one)]
      /\ content' = [k \in Created \cup {Popped(w)} |-> IF k = Popped(w) THEN mine ELSE content[k]]
      /\ job' = [job EXCEPT ![c] = [job[c] EXCEPT ![s] = "running"]]
      /\ UNCHANGED <<call, step, group, slots, groups, errors>>
  BY DEF StartJob, calls, results
<1>3. mine \in Jobs /\ Popped(w) \in Nat
  <2>1. mine \in Jobs
    BY <1>1 DEF Types, Jobs
  <2>2. Popped(w) \in Created'
    BY <1>2 DEF Created
  <2>3. QED
    BY <1>1, <2>1, <2>2 DEF Types
<1> HIDE DEF mine
<1>4. one \in Frames /\ one.job = mine /\ one.workspace = Popped(w)
  BY <1>3 DEF Frames
<1> HIDE DEF one
<1>5. PICK new : /\ Held' = Held \cup {new} /\ new \notin Held
                 /\ FrameAt(new)' = one /\ \A p \in Held : FrameAt(p)' = FrameAt(p)
  BY <1>1, <1>2, <1>4, StartFrames
<1>6. content'[Popped(w)] = mine /\ \A k \in Created : k # Popped(w) => content'[k] = content[k]
  BY <1>2
<1>7. ASSUME NEW p \in Held'
      PROVE  content'[FrameAt(p)'.workspace] = FrameAt(p)'.job
  <2>1. CASE p = new
    BY <1>4, <1>5, <1>6, <2>1
  <2>2. CASE p # new
    <3>1. p \in Held /\ FrameAt(p)' = FrameAt(p)
      BY <1>5, <1>7, <2>2
    <3>2. new \in Held' /\ FrameAt(p)'.workspace # FrameAt(new)'.workspace
      BY <1>1, <1>5, <1>7, <2>2 DEF FramesApart
    <3>3. FrameAt(p).workspace # Popped(w)
      BY <1>4, <1>5, <3>1, <3>2
    <3>4. FrameAt(p).workspace \in Created
      BY <1>1, <3>1, FrameParts DEF Homed
    <3>5. content[FrameAt(p).workspace] = FrameAt(p).job
      BY <1>1, <3>1 DEF ContentsTrue
    <3>6. QED
      BY <1>6, <3>1, <3>3, <3>4, <3>5
  <2>3. QED
    BY <2>1, <2>2
<1>8. ContentsTrue'
  BY <1>7 DEF ContentsTrue
<1>9. ASSUME NEW d \in Callers
      PROVE  SlotsOf(d)'
  <2>1. SlotsOf(d)
    BY <1>1 DEF CallersTrue
  <2>2. "running" \in States
    BY DEF States
  <2>3. /\ DOMAIN job'[d] = DOMAIN job[d]
        /\ \A t \in DOMAIN job[d] : job'[d][t] = IF d = c /\ t = s THEN "running" ELSE job[d][t]
    BY <1>1, <1>2, <2>2, JobChange
  <2>4. QED
    BY <1>2, <2>1, <2>3 DEF SlotsOf, Group
<1>10. QED
  BY <1>2, <1>8, <1>9, WorkerResults

\* A job that ends leaves its image in its slot, and the other jobs their workspaces.
LEMMA ReleaseResults ==
  ASSUME RInv, IInv', NEW w \in Workers, FinishJob(w) \/ FailJob(w)
  PROVE  RInv'
<1>1. IInv /\ Types /\ Homed /\ FramesApart /\ ContentsTrue /\ CallersTrue
  BY DEF RInv, IInv
<1>2. /\ stack[w] # <<>> /\ stack' = [stack EXCEPT ![w] = Front(stack[w])]
      /\ content' = IF Room THEN content ELSE [k \in Created \ {Top(w).workspace} |-> content[k]]
      /\ UNCHANGED <<call, step, group, groups, errors>>
  BY DEF FinishJob, FailJob, Release, calls, results
<1>3. PICK old \in Held : /\ FrameAt(old) = Top(w) /\ Held' = Held \ {old}
                          /\ \A p \in Held' : FrameAt(p)' = FrameAt(p)
  BY <1>1, <1>2, ReleaseFrames
<1>4. PICK f, x, c, s : f = Top(w).job /\ x = Top(w).workspace /\ c = f.caller /\ s = f.slot
  OBVIOUS
<1>5. /\ f \in Jobs /\ c \in Callers /\ f.group = group[c] /\ step[c] = "join" /\ s \in DOMAIN job[c]
      /\ content[x] = f
  <2>1. f \in Jobs /\ c \in Callers
    BY <1>1, <1>3, <1>4, FrameParts
  <2>2. f.group = group[c] /\ step[c] = "join" /\ s \in DOMAIN job[c]
    BY <1>1, <1>3, <1>4 DEF FramesApart
  <2>3. content[x] = f
    BY <1>1, <1>3, <1>4 DEF ContentsTrue
  <2>4. QED
    BY <2>1, <2>2, <2>3
<1>6. f = [caller |-> c, group |-> group[c], slot |-> s]
  BY <1>4, <1>5 DEF Jobs
<1>7. ASSUME NEW p \in Held'
      PROVE  content'[FrameAt(p)'.workspace] = FrameAt(p)'.job
  <2>1. p \in Held /\ p # old /\ FrameAt(p)' = FrameAt(p)
    BY <1>3, <1>7
  <2>2. FrameAt(p).workspace # x
    BY <1>1, <1>3, <1>4, <2>1 DEF FramesApart
  <2>3. FrameAt(p).workspace \in Created
    BY <1>1, <2>1, FrameParts DEF Homed
  <2>4. content[FrameAt(p).workspace] = FrameAt(p).job
    BY <1>1, <2>1 DEF ContentsTrue
  <2>5. content'[FrameAt(p).workspace] = content[FrameAt(p).workspace]
    BY <1>2, <1>4, <2>2, <2>3
  <2>6. QED
    BY <2>1, <2>4, <2>5
<1>8. ContentsTrue'
  BY <1>7 DEF ContentsTrue
<1> DEFINE Ends(st, v) == /\ <<st, v>> \in {<<"decoded", Image(f, Group(c).layout)>>, <<"failed", Partial>>}
                          /\ job' = [job EXCEPT ![c] = [job[c] EXCEPT ![s] = st]]
                          /\ slots' = [slots EXCEPT ![c] = [slots[c] EXCEPT ![s] = v]]
<1>9. \E st, v : Ends(st, v)
  <2>1. CASE FinishJob(w)
    <3>1. Layout(f) = Group(c).layout
      BY <1>4, <1>5 DEF Layout, Group
    <3>2. Ends("decoded", Image(f, Group(c).layout))
      BY <1>4, <1>5, <2>1, <3>1 DEF FinishJob
    <3> HIDE DEF Ends
    <3>3. QED
      BY <3>2
  <2>2. CASE FailJob(w)
    <3>1. Ends("failed", Partial)
      BY <1>4, <2>2 DEF FailJob
    <3> HIDE DEF Ends
    <3>2. QED
      BY <3>1
  <2>3. QED
    BY <2>1, <2>2
<1>10. PICK st, v : Ends(st, v)
  BY <1>9
<1>11. /\ <<st, v>> \in {<<"decoded", Image(f, Group(c).layout)>>, <<"failed", Partial>>}
       /\ job' = [job EXCEPT ![c] = [job[c] EXCEPT ![s] = st]]
       /\ slots' = [slots EXCEPT ![c] = [slots[c] EXCEPT ![s] = v]]
  BY <1>10
<1> HIDE DEF Ends
<1>12. ASSUME NEW d \in Callers
       PROVE  SlotsOf(d)'
  <2>1. SlotsOf(d)
    BY <1>1 DEF CallersTrue
  <2>2. st \in States
    BY <1>11 DEF States
  <2>3. /\ DOMAIN job'[d] = DOMAIN job[d]
        /\ \A t \in DOMAIN job[d] : job'[d][t] = IF d = c /\ t = s THEN st ELSE job[d][t]
    BY <1>1, <1>5, <1>11, <2>2, JobChange
  <2>4. CASE d # c
    <3>1. slots'[d] = slots[d]
      BY <1>1, <1>11, <2>4 DEF Types
    <3>2. QED
      BY <1>2, <2>1, <2>3, <2>4, <3>1 DEF SlotsOf, Group
  <2>5. CASE d = c
    <3>1. /\ DOMAIN job[c] = 1..Len(Group(c).indices) /\ slots[c] \in [DOMAIN job[c] -> Decodes]
          /\ \A t \in DOMAIN job[c] : job[c][t] = "decoded" =>
               slots[c][t] = Image([caller |-> c, group |-> group[c], slot |-> t], Group(c).layout)
      BY <1>5, <2>1, <2>5 DEF SlotsOf
    <3>2. v \in Decodes
      <4>1. Group(c).layout \in Layouts
        BY <1>5, CallerParts, CallParts DEF Group
      <4>2. QED
        BY <1>5, <1>11, <4>1 DEF Decodes
    <3>3. slots'[c] = [slots[c] EXCEPT ![s] = v]
      BY <1>1, <1>5, <1>11 DEF Types
    <3>4. slots'[c] \in [DOMAIN job[c] -> Decodes] /\ \A t \in DOMAIN job[c] : slots'[c][t] = IF t = s THEN v ELSE slots[c][t]
      BY <3>1, <3>2, <3>3
    <3>5. \A t \in DOMAIN job[c] : job'[c][t] = "decoded" =>
            slots'[c][t] = Image([caller |-> c, group |-> group[c], slot |-> t], Group(c).layout)
      <4>1. SUFFICES ASSUME NEW t \in DOMAIN job[c], job'[c][t] = "decoded"
                     PROVE  slots'[c][t] = Image([caller |-> c, group |-> group[c], slot |-> t], Group(c).layout)
        OBVIOUS
      <4>2. CASE t = s
        BY <1>6, <1>11, <2>3, <2>5, <3>4, <4>1, <4>2
      <4>3. CASE t # s
        BY <2>3, <2>5, <3>1, <3>4, <4>1, <4>3
      <4>4. QED
        BY <4>2, <4>3
    <3>6. Group(c)' = Group(c) /\ group' = group
      BY <1>2 DEF Group
    <3>7. QED
      BY <2>3, <2>5, <3>1, <3>4, <3>5, <3>6 DEF SlotsOf
  <2>6. QED
    BY <2>4, <2>5
<1>13. QED
  BY <1>2, <1>8, <1>12, WorkerResults

\* Every step keeps the invariant.
LEMMA ResultsStep ==
  ASSUME RInv, [Next]_vars
  PROVE  RInv'
<1>1. IInv'
  BY NextStep DEF RInv
<1>2. CASE \E c \in Callers : CallStep(c)
  BY <1>1, <1>2, BeginResults, InstallResults, JoinResults, ReturnResults DEF CallStep
<1>3. CASE \E w \in Workers : Work(w)
  BY <1>1, <1>3, StartResults, ReleaseResults DEF Work
<1>4. CASE UNCHANGED vars
  <2>1. UNCHANGED <<call, step, group, job, slots, stack, content, retained, groups, errors>>
    BY <1>4 DEF vars, calls, output, pool, results
  <2>2. ContentsTrue'
    BY <2>1 DEF RInv, ContentsTrue, Held, FrameAt
  <2>3. ASSUME NEW c \in Callers
        PROVE  SlotsOf(c)'
    <3>1. SlotsOf(c)
      BY DEF RInv, CallersTrue
    <3>2. QED
      BY <2>1, <3>1 DEF SlotsOf, Group
  <2>4. QED
    BY <1>1, <2>1, <2>2, <2>3, WorkerResults
<1>5. QED
  BY <1>2, <1>3, <1>4 DEF Next


\* The invariant of the results holds in every reachable state.
LEMMA ResultsInvariance == Spec => []RInv
  BY InitResults, ResultsStep, PTL DEF Spec

\* As many inputs as places in two sequences that divide them.
LEMMA DividedCount ==
  ASSUME NEW s \in Seq(Nat), NEW t \in Seq(Nat), NEW B, Divided(s, t, B)
  PROVE  Len(s) + Len(t) = Cardinality(B)
<1>1. PICK S, T : S = ToSet(s) /\ T = ToSet(t)
  OBVIOUS
<1>2. IsFiniteSet(S) /\ Cardinality(S) = Len(s) /\ IsFiniteSet(T) /\ Cardinality(T) = Len(t)
  BY <1>1, InjectiveCount DEF Divided
<1>3. S \cap T = {} /\ B = S \cup T
  BY <1>1 DEF Divided
<1>4. Cardinality(S \cup T) = Cardinality(S) + Cardinality(T) - Cardinality(S \cap T)
  BY <1>2, FS_Union
<1>5. Cardinality({}) = 0
  BY FS_EmptySet
<1>6. PICK m, n : m = Len(s) /\ n = Len(t)
  OBVIOUS
<1>7. m \in Nat /\ n \in Nat
  BY <1>6
<1>8. Cardinality(B) = m + n - 0
  BY <1>2, <1>3, <1>4, <1>5, <1>6
<1>9. QED
  BY <1>6, <1>7, <1>8

-----------------------------------------------------------------------------
(***************************************************************************)
(* The properties.                                                         *)
(***************************************************************************)
\* Callers and jobs keep their types, and every workspace is retained or lent.
THEOREM Typing == Spec => []TypeOK
<1>1. IInv => TypeOK
  BY DEF IInv, Types, Homed, Counted, TypeOK, Steps, States
<1>2. QED
  BY <1>1, Invariance, PTL

\* However workers nest jobs, whichever images fail and however many callers share
\* the decoder: a workspace has one user, no more are retained than there are workers,
\* and when nothing runs there are as many.
THEOREM Lending == Spec => []WorkspacesLent
<1>1. IInv => WorkspacesLent
  <2>1. SUFFICES ASSUME IInv
                 PROVE  WorkspacesLent
    OBVIOUS
  <2>2. Types /\ Homed /\ Counted
    BY <2>1 DEF IInv
  <2>3. ASSUME Running = {}
        PROVE  Len(retained) = Cardinality(Workers)
    <3>1. Cardinality(Lent) = 0
      BY <2>2, <2>3, FS_EmptySet DEF Counted
    <3>2. Len(retained) \in Nat /\ Cardinality(Workers) \in Nat
      BY <2>2, FS_CardinalityType, CallAssumption DEF Types
    <3>3. QED
      BY <2>2, <3>1, <3>2 DEF Counted
  <2>4. QED
    BY <2>2, <2>3 DEF Homed, Counted, WorkspacesLent
<1>2. QED
  BY <1>1, Invariance, PTL

\* However jobs interleave, whichever images fail and wherever the gaps are: samples
\* stand for the source index beside them, and a returned call accounts for each input
\* once, in source order.
THEOREM OwnResults == Spec => []BatchResultsTrue
<1>1. RInv => SamplesOwn
  BY DEF RInv, CallersTrue, Gathered, Owns, SamplesOwn
<1>2. RInv => InputsAccounted
  <2>1. SUFFICES ASSUME RInv, NEW c \in Callers, step[c] = "returned"
                 PROVE  LET succeeded == FlattenSeq([g \in DOMAIN groups[c] |-> groups[c][g].indices])
                            inputs == (UNION {ToSet(call[c].groups[g].indices) : g \in DOMAIN call[c].groups})
                                        \cup ToSet(call[c].errors)
                        IN  /\ ToSet(succeeded) \cup ToSet(errors[c]) = inputs
                            /\ Len(succeeded) + Len(errors[c]) = Cardinality(inputs)
                            /\ Ascending(errors[c])
                            /\ \A g \in DOMAIN groups[c] : Ascending(groups[c][g].indices)
    BY DEF InputsAccounted
  <2>2. call[c] \in AllCalls /\ Gathered(c)
    BY <2>1, CallerParts
  <2>3. Kept(c) /\ groups[c] \in Seq(Results) /\ errors[c] \in Seq(Nat)
    BY <2>1, <2>2 DEF Gathered
  <2>4. DOMAIN call[c].groups = 1..Len(call[c].groups) /\ Len(call[c].groups) \in Nat
    BY <2>2, CallParts
  <2> DEFINE inputs == (UNION {ToSet(call[c].groups[g].indices) : g \in DOMAIN call[c].groups}) \cup ToSet(call[c].errors)
  <2>5. Done(c) \cup ToSet(call[c].errors) = inputs
    <3>1. group[c] = Len(call[c].groups) + 1
      BY <2>1, <2>3 DEF Kept
    <3>2. 1..group[c] - 1 = DOMAIN call[c].groups
      <4>1. PICK l : l = Len(call[c].groups)
        OBVIOUS
      <4>2. 1..(l + 1) - 1 = 1..l
        BY <2>4, <4>1
      <4>3. QED
        BY <2>4, <3>1, <4>1, <4>2
    <3>3. Done(c) = UNION {ToSet(call[c].groups[g].indices) : g \in DOMAIN call[c].groups}
      BY <3>2, Zenon DEF Done, Behind
    <3>4. QED
      BY <3>3
  <2> HIDE DEF inputs
  <2>6. Succeeded(c) = FlattenSeq([g \in DOMAIN groups[c] |-> groups[c][g].indices])
    BY DEF Succeeded, IndexLists
  <2>7. Divided(Succeeded(c), errors[c], inputs)
    BY <2>3, <2>5 DEF Kept
  <2>8. Succeeded(c) \in Seq(Nat)
    <3>1. PICK q : q = groups[c]
      OBVIOUS
    <3>2. [indices |-> <<>>, samples |-> <<>>] \in Results
      BY DEF Results
    <3>3. FlattenSeq(IndexLists(q)) \in Seq(Nat)
      BY <2>3, <3>1, <3>2, MoreIndices
    <3>4. QED
      BY <3>1, <3>3 DEF Succeeded
  <2>9. Len(Succeeded(c)) + Len(errors[c]) = Cardinality(inputs)
    BY <2>3, <2>7, <2>8, DividedCount
  <2>10. ToSet(Succeeded(c)) \cup ToSet(errors[c]) = inputs
    BY <2>7 DEF Divided
  <2>11. Ascending(errors[c]) /\ \A g \in DOMAIN groups[c] : Ascending(groups[c][g].indices)
    BY <2>1, <2>3 DEF Kept
  <2>12. QED
    BY <2>6, <2>9, <2>10, <2>11 DEF inputs
<1>3. RInv => BatchResultsTrue
  BY <1>1, <1>2 DEF BatchResultsTrue
<1>4. QED
  BY <1>3, ResultsInvariance, PTL
=============================================================================
