------------------------------- MODULE CpuBatch -------------------------------
(***************************************************************************)
(* CpuBatchDecoder: callers decode prepared groups on one worker pool.     *)
(*                                                                         *)
(* Every image of a group is a job that decodes into its own slot of the   *)
(* dense output with a workspace that it pops from the retained ones.  An  *)
(* image of several tiles waits for them inside the job, and its worker    *)
(* may then take another image on top of it, so that more workspaces are   *)
(* in use than there are workers.  The caller joins the jobs of a group,   *)
(* collects the results in slot order and moves the slots of successful    *)
(* images together.                                                        *)
(***************************************************************************)
EXTENDS Integers, Sequences, FiniteSets, FiniteSetsExt, SequencesExt

CONSTANTS
  Callers,    \* threads that share the decoder
  Workers,    \* workers of its pool; as many workspaces are retained
  Calls,      \* per caller, the calls it may make
  MaxInputs,  \* options.max_inputs
  MaxImages   \* options.max_host_allocation_bytes, in images

\* A call decodes a batch, [groups, errors], into storage of its own ("decode"),
\* or its only group into the `length` slots of a caller ("into").  A group is
\* [layout, indices, tiled]: its source indices, and those of several tiles.
AllCalls == UNION {Calls[c] : c \in Callers}

Ascending(s) == \A j, k \in DOMAIN s : j < k => s[j] < s[k]

\* Preparation puts each input in one group, in source order, or among the errors.
PreparedOnce(q) ==
  /\ \A g \in DOMAIN q.groups : q.groups[g].indices # <<>> /\ Ascending(q.groups[g].indices)
  /\ \A g, h \in DOMAIN q.groups :
       g # h => ToSet(q.groups[g].indices) \cap ToSet(q.groups[h].indices) = {}
  /\ IsInjective(q.errors)
  /\ \A g \in DOMAIN q.groups : ToSet(q.groups[g].indices) \cap ToSet(q.errors) = {}

ASSUME CallAssumption ==
  /\ Workers # {} /\ IsFiniteSet(Workers)
  /\ \A q \in AllCalls :
       /\ q.kind \in {"decode", "into"}
       /\ q.kind = "into" => Len(q.groups) = 1 /\ q.errors = <<>>
       /\ q.groups \in Seq([layout : {"nhwc", "nchw"}, indices : Seq(Nat), tiled : SUBSET Nat])
       /\ q.errors \in Seq(Nat)
       /\ PreparedOnce(q)

VARIABLES
  call,      \* the call of each caller
  step,      \* "call", "group", "join", "returned" or "refused"
  group,     \* position of the group it is at
  job,       \* per caller and slot, how the image's job stands
  slots,     \* per caller, the slots of the group's output
  stack,     \* per worker, the jobs it runs, innermost last
  content,   \* per workspace, the job whose coefficients it holds
  retained,  \* workspaces in the decoder's list
  groups,    \* per caller, CpuBatchGroup [indices, samples]
  errors     \* per caller, source indices of indexed errors

calls   == <<call, step, group>>
output  == <<job, slots>>
pool    == <<stack, content, retained>>
results == <<groups, errors>>
vars    == <<calls, output, pool, results>>

Nobody == [caller |-> "none"]
\* A workspace is named by a number; one that is dropped gives its number back.
Created == DOMAIN content

Init ==
  /\ call \in {q \in [Callers -> AllCalls] : \A c \in Callers : q[c] \in Calls[c]}
  /\ step     = [c \in Callers |-> "call"]
  /\ group    = [c \in Callers |-> 1]
  /\ job      = [c \in Callers |-> <<>>]
  /\ slots    = [c \in Callers |-> <<>>]
  /\ stack    = [w \in Workers |-> <<>>]
  /\ content  = [k \in 1..Cardinality(Workers) |-> Nobody]
  /\ retained = [k \in 1..Cardinality(Workers) |-> k]
  /\ groups   = [c \in Callers |-> <<>>]
  /\ errors   = [c \in Callers |-> <<>>]

-----------------------------------------------------------------------------
(***************************************************************************)
(* Calls.                                                                  *)
(***************************************************************************)
Images(q) == FoldLeft(LAMBDA n, g : n + Len(g.indices), 0, q.groups)
InputCount(q) == Images(q) + Len(q.errors)

\* validate_prepared_count and validate_output_budget; validate_group_destination
Refused(q) ==
  IF q.kind = "decode"
  THEN InputCount(q) > MaxInputs \/ Images(q) > MaxImages
  ELSE q.length # Images(q)

BeginCall(c) ==
  /\ step[c] = "call"
  /\ IF Refused(call[c])
     THEN step' = [step EXCEPT ![c] = "refused"] /\ UNCHANGED errors
     ELSE /\ step' = [step EXCEPT ![c] = "group"]
          /\ errors' = [errors EXCEPT ![c] = IF call[c].kind = "decode" THEN call[c].errors ELSE <<>>]
  /\ UNCHANGED <<call, group, output, pool, groups>>

Group(c) == call[c].groups[group[c]]

Undecoded == [state |-> "undecoded"]
Partial   == [state |-> "partial"]
Image(j, layout) == [state |-> "decoded", job |-> j, layout |-> layout]

\* decode_group allocates zeroed slots, decode_prepared_group_into has the caller's.
Slots(c) == [s \in DOMAIN Group(c).indices |-> Undecoded]

\* decode_direct_group_into installs one job per image.
InstallGroup(c) ==
  /\ step[c] = "group"
  /\ group[c] <= Len(call[c].groups)
  /\ slots' = [slots EXCEPT ![c] = Slots(c)]
  /\ job'   = [job   EXCEPT ![c] = [s \in DOMAIN Slots(c) |-> "queued"]]
  /\ step'  = [step  EXCEPT ![c] = "join"]
  /\ UNCHANGED <<call, group, pool, results>>

-----------------------------------------------------------------------------
(***************************************************************************)
(* Jobs.                                                                   *)
(***************************************************************************)
Top(w) == Last(stack[w])
Tiled(f) == call[f.caller].groups[f.group].indices[f.slot] \in call[f.caller].groups[f.group].tiled

\* A worker takes a job when it has none, or while the tiles of its own are stolen.
TakesJobs(w) == stack[w] # <<>> => Tiled(Top(w).job)

Lent == {f.workspace : f \in UNION {ToSet(stack[w]) : w \in Workers}}
Fresh == CHOOSE k \in 1..Cardinality(Created) + 1 :
           /\ k \notin ToSet(retained) \cup Lent
           /\ \A j \in 1..k - 1 : j \in ToSet(retained) \cup Lent

\* Mutant: a job on top of another one uses the workspace of its worker.
Popped_Bug(w) == IF stack[w] # <<>> THEN Top(w).workspace
                 ELSE IF retained = <<>> THEN Fresh ELSE Last(retained)
\* with_workspace: the last retained workspace, or a new one.
Popped(w) == IF retained = <<>> THEN Fresh ELSE Last(retained)

StartJob(w, c, s) ==
  /\ step[c] = "join"
  /\ job[c][s] = "queued"
  /\ TakesJobs(w)
  /\ LET mine == [caller |-> c, group |-> group[c], slot |-> s]
     IN  /\ stack' = [stack EXCEPT ![w] = Append(@, [job |-> mine, workspace |-> Popped(w)])]
         /\ content' = [k \in Created \cup {Popped(w)} |-> IF k = Popped(w) THEN mine ELSE content[k]]
  /\ retained' = IF retained = <<>> THEN retained ELSE Front(retained)
  /\ job' = [job EXCEPT ![c][s] = "running"]
  /\ UNCHANGED <<calls, slots, results>>

\* Mutant: the workspace is kept whatever the list holds.
Room_Bug == TRUE
Room == Len(retained) < Cardinality(Workers)

\* The job returns its workspace, unless enough are retained.
Release(w) ==
  /\ stack' = [stack EXCEPT ![w] = Front(@)]
  /\ retained' = IF Room THEN Append(retained, Top(w).workspace) ELSE retained
  /\ content' = IF Room THEN content ELSE [k \in Created \ {Top(w).workspace} |-> content[k]]

\* Samples are decoded as NHWC and reordered through scratch of the workspace.
Layout(f) == call[f.caller].groups[f.group].layout

\* decode_image_into_with_workspace
FinishJob(w) ==
  /\ stack[w] # <<>>
  /\ LET f == Top(w).job
     IN  /\ slots' = [slots EXCEPT ![f.caller][f.slot] =
                        Image(content[Top(w).workspace], Layout(f))]
         /\ job' = [job EXCEPT ![f.caller][f.slot] = "decoded"]
  /\ Release(w)
  /\ UNCHANGED <<calls, results>>

\* The image fails; what it left in its slot is unspecified.
FailJob(w) ==
  /\ stack[w] # <<>>
  /\ LET f == Top(w).job
     IN  /\ slots' = [slots EXCEPT ![f.caller][f.slot] = Partial]
         /\ job' = [job EXCEPT ![f.caller][f.slot] = "failed"]
  /\ Release(w)
  /\ UNCHANGED <<calls, results>>

-----------------------------------------------------------------------------
(***************************************************************************)
(* Results.                                                                *)
(***************************************************************************)
\* The slots of a set in order.
InOrder(S) ==
  CHOOSE t \in [1..Cardinality(S) -> S] : Ascending(t)

IndicesOf(c, state) ==
  LET chosen == InOrder({s \in DOMAIN job[c] : job[c][s] = state})
  IN  [k \in DOMAIN chosen |-> Group(c).indices[chosen[k]]]

Decoded(c) == IndicesOf(c, "decoded")

\* Mutant: only the first gap is closed.
Target_Bug(s, moved) == IF moved = 0 THEN s ELSE s - 1
\* A successful slot is copied down to the next free one.
Target(s, moved) == moved + 1

\* Slot s is that of the next successful image; `moved` is successful_slot.
IsNext(c, s, moved) ==
  moved < Len(Decoded(c)) /\ Decoded(c)[moved + 1] = Group(c).indices[s]
CopyDown(c, a, s) ==
  IF IsNext(c, s, a.moved)
  THEN [samples |-> [a.samples EXCEPT ![Target(s, a.moved)] = a.samples[s]],
        moved   |-> a.moved + 1]
  ELSE a

\* decode_group walks the input slots.
Compacted(c) ==
  LET walk == FoldLeft(LAMBDA a, s : CopyDown(c, a, s),
                       [samples |-> slots[c], moved |-> 0],
                       [s \in DOMAIN slots[c] |-> s])
  IN  SubSeq(walk.samples, 1, walk.moved)

Samples(c) == IF call[c].kind = "decode" THEN Compacted(c) ELSE slots[c]

Joined(c) == \A s \in DOMAIN job[c] : job[c][s] \in {"decoded", "failed"}

\* install returns and decode_group collects.  A group without a successful image
\* is left out of a batch.
JoinGroup(c) ==
  /\ step[c] = "join"
  /\ Joined(c)
  /\ groups' = [groups EXCEPT ![c] =
       IF call[c].kind = "decode" /\ Decoded(c) = <<>> THEN @
       ELSE Append(@, [indices |-> Decoded(c), samples |-> Samples(c)])]
  /\ errors' = [errors EXCEPT ![c] = @ \o IndicesOf(c, "failed")]
  /\ group' = [group EXCEPT ![c] = @ + 1]
  /\ step'  = [step  EXCEPT ![c] = "group"]
  /\ UNCHANGED <<call, output, pool>>

\* Mutant: the errors stay in the order they were met.
Ordered_Bug(s) == s
Ordered(s) ==
  LET place == CHOOSE p \in [DOMAIN s -> DOMAIN s] :
                 /\ IsInjective(p)
                 /\ \A j, k \in DOMAIN s : j < k => s[p[j]] <= s[p[k]]
  IN  [k \in DOMAIN s |-> s[place[k]]]

\* decode_prepared sorts its errors; those of one group are in slot order.
ReturnCall(c) ==
  /\ step[c] = "group"
  /\ group[c] > Len(call[c].groups)
  /\ errors' = [errors EXCEPT ![c] = IF call[c].kind = "decode" THEN Ordered(@) ELSE @]
  /\ step'   = [step EXCEPT ![c] = "returned"]
  /\ UNCHANGED <<call, group, output, pool, groups>>

-----------------------------------------------------------------------------
CallStep(c) == BeginCall(c) \/ InstallGroup(c) \/ JoinGroup(c) \/ ReturnCall(c)

Work(w) ==
  \/ \E c \in Callers : \E s \in DOMAIN job[c] : StartJob(w, c, s)
  \/ FinishJob(w)
  \/ FailJob(w)

Over == \A c \in Callers : step[c] \in {"returned", "refused"}

Next ==
  \/ \E c \in Callers : CallStep(c)
  \/ \E w \in Workers : Work(w)
  \/ Over /\ UNCHANGED vars

Spec == Init /\ [][Next]_vars

-----------------------------------------------------------------------------
(***************************************************************************)
(* Properties.                                                             *)
(***************************************************************************)

\* Types; a job that runs has exactly one place on a stack.
TypeOK ==
  /\ \A c \in Callers :
       /\ step[c] \in {"call", "group", "join", "returned", "refused"}
       /\ group[c] \in 1..Len(call[c].groups) + 1
       /\ DOMAIN slots[c] = DOMAIN job[c]
       /\ \A s \in DOMAIN job[c] : job[c][s] \in {"queued", "running", "decoded", "failed"}
  /\ Created = ToSet(retained) \cup Lent
  /\ Len(retained) <= Cardinality(Workers)

Running == {p \in UNION {{c} \X DOMAIN job[c] : c \in Callers} : job[p[1]][p[2]] = "running"}

\* A workspace has one user, also while the worker below it decodes another image
\* on top, and none while it is in the list; workspaces that were lost to failed
\* images or dropped by the bound are no fewer than the pool needs.
WorkspacesLent ==
  /\ Cardinality(Lent) = Cardinality(Running)
  /\ ToSet(retained) \cap Lent = {}
  /\ Len(retained) + Cardinality(Lent) >= Cardinality(Workers)
  /\ Running = {} => Len(retained) = Cardinality(Workers)

Position(c, g, i) == CHOOSE s \in DOMAIN call[c].groups[g].indices : call[c].groups[g].indices[s] = i
GroupOf(c, i) == CHOOSE g \in DOMAIN call[c].groups : i \in ToSet(call[c].groups[g].indices)

\* What image i of a call decodes to.
Expected(c, i) ==
  LET g == GroupOf(c, i)
  IN  Image([caller |-> c, group |-> g, slot |-> Position(c, g, i)], call[c].groups[g].layout)

\* Samples belong to the image whose index stands for them: packed in a batch
\* result, in its prepared slot in storage of the caller (cpu.rs: "Each image
\* retains its prepared-group slot even when another image fails").
SamplesOwn ==
  \A c \in Callers : \A g \in DOMAIN groups[c] :
    LET r == groups[c][g]
        at(k) == IF call[c].kind = "decode" THEN k
                 ELSE Position(c, 1, r.indices[k])
    IN  /\ call[c].kind = "decode" => Len(r.samples) = Len(r.indices)
        /\ \A k \in DOMAIN r.indices : r.samples[at(k)] = Expected(c, r.indices[k])

\* A returned call accounts for each of its inputs once, in a group in source
\* order or as an error, errors sorted, and has no empty group in a batch.
InputsAccounted ==
  \A c \in Callers :
    step[c] = "returned" =>
      LET succeeded == FlattenSeq([g \in DOMAIN groups[c] |-> groups[c][g].indices])
          inputs == (UNION {ToSet(call[c].groups[g].indices) : g \in DOMAIN call[c].groups})
                      \cup ToSet(call[c].errors)
      IN  /\ ToSet(succeeded) \cup ToSet(errors[c]) = inputs
          /\ Len(succeeded) + Len(errors[c]) = Cardinality(inputs)
          /\ Ascending(errors[c])
          /\ \A g \in DOMAIN groups[c] : Ascending(groups[c][g].indices)

\* Every call hands out the samples of its own inputs and accounts for each of them
\* once.
BatchResultsTrue == SamplesOwn /\ InputsAccounted
=============================================================================
