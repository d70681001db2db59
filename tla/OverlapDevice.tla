------------------------------ MODULE OverlapDevice -----------------------------
(***************************************************************************)
(* The overlap passes of the CUDA and Metal backends.                      *)
(*                                                                         *)
(* A command filters one pass of some planes that lie behind one another   *)
(* in a buffer of samples.  Every plane has a schedule of three work       *)
(* lists.  The device runs the items of a list on concurrent lanes, in no  *)
(* particular order, and a barrier separates a list from the next.  A      *)
(* command of one image runs the lists of one plane after those of         *)
(* another; a Metal command of a batch runs the same list of all planes at *)
(* once.  Metal keeps the schedules it uploaded, for planes of equal       *)
(* shape; CUDA builds them for every command.                              *)
(***************************************************************************)
EXTENDS OverlapFilters

CONSTANTS Lanes,              \* device threads that run at a time
          Lookahead,          \* bound: how far the items of a list overtake
          Commands,           \* [mode, planes]
          RetainedSchedules,  \* schedules Metal keeps
          Initial(_)          \* what the transforms left in a sample

DeviceAssumption == Lookahead \in Nat \ {0} /\ RetainedSchedules \in Nat \ {0}

VARIABLES command,    \* the command the device runs, or None
          uses,       \* per plane of it, the plane its schedule was made for
          samples,    \* what its buffer holds
          step,       \* place of the work lists being run; 0: all have been
          waiting,    \* their items no lane has taken: <<plane, place>>
          lanes,      \* per lane: the item taken and what it loaded, or Idle
          schedules   \* Metal's schedules, least recently used first

vars == <<command, uses, samples, step, waiting, lanes, schedules>>

None == [mode |-> "none", planes |-> <<>>]
Idle == <<>>

(***************************************************************************)
(* A plane: pass, blocks of four samples a macroblock has across and down, *)
(* window in macroblocks, tile partition, offset of its first sample.      *)
(***************************************************************************)
\* Samples a macroblock has along an axis.
Scale(plane, blocks) == IF plane.pass = "first" THEN blocks ELSE 4 * blocks
Across(plane) == Scale(plane, plane.blocks[1])
Down(plane) == Scale(plane, plane.blocks[2])
Stride(plane) == plane.width * Across(plane)
Size(plane) == Stride(plane) * plane.height * Down(plane)

RegionsOf(plane) ==
    Regions(Boundaries(plane.columns, plane.x, plane.width, Across(plane)),
            Boundaries(plane.rows, plane.y, plane.height, Down(plane)),
            plane.hard)

Subsampled(plane) == plane.pass = "first" /\ plane.blocks[1] # 4

\* Relative to the plane's first sample.
Schedule(plane) ==
    IF Subsampled(plane)
    THEN DeviceSubsampled(Stride(plane), RegionsOf(plane))
    ELSE DeviceFull(Stride(plane), RegionsOf(plane))

Planes == UNION {ToSet(c.planes) : c \in Commands}
Schedules == [p \in Planes |-> Schedule(p)]

Rebased(item, base) == [item EXCEPT !.cells = [k \in DOMAIN item.cells |-> base + item.cells[k]]]

(***************************************************************************)
(* Metal's cache of schedules.                                             *)
(***************************************************************************)
Key_Bug(plane) ==
    [shape |-> <<plane.pass, plane.blocks, plane.width, plane.height>>,
     tiles |-> IF plane.hard THEN <<plane.columns, plane.rows>> ELSE <<>>]
\* Tiles matter only where their boundaries are hard.
Key(plane) ==
    [shape |-> <<plane.pass, plane.blocks, plane.width, plane.height>>,
     tiles |-> IF plane.hard THEN <<plane.x, plane.y, plane.columns, plane.rows>> ELSE <<>>]

Cached(cache, plane) == {i \in DOMAIN cache : cache[i].key = Key(plane)}

GetOrUpload(cache, plane) ==
    IF Cached(cache, plane) # {}
    THEN LET i == CHOOSE i \in Cached(cache, plane) : TRUE
         IN  Append(RemoveAt(cache, i), cache[i])
    ELSE Append(IF Len(cache) = RetainedSchedules THEN Tail(cache) ELSE cache,
                [key |-> Key(plane), made |-> plane])

\* The cache before the first plane, after it, after the second, ...
Lookups(planes) ==
    LET after[i \in 0..Len(planes)] ==
            IF i = 0 THEN schedules ELSE GetOrUpload(after[i - 1], planes[i])
    IN  after

(***************************************************************************)
(* A command.                                                              *)
(***************************************************************************)
Phases == <<"prefix", "filters", "suffix">>

\* The lists run as one step: the same one of all planes of a batch, or one.
Steps(c) == IF c.mode = "batch" THEN 3 ELSE 3 * Len(c.planes)
Phase(s) == Phases[1 + ((s - 1) % 3)]
Filtering(c, s) ==
    IF c.mode = "batch" THEN DOMAIN c.planes ELSE {1 + ((s - 1) \div 3)}

Items(c, use, s) ==
    UNION {{<<i, k>> : k \in DOMAIN Schedules[use[i]][Phase(s)]} : i \in Filtering(c, s)}

\* The item a lane has taken, in the buffer.
Work(c, use, s, item) ==
    Rebased(Schedules[use[item[1]]][Phase(s)][item[2]], c.planes[item[1]].base)

Cells(planes) == 0..FoldLeft(LAMBDA n, p : n + Size(p), 0, planes) - 1

Init ==
    /\ command = None
    /\ uses = <<>>
    /\ samples = <<>>
    /\ step = 0
    /\ waiting = {}
    /\ lanes = [l \in Lanes |-> Idle]
    /\ schedules = <<>>

Busy == {l \in Lanes : lanes[l] # Idle}
Complete == step = 0

\* The order of the items in their lists.
Before(i, j) == i[1] < j[1] \/ (i[1] = j[1] /\ i[2] < j[2])

Encode(c) ==
    /\ Complete
    /\ command' = c
    /\ LET cache == Lookups(c.planes)
       IN  IF c.mode = "cuda"
           THEN /\ uses' = c.planes
                /\ UNCHANGED schedules
           ELSE /\ uses' = [i \in DOMAIN c.planes |-> Last(cache[i]).made]
                /\ schedules' = cache[Len(c.planes)]
    /\ samples' = [i \in Cells(c.planes) |-> Initial(i)]
    /\ step' = 1
    /\ waiting' = Items(c, uses', 1)
    /\ UNCHANGED lanes

\* A lane takes an item and loads its samples.
Take(l) ==
    /\ lanes[l] = Idle
    /\ \E item \in waiting :
          /\ Cardinality({i \in waiting : Before(i, item)}) < Lookahead
          /\ LET work == Work(command, uses, step, item)
             IN  lanes' = [lanes EXCEPT ![l] = <<work, Loaded(samples, work)>>]
          /\ waiting' = waiting \ {item}
    /\ UNCHANGED <<command, uses, samples, step, schedules>>

\* It stores what the operator makes of them.
Put(l) ==
    /\ lanes[l] # Idle
    /\ LET work == lanes[l][1]
       IN  samples' = Stored(samples, work, Filter(work.op, lanes[l][2]))
    /\ lanes' = [lanes EXCEPT ![l] = Idle]
    /\ UNCHANGED <<command, uses, step, waiting, schedules>>

Barrier ==
    /\ ~Complete /\ waiting = {} /\ Busy = {}
    /\ IF step = Steps(command)
       THEN step' = 0 /\ UNCHANGED waiting
       ELSE step' = step + 1 /\ waiting' = Items(command, uses, step')
    /\ UNCHANGED <<command, uses, samples, lanes, schedules>>

Next ==
    \/ \E c \in Commands : Encode(c)
    \/ \E l \in Lanes : Take(l) \/ Put(l)
    \/ Barrier

Spec == Init /\ [][Next]_vars

-----------------------------------------------------------------------------
(***************************************************************************)
(* Properties.                                                             *)
(***************************************************************************)
\* Items lie inside the buffer of the command's planes, behind one another.
TypeOK ==
    /\ command \in Commands \cup {None}
    /\ \A i \in waiting :
          ToSet(Work(command, uses, step, i).cells) \subseteq DOMAIN samples
    /\ step \in 0..Steps(command)
    /\ Len(schedules) \in 0..RetainedSchedules

\* Items that run at the same time never meet: what one of them writes, the
\* other neither reads nor writes (the SAFETY comment of the CUDA launch, and
\* the comment of the Metal batch on disjoint planes).
LanesApart ==
    \A l, m \in Busy : l # m => Writes(lanes[l][1]) \cap ToSet(lanes[m][1].cells) = {}

HostItems(plane) ==
    FlattenSeq(IF Subsampled(plane)
               THEN HostSubsampled(Stride(plane), RegionsOf(plane))
               ELSE HostFull(Stride(plane), RegionsOf(plane)))

HostResult ==
    [c \in Commands |->
        Filtered([i \in Cells(c.planes) |-> Initial(i)],
                 FlattenSeq([i \in DOMAIN c.planes |->
                     LET items == HostItems(c.planes[i])
                     IN  [k \in DOMAIN items |-> Rebased(items[k], c.planes[i].base)]]))]

\* When a command has completed, its planes hold what the host's sequential
\* filters make of them, whatever the lanes' order and whichever uploaded
\* schedule was used again.
MatchesHost == Complete /\ command # None => samples = HostResult[command]
=================================================================================
