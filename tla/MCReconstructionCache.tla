---------------------- MODULE MCReconstructionCache ----------------------
(***************************************************************************)
(* Small groups for ReconstructionCache: two callers that meet inside one  *)
(* group of images of a single tile, and callers that follow one another   *)
(* through a group with an image of several tiles.  Callers that meet in a *)
(* contract of several tiles may wait for each other for ever, which is    *)
(* the subject of ReconstructionCacheDeadlock.cfg.                         *)
(***************************************************************************)
EXTENDS ReconstructionCache, TLC

CONSTANTS a, b, c

VARIABLE concurrent   \* whether callers meet

\* Three images, the first and the last deduplicated to one contract.
Duplicated == 1 :> a @@ 2 :> b @@ 3 :> a

\* The same with a further image, of a contract of its own, between them.
Mixed == 1 :> a @@ 2 :> b @@ 3 :> c @@ 4 :> a

Symmetry == Permutations(Workers)

-----------------------------------------------------------------------------
Meeting == INSTANCE ReconstructionCache WITH MultiTile <- {}

groupVars == <<concurrent, vars>>

\* A caller that enters while no other is inside.
Alone(k) == \A l \in Callers : l # k => caller[l] # "installed"

InitGroups == concurrent \in BOOLEAN /\ Init

NextGroups ==
  /\ UNCHANGED concurrent
  /\ \/ concurrent /\ Meeting!Next
     \/ /\ ~concurrent
        /\ Next
        /\ \A k \in Callers : caller[k] = "idle" /\ caller'[k] # "idle" => Alone(k)

\* The fairness of ReconstructionCache.
WorkerGoesOn(w) ==
  /\ UNCHANGED concurrent
  /\ \/ concurrent /\ Meeting!WorkerStep(w)
     \/ ~concurrent /\ WorkerStep(w)
CallerGoesOn(k) == UNCHANGED concurrent /\ SubmitGroup(k)

SpecGroups ==
  /\ InitGroups /\ [][NextGroups]_groupVars
  /\ \A w \in Workers : WF_groupVars(WorkerGoesOn(w))
  /\ \A k \in Callers : WF_groupVars(CallerGoesOn(k))
=============================================================================
