--------------------------- MODULE BatchOutcomes ---------------------------
(***************************************************************************)
(* What every batch decoder of the facade promises for one prepared batch, *)
(* whatever its backend: each input ends with exactly one outcome, its own *)
(* error or the outcome of its homogeneous group, and no outcome is taken  *)
(* back.  A group is submitted and settled as a whole: an input whose own  *)
(* decode did not fail shares the fate of its group.                       *)
(***************************************************************************)
CONSTANTS
  Images,  \* source indices of the batch
  Groups,  \* names of the homogeneous groups
  GroupOf  \* the group of each image that was prepared

VARIABLE outcome

Members(g) == {i \in DOMAIN GroupOf : GroupOf[i] = g}

\* Images that failed in preparation carry their error from the start.
Init == outcome = [i \in Images |-> IF i \in DOMAIN GroupOf THEN "pending" ELSE "error"]

\* Some images fail on their own.
Reject(S) ==
  /\ \A i \in S : outcome[i] = "pending"
  /\ outcome' = [i \in Images |-> IF i \in S THEN "error" ELSE outcome[i]]

\* Everything of the group that stood at `from` moves to `to`.
Move(g, from, to) ==
  /\ \E i \in Members(g) : outcome[i] = from
  /\ outcome' = [i \in Images |->
       IF i \in DOMAIN GroupOf /\ GroupOf[i] = g /\ outcome[i] = from THEN to ELSE outcome[i]]

Submit(g)    == Move(g, "pending", "submitted")
FailEarly(g) == Move(g, "pending", "group_error")
Complete(g)  == Move(g, "submitted", "complete")
FailLate(g)  == Move(g, "submitted", "group_error")

Next ==
  \/ \E S \in SUBSET Images : Reject(S)
  \/ \E g \in Groups : Submit(g) \/ FailEarly(g) \/ Complete(g) \/ FailLate(g)

Spec == Init /\ [][Next]_outcome
=============================================================================
