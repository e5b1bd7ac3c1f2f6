-------------------------- MODULE PromiseLifecycle --------------------------
(***************************************************************************)
(* What a flame promise is to its owner: it is Active once, ends once and  *)
(* in one way, and what it ended as is never rewritten; while it is Active *)
(* no other promise of its habit is.  Promises refers to this module as    *)
(* Life.                                                                   *)
(***************************************************************************)
CONSTANTS Ids, Habits, NoHabit

VARIABLES
  stage,      \* per id: where the promise is in its life
  habit       \* per id: the habit it is made for, NoHabit when there is none

Ends   == {"Kept", "EndedBelow", "Cancelled"}
Stages == {"unborn", "Active", "deleted"} \cup Ends

Init ==
  /\ stage = [p \in Ids |-> "unborn"]
  /\ habit = [p \in Ids |-> NoHabit]

Make(p, h) ==
  /\ stage[p] = "unborn"
  /\ \A q \in Ids : stage[q] = "Active" => habit[q] # h
  /\ stage' = [stage EXCEPT ![p] = "Active"]
  /\ habit' = [habit EXCEPT ![p] = h]

End(p, how) ==
  /\ stage[p] = "Active"
  /\ stage' = [stage EXCEPT ![p] = how]
  /\ UNCHANGED habit

\* The owner's account goes, and all that was promised with it.
DeleteAll ==
  /\ stage' = [p \in Ids |-> IF stage[p] = "unborn" THEN "unborn" ELSE "deleted"]
  /\ habit' = [p \in Ids |-> NoHabit]

Next ==
  \/ \E p \in Ids : (\E h \in Habits : Make(p, h)) \/ (\E how \in Ends : End(p, how))
  \/ DeleteAll

Spec == Init /\ [][Next]_<<stage, habit>>
=============================================================================
