------------------------- MODULE ChallengeLifecycle -------------------------
(***************************************************************************)
(* What a challenge promises its two participants, whatever the requests   *)
(* in flight: a life that only moves forward, dates that once counted stay *)
(* counted, and a baseline that is taken once.  Challenges refers to this  *)
(* module as Life.                                                         *)
(***************************************************************************)
CONSTANTS Ids, Dates, Levels, None

VARIABLES
  stage,      \* per id: where the challenge is in its life
  credited,   \* per id: the completion dates counted so far
  baseline    \* per id: the improvement baseline, None until captured

Open   == {"Active", "Expired", "Cancelled"}
Stages == {"unborn", "Active", "Completed", "Claimed", "Cancelled", "Expired", "deleted"}

Init ==
  /\ stage = [c \in Ids |-> "unborn"]
  /\ credited = [c \in Ids |-> {}]
  /\ baseline = [c \in Ids |-> None]

Moves(c, from, to) == stage[c] \in from /\ stage'[c] = to
Keeps(c) == credited'[c] = credited[c] /\ baseline'[c] = baseline[c]

Start(c)  == Moves(c, {"unborn"}, "Active") /\ Keeps(c)
Expire(c) == Moves(c, {"Active"}, "Expired") /\ Keeps(c)
Cancel(c) == Moves(c, Open, "Cancelled") /\ Keeps(c)
Claim(c)  == Moves(c, {"Completed"}, "Claimed") /\ Keeps(c)
Delete(c) == Moves(c, Stages \ {"unborn", "deleted"}, "deleted")

\* A habit completion is credited while the challenge is running, and may
\* complete it.
Credit(c) ==
  /\ Moves(c, {"Active"}, "Active") \/ Moves(c, {"Active"}, "Completed")
  /\ credited[c] \subseteq credited'[c]
  /\ baseline[c] # None => baseline'[c] = baseline[c]

Rest(c) == stage'[c] = stage[c] /\ Keeps(c)

Next ==
  /\ stage' \in [Ids -> Stages]
  /\ credited' \in [Ids -> SUBSET Dates]
  /\ baseline' \in [Ids -> Levels \cup {None}]
  /\ \A c \in Ids : \/ Start(c) \/ Expire(c) \/ Cancel(c) \/ Claim(c)
                    \/ Delete(c) \/ Credit(c) \/ Rest(c)

Spec == Init /\ [][Next]_<<stage, credited, baseline>>
=============================================================================
