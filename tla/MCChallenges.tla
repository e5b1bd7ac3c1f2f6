---------------------------- MODULE MCChallenges ----------------------------
(* Instances of Challenges for TLC.                                        *)
EXTENDS Challenges, TLC

\* alice and carol challenge bob, who owns the habit.
MCOwner == [h \in Habits |-> "bob"]

Payload(creator, type, target, period, start, end) ==
  [creator |-> creator, recipient |-> "bob", habit |-> "run", type |-> type,
   target |-> target, period |-> period, start |-> start, end |-> end]

\* Two creators, so that one engine run has two rows to write; alice's challenge
\* lapses after a day and can be created again.
RacingOffers == {Payload("alice", TotalCompletions, 2, 1, 0, 0),
                 Payload("carol", DaysInPeriod, 2, 2, 0, 0)}

\* Two rows that every completion writes and none completes.
SteadyOffers == {Payload("alice", ConsistencyTarget, 1, 2, 0, 0),
                 Payload("carol", ConsistencyTarget, 1, 2, 0, 0)}

\* One challenge that the first completion completes.
OneShotOffers == {Payload("alice", TotalCompletions, 1, 1, 0, 0)}

\* Every milestone type.
AllOffers == {Payload("alice", ConsistencyTarget, 2, 1, 0, 0),
              Payload("alice", TotalCompletions, 2, 2, 0, 0),
              Payload("alice", CustomDateRange, 2, 1, 0 - 1, 2),
              Payload("alice", ImprovementMilestone, 1, 2, 0, 0)}

RequestSymmetry == Permutations(Requests)
=============================================================================
