------------------------------- MODULE MCScreens -------------------------------
(***************************************************************************)
(* The instance of Screens for TLC: the constants of each module, and the  *)
(* initial states that are followed where there are more than fit a run.   *)
(***************************************************************************)
EXTENDS Screens, TLC

CONSTANTS m1, m2  \* calls, to-dos, links, challenges, requests: interchangeable

Sym == Permutations({m1, m2})

MCCompletions ==
  [Calls |-> {m1, m2}, MaxTaps |-> 2, MaxEvents |-> 1, MaxMoves |-> 3]

MCOrdering ==
  [Items |-> {"a", "b", "c"}, MaxEvents |-> 2, MaxEdits |-> 3]

MCTodos ==
  [Items |-> {m1, m2}, MaxCalls |-> 2, MaxTaps |-> 2, MaxEvents |-> 1, MaxMoves |-> 3]

MCMeditation ==
  [Minutes |-> {1, 2}, MaxClock |-> 4, Habits |-> {"medit", "run"}, Hinted |-> {"medit"},
  MaxEvents |-> 1]

MCReminders ==
  [Day |-> 7, Window |-> 2, Gap |-> 3, Times |-> {3, 6}, LastDay |-> 2, MaxEvents |-> 2]

MCPush ==
  [Users |-> {"ann", "ben"}, Ops |-> {"o1", "o2"}, Puts |-> {"p1", "p2"}, MaxEndpoints |-> 2,
  MaxEvents |-> 1, MaxMoves |-> 6]

MCHabitForm ==
  [Texts |-> {"a", "b"}, MaxPresses |-> 2, MaxEdits |-> 1, MaxEvents |-> 1]

MCWizards ==
  [Habits |-> {"h1", "h2"}, Rewards |-> {"r1", "r2"}, Cap |-> 2, MaxTarget |-> 8,
  DefaultTarget |-> 6, Stride |-> 5, MaxSends |-> 2, MaxEdits |-> 3, MaxEvents |-> 1]

MCLinks ==
  [Ids |-> {m1, m2}, Habits |-> {"h1"}, MaxCalls |-> 2, MaxTaps |-> 2, MaxEvents |-> 1]

MCPromiseCard ==
  [MaxFlows |-> 3, MaxTaps |-> 4, MaxEvents |-> 1]

MCInbox ==
  [First |-> 2, Most |-> 3, PageSize |-> 1, MaxCalls |-> 2, MaxTaps |-> 2, MaxEvents |-> 2]

MCCircle ==
  [People |-> {"p1", "p2"}, Native |-> TRUE, MaxCalls |-> 2, MaxTaps |-> 3, MaxEvents |-> 1,
  MaxMoves |-> 3]

MCInvites ==
  [Users |-> {"ann", "ben"}, Ids |-> {"i1", "i2"}, Requests |-> {m1, m2}, Cap |-> 1, TTL |-> 1,
  Period |-> 2, MaxDay |-> 1, MaxCalls |-> 4]

MCConsistency ==
  [WindowDays |-> 5, Week |-> 3, CustomDays |-> {{0, 2}}, LastDay |-> 5]

MCFeed ==
  [Limit |-> 1, BatchSize |-> 2, MaxIterations |-> 2, MaxFirst |-> 3, MaxPages |-> 3,
  MaxEvents |-> 2]

MCCelebration ==
  [Users |-> {"ann", "ben"}, Ids |-> {m1, m2}, MaxTaps |-> 3, MaxEvents |-> 2]

MCLimiter ==
  [Limit |-> [auth |-> 1, general |-> 2], Addresses |-> {"x"}, Requests |-> {m1, m2}, Window |-> 2,
  ScavengeInterval |-> 3, MaxClock |-> 4, MaxCome |-> 5]

MCInit ==
  /\ Init
  /\ which = "completions" => \A x \in G!C!Cells : v8[x] = "none"
  /\ which = "links" => v9 = TRUE /\ \E x \in v8 : v8 = {x}
  /\ which = "circle" => v7["p1"].kind = "in" /\ v7["p2"].kind \in {"in", "out"}
  /\ which = "feed" => v8 = "public" /\ v3 = 3 /\ \A r \in v6 : r.kind # "other"

MCSpec == MCInit /\ [][Next]_vars
=============================================================================
