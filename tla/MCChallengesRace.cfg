\* Two requests in flight, two creators, a challenge that lapses and is created again.
SPECIFICATION Spec
CONSTANTS
  Users = {"alice", "bob", "carol"}
  Habits = {"run"}
  Requests = {r1, r2}
  Owner <- MCOwner
  Offers <- RacingOffers
  Filters = {}
  MaxLevel = 0
  Backdate = 0
  Skew = 0
  MaxDay = 1
  MaxRows = 2
  MaxClaims = 1
SYMMETRY RequestSymmetry
INVARIANTS MilestoneHonoured CompletedIsAnnounced OneActivePerTriple RewardIsSafe
CHECK_DEADLOCK FALSE
