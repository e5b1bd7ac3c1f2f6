\* Two engines that read the challenge before either completed it, and two claims.
SPECIFICATION Spec
CONSTANTS
  Users = {"alice", "bob"}
  Habits = {"run"}
  Requests = {r1, r2}
  Owner <- MCOwner
  Offers <- OneShotOffers
  Filters = {}
  MaxLevel = 0
  Backdate = 1
  Skew = 0
  MaxDay = 0
  MaxRows = 1
  MaxClaims = 2
SYMMETRY RequestSymmetry
INVARIANTS ClaimedOnce
CHECK_DEADLOCK FALSE
