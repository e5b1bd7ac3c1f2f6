\* Two engines with two rows to write, under fair scheduling and fair lock queues.
SPECIFICATION FairSpec
CONSTANTS
  Users = {"alice", "bob", "carol"}
  Habits = {"run"}
  Requests = {r1, r2}
  Owner <- MCOwner
  Offers <- SteadyOffers
  Filters = {}
  MaxLevel = 0
  Backdate = 0
  Skew = 1
  MaxDay = 0
  MaxRows = 2
  MaxClaims = 0
PROPERTIES RequestsFinish
CHECK_DEADLOCK FALSE
