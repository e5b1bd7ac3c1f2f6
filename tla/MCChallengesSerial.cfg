\* One request at a time, every milestone type: the whole life of a challenge.
SPECIFICATION Spec
CONSTANTS
  Users = {"alice", "bob"}
  Habits = {"run"}
  Requests = {r1}
  Owner <- MCOwner
  Offers <- AllOffers
  Filters = {"Active", "Expired"}
  MaxLevel = 2
  Backdate = 1
  Skew = 0
  MaxDay = 2
  MaxRows = 1
  MaxClaims = 1
INVARIANTS TypeOK DatesWereLogged ListedAsFiltered
PROPERTIES LifeSpec
CHECK_DEADLOCK FALSE
