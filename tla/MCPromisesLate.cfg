\* A promise made while its habit is archived.
SPECIFICATION MCSpec
CONSTANTS
  Habits = {h1}
  NoHabit = NoHabit
  Requests = {r1, r2}
  Skew = 1
  MaxDay = 0
  MaxRows = 2
SYMMETRY RequestSymmetry
INVARIANTS ArchivedHoldsNoPromise
CHECK_DEADLOCK FALSE
