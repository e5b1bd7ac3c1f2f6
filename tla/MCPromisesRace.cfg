\* Two requests in flight on one habit.
SPECIFICATION MCSpec
CONSTANTS
  Habits = {h1}
  NoHabit = NoHabit
  Requests = {r1, r2}
  Skew = 1
  MaxDay = 2
  MaxRows = 2
SYMMETRY RequestSymmetry
INVARIANTS TypeOK JudgedWhenOver PromiseHasHabit InStepWhenAlone
PROPERTIES LifeSpec
CHECK_DEADLOCK FALSE
