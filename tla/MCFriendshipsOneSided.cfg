\* A request that read before an accept committed.
SPECIFICATION MCSpec
CONSTANTS
  ann = ann
  ben = ben
  cat = cat
  Users = {ann, ben}
  Rank <- MCRank
  Requests = {r1, r2}
  Ops = {"send", "accept", "decline", "remove"}
  MaxRows = 4
SYMMETRY RequestSymmetry
INVARIANTS Symmetric
CHECK_DEADLOCK FALSE
