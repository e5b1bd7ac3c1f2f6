\* Three requests, every operation, two users.
SPECIFICATION MCSpec
CONSTANTS
  ann = ann
  ben = ben
  cat = cat
  Users = {ann, ben}
  Rank <- MCRank
  Requests = {r1, r2, r3}
  Ops = {"send", "accept", "decline", "remove", "ensure", "delete"}
  MaxRows = 4
SYMMETRY RequestSymmetry
INVARIANTS TypeOK BothWilling ClaimsNeverDeadlock OrderlyWhenAlone
PROPERTIES BeginsMutual
CHECK_DEADLOCK FALSE
