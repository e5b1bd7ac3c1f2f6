\* Two calls in flight on the web, reloads, lost messages and another tab with its own user.
SPECIFICATION HereSpec
CONSTANTS
  Users = {ann, bob}
  NoUser = NoUser
  Here = ann
  Requests = {q1, q2}
  Web = TRUE
  MAX_RETRIES = 1
  MaxTokens = 2
ACTION_CONSTRAINT Bound
PROPERTIES CallsSettle
INVARIANTS TypeOK WriteOnce WaitersHaveRefresh SessionRestorable
CHECK_DEADLOCK FALSE
