CONSTANTS
  Branches = {b1, b2, b3}
  Concurrent = TRUE
  Abandons = FALSE
  Cancels = TRUE
  Faults = {"connect", "execute", "commit", "rollback"}
SPECIFICATION Spec
INVARIANTS TypeOK TruthfulEnd
PROPERTIES AllOrNothing Released
CHECK_DEADLOCK FALSE
