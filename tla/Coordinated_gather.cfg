CONSTANTS
  Branches = {b1, b2}
  Concurrent = TRUE
  Abandons = FALSE
  Cancels = FALSE
  Faults = {"execute"}
SPECIFICATION Spec
INVARIANTS RolledBackOnException
CHECK_DEADLOCK FALSE
