CONSTANTS
  Functions <- AllFunctions
  Shared = {"env"}
  Objects = {"stmt"}
  MaxRecord = 2
SPECIFICATION Spec
INVARIANTS TypeOK OwnText Noticed Shown Paired
CHECK_DEADLOCK FALSE
