CONSTANTS
  N = 6
  Bad = {}
  Gone = {5}
  Lobs = {TRUE, FALSE}
  Default = 4
  SafeMax = 3
  Sizes = {1, 2, 4}
  Ops = {"many", "all", "one", "position", "tuple_position", "row", "row_position", "free", "execute"}
  Faults = {"attr", "data"}
SPECIFICATION Spec
INVARIANTS SingleRowMode
PROPERTIES RowsInOrder
CHECK_DEADLOCK FALSE
