CONSTANTS
  N = 5
  Bad = {2, 4}
  Gone = {}
  Lobs = {TRUE, FALSE}
  Default = 3
  SafeMax = 0
  Sizes = {1, 2, 4}
  Ops = {"many", "all", "one", "position", "tuple_position", "row", "row_position", "option", "free", "execute"}
  Faults = {"attr", "resize", "restore", "bind", "data"}
SPECIFICATION Spec
INVARIANTS TypeOK
PROPERTIES CallsEnd
CHECK_DEADLOCK FALSE
