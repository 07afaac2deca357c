CONSTANTS
  M = 2
  Values = {"a", "b"}
  BadValues = {"x"}
  Lengths = {2}
  RowLengths = {}
  MaxRows = 2
  MaxParams = 3
  Ops = {"tuple"}
  Faults = {}
SPECIFICATION Spec
PROPERTIES SendsTuple
CHECK_DEADLOCK FALSE
