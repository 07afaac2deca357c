CONSTANTS
  M = 2
  Values = {a, b}
  BadValues = {x}
  Lengths = {2, 3}
  RowLengths = {1, 2}
  MaxRows = 2
  MaxParams = 4
  Ops = {"bind_param", "tuple", "many", "free", "execute"}
  Faults = {"describe", "execute", "chain", "put_data"}
SPECIFICATION Spec
SYMMETRY Symmetry
INVARIANTS TypeOK RowsAccounted
PROPERTIES CountMeansAll SendsIfComplete SendsDeclared
CHECK_DEADLOCK FALSE
