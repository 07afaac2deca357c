CONSTANTS
  Threads = {t1, t2}
  Conns = {c1, c2}
  Objects = {o1, o2}
  Handles = {h1, h2, h3}
  NoConn = NoConn
  Invalid = Invalid
  Freed = Freed
  Unset = {Invalid}
  Faults = {"alloc", "options", "cli", "columns", "describe", "disconnect", "free"}
  Shared = FALSE
  Misuse = FALSE
  Recycles = FALSE
SPECIFICATION Spec
SYMMETRY Symmetry
INVARIANTS TypeOK KeepsItsStatement OneOwner 
PROPERTIES NoneLeftBehind
CHECK_DEADLOCK FALSE
