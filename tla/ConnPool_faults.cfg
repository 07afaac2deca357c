SPECIFICATION Spec
CONSTANTS
  Threads = {t1, t2}
  Handles = {h1, h2}
  Dbcs = {d1, d2}
  Creds <- OneRequest
  NoHandle = NoHandle
  NoDbc = NoDbc
  Faults = {"alloc", "connect", "options", "info", "attr"}
  Overlap = TRUE
SYMMETRY Symmetry
INVARIANT ThreadIsolation
INVARIANT NoForeignCommit
INVARIANT ActiveHasDbc
CHECK_DEADLOCK FALSE
