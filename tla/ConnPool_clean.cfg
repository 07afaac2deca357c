SPECIFICATION Spec
CONSTANTS
  Threads = {t1, t2}
  Handles = {h1, h2}
  Dbcs = {d1, d2, d3}
  Creds <- OneRequest
  NoHandle = NoHandle
  NoDbc = NoDbc
  Faults = {"connect", "alloc", "free"}
  Overlap = FALSE
SYMMETRY Symmetry
INVARIANT TypeOK
INVARIANT NoOrphan
INVARIANT AutocommitTruth
CHECK_DEADLOCK FALSE
