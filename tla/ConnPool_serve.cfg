SPECIFICATION Spec
CONSTANTS
  Threads = {t1}
  Handles = {h1, h2}
  Dbcs = {d1, d2}
  Creds <- OneRequest
  NoHandle = NoHandle
  NoDbc = NoDbc
  Faults = {"connect"}
  Overlap = FALSE
INVARIANT HandlesLive
CHECK_DEADLOCK FALSE
