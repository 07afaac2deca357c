CONSTANTS
  Cursors = {"c1", "c2"}
  Overlap = FALSE
  Faults = {"free", "prepare", "execute", "describe", "attr", "batch", "commit", "count"}
SPECIFICATION Spec
INVARIANTS TypeOK ModeRestored NothingUndone
PROPERTIES OnlyCommitCommits
CHECK_DEADLOCK FALSE
