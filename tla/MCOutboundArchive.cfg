\* Two requests: passes that fail, die, overlap and are repeated.
SPECIFICATION Spec
CONSTANTS
  Workers = {w1, w2}
  MaxPasses = 3
  MaxFailures = 2
SYMMETRY Requesters
INVARIANTS TypeOK ArchivedIsComplete  RawKeyIsThere
CHECK_DEADLOCK FALSE
