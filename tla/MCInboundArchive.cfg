\* Duplicate deliveries, two at a time, with failing calls and evictions.
SPECIFICATION FairSpec
CONSTANTS
  Workers = {w1, w2}
  Chunks = 2
  MaxDeliveries = 3
  MaxFailures = 3
INVARIANTS TypeOK RawIsThere ArchivedIsComplete NothingLeftBehind
PROPERTIES TakenIsArchived
CHECK_DEADLOCK FALSE
