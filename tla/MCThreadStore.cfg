SPECIFICATION FairSpec
CONSTANTS
  Messages = {m1, m2}
  Inbound = {m1}
  Threads = {t1, t2}
  NoThread = none
  Cron = cron
  Console = console
  MessageRetention = 1
  TrashRetention = 1
  BatchLimit = 1
  MaxEdits = 1
  MaxFailures = 1
INVARIANTS SummaryIsTrue
PROPERTIES ImplementsMessageStore TrashIsPurged
CHECK_DEADLOCK FALSE
