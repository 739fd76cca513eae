SPECIFICATION ConsoleSpec
CONSTANTS
  Threads <- MCThreads
  Folders = {"inbox", "trash"}
  PageLimit = 1
  MaxArrivals = 3
  MessageLimit = 1
  Inbox = "inbox"
  a = a
  b = b
  Texts <- MCTexts
  MaxKeys = 2
  MaxClicks = 3
  MaxFaults = 1
CONSTRAINT MCBudget
SYMMETRY MCSymmetry
INVARIANTS ListIsExact  KeysFollowContent
CHECK_DEADLOCK FALSE
