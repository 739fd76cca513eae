SPECIFICATION Spec
CONSTANTS
  Isolates = {i1, i2}
  RuleIds = {1, 2, 3}
  Addresses = {"info", "sales"}
  PlanOrder <- MCOrder
  RowOrder <- MCOrder
  NoAddress = "none"
  PageSize = 1
  MaxPages = 2
  Counted = TRUE
  MaxRules = 2
  MaxEdits = 1
  MaxSyncs = 2
INVARIANTS PlanIsOfOneMoment LastAnswerIsTrue
PROPERTIES ByHandIsLeftAlone
CHECK_DEADLOCK FALSE
