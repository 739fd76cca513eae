SPECIFICATION Spec
CONSTANTS
  Requests = {r1, r2}
  Passwords = {old, new}
  Ips = {ip}
  Email = email
  Limit <- MCLimit
  Cap = 1
  NoAdmin = NoAdmin
  MaxSessions = 3
  MaxSalt = 3
  MaxClock = 1
  MaxCalls = 4
INVARIANTS PasswordIsTheChosenOne StaleSessionsRaced LimitsHold
CHECK_DEADLOCK FALSE
