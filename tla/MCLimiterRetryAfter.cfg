\* One client that uses up both of its budgets.
CONSTANTS
  Clients = {a}
  Threads = {t1}
  PerMinute = 2
  PerHour = 3
  MaxClients = 1
  Second = 2
  Minute = 4
  Hour = 12
  MaxLag = 0
  MaxTime = 14
  Idle = Idle
SPECIFICATION Spec
PROPERTIES
  RetryAfterHonoured
SYMMETRY Symmetry
\* The clock stops at MaxTime, but requests never stop coming.
CHECK_DEADLOCK TRUE
