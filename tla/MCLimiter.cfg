\* More clients than fit, two handlers that use their readings out of order, and
\* budgets that both run out.
CONSTANTS
  Clients = {a, b, c}
  Threads = {t1, t2}
  PerMinute = 2
  PerHour = 3
  MaxClients = 2
  Second = 2
  Minute = 2
  Hour = 6
  MaxLag = 1
  MaxTime = 7
  Idle = Idle
SPECIFICATION Spec
INVARIANTS
  TypeOK
  MinuteBudget
  HourBudgetLessLag
PROPERTIES
  RefusedOnlyOverBudget
  DeadlineHolds
  LiveClientsKept
CONSTRAINT FewAdmitted
SYMMETRY Symmetry
\* The clock stops at MaxTime, but requests never stop coming.
CHECK_DEADLOCK TRUE
