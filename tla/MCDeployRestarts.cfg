\* A deployment and a command that share a service but no concurrency group.
CONSTANTS
  MaxPushes = 1
  MaxCommands = 1
SPECIFICATION Spec
INVARIANTS
  StoppedStaysStopped
\* The pushes and commands of the run may be used up.
CHECK_DEADLOCK FALSE
