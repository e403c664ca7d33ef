\* Deployments and commands at the same time, any of which may fail.
CONSTANTS
  MaxPushes = 3
  MaxCommands = 4
SPECIFICATION Spec
INVARIANTS
  TypeOK
  OneTask
  CountRestored
  ChromaBelowWeb
PROPERTIES
  NeverOlder
\* The pushes and commands of the run may be used up.
CHECK_DEADLOCK FALSE
