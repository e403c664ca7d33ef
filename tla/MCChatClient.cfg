\* Fewer threads than requests, a store too small for the conversations and a
\* registry that is not.
CONSTANTS
  c1 = c1
  c2 = c2
  r1 = r1
  r2 = r2
  r3 = r3
  p1 = p1
  p2 = p2
  Ids <- MCIds
  Requests <- MCRequests
  Pages <- MCPages
  Nobody = Nobody
  NoBuilder = NoBuilder
  Ttl = 1
  MaxConversations = 1
  MaxTime = 1
  MaxLocks = 2
  Threads = 2
  MaxRestarts = 1
SPECIFICATION MCSpec
INVARIANTS
  TypeOK
  TurnsSerialized
  WholeTurns
  OnlyAnsweredStored
  BuildsOnce
  ShownIsStored
  UnseenWasCutOff
  ReplyIsComplete
PROPERTIES
  HistoryGrows
  EveryRequestAnswered
  LocksReleased
  FormComesBack
\* Every request may have been answered, or lost.
CHECK_DEADLOCK FALSE
