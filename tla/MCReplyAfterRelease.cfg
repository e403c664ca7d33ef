\* Two conversations and a store of one: the turn of one evicts the other.
CONSTANTS
  Ids = {c1, c2}
  Requests = {r1, r2}
  Nobody = Nobody
  NoBuilder = NoBuilder
  Ttl = 1
  MaxConversations = 1
  MaxTime = 0
  MaxLocks = 2
  Threads = 2
  MaxRestarts = 0
SPECIFICATION Spec
INVARIANTS
  ReplyIncludesTurn
CHECK_DEADLOCK FALSE
SYMMETRY Symmetry
