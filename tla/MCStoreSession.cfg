CONSTANTS
  Ids = {c1, c2, c3, c4}
  Histories = {h1, h2}
  Ttl = 3
  MaxConversations = 3
  MaxTime = 7
SPECIFICATION Spec
INVARIANTS
  TypeOK
PROPERTIES
  AccessPurges
  KeepsPromise
\* The clock stops at MaxTime but the calls never do.
CHECK_DEADLOCK TRUE
SYMMETRY Symmetry
