---- MODULE ConversationLocks ----
(****************************************************************************)
(* _ConversationLocks of webapp.py: a bounded registry of the locks around  *)
(* the load-modify-save cycle.  A lock object is named by the request whose *)
(* call of get created it, since a call creates at most one; the registry   *)
(* may forget a lock that requests still hold or wait for.                  *)
(****************************************************************************)
EXTENDS Integers, OrderedDicts

CONSTANTS
  Requests,  \* the message requests, and so also the lock objects
  MaxLocks,  \* max_locks
  Nobody

ASSUME LocksAssumption == MaxLocks \in Nat \ {0} /\ Nobody \notin Requests

VARIABLES
  lockOrder,  \* keys of _locks, least recently used first
  registry,   \* conversation |-> its lock
  holder      \* lock |-> the request that holds it

locksVars == <<lockOrder, registry, holder>>

LocksInit ==
  /\ lockOrder = <<>>
  /\ registry = <<>>
  /\ holder = [l \in Requests |-> Nobody]

\* Mutant: every call creates a lock of its own.
LockForOnlyMe(id, r) == r

\* The lock get(id) returns to request r: the registered one, or a new one.
LockFor(id, r) == IF id \in ToSet(lockOrder) THEN registry[id] ELSE r

GetLock(id, r) ==
  LET kept == KeepNewest(MoveToEnd(lockOrder, id), MaxLocks)
  IN  /\ lockOrder' = kept
      /\ registry' = [k \in ToSet(kept) |-> IF k = id THEN LockFor(id, r)
                                                      ELSE registry[k]]
      /\ UNCHANGED holder

\* Mutant: the result of acquire is ignored.
AcquireRegardless(l, r) ==
  /\ holder' = [holder EXCEPT ![l] = r]
  /\ UNCHANGED <<lockOrder, registry>>

AcquireLock(l, r) ==
  /\ holder[l] = Nobody
  /\ holder' = [holder EXCEPT ![l] = r]
  /\ UNCHANGED <<lockOrder, registry>>

ReleaseLock(l) ==
  /\ holder' = [holder EXCEPT ![l] = Nobody]
  /\ UNCHANGED <<lockOrder, registry>>
====
