---- MODULE ConversationStore ----
(****************************************************************************)
(* InMemoryConversationStore of conversation.py: the variables of the store *)
(* and its two operations, each one critical section of the store's lock    *)
(* and so one atomic step.  StoreSession gives the store alone a            *)
(* specification; ChatService composes it with the requests that use it.    *)
(****************************************************************************)
EXTENDS Integers, OrderedDicts

CONSTANTS
  Ids,               \* conversation identifiers
  Ttl,               \* ttl_seconds
  MaxConversations,  \* max_conversations
  MaxTime            \* bound of the clock

\* The bounds the constructor accepts; any other raises a ValueError.
ASSUME StoreAssumption ==
  /\ Ttl \in Nat \ {0}
  /\ MaxConversations \in Nat \ {0}
  /\ MaxTime \in Nat

VARIABLES
  order,  \* keys of _conversations, least recently used first
  entry,  \* id |-> _Entry: the messages and when they were last touched
  now     \* the monotonic clock

storeVars == <<order, entry, now>>

StoreInit == order = <<>> /\ entry = <<>> /\ now = 0

\* Mutant: a conversation untouched for exactly the timeout is still alive.
OverdueLate == {id \in ToSet(order) : entry[id].touchedAt < now - Ttl}

Overdue == {id \in ToSet(order) : entry[id].touchedAt <= now - Ttl}

\* The order _expire leaves: it stops at the first key that is not overdue.
Live == DropLeading(order, Overdue)

\* What load(id) returns: the messages, or those of a new conversation.
Loaded(id) == IF id \in ToSet(Live) THEN entry[id].messages ELSE <<>>

\* The order and the entries become these; e is the entry of id.
Keep(kept, id, e) ==
  /\ order' = kept
  /\ entry' = [k \in ToSet(kept) |-> IF k = id THEN e ELSE entry[k]]

\* Mutants of load: without move_to_end, and without touched_at.
LoadKnownInPlace(id) ==
  /\ id \in ToSet(Live)
  /\ Keep(Live, id, [entry[id] EXCEPT !.touchedAt = now])

LoadKnownUntouched(id) ==
  /\ id \in ToSet(Live)
  /\ Keep(MoveToEnd(Live, id), id, entry[id])

LoadKnown(id) ==
  /\ id \in ToSet(Live)
  /\ Keep(MoveToEnd(Live, id), id, [entry[id] EXCEPT !.touchedAt = now])

LoadUnknown(id) ==
  /\ id \notin ToSet(Live)
  /\ order' = Live
  /\ entry' = [k \in ToSet(Live) |-> entry[k]]

Load(id) == LoadKnown(id) \/ LoadUnknown(id)

\* Mutant: without the loop that evicts surplus conversations.
SaveUnbounded(id, messages) ==
  Keep(MoveToEnd(Live, id), id, [messages |-> messages, touchedAt |-> now])

Save(id, messages) ==
  Keep(KeepNewest(MoveToEnd(Live, id), MaxConversations), id,
       [messages |-> messages, touchedAt |-> now])

Tick == now < MaxTime /\ now' = now + 1 /\ UNCHANGED <<order, entry>>
====
