---- MODULE StoreSession ----
(****************************************************************************)
(* The conversation store under callers that load and save in any order:    *)
(* every sequence of the calls that the request handlers, the engine and    *)
(* the command line can make of it.                                         *)
(****************************************************************************)
EXTENDS ConversationStore

CONSTANT Histories  \* the message lists callers save

VARIABLE reply  \* what the last load returned; <<>> after a save

vars == <<order, entry, now, reply>>

Init == StoreInit /\ reply = <<>>

DoLoad(id) == Load(id) /\ reply' = Loaded(id) /\ UNCHANGED now

DoSave(id, messages) == Save(id, messages) /\ reply' = <<>> /\ UNCHANGED now

PassTime == Tick /\ UNCHANGED reply

Next == \/ \E id \in Ids : DoLoad(id)
        \/ \E id \in Ids, messages \in Histories : DoSave(id, messages)
        \/ PassTime

Spec == Init /\ [][Next]_vars

Entries == [messages : Histories, touchedAt : Nat]

\* The store is an ordered dictionary of at most max_conversations entries,
\* none touched in the future (conversation.py, _conversations).
TypeOK ==
  /\ order \in Orders(Ids)
  /\ Len(order) <= MaxConversations
  /\ entry \in [ToSet(order) -> Entries]
  /\ now \in Nat
  /\ \A id \in ToSet(order) : entry[id].touchedAt <= now

\* The order of the dictionary is the order of last use.  _expire stops at the
\* first entry that is still alive and save drops from the front, so both are
\* right only as long as every access that sets touched_at also moves its
\* entry to the end.
OldestFirst ==
  \A a, b \in ToSet(order) : Precedes(order, a, b) => entry[a].touchedAt <= entry[b].touchedAt

\* No access leaves an overdue conversation in memory: after any load or save
\* every entry was touched less than ttl_seconds ago (the class comment limits
\* "how long conversation content exists at all").
AccessPurges ==
  [][now' = now => \A id \in ToSet(order') : entry'[id].touchedAt > now - Ttl]_vars

Promise == INSTANCE AbstractStore WITH known <- entry, time <- now

\* The ordered dictionary with its two loops keeps the promise of a store that
\* tracks the last use of each conversation as a set.
KeepsPromise == Promise!Spec
====
