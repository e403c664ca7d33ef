---- MODULE MCStoreSession ----
EXTENDS StoreSession

\* Conversations and the message lists saved under them are interchangeable.
Symmetry == Permutations(Ids) \cup Permutations(Histories)

\* More conversations than the store holds, and a clock that runs far enough
\* for a conversation to expire, come back and expire once more.
ASSUME Cardinality(Ids) > MaxConversations /\ MaxTime >= 2 * Ttl + 1
====
