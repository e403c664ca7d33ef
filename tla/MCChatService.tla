---- MODULE MCChatService ----
EXTENDS ChatService

\* The requests, and the conversations, are interchangeable.
Symmetry == Permutations(Requests) \cup Permutations(Ids)
====
