---- MODULE MCChatClient ----
EXTENDS ChatClient

CONSTANTS c1, c2, r1, r2, r3, p1, p2

MCIds == {c1, c2}
MCRequests == {r1, r2, r3}
MCPages == {p1, p2}

\* A page with two questions for one conversation, and one with a question for
\* the other, whose turn evicts the first from a store of one.
MCInit ==
  /\ ClientInit
  /\ conv = [r \in Requests |-> IF r = r3 THEN c2 ELSE c1]
  /\ shows = [p \in Pages |-> IF p = p2 THEN c2 ELSE c1]

\* Bounds: a conversation times out or the task is replaced, but not both; and
\* only the first page is cut off from its requests.
Bounded == restarts' + now' <= 1 /\ r3 \notin cut'

MCSpec ==
  /\ MCInit /\ [][ClientNext /\ Bounded]_clientVars
  /\ WF_clientVars(Progress)
====
