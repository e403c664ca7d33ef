---- MODULE AbstractStore ----
(****************************************************************************)
(* What a conversation store promises its callers, without the order in     *)
(* which it keeps anything: a conversation used within the idle timeout is  *)
(* answered as it was last written, an older one is unknown, and only a     *)
(* write to a full store forgets a live conversation, one of those unused   *)
(* for longest and never the one written.                                   *)
(****************************************************************************)
EXTENDS Integers, FiniteSets

CONSTANTS Ids, Histories, Ttl, MaxConversations, MaxTime

VARIABLES
  known,  \* id |-> the messages last written and the time of the last use
  time,
  reply   \* what the last operation answered

abstractVars == <<known, time, reply>>

Fresh == {id \in DOMAIN known : known[id].touchedAt > time - Ttl}

Init == known = <<>> /\ time = 0 /\ reply = <<>>

Read(id) ==
  /\ reply' = IF id \in Fresh THEN known[id].messages ELSE <<>>
  /\ known' = [k \in Fresh |-> IF k = id THEN [known[k] EXCEPT !.touchedAt = time]
                                         ELSE known[k]]
  /\ UNCHANGED time

Write(id, messages) ==
  \E kept \in SUBSET (Fresh \cup {id}) :
    /\ id \in kept
    /\ Cardinality(kept) <= MaxConversations
    /\ kept # Fresh \cup {id} => Cardinality(kept) = MaxConversations
    /\ \A k \in kept \ {id}, gone \in Fresh \ kept :
         known[gone].touchedAt <= known[k].touchedAt
    /\ known' = [k \in kept |->
         IF k = id THEN [messages |-> messages, touchedAt |-> time] ELSE known[k]]
    /\ reply' = <<>>
    /\ UNCHANGED time

Pass == time < MaxTime /\ time' = time + 1 /\ UNCHANGED <<known, reply>>

Next == \/ \E id \in Ids : Read(id)
        \/ \E id \in Ids, messages \in Histories : Write(id, messages)
        \/ Pass

Spec == Init /\ [][Next]_abstractVars
====
