---- MODULE StoreProofs ----
(****************************************************************************)
(* The conversation store stays a bounded ordered dictionary whose order is *)
(* the order of last use, and so every access purges all that is overdue.   *)
(* The order is the strengthening the purge needs: _expire looks no further *)
(* than the first entry that is alive.  The order also makes the store      *)
(* implement AbstractStore: the conversations in Live are those that are    *)
(* Fresh there, and the eviction drops the ones unused for longest.         *)
(****************************************************************************)
EXTENDS StoreSession, OrderedDictLemmas

IInv == TypeOK /\ OldestFirst

\* What every access keeps: the conversations in Live, all used within Ttl.
LEMMA LiveIsFresh ==
  ASSUME IInv
  PROVE  /\ Live \in Orders(Ids) /\ Len(Live) <= MaxConversations
         /\ ToSet(Live) \subseteq ToSet(order)
         /\ \A a, b : Precedes(Live, a, b) => Precedes(order, a, b)
         /\ \A id \in ToSet(Live) : entry[id].touchedAt > now - Ttl
<1> USE DEF IInv, TypeOK
<1>0. order \in Orders(Ids) /\ Len(order) \in Nat /\ MaxConversations \in Nat /\ Ttl \in Nat
  BY OrderElements, StoreAssumption
<1>1. /\ Live \in Orders(Ids) /\ Len(Live) <= Len(order)
      /\ ToSet(Live) \subseteq ToSet(order)
      /\ \A a, b : Precedes(Live, a, b) => Precedes(order, a, b)
  BY <1>0, DropLeadingOrder DEF Live
<1>2. Len(Live) \in Nat
  BY <1>1, OrderElements
<1>3. \A id \in ToSet(order) : entry[id].touchedAt \in Nat
  BY DEF Entries
<1>4. \A id \in ToSet(Live) : entry[id].touchedAt > now - Ttl
  <2> DEFINE t == [id \in ToSet(order) |-> entry[id].touchedAt]
             c == now - Ttl
  <2>1. /\ c \in Int /\ \A id \in ToSet(order) : t[id] = entry[id].touchedAt /\ t[id] \in Int
        /\ \A a, b \in ToSet(order) : Precedes(order, a, b) => t[a] <= t[b]
    BY <1>0, <1>3 DEF OldestFirst
  <2> HIDE DEF t, c
  <2>2. Overdue = {id \in ToSet(order) : t[id] <= c}
    BY <2>1 DEF Overdue, c
  <2>3. ToSet(Live) = {id \in ToSet(order) : t[id] > c}
    BY <1>0, <2>1, <2>2, DropLeadingByTime DEF Live
  <2> QED
    BY <2>1, <2>3 DEF c
<1>5. Len(Live) <= MaxConversations
  BY <1>0, <1>1, <1>2
<1> QED
  BY <1>1, <1>4, <1>5

\* An access that leaves live conversations as they stood, and of which the one
\* it touches now, if any, is the newest, keeps the invariant and purges.
LEMMA AccessKeepsOrder ==
  ASSUME IInv, NEW id \in Ids, NEW e \in Entries, e.touchedAt = now,
         NEW kept \in Orders(Ids), Len(kept) <= MaxConversations,
         \A k \in ToSet(kept) : k = id \/ k \in ToSet(Live),
         \A a, b : Precedes(kept, a, b) => a # id /\ (b = id \/ Precedes(order, a, b)),
         Keep(kept, id, e), now' = now
  PROVE  IInv' /\ \A k \in ToSet(order') : entry'[k].touchedAt > now - Ttl
<1> USE DEF IInv, TypeOK
<1>0. /\ now \in Nat /\ Ttl \in Nat \ {0}
      /\ \A k \in ToSet(order) : entry[k] \in Entries /\ entry[k].touchedAt \in Nat
      /\ \A k \in ToSet(order) : entry[k].touchedAt <= now
  BY StoreAssumption DEF Entries
<1>1. /\ order' = kept
      /\ entry' = [k \in ToSet(kept) |-> IF k = id THEN e ELSE entry[k]]
  BY DEF Keep
<1>2. /\ ToSet(Live) \subseteq ToSet(order)
      /\ \A k \in ToSet(Live) : entry[k].touchedAt > now - Ttl
  BY LiveIsFresh
<1>3. TypeOK'
  <2>1. \A k \in ToSet(kept) : k # id => k \in ToSet(order)
    BY <1>2
  <2>2. entry' \in [ToSet(kept) -> Entries]
    BY <1>0, <1>1, <2>1
  <2>3. \A k \in ToSet(kept) : entry'[k].touchedAt <= now
    <3> TAKE k \in ToSet(kept)
    <3>1. CASE k = id
      BY <3>1, <1>0, <1>1
    <3>2. CASE k # id
      BY <3>2, <1>0, <1>1, <2>1
    <3> QED
      BY <3>1, <3>2
  <2> QED
    BY <1>1, <2>2, <2>3
<1>4. OldestFirst'
  <2> SUFFICES ASSUME NEW a \in ToSet(kept), NEW b \in ToSet(kept), Precedes(kept, a, b)
               PROVE  entry'[a].touchedAt <= entry'[b].touchedAt
    BY <1>1 DEF OldestFirst
  <2>1. a # id /\ a \in ToSet(order) /\ entry'[a] = entry[a]
    BY <1>1, <1>2
  <2>2. CASE b = id
    BY <2>1, <2>2, <1>0, <1>1
  <2>3. CASE b # id
    <3>1. b \in ToSet(order) /\ entry'[b] = entry[b] /\ Precedes(order, a, b)
      BY <2>3, <1>1, <1>2
    <3> QED
      BY <3>1, <2>1 DEF OldestFirst
  <2> QED
    BY <2>2, <2>3
<1>5. ASSUME NEW k \in ToSet(order')
      PROVE  entry'[k].touchedAt > now - Ttl
  <2>1. CASE k = id
    BY <2>1, <1>0, <1>1
  <2>2. CASE k # id
    BY <2>2, <1>1, <1>2
  <2> QED
    BY <2>1, <2>2
<1> QED
  BY <1>3, <1>4, <1>5

\* The invariant over one step, and what that step purges.
LEMMA StepKeepsOrder ==
  ASSUME IInv, [Next]_vars
  PROVE  /\ IInv'
         /\ now' = now /\ Next => \A k \in ToSet(order') : entry'[k].touchedAt > now - Ttl
<1> USE DEF IInv, TypeOK
<1>0. /\ now \in Nat /\ MaxConversations \in Nat \ {0}
      /\ \A k \in ToSet(order) : entry[k] \in Entries
  BY StoreAssumption
<1>1. /\ Live \in Orders(Ids) /\ Len(Live) <= MaxConversations
      /\ ToSet(Live) \subseteq ToSet(order)
      /\ \A a, b : Precedes(Live, a, b) => Precedes(order, a, b)
      /\ \A k \in ToSet(Live) : entry[k].touchedAt > now - Ttl
  BY LiveIsFresh
<1>2. ASSUME NEW id \in Ids
      PROVE  LET moved == MoveToEnd(Live, id)
             IN  /\ moved \in Orders(Ids)
                 /\ Len(moved) = IF id \in ToSet(Live) THEN Len(Live) ELSE Len(Live) + 1
                 /\ ToSet(moved) = ToSet(Live) \cup {id}
                 /\ \A a, b : Precedes(moved, a, b) => a # id /\ (b = id \/ Precedes(order, a, b))
  BY <1>1, MoveToEndOrder
<1>3. ASSUME NEW id \in Ids, DoLoad(id)
      PROVE  IInv' /\ \A k \in ToSet(order') : entry'[k].touchedAt > now - Ttl
  <2>1. CASE LoadKnown(id)
    <3> DEFINE e == [entry[id] EXCEPT !.touchedAt = now]
    <3>1. id \in ToSet(Live) /\ Keep(MoveToEnd(Live, id), id, e) /\ now' = now
      BY <2>1, <1>3 DEF LoadKnown, DoLoad
    <3>2. e \in Entries /\ e.touchedAt = now
      BY <3>1, <1>0, <1>1 DEF Entries
    <3> HIDE DEF e
    <3> QED
      BY <3>1, <3>2, <1>1, <1>2, AccessKeepsOrder
  <2>2. CASE LoadUnknown(id)
    <3>1. /\ order' = Live /\ entry' = [k \in ToSet(Live) |-> entry[k]] /\ now' = now
      BY <2>2, <1>3 DEF LoadUnknown, DoLoad
    <3>2. TypeOK'
      BY <3>1, <1>0, <1>1
    <3>3. OldestFirst'
      BY <3>1, <1>1 DEF OldestFirst
    <3> QED
      BY <3>1, <3>2, <3>3, <1>1
  <2> QED
    BY <2>1, <2>2, <1>3 DEF DoLoad, Load
<1>4. ASSUME NEW id \in Ids, NEW messages \in Histories, DoSave(id, messages)
      PROVE  IInv' /\ \A k \in ToSet(order') : entry'[k].touchedAt > now - Ttl
  <2> DEFINE e == [messages |-> messages, touchedAt |-> now]
             kept == KeepNewest(MoveToEnd(Live, id), MaxConversations)
  <2>1. Keep(kept, id, e) /\ now' = now
    BY <1>4 DEF DoSave, Save
  <2>2. e \in Entries /\ e.touchedAt = now
    BY <1>0 DEF Entries
  <2>3. /\ kept \in Orders(Ids) /\ Len(kept) <= MaxConversations
        /\ ToSet(kept) \subseteq ToSet(MoveToEnd(Live, id))
        /\ \A a, b : Precedes(kept, a, b) => Precedes(MoveToEnd(Live, id), a, b)
    BY <1>0, <1>2, KeepNewestOrder
  <2> HIDE DEF e, kept
  <2> QED
    BY <2>1, <2>2, <2>3, <1>2, AccessKeepsOrder
<1>5. ASSUME PassTime
      PROVE  IInv' /\ now' # now
  BY <1>0, <1>5 DEF PassTime, Tick, OldestFirst, Entries
<1>6. ASSUME UNCHANGED vars
      PROVE  IInv'
  BY <1>6 DEF vars, OldestFirst
<1> QED
  BY <1>3, <1>4, <1>5, <1>6 DEF Next

\* The order of the dictionary is the order of last use, in every state
\* (InMemoryConversationStore).
THEOREM OldestFirstAlways == Spec => []IInv
<1>1. Init => IInv
  BY EmptyOrder, StoreAssumption DEF Init, StoreInit, IInv, TypeOK, OldestFirst
<1>2. IInv /\ [Next]_vars => IInv'
  BY StepKeepsOrder
<1> QED
  BY <1>1, <1>2, PTL DEF Spec

\* The store is a bounded ordered dictionary, whatever its callers do.
THEOREM TypeCorrect == Spec => []TypeOK
<1>1. IInv => TypeOK
  BY DEF IInv
<1> QED
  BY <1>1, OldestFirstAlways, PTL

\* The order alone: the property that _expire and the eviction rely on.
THEOREM OldestFirstInvariant == Spec => []OldestFirst
<1>1. IInv => OldestFirst
  BY DEF IInv
<1> QED
  BY <1>1, OldestFirstAlways, PTL

\* Every load and save purges all conversations that are overdue.
THEOREM EveryAccessPurges == Spec => AccessPurges
<1>1. IInv /\ [Next]_vars =>
        [now' = now => \A id \in ToSet(order') : entry'[id].touchedAt > now - Ttl]_vars
  BY StepKeepsOrder
<1> QED
  BY <1>1, OldestFirstAlways, PTL DEF Spec, AccessPurges
----------------------------------------------------------------------------
(****************************************************************************)
(* The store implements AbstractStore.                                      *)
(****************************************************************************)

\* _expire leaves exactly the conversations of which the promise speaks.
LEMMA LiveIsAllFresh ==
  ASSUME IInv
  PROVE  ToSet(Live) = Promise!Fresh
<1>1. /\ order \in Orders(Ids) /\ DOMAIN entry = ToSet(order)
      /\ now \in Nat /\ Ttl \in Nat
      /\ \A id \in ToSet(order) : entry[id].touchedAt \in Nat
  BY StoreAssumption DEF IInv, TypeOK, Entries
<1>2. /\ ToSet(Live) \subseteq ToSet(order)
      /\ \A id \in ToSet(Live) : entry[id].touchedAt > now - Ttl
  BY LiveIsFresh
<1>3. \A id \in ToSet(order) : id \notin Overdue => id \in ToSet(Live)
  BY <1>1, DropLeadingOrder DEF Live
<1>4. \A id \in ToSet(order) : id \notin Overdue <=> entry[id].touchedAt > now - Ttl
  BY <1>1 DEF Overdue
<1> QED
  BY <1>1, <1>2, <1>3, <1>4 DEF Promise!Fresh

\* A load answers and touches as the promise reads.
LEMMA LoadIsRead ==
  ASSUME IInv, NEW id \in Ids, DoLoad(id)
  PROVE  Promise!Read(id)
<1>1. ToSet(Live) = Promise!Fresh
  BY LiveIsAllFresh
<1>2. reply' = (IF id \in ToSet(Live) THEN entry[id].messages ELSE <<>>) /\ now' = now
  BY DEF DoLoad, Loaded
<1>3. entry' = [k \in ToSet(Live) |-> IF k = id THEN [entry[k] EXCEPT !.touchedAt = now]
                                               ELSE entry[k]]
  <2>1. CASE LoadKnown(id)
    <3>1. id \in ToSet(Live) /\ Live \in Orders(Ids)
      BY <2>1, LiveIsFresh DEF LoadKnown
    <3>2. ToSet(MoveToEnd(Live, id)) = ToSet(Live)
      <4>1. ToSet(MoveToEnd(Live, id)) = ToSet(Live) \cup {id}
        BY <3>1, MoveToEndOrder
      <4> QED
        BY <3>1, <4>1
    <3>3. entry' = [k \in ToSet(MoveToEnd(Live, id)) |->
                      IF k = id THEN [entry[id] EXCEPT !.touchedAt = now] ELSE entry[k]]
      BY <2>1 DEF LoadKnown, Keep
    <3> QED
      BY <3>2, <3>3
  <2>2. CASE LoadUnknown(id)
    BY <2>2 DEF LoadUnknown
  <2> QED
    BY <2>1, <2>2 DEF DoLoad, Load
<1> QED
  BY <1>1, <1>2, <1>3 DEF Promise!Read

\* A save writes as the promise does, with the keys that the eviction keeps.
LEMMA SaveIsWrite ==
  ASSUME IInv, NEW id \in Ids, NEW messages \in Histories, DoSave(id, messages)
  PROVE  Promise!Write(id, messages)
<1> DEFINE moved == MoveToEnd(Live, id)
           kept == KeepNewest(moved, MaxConversations)
<1>0. /\ MaxConversations \in Nat \ {0}
      /\ \A k \in ToSet(order) : entry[k].touchedAt \in Nat
  BY StoreAssumption DEF IInv, TypeOK, Entries
<1>1. /\ Live \in Orders(Ids) /\ ToSet(Live) \subseteq ToSet(order)
      /\ \A a, b : Precedes(Live, a, b) => Precedes(order, a, b)
      /\ ToSet(Live) = Promise!Fresh
  BY LiveIsFresh, LiveIsAllFresh
<1>2. /\ moved \in Orders(Ids) /\ Len(moved) > 0 /\ moved[Len(moved)] = id
      /\ ToSet(moved) = Promise!Fresh \cup {id}
      /\ \A a, b : Precedes(moved, a, b) => a # id /\ (b = id \/ Precedes(Live, a, b))
  BY <1>1, MoveToEndOrder
<1>3. /\ entry' = [k \in ToSet(kept) |->
                     IF k = id THEN [messages |-> messages, touchedAt |-> now] ELSE entry[k]]
      /\ reply' = <<>> /\ now' = now
  BY DEF DoSave, Save, Keep
<1> HIDE DEF moved
<1>4. /\ kept \in Orders(Ids) /\ Len(kept) <= MaxConversations
      /\ ToSet(kept) \subseteq ToSet(moved)
      /\ Len(kept) > 0 /\ kept[Len(kept)] = id
  BY <1>0, <1>2, KeepNewestOrder
<1>5. /\ kept = moved \/ Len(kept) = MaxConversations
      /\ \A a \in ToSet(moved) \ ToSet(kept), b \in ToSet(kept) : Precedes(moved, a, b)
  BY <1>0, <1>2, KeepNewestDropsOldest
<1> HIDE DEF kept
<1>6. id \in ToSet(kept) /\ Cardinality(ToSet(kept)) = Len(kept)
  <2>1. Len(kept) \in 1 .. Len(kept) /\ ToSet(kept) = {kept[i] : i \in 1 .. Len(kept)}
    BY <1>4, OrderElements
  <2> QED
    BY <1>4, <2>1, OrderCardinality
<1>7. ASSUME NEW k \in ToSet(kept) \ {id}, NEW gone \in Promise!Fresh \ ToSet(kept)
      PROVE  entry[gone].touchedAt <= entry[k].touchedAt
  <2>1. Precedes(moved, gone, k)
    BY <1>2, <1>5
  <2>2. Precedes(order, gone, k)
    BY <1>1, <1>2, <2>1
  <2>3. gone \in ToSet(order) /\ k \in ToSet(order)
    BY <1>1, <1>2, <1>4
  <2> QED
    BY <2>2, <2>3 DEF IInv, OldestFirst
<1>8. ToSet(kept) \in SUBSET (Promise!Fresh \cup {id})
  BY <1>2, <1>4
<1>9. Cardinality(ToSet(kept)) <= MaxConversations
  BY <1>4, <1>6
<1>10. ToSet(kept) # Promise!Fresh \cup {id} => Cardinality(ToSet(kept)) = MaxConversations
  BY <1>2, <1>5, <1>6
<1>11. Promise!Cardinality(ToSet(kept)) = Cardinality(ToSet(kept))
  BY DEF Promise!Cardinality, Cardinality
<1> QED
  BY <1>3, <1>6, <1>7, <1>8, <1>9, <1>10, <1>11 DEF Promise!Write

\* Every step of the store is a step of the promise, or one that shows nothing.
LEMMA StepKeepsPromise ==
  ASSUME IInv, [Next]_vars
  PROVE  [Promise!Next]_(Promise!abstractVars)
<1>1. ASSUME NEW id \in Ids, DoLoad(id)
      PROVE  Promise!Next
  BY <1>1, LoadIsRead DEF Promise!Next
<1>2. ASSUME NEW id \in Ids, NEW messages \in Histories, DoSave(id, messages)
      PROVE  Promise!Next
  BY <1>2, SaveIsWrite DEF Promise!Next
<1>3. ASSUME PassTime
      PROVE  Promise!Next
  BY <1>3 DEF PassTime, Tick, Promise!Next, Promise!Pass
<1>4. ASSUME UNCHANGED vars
      PROVE  UNCHANGED Promise!abstractVars
  BY <1>4 DEF vars, Promise!abstractVars
<1> QED
  BY <1>1, <1>2, <1>3, <1>4 DEF Next

\* InMemoryConversationStore, with its dictionary order and its two loops, is a
\* store that forgets only what its timeout and its capacity make it forget.
THEOREM StoreKeepsPromise == Spec => KeepsPromise
<1>1. Init => Promise!Init
  BY DEF Init, StoreInit, Promise!Init
<1>2. IInv /\ [Next]_vars => [Promise!Next]_(Promise!abstractVars)
  BY StepKeepsPromise
<1> QED
  BY <1>1, <1>2, OldestFirstAlways, PTL DEF Spec, KeepsPromise, Promise!Spec
====
