---- MODULE ChatServiceProofs ----
(****************************************************************************)
(* For any number of requests, conversations and threads: the application   *)
(* keeps its types and bounds, stores whole turns of answered requests only *)
(* and builds one engine at a time; and as long as the registry has room    *)
(* for a lock of every conversation, the turns of a conversation are        *)
(* serialized, no stored turn is ever overwritten, and any number of pages  *)
(* show what is stored, in its order, and get it with every response, until *)
(* their conversation is dropped.  Whatever the bounds, they miss only what *)
(* was cut off from them or came back after it was dropped.                 *)
(****************************************************************************)
EXTENDS ChatClient, OrderedDictLemmas

\* The registry never has to drop a lock.
RoomyRegistry == IsFiniteSet(Ids) /\ Cardinality(Ids) <= MaxLocks

Waiting(r) == pc[r] = "acquire"

\* A request past the registry has the lock the registry names, and the one
\* inside a turn holds it.
LocksConsistent ==
  \A r \in Requests :
    /\ Waiting(r) \/ InTurn(r) => conv[r] \in ToSet(lockOrder) /\ lockOf[r] = registry[conv[r]]
    /\ InTurn(r) => holder[lockOf[r]] = r

\* The copy a request works on is what is stored, if anything still is, and
\* from the answer on also its question.
LocalCurrent ==
  \A r \in Requests :
    conv[r] \in ToSet(order) =>
      /\ pc[r] \in {"condense", "retrieve", "generate"} =>
           local[r] = entry[conv[r]].messages
      /\ pc[r] = "save" => local[r] = Append(entry[conv[r]].messages, Question(r))

\* A load drops conversations or leaves their messages as they were.
LEMMA LoadEffect ==
  ASSUME StoreTypeOK, NEW id \in Ids, Load(id), now' = now
  PROVE  /\ StoreTypeOK' /\ Loaded(id) \in Seq(Messages)
         /\ ToSet(order') \subseteq ToSet(order)
         /\ \A k \in ToSet(order') : entry'[k].messages = entry[k].messages
         /\ Loaded(id) = IF id \in ToSet(order') THEN entry'[id].messages ELSE <<>>
<1> USE DEF StoreTypeOK
<1>0. /\ MaxConversations \in Nat /\ now \in Nat /\ Len(order) \in Nat
      /\ \A k \in ToSet(order) : entry[k] \in [messages : Seq(Messages), touchedAt : Nat]
  BY StoreAssumption, OrderElements
<1>1. /\ Live \in Orders(Ids) /\ Len(Live) <= Len(order)
      /\ ToSet(Live) \subseteq ToSet(order)
  BY DropLeadingOrder DEF Live
<1>2. Len(Live) \in Nat /\ Len(Live) <= MaxConversations
  BY <1>0, <1>1, OrderElements
<1>3. Loaded(id) \in Seq(Messages)
  BY <1>0, <1>1 DEF Loaded
<1>4. CASE LoadKnown(id)
  <2> DEFINE moved == MoveToEnd(Live, id)
             e == [entry[id] EXCEPT !.touchedAt = now]
  <2>1. id \in ToSet(Live) /\ Keep(moved, id, e)
    BY <1>4 DEF LoadKnown
  <2>2. /\ moved \in Orders(Ids) /\ Len(moved) = Len(Live)
        /\ ToSet(moved) = ToSet(Live)
    <3>1. /\ moved \in Orders(Ids)
          /\ Len(moved) = IF id \in ToSet(Live) THEN Len(Live) ELSE Len(Live) + 1
          /\ ToSet(moved) = ToSet(Live) \cup {id}
      BY <1>1, MoveToEndOrder
    <3> HIDE DEF moved
    <3> QED
      BY <3>1, <2>1
  <2>3. e \in [messages : Seq(Messages), touchedAt : Nat] /\ e.messages = entry[id].messages
    BY <2>1, <1>0, <1>1
  <2> HIDE DEF moved, e
  <2>4. /\ order' = moved
        /\ entry' = [k \in ToSet(moved) |-> IF k = id THEN e ELSE entry[k]]
    BY <2>1 DEF Keep
  <2>5. /\ entry' \in [ToSet(moved) -> [messages : Seq(Messages), touchedAt : Nat]]
        /\ \A k \in ToSet(moved) : entry'[k].messages = entry[k].messages
    BY <2>2, <2>3, <2>4, <1>0, <1>1
  <2>6. Loaded(id) = entry'[id].messages
    BY <2>1, <2>2, <2>5 DEF Loaded
  <2> QED
    BY <2>1, <2>2, <2>4, <2>5, <2>6, <1>0, <1>1, <1>2, <1>3
<1>5. CASE LoadUnknown(id)
  <2>1. id \notin ToSet(Live) /\ order' = Live /\ entry' = [k \in ToSet(Live) |-> entry[k]]
    BY <1>5 DEF LoadUnknown
  <2>2. entry' \in [ToSet(Live) -> [messages : Seq(Messages), touchedAt : Nat]]
    BY <2>1, <1>0, <1>1
  <2>3. Loaded(id) = <<>>
    BY <2>1 DEF Loaded
  <2> QED
    BY <2>1, <2>2, <2>3, <1>0, <1>1, <1>2, <1>3
<1> QED
  BY <1>4, <1>5 DEF Load

\* A save stores the messages, drops conversations or leaves them as they were.
LEMMA SaveEffect ==
  ASSUME StoreTypeOK, NEW id \in Ids, NEW messages \in Seq(Messages),
         Save(id, messages), now' = now
  PROVE  /\ StoreTypeOK'
         /\ ToSet(order') \subseteq ToSet(order) \cup {id}
         /\ \A k \in ToSet(order') :
              entry'[k].messages = IF k = id THEN messages ELSE entry[k].messages
<1> USE DEF StoreTypeOK
<1> DEFINE moved == MoveToEnd(Live, id)
           kept == KeepNewest(moved, MaxConversations)
           e == [messages |-> messages, touchedAt |-> now]
<1>0. /\ MaxConversations \in Nat \ {0} /\ now \in Nat
      /\ \A k \in ToSet(order) : entry[k] \in [messages : Seq(Messages), touchedAt : Nat]
  BY StoreAssumption
<1>1. Live \in Orders(Ids) /\ ToSet(Live) \subseteq ToSet(order)
  BY DropLeadingOrder DEF Live
<1>2. moved \in Orders(Ids) /\ ToSet(moved) = ToSet(Live) \cup {id}
  BY <1>1, MoveToEndOrder
<1>3. kept \in Orders(Ids) /\ Len(kept) <= MaxConversations /\ ToSet(kept) \subseteq ToSet(moved)
  BY <1>0, <1>2, KeepNewestOrder
<1>4. order' = kept /\ entry' = [k \in ToSet(kept) |-> IF k = id THEN e ELSE entry[k]]
  BY DEF Save, Keep
<1>5. e \in [messages : Seq(Messages), touchedAt : Nat] /\ e.messages = messages
  BY <1>0
<1> HIDE DEF moved, kept, e
<1>6. entry' \in [ToSet(kept) -> [messages : Seq(Messages), touchedAt : Nat]]
  BY <1>0, <1>1, <1>2, <1>3, <1>4, <1>5
<1>7. \A k \in ToSet(kept) :
        entry'[k].messages = IF k = id THEN messages ELSE entry[k].messages
  BY <1>4, <1>5
<1> QED
  BY <1>0, <1>1, <1>2, <1>3, <1>4, <1>6, <1>7

\* get() returns the lock registered for the conversation, drops none while
\* there is room, and changes none that it keeps.
LEMMA GetLockEffect ==
  ASSUME LocksTypeOK, NEW id \in Ids, NEW r \in Requests, GetLock(id, r)
  PROVE  /\ LocksTypeOK' /\ LockFor(id, r) \in Requests /\ holder' = holder
         /\ \A k \in ToSet(lockOrder') :
              registry'[k] = IF k = id THEN LockFor(id, r) ELSE registry[k]
         /\ RoomyRegistry => ToSet(lockOrder') = ToSet(lockOrder) \cup {id}
<1> USE DEF LocksTypeOK
<1> DEFINE moved == MoveToEnd(lockOrder, id)
           kept == KeepNewest(moved, MaxLocks)
<1>0. MaxLocks \in Nat \ {0}
  BY LocksAssumption
<1>1. LockFor(id, r) \in Requests
  BY DEF LockFor
<1>2. moved \in Orders(Ids) /\ ToSet(moved) = ToSet(lockOrder) \cup {id}
  BY MoveToEndOrder
<1>3. /\ kept \in Orders(Ids) /\ Len(kept) <= MaxLocks /\ ToSet(kept) \subseteq ToSet(moved)
      /\ Len(moved) <= MaxLocks => kept = moved
  BY <1>0, <1>2, KeepNewestOrder
<1>4. /\ lockOrder' = kept /\ holder' = holder
      /\ registry' = [k \in ToSet(kept) |-> IF k = id THEN LockFor(id, r) ELSE registry[k]]
  BY DEF GetLock
<1>5. RoomyRegistry => Len(moved) <= MaxLocks
  <2> SUFFICES ASSUME RoomyRegistry
               PROVE  Len(moved) <= MaxLocks
    OBVIOUS
  <2>1. Len(moved) <= Cardinality(Ids) /\ Cardinality(Ids) \in Nat
    BY <1>2, OrderLength, FS_CardinalityType DEF RoomyRegistry
  <2>2. Len(moved) \in Nat
    BY <1>2, OrderElements
  <2> HIDE DEF moved
  <2> QED
    BY <2>1, <2>2, <1>0 DEF RoomyRegistry
<1> HIDE DEF moved, kept
<1>6. registry' \in [ToSet(kept) -> Requests]
  BY <1>1, <1>2, <1>3, <1>4
<1> QED
  BY <1>1, <1>2, <1>3, <1>4, <1>5, <1>6

\* Every step keeps the types and the bounds.
LEMMA StepKeepsTypes ==
  ASSUME TypeOK, [Next]_vars
  PROVE  TypeOK'
<1> USE DEF TypeOK
<1>0. /\ pc \in [Requests -> Steps] /\ conv \in [Requests -> Ids]
      /\ StoreTypeOK /\ LocksTypeOK /\ RequestsTypeOK
  BY DEF RequestsTypeOK
<1>1. ASSUME UNCHANGED storeVars
      PROVE  StoreTypeOK'
  BY <1>1 DEF storeVars, StoreTypeOK
<1>2. ASSUME UNCHANGED locksVars
      PROVE  LocksTypeOK'
  BY <1>2 DEF locksVars, LocksTypeOK
<1>3. ASSUME NEW r \in Requests, NEW from, NEW to \in Steps, Goto(r, from, to)
      PROVE  pc' \in [Requests -> Steps]
  BY <1>0, <1>3 DEF Goto
<1>4. ASSUME NEW r \in Requests, NEW status \in Statuses, NEW m \in Seq(Messages),
             Finish(r, status, m)
      PROVE  reply' \in [Requests -> [status : Statuses, messages : Seq(Messages)]]
  BY <1>4 DEF Finish, RequestsTypeOK
<1>5. <<>> \in Seq(Messages)
  OBVIOUS
<1>6. /\ {"new", "queued", "engine", "building", "lock", "acquire", "release", "reply",
          "done", "load", "condense", "retrieve", "generate", "save"} \subseteq Steps
      /\ {"none", "refused", "unavailable", "busy", "failed", "ok", "lost"} \subseteq Statuses
  BY DEF Steps, Answering, Statuses
<1>7. ASSUME NEW r \in Requests
      PROVE  Question(r) \in Messages /\ Answer(r) \in Messages
  BY DEF Question, Answer, Messages, Roles
<1>10. ASSUME NEW r \in Requests, Send(r) \/ Start(r) \/ Refuse(r)
       PROVE  TypeOK'
  BY <1>0, <1>1, <1>2, <1>3, <1>4, <1>5, <1>6, <1>10
     DEF Send, Start, Refuse, providerVars, RequestsTypeOK
<1>11. ASSUME NEW r \in Requests,
              UseEngine(r) \/ Build(r) \/ BuildSucceeds(r) \/ BuildFails(r)
       PROVE  TypeOK'
  BY <1>0, <1>1, <1>2, <1>3, <1>4, <1>5, <1>6, <1>11
     DEF UseEngine, Build, BuildSucceeds, BuildFails, EngineFound, BeginBuild, EndBuild,
         providerVars, RequestsTypeOK
<1>12. ASSUME NEW r \in Requests, Register(r)
       PROVE  TypeOK'
  <2>1. GetLock(conv[r], r) /\ conv[r] \in Ids
    BY <1>0, <1>12 DEF Register
  <2>2. LocksTypeOK' /\ LockFor(conv[r], r) \in Requests
    BY <2>1, <1>0, GetLockEffect
  <2> QED
    BY <2>2, <1>0, <1>1, <1>3, <1>6, <1>12 DEF Register, providerVars, RequestsTypeOK
<1>13. ASSUME NEW r \in Requests, Acquire(r) \/ GiveUp(r) \/ Release(r)
       PROVE  TypeOK'
  <2>1. LocksTypeOK'
    BY <1>0, <1>2, <1>13
       DEF Acquire, GiveUp, Release, AcquireLock, ReleaseLock, LocksTypeOK
  <2>2. CASE Acquire(r)
    BY <2>1, <2>2, <1>0, <1>1, <1>3, <1>6 DEF Acquire, providerVars, RequestsTypeOK
  <2>3. CASE GiveUp(r)
    BY <2>1, <2>3, <1>0, <1>1, <1>3, <1>4, <1>5, <1>6 DEF GiveUp, providerVars, RequestsTypeOK
  <2>4. CASE Release(r)
    <3>1. pc' \in [Requests -> Steps]
      BY <2>4, <1>0, <1>6 DEF Release, Goto
    <3> QED
      BY <3>1, <2>1, <2>4, <1>0, <1>1 DEF Release, providerVars, RequestsTypeOK
  <2> QED
    BY <2>2, <2>3, <2>4, <1>13
<1>14. ASSUME NEW r \in Requests, LoadHistory(r)
       PROVE  TypeOK'
  <2>1. Load(conv[r]) /\ conv[r] \in Ids /\ now' = now
    BY <1>0, <1>14 DEF LoadHistory
  <2>2. StoreTypeOK' /\ Loaded(conv[r]) \in Seq(Messages)
    BY <2>1, <1>0, LoadEffect
  <2> QED
    BY <2>2, <1>0, <1>2, <1>3, <1>6, <1>14 DEF LoadHistory, providerVars, RequestsTypeOK
<1>15. ASSUME NEW r \in Requests, Condense(r) \/ Retrieve(r) \/ Generate(r)
       PROVE  TypeOK'
  <2>1. Append(local[r], Question(r)) \in Seq(Messages)
    BY <1>0, <1>7 DEF RequestsTypeOK
  <2> QED
    BY <2>1, <1>0, <1>1, <1>2, <1>3, <1>6, <1>15
       DEF Condense, Retrieve, Generate, providerVars, RequestsTypeOK
<1>16. ASSUME NEW r \in Requests, SaveTurn(r)
       PROVE  TypeOK'
  <2>1. Append(local[r], Answer(r)) \in Seq(Messages) /\ conv[r] \in Ids
    BY <1>0, <1>7 DEF RequestsTypeOK
  <2>2. StoreTypeOK'
    BY <2>1, <1>0, <1>16, SaveEffect DEF SaveTurn
  <2> QED
    BY <2>2, <1>0, <1>2, <1>3, <1>5, <1>6, <1>16 DEF SaveTurn, providerVars, RequestsTypeOK
<1>17. ASSUME NEW r \in Requests, TurnFails(r)
       PROVE  TypeOK'
  <2>1. pc' \in [Requests -> Steps]
    BY <1>3, <1>6, <1>17 DEF TurnFails
  <2> QED
    BY <2>1, <1>0, <1>1, <1>2, <1>4, <1>5, <1>6, <1>17 DEF TurnFails, providerVars, RequestsTypeOK
<1>18. ASSUME NEW r \in Requests, Reply(r)
       PROVE  TypeOK'
  <2>1. Load(conv[r]) /\ conv[r] \in Ids /\ now' = now
    BY <1>0, <1>18 DEF Reply
  <2>2. StoreTypeOK' /\ Loaded(conv[r]) \in Seq(Messages)
    BY <2>1, <1>0, LoadEffect
  <2> QED
    BY <2>2, <1>0, <1>2, <1>3, <1>4, <1>6, <1>18 DEF Reply, providerVars, RequestsTypeOK
<1>19. ASSUME NEW id \in Ids, ReadPage(id)
       PROVE  TypeOK'
  <2>1. StoreTypeOK'
    BY <1>0, <1>19, LoadEffect DEF ReadPage
  <2> QED
    BY <2>1, <1>0, <1>2, <1>19 DEF ReadPage, providerVars, requestVars, RequestsTypeOK
<1>20. ASSUME PassTime
       PROVE  TypeOK'
  <2>1. StoreTypeOK'
    BY <1>20 DEF PassTime, Tick, StoreTypeOK
  <2> QED
    BY <2>1, <1>0, <1>2, <1>20 DEF PassTime, providerVars, requestVars, RequestsTypeOK
<1>21. ASSUME Restart
       PROVE  TypeOK'
  <2>1. StoreTypeOK'
    BY <1>21, EmptyOrder, StoreAssumption DEF Restart, StoreTypeOK
  <2>2. LocksTypeOK'
    BY <1>21, EmptyOrder, LocksAssumption DEF Restart, LocksTypeOK
  <2> DEFINE Replies == [status : Statuses, messages : Seq(Messages)]
             lost == [status |-> "lost", messages |-> <<>>]
             gone == {r \in Requests : pc[r] \notin {"new", "done"}}
  <2>3. pc' \in [Requests -> Steps]
    BY <1>0, <1>6, <1>21 DEF Restart
  <2>4. lost \in Replies
    BY <1>5, <1>6
  <2>5. reply \in [Requests -> Replies]
    BY <1>0 DEF RequestsTypeOK
  <2>6. reply' = [r \in Requests |-> IF r \in gone THEN lost ELSE reply[r]]
    BY <1>21 DEF Restart
  <2> HIDE DEF lost, gone, Replies
  <2>7. reply' \in [Requests -> Replies]
    BY <2>4, <2>5, <2>6
  <2>8. local' \in [Requests -> Seq(Messages)]
    BY <1>5, <1>21 DEF Restart
  <2>9. /\ conv' = conv /\ lockOf' = lockOf /\ restarts' = restarts + 1
        /\ built' = FALSE /\ builder' = NoBuilder
    BY <1>21 DEF Restart
  <2>10. RequestsTypeOK'
    BY <2>3, <2>7, <2>8, <2>9, <1>0 DEF RequestsTypeOK, Replies
  <2>11. built' \in BOOLEAN /\ builder' \in Requests \cup {NoBuilder}
    BY <2>9
  <2>12. restarts' \in Nat
    BY <2>9
  <2> QED
    BY <2>1, <2>2, <2>10, <2>11, <2>12
<1>22. ASSUME UNCHANGED vars
       PROVE  TypeOK'
  BY <1>0, <1>1, <1>2, <1>22 DEF vars, providerVars, requestVars, RequestsTypeOK
<1> QED
  BY <1>10, <1>11, <1>12, <1>13, <1>14, <1>15, <1>16, <1>17, <1>18, <1>19, <1>20, <1>21, <1>22
     DEF Next, RequestStep, TurnStep

\* The application keeps its types, and the store and the registry their
\* bounds, in every state.
THEOREM TypeCorrect == Spec => []TypeOK
<1>1. Init => TypeOK
  <2> SUFFICES ASSUME Init
               PROVE  TypeOK
    OBVIOUS
  <2>1. StoreTypeOK
    BY EmptyOrder, StoreAssumption DEF Init, StoreInit, StoreTypeOK
  <2>2. LocksTypeOK
    BY EmptyOrder, LocksAssumption DEF Init, LocksInit, LocksTypeOK
  <2>3. RequestsTypeOK
    BY DEF Init, RequestsTypeOK, Steps, Statuses, NoReply
  <2> QED
    BY <2>1, <2>2, <2>3 DEF Init, ProviderInit, TypeOK
<1>2. TypeOK /\ [Next]_vars => TypeOK'
  BY StepKeepsTypes
<1> QED
  BY <1>1, <1>2, PTL DEF Spec
----------------------------------------------------------------------------
Held(r) == Waiting(r) \/ InTurn(r)

\* Serialization is what the consistency of the locks gives: two requests inside
\* a turn of one conversation would hold the same lock.
LEMMA ConsistentSerializes ==
  ASSUME LocksConsistent
  PROVE  TurnsSerialized
BY DEF LocksConsistent, TurnsSerialized

\* A step that leaves the locks alone and lets no request past the registry or
\* into a turn keeps them consistent.
LEMMA QuietStep ==
  ASSUME LocksConsistent, UNCHANGED <<locksVars, conv, lockOf>>,
         \A r \in Requests : Held(r)' => Held(r),
         \A r \in Requests : InTurn(r)' => InTurn(r)
  PROVE  LocksConsistent'
BY DEF LocksConsistent, locksVars, Held

\* With room for a lock of every conversation, every step keeps the locks
\* consistent.
LEMMA StepKeepsLocks ==
  ASSUME RoomyRegistry, TypeOK, LocksConsistent, [Next]_vars
  PROVE  LocksConsistent'
<1>0. /\ pc \in [Requests -> Steps] /\ conv \in [Requests -> Ids]
      /\ lockOf \in [Requests -> Requests \cup {Nobody}]
      /\ holder \in [Requests -> Requests \cup {Nobody}]
      /\ registry \in [ToSet(lockOrder) -> Requests]
      /\ LocksTypeOK
  BY DEF TypeOK, RequestsTypeOK, LocksTypeOK
<1>1. ASSUME NEW r \in Requests, NEW from, NEW to, Goto(r, from, to)
      PROVE  /\ pc[r] = from /\ pc'[r] = to
             /\ \A s \in Requests : s # r => pc'[s] = pc[s]
  BY <1>0, <1>1 DEF Goto
<1> USE DEF Waiting, InTurn, Answering, Held
<1>2. ASSUME NEW r \in Requests, Send(r) \/ Start(r) \/ Refuse(r)
      PROVE  LocksConsistent'
  BY <1>1, <1>2, QuietStep DEF Send, Start, Refuse
<1>3. ASSUME NEW r \in Requests,
             UseEngine(r) \/ Build(r) \/ BuildSucceeds(r) \/ BuildFails(r)
      PROVE  LocksConsistent'
  <2>1. CASE UseEngine(r) \/ Build(r)
    BY <1>1, <2>1, QuietStep DEF UseEngine, Build
  <2>2. CASE BuildSucceeds(r) \/ BuildFails(r)
    <3>1. /\ Goto(r, "building", "lock") \/ Goto(r, "building", "done")
          /\ UNCHANGED <<locksVars, conv, lockOf>>
      BY <2>2, Zenon DEF BuildSucceeds, BuildFails
    <3>2. pc[r] = "building" /\ pc'[r] \in {"lock", "done"}
      BY <3>1, <1>1
    <3>3. \A s \in Requests : s # r => pc'[s] = pc[s]
      BY <3>1, <1>1
    <3> QED
      BY <3>1, <3>2, <3>3, QuietStep
  <2> QED
    BY <2>1, <2>2, <1>3
<1>4. ASSUME NEW r \in Requests, Register(r)
      PROVE  LocksConsistent'
  <2>1. /\ GetLock(conv[r], r) /\ conv' = conv
        /\ lockOf' = [lockOf EXCEPT ![r] = LockFor(conv[r], r)]
        /\ pc[r] = "lock" /\ pc'[r] = "acquire"
        /\ \A s \in Requests : s # r => pc'[s] = pc[s]
    BY <1>1, <1>4 DEF Register
  <2>2. /\ holder' = holder /\ conv[r] \in Ids
        /\ ToSet(lockOrder') = ToSet(lockOrder) \cup {conv[r]}
        /\ \A k \in ToSet(lockOrder') :
             registry'[k] = IF k = conv[r] THEN LockFor(conv[r], r) ELSE registry[k]
    BY <2>1, <1>0, GetLockEffect
  <2> SUFFICES ASSUME NEW s \in Requests
               PROVE  /\ Held(s)' => conv[s] \in ToSet(lockOrder') /\ lockOf'[s] = registry'[conv[s]]
                      /\ InTurn(s)' => holder'[lockOf'[s]] = s
    BY <2>1 DEF LocksConsistent
  <2>3. CASE s = r
    BY <2>1, <2>2, <2>3, <1>0
  <2>4. CASE s # r
    <3>1. pc'[s] = pc[s] /\ lockOf'[s] = lockOf[s]
      BY <2>1, <2>4, <1>0
    <3>2. ASSUME Held(s)
          PROVE  conv[s] \in ToSet(lockOrder') /\ lockOf[s] = registry'[conv[s]]
      <4>1. conv[s] \in ToSet(lockOrder) /\ lockOf[s] = registry[conv[s]]
        BY <3>2 DEF LocksConsistent
      <4> QED
        BY <4>1, <2>2 DEF LockFor
    <3>3. InTurn(s) => holder[lockOf[s]] = s
      BY DEF LocksConsistent
    <3> QED
      BY <3>1, <3>2, <3>3, <2>2
  <2> QED
    BY <2>3, <2>4
<1>5. ASSUME NEW r \in Requests, Acquire(r)
      PROVE  LocksConsistent'
  <2>1. /\ holder[lockOf[r]] = Nobody /\ holder' = [holder EXCEPT ![lockOf[r]] = r]
        /\ UNCHANGED <<lockOrder, registry, conv, lockOf>>
        /\ pc[r] = "acquire" /\ pc'[r] = "load"
        /\ \A s \in Requests : s # r => pc'[s] = pc[s]
    BY <1>1, <1>5 DEF Acquire, AcquireLock
  <2>2. conv[r] \in ToSet(lockOrder) /\ lockOf[r] = registry[conv[r]] /\ lockOf[r] \in Requests
    BY <2>1, <1>0 DEF LocksConsistent
  <2> SUFFICES ASSUME NEW s \in Requests
               PROVE  /\ Held(s)' => conv[s] \in ToSet(lockOrder) /\ lockOf[s] = registry[conv[s]]
                      /\ InTurn(s)' => holder'[lockOf[s]] = s
    BY <2>1 DEF LocksConsistent
  <2>3. CASE s = r
    BY <2>1, <2>2, <2>3, <1>0
  <2>4. CASE s # r
    <3>1. Held(s)' = Held(s) /\ InTurn(s)' = InTurn(s)
      BY <2>1, <2>4
    <3>2. InTurn(s) => holder[lockOf[s]] = s
      BY DEF LocksConsistent
    <3>3. InTurn(s) => lockOf[s] # lockOf[r]
      BY <3>2, <2>1, LocksAssumption
    <3>4. InTurn(s) => holder'[lockOf[s]] = s
      BY <3>2, <3>3, <2>1, <1>0
    <3> QED
      BY <3>1, <3>4 DEF LocksConsistent
  <2> QED
    BY <2>3, <2>4
<1>6. ASSUME NEW r \in Requests, GiveUp(r)
      PROVE  LocksConsistent'
  BY <1>1, <1>6, QuietStep DEF GiveUp
<1>7. ASSUME NEW r \in Requests, LoadHistory(r) \/ Condense(r) \/ Retrieve(r) \/ Generate(r)
      PROVE  LocksConsistent'
  BY <1>1, <1>7, QuietStep DEF LoadHistory, Condense, Retrieve, Generate
<1>8. ASSUME NEW r \in Requests, SaveTurn(r) \/ TurnFails(r)
      PROVE  LocksConsistent'
  BY <1>1, <1>8, QuietStep DEF SaveTurn, TurnFails
<1>9. ASSUME NEW r \in Requests, Release(r)
      PROVE  LocksConsistent'
  <2>1. /\ holder' = [holder EXCEPT ![lockOf[r]] = Nobody]
        /\ UNCHANGED <<lockOrder, registry, conv, lockOf>>
        /\ pc[r] = "release" /\ pc'[r] \in {"reply", "done"}
        /\ \A s \in Requests : s # r => pc'[s] = pc[s]
    BY <1>1, <1>9 DEF Release, ReleaseLock
  <2>2. holder[lockOf[r]] = r
    BY <2>1 DEF LocksConsistent
  <2> SUFFICES ASSUME NEW s \in Requests
               PROVE  /\ Held(s)' => conv[s] \in ToSet(lockOrder) /\ lockOf[s] = registry[conv[s]]
                      /\ InTurn(s)' => holder'[lockOf[s]] = s
    BY <2>1 DEF LocksConsistent
  <2>3. CASE s = r
    BY <2>1, <2>3
  <2>4. CASE s # r
    <3>1. Held(s)' = Held(s) /\ InTurn(s)' = InTurn(s)
      BY <2>1, <2>4
    <3>2. InTurn(s) => holder[lockOf[s]] = s /\ lockOf[s] # lockOf[r]
      BY <2>2, <2>4 DEF LocksConsistent
    <3>3. InTurn(s) => holder'[lockOf[s]] = s
      BY <3>2, <2>1, <1>0
    <3> QED
      BY <3>1, <3>3 DEF LocksConsistent
  <2> QED
    BY <2>3, <2>4
<1>10. ASSUME NEW r \in Requests, Reply(r)
       PROVE  LocksConsistent'
  BY <1>1, <1>10, QuietStep DEF Reply
<1>11. ASSUME NEW id \in Ids, ReadPage(id)
       PROVE  LocksConsistent'
  BY <1>11, QuietStep DEF ReadPage, requestVars
<1>12. ASSUME PassTime
       PROVE  LocksConsistent'
  BY <1>12, QuietStep DEF PassTime, requestVars
<1>13. ASSUME Restart
       PROVE  LocksConsistent'
  <2>1. \A r \in Requests : pc'[r] \in {"new", "done"}
    BY <1>0, <1>13 DEF Restart
  <2> QED
    BY <2>1 DEF LocksConsistent
<1>14. ASSUME UNCHANGED vars
       PROVE  LocksConsistent'
  BY <1>14, QuietStep DEF vars, requestVars
<1> QED
  BY <1>2, <1>3, <1>4, <1>5, <1>6, <1>7, <1>8, <1>9, <1>10, <1>11, <1>12, <1>13, <1>14
     DEF Next, RequestStep, TurnStep

\* The locks are consistent in every state, as long as the registry need not
\* drop one.
THEOREM LocksStayConsistent ==
  ASSUME RoomyRegistry
  PROVE  Spec => [](TypeOK /\ LocksConsistent)
<1>1. Init => LocksConsistent
  BY DEF Init, LocksConsistent, Waiting, InTurn, Answering
<1>2. TypeOK /\ LocksConsistent /\ [Next]_vars => LocksConsistent'
  BY StepKeepsLocks
<1> QED
  BY <1>1, <1>2, TypeCorrect, PTL DEF Spec

\* "Turns of one conversation are serialized" (_ConversationLocks), for any
\* number of requests, provided the registry has room for every conversation.
THEOREM TurnsOfOneConversationAreSerialized ==
  ASSUME RoomyRegistry
  PROVE  Spec => []TurnsSerialized
<1>1. LocksConsistent => TurnsSerialized
  BY ConsistentSerializes
<1> QED
  BY <1>1, LocksStayConsistent, PTL
----------------------------------------------------------------------------
\* A history is a prefix of itself.
LEMMA PrefixOfItself ==
  ASSUME NEW S, NEW m \in Seq(S)
  PROVE  IsPrefix(m, m)
BY DEF IsPrefix

\* A history is a prefix of itself with a turn appended.
LEMMA PrefixOfTurn ==
  ASSUME NEW S, NEW m \in Seq(S), NEW q \in S, NEW a \in S
  PROVE  IsPrefix(m, Append(Append(m, q), a))
<1> DEFINE n == Append(Append(m, q), a)
<1>1. /\ n \in Seq(S) /\ Len(n) = Len(m) + 2 /\ Len(m) \in Nat
      /\ \A i \in 1 .. Len(m) : n[i] = m[i]
  OBVIOUS
<1> HIDE DEF n
<1>2. \A i \in 1 .. Len(m) : m[i] \in S
  OBVIOUS
<1>3. /\ SubSeq(m, 1, Len(m)) \in Seq(S) /\ SubSeq(n, 1, Len(m)) \in Seq(S)
      /\ Len(SubSeq(m, 1, Len(m))) = Len(m) /\ Len(SubSeq(n, 1, Len(m))) = Len(m)
      /\ \A i \in 1 .. Len(m) : SubSeq(m, 1, Len(m))[i] = m[i]
      /\ \A i \in 1 .. Len(m) : SubSeq(n, 1, Len(m))[i] = n[i]
  BY <1>1, <1>2
<1>4. SubSeq(m, 1, Len(m)) = SubSeq(n, 1, Len(m))
  BY <1>1, <1>3, SeqEqual
<1> QED
  BY <1>1, <1>4 DEF IsPrefix, n

\* The store drops conversations or leaves their messages as they were.
StoreShrinks ==
  /\ ToSet(order') \subseteq ToSet(order)
  /\ \A k \in ToSet(order') : entry'[k].messages = entry[k].messages

Working(s) == pc[s] \in {"condense", "retrieve", "generate", "save"}

\* The copies stay current in a step that shrinks the store, of the requests
\* whose place and copy it leaves alone or that are not at work after it.
LEMMA ShrinkKeepsCopies ==
  ASSUME LocalCurrent, StoreShrinks, UNCHANGED conv, NEW s \in Requests,
         (pc'[s] = pc[s] /\ local'[s] = local[s]) \/ ~ Working(s)'
  PROVE  conv'[s] \in ToSet(order') =>
           /\ pc'[s] \in {"condense", "retrieve", "generate"} =>
                local'[s] = entry'[conv'[s]].messages
           /\ pc'[s] = "save" => local'[s] = Append(entry'[conv'[s]].messages, Question(s))
BY DEF LocalCurrent, StoreShrinks, Working

\* Every step keeps the copies current and, where it changes a stored history
\* at all, only appends to it.
LEMMA StepKeepsHistory ==
  ASSUME TypeOK, TurnsSerialized, LocalCurrent, [Next]_vars
  PROVE  /\ LocalCurrent'
         /\ \A id \in DOMAIN entry \cap DOMAIN entry' :
              IsPrefix(entry[id].messages, entry'[id].messages)
<1> DEFINE Grows == \A id \in ToSet(order) \cap ToSet(order') :
                      IsPrefix(entry[id].messages, entry'[id].messages)
<1>0. /\ pc \in [Requests -> Steps] /\ conv \in [Requests -> Ids]
      /\ local \in [Requests -> Seq(Messages)]
      /\ StoreTypeOK /\ now \in Nat
      /\ \A k \in ToSet(order) : entry[k].messages \in Seq(Messages)
  BY DEF TypeOK, RequestsTypeOK, StoreTypeOK
<1>1. ASSUME NEW r \in Requests, NEW from, NEW to, Goto(r, from, to)
      PROVE  /\ pc[r] = from /\ pc'[r] = to
             /\ \A s \in Requests : s # r => pc'[s] = pc[s]
  BY <1>0, <1>1 DEF Goto
<1>2. ASSUME NEW r \in Requests
      PROVE  Question(r) \in Messages /\ Answer(r) \in Messages
  BY DEF Question, Answer, Messages, Roles
<1>3. StoreShrinks => Grows
  BY <1>0, PrefixOfItself DEF StoreShrinks
<1>4. ASSUME UNCHANGED <<order, entry>>
      PROVE  StoreShrinks
  BY <1>4 DEF StoreShrinks
<1>5. ASSUME NEW id \in Ids, Load(id), now' = now
      PROVE  StoreShrinks
  BY <1>0, <1>5, LoadEffect DEF StoreShrinks
<1>6. ASSUME StoreShrinks, UNCHANGED conv,
             \A s \in Requests : (pc'[s] = pc[s] /\ local'[s] = local[s]) \/ ~ Working(s)'
      PROVE  LocalCurrent' /\ Grows
  BY <1>3, <1>6, ShrinkKeepsCopies DEF LocalCurrent
<1> USE DEF Working
<1>7. ASSUME NEW r \in Requests, Send(r) \/ Start(r) \/ Refuse(r)
      PROVE  LocalCurrent' /\ Grows
  BY <1>1, <1>4, <1>6, <1>7 DEF Send, Start, Refuse, storeVars
<1>8. ASSUME NEW r \in Requests,
             UseEngine(r) \/ Build(r) \/ BuildSucceeds(r) \/ BuildFails(r)
      PROVE  LocalCurrent' /\ Grows
  <2>1. /\ \E from, to : Goto(r, from, to) /\ to \in {"lock", "building", "done"}
        /\ UNCHANGED <<storeVars, conv, local>>
    BY <1>8, Zenon DEF UseEngine, Build, BuildSucceeds, BuildFails
  <2> QED
    BY <2>1, <1>1, <1>4, <1>6 DEF storeVars
<1>9. ASSUME NEW r \in Requests, Register(r) \/ Acquire(r) \/ GiveUp(r)
      PROVE  LocalCurrent' /\ Grows
  BY <1>1, <1>4, <1>6, <1>9 DEF Register, Acquire, GiveUp, storeVars
<1>10. ASSUME NEW r \in Requests, LoadHistory(r)
       PROVE  LocalCurrent' /\ Grows
  <2>1. /\ Load(conv[r]) /\ now' = now /\ conv[r] \in Ids /\ conv' = conv
        /\ local' = [local EXCEPT ![r] = Loaded(conv[r])]
        /\ pc[r] = "load" /\ pc'[r] = "condense"
        /\ \A s \in Requests : s # r => pc'[s] = pc[s]
    BY <1>0, <1>1, <1>10 DEF LoadHistory
  <2>2. StoreShrinks
    BY <2>1, <1>5
  <2>3. conv[r] \in ToSet(order') => local'[r] = entry'[conv[r]].messages
    BY <2>1, <1>0, LoadEffect
  <2>4. \A s \in Requests : s # r => pc'[s] = pc[s] /\ local'[s] = local[s]
    BY <2>1, <1>0
  <2> QED
    BY <2>1, <2>2, <2>3, <2>4, <1>3, ShrinkKeepsCopies DEF LocalCurrent
<1>11. ASSUME NEW r \in Requests, Condense(r) \/ Retrieve(r)
       PROVE  LocalCurrent' /\ Grows
  <2>1. /\ UNCHANGED <<order, entry, conv, local>>
        /\ pc[r] \in {"condense", "retrieve"} /\ pc'[r] \in {"retrieve", "generate"}
        /\ \A s \in Requests : s # r => pc'[s] = pc[s]
    BY <1>1, <1>11 DEF Condense, Retrieve, storeVars
  <2> QED
    BY <2>1, <1>3, <1>4 DEF LocalCurrent
<1>12. ASSUME NEW r \in Requests, Generate(r)
       PROVE  LocalCurrent' /\ Grows
  <2>1. /\ UNCHANGED <<order, entry, conv>>
        /\ local' = [local EXCEPT ![r] = Append(local[r], Question(r))]
        /\ pc[r] = "generate" /\ pc'[r] = "save"
        /\ \A s \in Requests : s # r => pc'[s] = pc[s]
    BY <1>1, <1>12 DEF Generate, storeVars
  <2>2. /\ local'[r] = Append(local[r], Question(r))
        /\ \A s \in Requests : s # r => local'[s] = local[s]
    BY <2>1, <1>0
  <2> QED
    BY <2>1, <2>2, <1>3, <1>4 DEF LocalCurrent
<1>13. ASSUME NEW r \in Requests, SaveTurn(r)
       PROVE  LocalCurrent' /\ Grows
  <2> DEFINE m == Append(local[r], Answer(r))
  <2>1. /\ Save(conv[r], m) /\ now' = now /\ conv' = conv /\ conv[r] \in Ids
        /\ local' = [local EXCEPT ![r] = <<>>]
        /\ pc[r] = "save" /\ pc'[r] = "release"
        /\ \A s \in Requests : s # r => pc'[s] = pc[s]
    BY <1>0, <1>1, <1>13 DEF SaveTurn
  <2>2. m \in Seq(Messages)
    BY <1>0, <1>2
  <2>3. /\ ToSet(order') \subseteq ToSet(order) \cup {conv[r]}
        /\ \A k \in ToSet(order') :
             entry'[k].messages = IF k = conv[r] THEN m ELSE entry[k].messages
    <3> HIDE DEF m
    <3> QED
      BY <2>1, <2>2, <1>0, SaveEffect
  <2>4. conv[r] \in ToSet(order) => m = Append(Append(entry[conv[r]].messages, Question(r)), Answer(r))
    BY <2>1 DEF LocalCurrent
  <2>5. \A s \in Requests : s # r /\ Working(s) => conv[s] # conv[r]
    BY <2>1 DEF TurnsSerialized, InTurn, Answering
  <2>6. \A s \in Requests : s # r => local'[s] = local[s]
    BY <2>1, <1>0
  <2> HIDE DEF m
  <2>7. LocalCurrent'
    <3> SUFFICES ASSUME NEW s \in Requests, conv[s] \in ToSet(order'), Working(s)'
                 PROVE  /\ pc'[s] \in {"condense", "retrieve", "generate"} =>
                             local'[s] = entry'[conv[s]].messages
                        /\ pc'[s] = "save" =>
                             local'[s] = Append(entry'[conv[s]].messages, Question(s))
      BY <2>1 DEF LocalCurrent
    <3>1. s # r /\ pc'[s] = pc[s] /\ local'[s] = local[s] /\ conv[s] # conv[r]
      BY <2>1, <2>5, <2>6
    <3>2. conv[s] \in ToSet(order) /\ entry'[conv[s]].messages = entry[conv[s]].messages
      BY <3>1, <2>3
    <3> QED
      BY <3>1, <3>2 DEF LocalCurrent
  <2>8. Grows
    <3> SUFFICES ASSUME NEW id \in ToSet(order) \cap ToSet(order')
                 PROVE  IsPrefix(entry[id].messages, entry'[id].messages)
      OBVIOUS
    <3>1. CASE id = conv[r]
      <4>1. entry'[id].messages = Append(Append(entry[id].messages, Question(r)), Answer(r))
        BY <3>1, <2>3, <2>4
      <4>2. entry[id].messages \in Seq(Messages)
        BY <1>0
      <4> QED
        BY <4>1, <4>2, <1>2, PrefixOfTurn
    <3>2. CASE id # conv[r]
      BY <3>2, <2>3, <1>0, PrefixOfItself
    <3> QED
      BY <3>1, <3>2
  <2> QED
    BY <2>7, <2>8
<1>14. ASSUME NEW r \in Requests, TurnFails(r)
       PROVE  LocalCurrent' /\ Grows
  <2>1. /\ UNCHANGED <<order, entry, conv>> /\ pc'[r] = "release"
        /\ \A s \in Requests : s # r => pc'[s] = pc[s] /\ local'[s] = local[s]
    BY <1>0, <1>1, <1>14 DEF TurnFails, storeVars
  <2> QED
    BY <2>1, <1>4, <1>6
<1>15. ASSUME NEW r \in Requests, Release(r)
       PROVE  LocalCurrent' /\ Grows
  <2>1. /\ UNCHANGED <<order, entry, conv, local>> /\ pc'[r] \in {"reply", "done"}
        /\ \A s \in Requests : s # r => pc'[s] = pc[s]
    BY <1>1, <1>15 DEF Release, storeVars
  <2> QED
    BY <2>1, <1>4, <1>6
<1>16. ASSUME NEW r \in Requests, Reply(r)
       PROVE  LocalCurrent' /\ Grows
  <2>1. /\ Load(conv[r]) /\ now' = now /\ conv[r] \in Ids /\ UNCHANGED <<conv, local>>
        /\ pc'[r] = "done" /\ \A s \in Requests : s # r => pc'[s] = pc[s]
    BY <1>0, <1>1, <1>16 DEF Reply
  <2> QED
    BY <2>1, <1>5, <1>6
<1>17. ASSUME NEW id \in Ids, ReadPage(id)
       PROVE  LocalCurrent' /\ Grows
  BY <1>5, <1>6, <1>17 DEF ReadPage, requestVars
<1>18. ASSUME PassTime \/ UNCHANGED vars
       PROVE  LocalCurrent' /\ Grows
  BY <1>4, <1>6, <1>18 DEF PassTime, Tick, vars, storeVars, requestVars
<1>19. ASSUME Restart
       PROVE  LocalCurrent' /\ Grows
  <2>1. ToSet(order') = {}
    BY <1>19, EmptyOrder DEF Restart
  <2> QED
    BY <2>1 DEF LocalCurrent
<1>20. LocalCurrent' /\ Grows
  BY <1>7, <1>8, <1>9, <1>10, <1>11, <1>12, <1>13, <1>14, <1>15, <1>16, <1>17, <1>18, <1>19
     DEF Next, RequestStep, TurnStep
<1>21. DOMAIN entry = ToSet(order) /\ DOMAIN entry' = ToSet(order')
  <2>1. StoreTypeOK'
    BY StepKeepsTypes DEF TypeOK
  <2> QED
    BY <2>1, <1>0 DEF StoreTypeOK
<1> QED
  BY <1>20, <1>21

\* The copies stay current in every state.
THEOREM CopiesStayCurrent ==
  ASSUME RoomyRegistry
  PROVE  Spec => []LocalCurrent
<1>1. Init => LocalCurrent
  BY EmptyOrder DEF Init, StoreInit, LocalCurrent
<1>2. TypeOK /\ TurnsSerialized /\ LocalCurrent /\ [Next]_vars => LocalCurrent'
  BY StepKeepsHistory
<1> QED
  BY <1>1, <1>2, TypeCorrect, TurnsOfOneConversationAreSerialized, PTL DEF Spec

\* No turn is ever overwritten: a stored history only grows at its end, for any
\* number of requests, provided the registry has room for every conversation.
THEOREM NoTurnIsOverwritten ==
  ASSUME RoomyRegistry
  PROVE  Spec => HistoryGrows
<1> DEFINE Grown == \A id \in DOMAIN entry \cap DOMAIN entry' :
                     IsPrefix(entry[id].messages, entry'[id].messages)
<1>1. TypeOK /\ TurnsSerialized /\ LocalCurrent /\ [Next]_vars => [Grown]_vars
  BY StepKeepsHistory
<1> QED
  BY <1>1, TypeCorrect, CopiesStayCurrent, TurnsOfOneConversationAreSerialized, PTL
     DEF Spec, HistoryGrows
----------------------------------------------------------------------------
\* The requests whose question and answer may be stored under id.
Answered(id) ==
  {r \in Requests : /\ conv[r] = id
                    /\ reply[r].status \in {"none", "ok"}
                    /\ pc[r] \in {"release", "reply", "done"}}

\* Question, answer, question, answer, each pair of one request.
Paired(m) ==
  \A i \in 1 .. Len(m) :
    IF i % 2 = 1 THEN m[i].role = "user" /\ i < Len(m)
                 ELSE m[i].role = "assistant" /\ m[i].of = m[i - 1].of

\* A history of whole turns of such requests, none of them twice.
Sound(m, answered) ==
  /\ m \in Seq(Messages) /\ Paired(m)
  /\ \A i \in 1 .. Len(m) : m[i].of \in answered
  /\ \A i, j \in 1 .. Len(m) : m[i] = m[j] => i = j

\* The histories in the store are sound, and so are the copies of them that the
\* requests work on, however old they are.
HistoriesSound ==
  /\ \A id \in ToSet(order) : Sound(entry[id].messages, Answered(id))
  /\ \A r \in Requests :
       /\ pc[r] \in {"condense", "retrieve", "generate"} => Sound(local[r], Answered(conv[r]))
       /\ pc[r] = "save" =>
            \E m \in Seq(Messages) : Sound(m, Answered(conv[r])) /\ local[r] = Append(m, Question(r))
       /\ pc[r] \notin {"release", "done"} => reply[r].status = "none"

\* The empty history is sound.
LEMMA EmptySound ==
  ASSUME NEW answered
  PROVE  Sound(<<>>, answered)
BY DEF Sound, Paired

\* A history is sound for as long as none of its requests is struck out.
LEMMA SoundStaysSound ==
  ASSUME NEW m, NEW A, NEW B, Sound(m, A), A \subseteq B
  PROVE  Sound(m, B)
BY DEF Sound

\* A sound history and the turn of a request that is not in it yet.
LEMMA TurnSound ==
  ASSUME NEW m, NEW r \in Requests, NEW A, NEW B,
         Sound(m, A), r \notin A, r \in B, A \subseteq B
  PROVE  Sound(Append(Append(m, Question(r)), Answer(r)), B)
<1> DEFINE n == Append(Append(m, Question(r)), Answer(r))
<1>1. Question(r) \in Messages /\ Answer(r) \in Messages
  BY DEF Question, Answer, Messages, Roles
<1>2. m \in Seq(Messages) /\ Len(m) \in Nat /\ Paired(m)
  BY DEF Sound
<1>3. /\ n \in Seq(Messages) /\ Len(n) = Len(m) + 2
      /\ \A i \in 1 .. Len(m) : n[i] = m[i]
      /\ n[Len(m) + 1] = Question(r) /\ n[Len(m) + 2] = Answer(r)
  BY <1>1, <1>2
<1> HIDE DEF n
<1>4. Len(m) % 2 = 0
  <2>1. CASE Len(m) = 0
    BY <2>1
  <2>2. CASE Len(m) # 0
    <3>1. Len(m) \in 1 .. Len(m)
      BY <2>2, <1>2
    <3>2. Len(m) % 2 # 1
      BY <3>1, <1>2 DEF Paired
    <3> QED
      BY <3>2, <1>2
  <2> QED
    BY <2>1, <2>2
<1>5. Paired(n)
  <2> SUFFICES ASSUME NEW i \in 1 .. Len(m) + 2
               PROVE  IF i % 2 = 1 THEN n[i].role = "user" /\ i < Len(m) + 2
                                   ELSE n[i].role = "assistant" /\ n[i].of = n[i - 1].of
    BY <1>3 DEF Paired
  <2>1. CASE i \in 1 .. Len(m)
    <3>1. i % 2 # 1 => i - 1 \in 1 .. Len(m)
      <4>1. i = 1 => i % 2 = 1
        OBVIOUS
      <4> QED
        BY <4>1, <2>1, <1>2
    <3> QED
      BY <2>1, <3>1, <1>2, <1>3 DEF Paired
  <2>2. CASE i = Len(m) + 1
    BY <2>2, <1>2, <1>3, <1>4 DEF Question
  <2>3. CASE i = Len(m) + 2
    BY <2>3, <1>2, <1>3, <1>4 DEF Question, Answer
  <2> QED
    BY <2>1, <2>2, <2>3, <1>2
<1>6. \A i \in 1 .. Len(m) : m[i].of # r
  BY DEF Sound
<1>7. \A i \in 1 .. Len(n) : n[i].of \in B
  <2> SUFFICES ASSUME NEW i \in 1 .. Len(m) + 2
               PROVE  n[i].of \in B
    BY <1>3
  <2>1. CASE i \in 1 .. Len(m)
    BY <2>1, <1>3, <1>6 DEF Sound
  <2>2. CASE i \in {Len(m) + 1, Len(m) + 2}
    BY <2>2, <1>3 DEF Question, Answer
  <2> QED
    BY <2>1, <2>2, <1>2
<1>8. ASSUME NEW i \in 1 .. Len(n), NEW j \in 1 .. Len(n), n[i] = n[j]
      PROVE  i = j
  <2>1. Question(r) # Answer(r) /\ Question(r).of = r /\ Answer(r).of = r
    BY DEF Question, Answer
  <2>2. /\ i \in 1 .. Len(m) \/ i = Len(m) + 1 \/ i = Len(m) + 2
        /\ j \in 1 .. Len(m) \/ j = Len(m) + 1 \/ j = Len(m) + 2
    BY <1>2, <1>3
  <2>3. CASE i \in 1 .. Len(m)
    <3>1. n[j] = m[i] /\ m[i].of # r
      BY <2>3, <1>3, <1>6, <1>8
    <3>2. j \in 1 .. Len(m)
      BY <2>1, <2>2, <3>1, <1>3
    <3> QED
      BY <2>3, <3>1, <3>2, <1>3 DEF Sound
  <2>4. CASE i = Len(m) + 1
    BY <2>1, <2>2, <2>4, <1>3, <1>6, <1>8
  <2>5. CASE i = Len(m) + 2
    BY <2>1, <2>2, <2>5, <1>3, <1>6, <1>8
  <2> QED
    BY <2>2, <2>3, <2>4, <2>5
<1> QED
  BY <1>3, <1>5, <1>7, <1>8 DEF Sound, n

\* The stored histories and the copies stay sound where the store drops
\* conversations at most, no request is struck out, and the requests that are at
\* work afterwards were there before with the same copy.
LEMMA QuietHistories ==
  ASSUME HistoriesSound, StoreShrinks, UNCHANGED conv,
         \A id : Answered(id) \subseteq Answered(id)',
         \A s \in Requests : \/ ~ Working(s)'
                             \/ pc'[s] = pc[s] /\ local'[s] = local[s],
         \A s \in Requests : pc'[s] \notin {"release", "done"} => reply'[s].status = "none"
  PROVE  HistoriesSound'
<1>1. ASSUME NEW m, NEW id, Sound(m, Answered(id))
      PROVE  Sound(m, Answered(id)')
  BY <1>1, SoundStaysSound
<1>2. ASSUME NEW id \in ToSet(order')
      PROVE  Sound(entry'[id].messages, Answered(id)')
  <2>1. Sound(entry[id].messages, Answered(id)) /\ entry'[id].messages = entry[id].messages
    BY <1>2 DEF HistoriesSound, StoreShrinks
  <2> QED
    BY <2>1, <1>1
<1>3. ASSUME NEW r \in Requests
      PROVE  /\ pc'[r] \in {"condense", "retrieve", "generate"} =>
                  Sound(local'[r], Answered(conv[r])')
             /\ pc'[r] = "save" =>
                  \E m \in Seq(Messages) : /\ Sound(m, Answered(conv[r])')
                                           /\ local'[r] = Append(m, Question(r))
             /\ pc'[r] \notin {"release", "done"} => reply'[r].status = "none"
  <2>1. CASE Working(r)'
    <3>1. pc'[r] = pc[r] /\ local'[r] = local[r]
      BY <2>1
    <3> QED
      BY <1>1, <3>1 DEF HistoriesSound
  <2>2. CASE ~ Working(r)'
    BY <2>2 DEF HistoriesSound, Working
  <2> QED
    BY <2>1, <2>2
<1> QED
  BY <1>2, <1>3 DEF HistoriesSound

\* Every step keeps the histories sound.
LEMMA StepKeepsSound ==
  ASSUME TypeOK, HistoriesSound, [Next]_vars
  PROVE  HistoriesSound'
<1> DEFINE Over == {"release", "reply", "done"}
<1>0. /\ pc \in [Requests -> Steps] /\ conv \in [Requests -> Ids]
      /\ local \in [Requests -> Seq(Messages)]
      /\ reply \in [Requests -> [status : Statuses, messages : Seq(Messages)]]
      /\ StoreTypeOK /\ now \in Nat
  BY DEF TypeOK, RequestsTypeOK, StoreTypeOK
<1>1. ASSUME NEW r \in Requests, NEW from, NEW to, Goto(r, from, to)
      PROVE  /\ pc[r] = from /\ pc'[r] = to
             /\ \A s \in Requests : s # r => pc'[s] = pc[s]
  BY <1>0, <1>1 DEF Goto
<1>2. ASSUME NEW r \in Requests, NEW status, NEW m, Finish(r, status, m)
      PROVE  /\ reply'[r].status = status
             /\ \A s \in Requests : s # r => reply'[s] = reply[s]
  BY <1>0, <1>2 DEF Finish
<1>3. \A s \in Requests : pc[s] \notin {"release", "done"} => reply[s].status = "none"
  BY DEF HistoriesSound
<1>4. ASSUME UNCHANGED <<order, entry>>
      PROVE  StoreShrinks
  BY <1>4 DEF StoreShrinks
<1>5. ASSUME NEW id \in Ids, Load(id), now' = now
      PROVE  StoreShrinks
  BY <1>0, <1>5, LoadEffect DEF StoreShrinks
<1>6. ASSUME UNCHANGED conv,
             \A s \in Requests : pc[s] \in Over => pc'[s] \in Over,
             \A s \in Requests : pc[s] \in Over /\ reply[s].status \in {"none", "ok"} =>
                                   reply'[s].status \in {"none", "ok"}
      PROVE  \A id : Answered(id) \subseteq Answered(id)'
  BY <1>6 DEF Answered
\* A step of a request that is not at work afterwards.
<1>7. ASSUME NEW r \in Requests, StoreShrinks, UNCHANGED conv,
             \A s \in Requests : s # r => /\ pc'[s] = pc[s] /\ local'[s] = local[s]
                                          /\ reply'[s] = reply[s],
             ~ Working(r)', pc[r] \in Over => pc'[r] \in Over,
             pc[r] \in Over /\ reply[r].status \in {"none", "ok"} =>
               reply'[r].status \in {"none", "ok"},
             pc'[r] \notin {"release", "done"} => reply'[r].status = "none"
      PROVE  HistoriesSound'
  <2>1. \A id : Answered(id) \subseteq Answered(id)'
    BY <1>6, <1>7
  <2>2. \A s \in Requests : pc'[s] \notin {"release", "done"} => reply'[s].status = "none"
    BY <1>3, <1>7
  <2> QED
    BY <2>1, <2>2, <1>7, QuietHistories
\* A step of none of them.
<1>8. ASSUME StoreShrinks, UNCHANGED <<conv, pc, local, reply>>
      PROVE  HistoriesSound'
  BY <1>3, <1>6, <1>8, QuietHistories
<1>9. ASSUME NEW r \in Requests, Send(r) \/ Start(r)
      PROVE  HistoriesSound'
  <2>1. /\ pc[r] \in {"new", "queued"} /\ pc'[r] \in {"queued", "engine"}
        /\ UNCHANGED <<order, entry, conv, local, reply>>
        /\ \A s \in Requests : s # r => pc'[s] = pc[s]
    BY <1>1, <1>9 DEF Send, Start, storeVars
  <2> QED
    BY <2>1, <1>3, <1>4, <1>7 DEF Working
<1>10. ASSUME NEW r \in Requests, Refuse(r) \/ GiveUp(r)
       PROVE  HistoriesSound'
  BY <1>1, <1>2, <1>4, <1>7, <1>10 DEF Refuse, GiveUp, storeVars, Working
<1>11. ASSUME NEW r \in Requests, UseEngine(r) \/ Build(r) \/ BuildSucceeds(r)
       PROVE  HistoriesSound'
  <2>1. /\ pc[r] \in {"engine", "building"} /\ pc'[r] \in {"lock", "building"}
        /\ UNCHANGED <<order, entry, conv, local, reply>>
        /\ \A s \in Requests : s # r => pc'[s] = pc[s]
    BY <1>1, <1>11 DEF UseEngine, Build, BuildSucceeds, storeVars
  <2> QED
    BY <2>1, <1>3, <1>4, <1>7 DEF Working
<1>12. ASSUME NEW r \in Requests, BuildFails(r)
       PROVE  HistoriesSound'
  BY <1>1, <1>2, <1>4, <1>7, <1>12 DEF BuildFails, storeVars, Working
<1>13. ASSUME NEW r \in Requests, Register(r) \/ Acquire(r)
       PROVE  HistoriesSound'
  BY <1>1, <1>3, <1>4, <1>7, <1>13 DEF Register, Acquire, storeVars, Working
<1>14. ASSUME NEW r \in Requests, LoadHistory(r)
       PROVE  HistoriesSound'
  <2>1. /\ Load(conv[r]) /\ now' = now /\ conv[r] \in Ids /\ UNCHANGED <<conv, reply>>
        /\ pc[r] = "load" /\ pc'[r] = "condense"
        /\ \A s \in Requests : s # r => pc'[s] = pc[s] /\ local'[s] = local[s]
        /\ local'[r] = Loaded(conv[r])
    BY <1>0, <1>1, <1>14 DEF LoadHistory
  <2>2. StoreShrinks
    BY <2>1, <1>5
  <2>3. \A id : Answered(id) \subseteq Answered(id)'
    BY <2>1, <1>6
  <2>4. ASSUME NEW id \in ToSet(order')
        PROVE  Sound(entry'[id].messages, Answered(id)')
    BY <2>2, <2>3, <2>4, SoundStaysSound DEF HistoriesSound, StoreShrinks
  <2>5. Sound(local'[r], Answered(conv[r])')
    <3>1. Loaded(conv[r]) = IF conv[r] \in ToSet(order') THEN entry'[conv[r]].messages ELSE <<>>
      BY <2>1, <1>0, LoadEffect
    <3> QED
      BY <3>1, <2>1, <2>4, EmptySound
  <2>6. ASSUME NEW s \in Requests, s # r
        PROVE  /\ pc'[s] \in {"condense", "retrieve", "generate"} =>
                    Sound(local'[s], Answered(conv[s])')
               /\ pc'[s] = "save" =>
                    \E m \in Seq(Messages) : /\ Sound(m, Answered(conv[s])')
                                             /\ local'[s] = Append(m, Question(s))
    BY <2>1, <2>3, <2>6, SoundStaysSound DEF HistoriesSound
  <2>7. \A s \in Requests : pc'[s] \notin {"release", "done"} => reply'[s].status = "none"
    BY <2>1, <1>3
  <2> QED
    BY <2>1, <2>4, <2>5, <2>6, <2>7 DEF HistoriesSound
<1>15. ASSUME NEW r \in Requests, Condense(r) \/ Retrieve(r) \/ Generate(r)
       PROVE  HistoriesSound'
  <2>1. /\ UNCHANGED <<order, entry, conv, reply>>
        /\ \A s \in Requests : s # r => pc'[s] = pc[s] /\ local'[s] = local[s]
        /\ pc[r] \in {"condense", "retrieve", "generate"}
        /\ \/ pc'[r] \in {"retrieve", "generate"} /\ local'[r] = local[r]
           \/ pc'[r] = "save" /\ local'[r] = Append(local[r], Question(r))
    BY <1>0, <1>1, <1>15 DEF Condense, Retrieve, Generate, storeVars
  <2>2. \A id : Answered(id) \subseteq Answered(id)'
    BY <2>1, <1>6
  <2>3. Sound(local[r], Answered(conv[r])') /\ local[r] \in Seq(Messages)
    BY <2>1, <2>2, <1>0, SoundStaysSound DEF HistoriesSound
  <2>4. ASSUME NEW s \in Requests
        PROVE  /\ pc'[s] \in {"condense", "retrieve", "generate"} =>
                    Sound(local'[s], Answered(conv[s])')
               /\ pc'[s] = "save" =>
                    \E m \in Seq(Messages) : /\ Sound(m, Answered(conv[s])')
                                             /\ local'[s] = Append(m, Question(s))
    <3>1. CASE s = r
      BY <3>1, <2>1, <2>3
    <3>2. CASE s # r
      BY <3>2, <2>1, <2>2, SoundStaysSound DEF HistoriesSound
    <3> QED
      BY <3>1, <3>2
  <2>5. ASSUME NEW id \in ToSet(order')
        PROVE  Sound(entry'[id].messages, Answered(id)')
    BY <2>1, <2>2, <2>5, SoundStaysSound DEF HistoriesSound
  <2>6. \A s \in Requests : pc'[s] \notin {"release", "done"} => reply'[s].status = "none"
    BY <2>1, <1>3
  <2> QED
    BY <2>1, <2>4, <2>5, <2>6 DEF HistoriesSound
<1>16. ASSUME NEW r \in Requests, SaveTurn(r)
       PROVE  HistoriesSound'
  <2> DEFINE n == Append(local[r], Answer(r))
  <2>1. /\ Save(conv[r], n) /\ now' = now /\ conv[r] \in Ids /\ UNCHANGED <<conv, reply>>
        /\ pc[r] = "save" /\ pc'[r] = "release"
        /\ \A s \in Requests : s # r => pc'[s] = pc[s] /\ local'[s] = local[s]
    BY <1>0, <1>1, <1>16 DEF SaveTurn
  <2>2. \A id : Answered(id) \subseteq Answered(id)'
    BY <2>1, <1>6
  <2>3. PICK m \in Seq(Messages) :
          Sound(m, Answered(conv[r])) /\ local[r] = Append(m, Question(r))
    BY <2>1 DEF HistoriesSound
  <2>4. r \notin Answered(conv[r]) /\ r \in Answered(conv[r])'
    BY <2>1, <1>3 DEF Answered
  <2>5. Sound(n, Answered(conv[r])')
    <3>1. Answered(conv[r]) \subseteq Answered(conv[r])'
      BY <2>1, <2>2
    <3> QED
      BY <3>1, <2>3, <2>4, TurnSound
  <2>6. n \in Seq(Messages)
    BY <2>5 DEF Sound
  <2> HIDE DEF n
  <2>7. /\ ToSet(order') \subseteq ToSet(order) \cup {conv[r]}
        /\ \A k \in ToSet(order') :
             entry'[k].messages = IF k = conv[r] THEN n ELSE entry[k].messages
    BY <2>1, <2>6, <1>0, SaveEffect
  <2>8. ASSUME NEW id \in ToSet(order')
        PROVE  Sound(entry'[id].messages, Answered(id)')
    <3>1. CASE id = conv[r]
      BY <3>1, <2>1, <2>5, <2>7
    <3>2. CASE id # conv[r]
      BY <3>2, <2>2, <2>7, SoundStaysSound DEF HistoriesSound
    <3> QED
      BY <3>1, <3>2
  <2>9. ASSUME NEW s \in Requests
        PROVE  /\ pc'[s] \in {"condense", "retrieve", "generate"} =>
                    Sound(local'[s], Answered(conv[s])')
               /\ pc'[s] = "save" =>
                    \E k \in Seq(Messages) : /\ Sound(k, Answered(conv[s])')
                                             /\ local'[s] = Append(k, Question(s))
    <3>1. CASE s = r
      BY <3>1, <2>1
    <3>2. CASE s # r
      BY <3>2, <2>1, <2>2, SoundStaysSound DEF HistoriesSound
    <3> QED
      BY <3>1, <3>2
  <2>10. \A s \in Requests : pc'[s] \notin {"release", "done"} => reply'[s].status = "none"
    BY <2>1, <1>3
  <2> QED
    BY <2>1, <2>8, <2>9, <2>10 DEF HistoriesSound
<1>17. ASSUME NEW r \in Requests, TurnFails(r)
       PROVE  HistoriesSound'
  <2>1. /\ UNCHANGED <<order, entry, conv>>
        /\ pc[r] \in {"retrieve", "generate", "save"} /\ pc'[r] = "release"
        /\ \A s \in Requests : s # r => /\ pc'[s] = pc[s] /\ local'[s] = local[s]
                                        /\ reply'[s] = reply[s]
    BY <1>0, <1>1, <1>2, <1>17 DEF TurnFails, storeVars
  <2> QED
    BY <2>1, <1>4, <1>7 DEF Working
<1>18. ASSUME NEW r \in Requests, Release(r)
       PROVE  HistoriesSound'
  <2>1. /\ UNCHANGED <<order, entry, conv, local, reply>> /\ pc[r] = "release"
        /\ pc'[r] = "done" \/ (pc'[r] = "reply" /\ reply[r].status = "none")
        /\ \A s \in Requests : s # r => pc'[s] = pc[s]
    BY <1>1, <1>18 DEF Release, storeVars, NoReply
  <2> QED
    BY <2>1, <1>4, <1>7 DEF Working
<1>19. ASSUME NEW r \in Requests, Reply(r)
       PROVE  HistoriesSound'
  <2>1. /\ Load(conv[r]) /\ now' = now /\ conv[r] \in Ids /\ UNCHANGED <<conv, local>>
        /\ pc[r] = "reply" /\ pc'[r] = "done" /\ reply'[r].status = "ok"
        /\ \A s \in Requests : s # r => pc'[s] = pc[s] /\ reply'[s] = reply[s]
    BY <1>0, <1>1, <1>2, <1>19 DEF Reply
  <2> QED
    BY <2>1, <1>5, <1>7 DEF Working
<1>20. ASSUME NEW id \in Ids, ReadPage(id)
       PROVE  HistoriesSound'
  BY <1>5, <1>8, <1>20 DEF ReadPage, requestVars
<1>21. ASSUME PassTime \/ UNCHANGED vars
       PROVE  HistoriesSound'
  BY <1>4, <1>8, <1>21 DEF PassTime, Tick, vars, storeVars, requestVars
<1>22. ASSUME Restart
       PROVE  HistoriesSound'
  <2>1. ToSet(order') = {}
    BY <1>22, EmptyOrder DEF Restart
  <2>2. \A s \in Requests :
          /\ pc'[s] \in {"new", "done"}
          /\ pc'[s] = "new" => reply'[s] = reply[s] /\ pc[s] = "new"
    BY <1>0, <1>22 DEF Restart
  <2> QED
    BY <2>1, <2>2, <1>3 DEF HistoriesSound
<1> QED
  BY <1>9, <1>10, <1>11, <1>12, <1>13, <1>14, <1>15, <1>16, <1>17, <1>18, <1>19, <1>20, <1>21,
     <1>22
     DEF Next, RequestStep, TurnStep

\* The histories are sound in every state, also if the registry drops locks and
\* turns overlap: then turns are lost, but none is torn.
THEOREM HistoriesStaySound == Spec => [](TypeOK /\ HistoriesSound)
<1>1. Init => HistoriesSound
  BY EmptyOrder DEF Init, StoreInit, HistoriesSound, NoReply
<1>2. TypeOK /\ HistoriesSound /\ [Next]_vars => HistoriesSound'
  BY StepKeepsSound
<1> QED
  BY <1>1, <1>2, TypeCorrect, PTL DEF Spec

\* What is stored is a list of whole turns, in every state: a turn that fails,
\* whose request gives up, or whose lock was dropped tears none apart.
THEOREM StoredTurnsAreWhole == Spec => []WholeTurns
<1>1. TypeOK /\ HistoriesSound => WholeTurns
  <2> SUFFICES ASSUME TypeOK, HistoriesSound, NEW id \in DOMAIN entry
               PROVE  LET m == entry[id].messages
                      IN  \A i \in DOMAIN m :
                            IF i % 2 = 1 THEN m[i].role = "user" /\ i < Len(m)
                                         ELSE m[i].role = "assistant" /\ m[i].of = m[i - 1].of
    BY DEF WholeTurns
  <2> DEFINE m == entry[id].messages
  <2>1. Sound(m, Answered(id))
    BY DEF TypeOK, StoreTypeOK, HistoriesSound
  <2> HIDE DEF m
  <2>2. Paired(m) /\ DOMAIN m = 1 .. Len(m)
    BY <2>1 DEF Sound
  <2> QED
    BY <2>2 DEF Paired, m
<1> QED
  BY <1>1, HistoriesStaySound, PTL

\* What is stored was asked in its conversation, only once, and was answered,
\* for any number of requests and whatever else fails or restarts.
THEOREM OnlyAnsweredTurnsStored == Spec => []OnlyAnsweredStored
<1>1. TypeOK /\ HistoriesSound => OnlyAnsweredStored
  <2> SUFFICES ASSUME TypeOK, HistoriesSound, NEW id \in DOMAIN entry
               PROVE  LET m == entry[id].messages
                      IN  \A i \in DOMAIN m :
                            /\ conv[m[i].of] = id
                            /\ reply[m[i].of].status \in {"none", "ok"}
                            /\ pc[m[i].of] \in {"release", "reply", "done"}
                            /\ \A j \in DOMAIN m : m[i] = m[j] => i = j
    BY DEF OnlyAnsweredStored
  <2> DEFINE m == entry[id].messages
  <2>1. Sound(m, Answered(id))
    BY DEF TypeOK, StoreTypeOK, HistoriesSound
  <2> HIDE DEF m
  <2>2. /\ DOMAIN m = 1 .. Len(m)
        /\ \A i \in DOMAIN m : m[i].of \in Answered(id)
        /\ \A i, j \in DOMAIN m : m[i] = m[j] => i = j
    BY <2>1 DEF Sound
  <2> QED
    BY <2>2 DEF Answered, m
<1> QED
  BY <1>1, HistoriesStaySound, PTL
----------------------------------------------------------------------------
\* The engine is built by one request at a time, the one that holds the
\* provider's lock, and never again once it is there.
THEOREM EngineBuiltOnce == Spec => []BuildsOnce
<1>1. Init => BuildsOnce
  BY DEF Init, BuildsOnce
<1>2. TypeOK /\ BuildsOnce /\ [Next]_vars => BuildsOnce'
  <2> SUFFICES ASSUME TypeOK, BuildsOnce, [Next]_vars
               PROVE  BuildsOnce'
    OBVIOUS
  <2>0. pc \in [Requests -> Steps] /\ NoBuilder \notin Requests
    BY ServiceAssumption DEF TypeOK, RequestsTypeOK
  <2>1. ASSUME NEW r \in Requests, NEW from, NEW to, Goto(r, from, to)
        PROVE  /\ pc[r] = from /\ pc'[r] = to
               /\ \A s \in Requests : s # r => pc'[s] = pc[s]
    BY <2>0, <2>1 DEF Goto
  \* A step of the provider, after which at most r may build.
  <2>2. ASSUME NEW r \in Requests, Build(r)
        PROVE  BuildsOnce'
    BY <2>0, <2>1, <2>2 DEF Build, BeginBuild, BuildsOnce
  <2>3. ASSUME NEW r \in Requests, BuildSucceeds(r)
        PROVE  BuildsOnce'
    BY <2>0, <2>1, <2>3 DEF BuildSucceeds, EndBuild, BuildsOnce
  <2>4. ASSUME NEW r \in Requests, BuildFails(r)
        PROVE  BuildsOnce'
    BY <2>0, <2>1, <2>4 DEF BuildFails, EndBuild, BuildsOnce
  \* A step of a request that leaves the provider alone.
  <2>5. ASSUME UNCHANGED providerVars, NEW r \in Requests,
               \A s \in Requests : s # r => pc'[s] = pc[s], pc'[r] # "building"
        PROVE  BuildsOnce'
    BY <2>5 DEF BuildsOnce, providerVars
  <2>6. ASSUME NEW r \in Requests, Send(r) \/ Start(r) \/ Refuse(r) \/ UseEngine(r)
        PROVE  BuildsOnce'
    BY <2>1, <2>5, <2>6 DEF Send, Start, Refuse, UseEngine, EngineFound
  <2>7. ASSUME NEW r \in Requests, Register(r) \/ Acquire(r) \/ GiveUp(r)
        PROVE  BuildsOnce'
    BY <2>1, <2>5, <2>7 DEF Register, Acquire, GiveUp
  <2>8. ASSUME NEW r \in Requests, TurnStep(r)
        PROVE  BuildsOnce'
    BY <2>1, <2>5, <2>8
       DEF TurnStep, LoadHistory, Condense, Retrieve, Generate, SaveTurn, TurnFails
  <2>9. ASSUME NEW r \in Requests, Release(r)
        PROVE  BuildsOnce'
    <3>1. /\ UNCHANGED providerVars /\ pc'[r] \in {"reply", "done"}
          /\ \A s \in Requests : s # r => pc'[s] = pc[s]
      BY <2>1, <2>9 DEF Release
    <3> QED
      BY <3>1, <2>5
  <2>10. ASSUME NEW r \in Requests, Reply(r)
         PROVE  BuildsOnce'
    BY <2>1, <2>5, <2>10 DEF Reply
  <2>11. ASSUME (\E id \in Ids : ReadPage(id)) \/ PassTime \/ UNCHANGED vars
         PROVE  BuildsOnce'
    BY <2>11 DEF ReadPage, PassTime, vars, providerVars, requestVars, BuildsOnce
  <2>12. ASSUME Restart
         PROVE  BuildsOnce'
    BY <2>0, <2>12 DEF Restart, BuildsOnce
  <2> QED
    BY <2>2, <2>3, <2>4, <2>6, <2>7, <2>8, <2>9, <2>10, <2>11, <2>12 DEF Next, RequestStep
<1> QED
  BY <1>1, <1>2, TypeCorrect, PTL DEF Spec
----------------------------------------------------------------------------
\* How a request comes to where it is: to the reply from a turn that was saved,
\* to a good response by reading the history, and into the handler by being sent.
\* None becomes new again.
LEMMA RequestProgress ==
  ASSUME TypeOK, [Next]_vars, NEW r \in Requests
  PROVE  /\ pc'[r] = "reply" =>
              pc[r] = "reply" \/ (pc[r] = "release" /\ reply[r].status = "none")
         /\ pc'[r] = "release" /\ reply'[r].status = "none" =>
              (pc[r] = "release" /\ reply[r].status = "none") \/ SaveTurn(r)
         /\ reply'[r].status = "ok" => reply'[r] = reply[r] \/ Reply(r)
         /\ pc'[r] \notin {"new", "done"} => pc[r] \notin {"new", "done"} \/ Send(r)
         /\ pc'[r] = "new" => pc[r] = "new"
<1> DEFINE Fine == /\ pc'[r] = "reply" =>
                        pc[r] = "reply" \/ (pc[r] = "release" /\ reply[r].status = "none")
                   /\ pc'[r] = "release" /\ reply'[r].status = "none" =>
                        (pc[r] = "release" /\ reply[r].status = "none") \/ SaveTurn(r)
                   /\ reply'[r].status = "ok" => reply'[r] = reply[r] \/ Reply(r)
                   /\ pc'[r] \notin {"new", "done"} => pc[r] \notin {"new", "done"} \/ Send(r)
                   /\ pc'[r] = "new" => pc[r] = "new"
<1>0. /\ pc \in [Requests -> Steps]
      /\ reply \in [Requests -> [status : Statuses, messages : Seq(Messages)]]
  BY DEF TypeOK, RequestsTypeOK
<1>1. ASSUME NEW s \in Requests, NEW from, NEW to, Goto(s, from, to)
      PROVE  /\ pc[s] = from /\ pc'[s] = to
             /\ s # r => pc'[r] = pc[r]
  BY <1>0, <1>1 DEF Goto
<1>2. ASSUME NEW s \in Requests, NEW status, NEW m, Finish(s, status, m)
      PROVE  /\ reply'[s].status = status
             /\ s # r => reply'[r] = reply[r]
  BY <1>0, <1>2 DEF Finish
<1>3. ASSUME pc'[r] = pc[r], reply'[r] = reply[r]
      PROVE  Fine
  BY <1>3
\* A step between two places of the handler, or to its end with an error.
<1>4. ASSUME NEW s \in Requests, pc'[s] \notin {"new", "reply", "release"},
             pc[s] \notin {"new", "done"}, s # r => pc'[r] = pc[r], reply' = reply
      PROVE  Fine
  BY <1>3, <1>4
<1>5. ASSUME NEW s \in Requests, pc'[s] = "done" \/ (pc'[s] = "release" /\ pc[s] \notin {"new", "done"}),
             s # r => pc'[r] = pc[r] /\ reply'[r] = reply[r],
             reply'[s].status \notin {"none", "ok"}
      PROVE  Fine
  BY <1>3, <1>5
<1>6. ASSUME NEW s \in Requests, Send(s)
      PROVE  Fine
  BY <1>1, <1>3, <1>6 DEF Send
<1>7. ASSUME NEW s \in Requests, Start(s) \/ UseEngine(s) \/ Build(s) \/ BuildSucceeds(s)
      PROVE  Fine
  <2>1. \E from, to : /\ Goto(s, from, to) /\ reply' = reply
                      /\ from \in {"queued", "engine", "building"}
                      /\ to \in {"engine", "lock", "building"}
    BY <1>7, Zenon DEF Start, UseEngine, Build, BuildSucceeds
  <2> HIDE DEF Fine
  <2> QED
    BY <2>1, <1>1, <1>4
<1>8. ASSUME NEW s \in Requests, Refuse(s) \/ BuildFails(s) \/ GiveUp(s)
      PROVE  Fine
  <2>1. \E from, status : /\ Goto(s, from, "done") /\ Finish(s, status, <<>>)
                          /\ status \in {"refused", "unavailable", "busy"}
    BY <1>8, Zenon DEF Refuse, BuildFails, GiveUp
  <2> HIDE DEF Fine
  <2> QED
    BY <2>1, <1>1, <1>2, <1>5
<1>9. ASSUME NEW s \in Requests, Register(s) \/ Acquire(s)
      PROVE  Fine
  <2> HIDE DEF Fine
  <2> QED
    BY <1>1, <1>4, <1>9 DEF Register, Acquire
<1>10. ASSUME NEW s \in Requests, LoadHistory(s) \/ Condense(s) \/ Retrieve(s) \/ Generate(s)
       PROVE  Fine
  <2> HIDE DEF Fine
  <2> QED
    BY <1>1, <1>4, <1>10 DEF LoadHistory, Condense, Retrieve, Generate
<1>11. ASSUME NEW s \in Requests, SaveTurn(s)
       PROVE  Fine
  <2>1. /\ pc[s] = "save" /\ pc'[s] = "release" /\ reply' = reply
        /\ s # r => pc'[r] = pc[r]
    BY <1>1, <1>11 DEF SaveTurn
  <2> QED
    BY <2>1, <1>3, <1>11
<1>12. ASSUME NEW s \in Requests, TurnFails(s)
       PROVE  Fine
  <2>1. /\ pc[s] \in {"retrieve", "generate", "save"} /\ pc'[s] = "release"
        /\ reply'[s].status = "failed"
        /\ s # r => pc'[r] = pc[r] /\ reply'[r] = reply[r]
    BY <1>1, <1>2, <1>12 DEF TurnFails
  <2> HIDE DEF Fine
  <2> QED
    BY <2>1, <1>5
<1>13. ASSUME NEW s \in Requests, Release(s)
       PROVE  Fine
  <2>1. /\ pc[s] = "release" /\ reply' = reply
        /\ s # r => pc'[r] = pc[r]
        /\ pc'[s] = "done" \/ (pc'[s] = "reply" /\ reply[s].status = "none")
    BY <1>1, <1>13 DEF Release, NoReply
  <2>2. CASE s = r
    <3>1. pc[r] = "release" /\ reply'[r] = reply[r]
      BY <2>1, <2>2
    <3>2. pc'[r] = "done" \/ (pc'[r] = "reply" /\ reply[r].status = "none")
      BY <2>1, <2>2
    <3> QED
      BY <3>1, <3>2
  <2>3. CASE s # r
    <3>1. pc'[r] = pc[r] /\ reply'[r] = reply[r]
      BY <2>1, <2>3
    <3> HIDE DEF Fine
    <3> QED
      BY <3>1, <1>3
  <2> QED
    BY <2>2, <2>3
<1>14. ASSUME NEW s \in Requests, Reply(s)
       PROVE  Fine
  <2>1. /\ pc[s] = "reply" /\ pc'[s] = "done" /\ reply'[s].status = "ok"
        /\ s # r => pc'[r] = pc[r] /\ reply'[r] = reply[r]
    BY <1>1, <1>2, <1>14 DEF Reply
  <2> QED
    BY <2>1, <1>3, <1>14
<1>15. ASSUME (\E id \in Ids : ReadPage(id)) \/ PassTime \/ UNCHANGED vars
       PROVE  Fine
  <2>1. pc' = pc /\ reply' = reply
    BY <1>15, Zenon DEF ReadPage, PassTime, vars, requestVars
  <2> QED
    BY <2>1, <1>3
<1>16. ASSUME Restart
       PROVE  Fine
  BY <1>0, <1>16 DEF Restart
<1>17. Fine
  <2> HIDE DEF Fine
  <2> QED
    BY <1>6, <1>7, <1>8, <1>9, <1>10, <1>11, <1>12, <1>13, <1>14, <1>15, <1>16
       DEF Next, RequestStep, TurnStep
<1> QED
  BY <1>17

\* The turn of r is saved and its response still to be read from the history.
Replying(r) == pc[r] = "reply" \/ (pc[r] = "release" /\ reply[r].status = "none")

\* A message more at the end.
LEMMA OneMore ==
  ASSUME NEW s \in Seq(Messages), NEW a \in Messages
  PROVE  Append(s, a) \in Seq(Messages) /\ ToSet(Append(s, a)) = ToSet(s) \cup {a}
<1>1. /\ Len(s) \in Nat /\ Append(s, a) \in Seq(Messages) /\ Len(Append(s, a)) = Len(s) + 1
      /\ Append(s, a)[Len(s) + 1] = a
      /\ \A i \in 1 .. Len(s) : Append(s, a)[i] = s[i]
  OBVIOUS
<1>2. DOMAIN s = 1 .. Len(s) /\ DOMAIN Append(s, a) = 1 .. Len(s) + 1
  BY <1>1
<1>3. 1 .. Len(s) + 1 = (1 .. Len(s)) \cup {Len(s) + 1}
  BY <1>1
<1> QED
  BY <1>1, <1>2, <1>3 DEF ToSet

LEMMA MessageTypes ==
  ASSUME NEW r \in Requests
  PROVE  Question(r) \in Messages /\ Answer(r) \in Messages
BY DEF Question, Answer, Messages, Roles

\* A history has what its beginnings have.
LEMMA PrefixElements ==
  ASSUME NEW S, NEW m \in Seq(S), NEW n \in Seq(S), IsPrefix(m, n)
  PROVE  ToSet(m) \subseteq ToSet(n)
<1>1. /\ Len(m) \in Nat /\ Len(n) \in Nat /\ Len(m) <= Len(n)
      /\ SubSeq(m, 1, Len(m)) = SubSeq(n, 1, Len(m))
  BY DEF IsPrefix
<1>2. ASSUME NEW i \in 1 .. Len(m)
      PROVE  m[i] = n[i] /\ i \in 1 .. Len(n)
  <2>1. SubSeq(m, 1, Len(m))[i] = m[i] /\ SubSeq(n, 1, Len(m))[i] = n[i]
    BY <1>1
  <2> QED
    BY <1>1, <2>1
<1>3. DOMAIN m = 1 .. Len(m) /\ DOMAIN n = 1 .. Len(n)
  BY <1>1
<1> QED
  BY <1>2, <1>3 DEF ToSet

\* Conversations are not moved from one request to another.
LEMMA ConvFixed ==
  ASSUME [Next]_vars
  PROVE  conv' = conv
BY DEF Next, RequestStep, TurnStep, vars, requestVars, Send, Start, Refuse, UseEngine, Build,
       BuildSucceeds, BuildFails, Register, Acquire, GiveUp, LoadHistory, Condense, Retrieve,
       Generate, SaveTurn, TurnFails, Release, Reply, ReadPage, PassTime, Restart

\* What a step does with the store.
LEMMA StoreSteps ==
  ASSUME TypeOK, [Next]_vars
  PROVE  \/ Restart
         \/ UNCHANGED <<order, entry>> /\ (now' = now \/ now' = now + 1)
         \/ now' = now /\ \E id \in Ids : Load(id) \/ \E m : Save(id, m)
<1>1. conv \in [Requests -> Ids]
  BY DEF TypeOK, RequestsTypeOK
<1>2. ASSUME NEW r \in Requests, LoadHistory(r) \/ SaveTurn(r) \/ Reply(r)
      PROVE  now' = now /\ \E id \in Ids : Load(id) \/ \E m : Save(id, m)
  <2>1. conv[r] \in Ids
    BY <1>1
  <2>2. now' = now /\ (Load(conv[r]) \/ \E m : Save(conv[r], m))
    BY <1>2, Zenon DEF LoadHistory, SaveTurn, Reply
  <2> QED
    BY <2>1, <2>2
<1>3. ASSUME NEW r \in Requests,
             \/ Send(r) \/ Start(r) \/ Refuse(r) \/ UseEngine(r) \/ Build(r) \/ BuildSucceeds(r)
             \/ BuildFails(r) \/ Register(r) \/ Acquire(r) \/ GiveUp(r) \/ Condense(r)
             \/ Retrieve(r) \/ Generate(r) \/ TurnFails(r) \/ Release(r)
      PROVE  UNCHANGED <<order, entry, now>>
  BY <1>3 DEF storeVars, Send, Start, Refuse, UseEngine, Build, BuildSucceeds, BuildFails,
     Register, Acquire, GiveUp, Condense, Retrieve, Generate, TurnFails, Release
<1>4. ASSUME NEW id \in Ids, ReadPage(id)
      PROVE  now' = now /\ Load(id)
  BY <1>4 DEF ReadPage
<1>5. ASSUME PassTime \/ UNCHANGED vars
      PROVE  UNCHANGED <<order, entry>> /\ (now' = now \/ now' = now + 1)
  BY <1>5 DEF PassTime, Tick, vars, storeVars
<1> QED
  BY <1>2, <1>3, <1>4, <1>5 DEF Next, RequestStep, TurnStep

\* A save is the end of the order, which no bound of the store drops.
LEMMA SavedIsStored ==
  ASSUME TypeOK, NEW r \in Requests, SaveTurn(r)
  PROVE  Answer(r) \in ToSet(Stored(conv[r])')
<1> DEFINE m == Append(local[r], Answer(r))
           moved == MoveToEnd(Live, conv[r])
           kept == KeepNewest(moved, MaxConversations)
<1>1. /\ Save(conv[r], m) /\ now' = now /\ conv' = conv /\ conv[r] \in Ids
      /\ local[r] \in Seq(Messages) /\ StoreTypeOK
  BY DEF SaveTurn, TypeOK, RequestsTypeOK
<1>2. m \in Seq(Messages) /\ ToSet(m) = ToSet(local[r]) \cup {Answer(r)}
  BY <1>1, MessageTypes, OneMore
<1>3. order' = kept
  BY <1>1 DEF Save, Keep
<1> HIDE DEF m
<1>4. /\ \A k \in ToSet(order') : k = conv[r] => entry'[k].messages = m
      /\ DOMAIN entry' = ToSet(order')
  BY <1>1, <1>2, SaveEffect DEF StoreTypeOK
<1>5. Live \in Orders(Ids)
  BY <1>1, DropLeadingOrder DEF Live, StoreTypeOK
<1>6. moved \in Orders(Ids) /\ Len(moved) > 0 /\ moved[Len(moved)] = conv[r]
  BY <1>1, <1>5, MoveToEndOrder
<1> HIDE DEF moved
<1>7. kept \in Orders(Ids) /\ Len(kept) > 0 /\ kept[Len(kept)] = conv[r]
  BY <1>6, KeepNewestOrder, StoreAssumption
<1> HIDE DEF kept
<1>8. conv[r] \in ToSet(kept)
  <2>1. Len(kept) \in 1 .. Len(kept) /\ ToSet(kept) = {kept[i] : i \in 1 .. Len(kept)}
    BY <1>7, OrderElements
  <2> QED
    BY <1>7, <2>1
<1>9. \A k \in ToSet(order') : k = conv[r] =>
        Answer(r) \in ToSet(IF k \in DOMAIN entry' THEN entry'[k].messages ELSE <<>>)
  BY <1>2, <1>4
<1> QED
  BY <1>1, <1>3, <1>8, <1>9 DEF Stored

\* A response that was not given is empty, and who is done was given one.
RepliesComplete ==
  \A r \in Requests :
    /\ reply[r].status = "none" => reply[r] = NoReply
    /\ pc[r] = "done" => reply[r].status # "none"

\* No path out of the handler forgets the response.
LEMMA StepCompletesReplies ==
  ASSUME TypeOK, RepliesComplete, [Next]_vars
  PROVE  RepliesComplete'
<1>0. /\ pc \in [Requests -> Steps]
      /\ reply \in [Requests -> [status : Statuses, messages : Seq(Messages)]]
  BY DEF TypeOK, RequestsTypeOK
<1>1. ASSUME NEW r \in Requests, NEW from, NEW to, Goto(r, from, to)
      PROVE  /\ pc[r] = from /\ pc'[r] = to
             /\ \A s \in Requests : s # r => pc'[s] = pc[s]
  BY <1>0, <1>1 DEF Goto
\* The steps that give a response, and those that do not end the handler.
<1>2. ASSUME NEW r \in Requests, NEW status, NEW m, Finish(r, status, m), status # "none",
             \A s \in Requests : s # r => pc'[s] = pc[s]
      PROVE  RepliesComplete'
  BY <1>0, <1>2 DEF Finish, RepliesComplete, NoReply
<1>3. ASSUME reply' = reply, NEW r \in Requests, pc'[r] # "done",
             \A s \in Requests : s # r => pc'[s] = pc[s]
      PROVE  RepliesComplete'
  BY <1>3 DEF RepliesComplete, NoReply
<1>4. ASSUME NEW r \in Requests, Refuse(r) \/ BuildFails(r) \/ GiveUp(r) \/ TurnFails(r) \/ Reply(r)
      PROVE  RepliesComplete'
  <2>1. \E from, to, status, m :
          /\ Goto(r, from, to) /\ Finish(r, status, m)
          /\ status \in {"refused", "unavailable", "busy", "failed", "ok"}
    BY <1>4, Zenon DEF Refuse, BuildFails, GiveUp, TurnFails, Reply
  <2> QED
    BY <2>1, <1>1, <1>2
<1>5. ASSUME NEW r \in Requests,
             Send(r) \/ Start(r) \/ UseEngine(r) \/ Build(r) \/ BuildSucceeds(r)
      PROVE  RepliesComplete'
  <2>1. \E from, to : /\ Goto(r, from, to) /\ reply' = reply
                      /\ to \in {"queued", "engine", "lock", "building"}
    BY <1>5, Zenon DEF Send, Start, UseEngine, Build, BuildSucceeds
  <2> QED
    BY <2>1, <1>1, <1>3
<1>6. ASSUME NEW r \in Requests, Register(r) \/ Acquire(r)
      PROVE  RepliesComplete'
  BY <1>1, <1>3, <1>6 DEF Register, Acquire
<1>7. ASSUME NEW r \in Requests,
             LoadHistory(r) \/ Condense(r) \/ Retrieve(r) \/ Generate(r) \/ SaveTurn(r)
      PROVE  RepliesComplete'
  <2>1. \E from, to : /\ Goto(r, from, to) /\ reply' = reply
                      /\ to \in {"condense", "retrieve", "generate", "save", "release"}
    BY <1>7, Zenon DEF LoadHistory, Condense, Retrieve, Generate, SaveTurn
  <2> QED
    BY <2>1, <1>1, <1>3
<1>8. ASSUME NEW r \in Requests, Release(r)
      PROVE  RepliesComplete'
  <2>1. /\ reply' = reply
        /\ pc'[r] = IF reply[r] = NoReply THEN "reply" ELSE "done"
        /\ \A s \in Requests : s # r => pc'[s] = pc[s]
    BY <1>1, <1>8 DEF Release
  <2>2. CASE reply[r] = NoReply
    BY <2>1, <2>2, <1>3
  <2>3. CASE reply[r] # NoReply
    BY <2>1, <2>3 DEF RepliesComplete, NoReply
  <2> QED
    BY <2>2, <2>3
<1>9. ASSUME (\E id \in Ids : ReadPage(id)) \/ PassTime \/ UNCHANGED vars
      PROVE  RepliesComplete'
  <2>1. pc' = pc /\ reply' = reply
    BY <1>9, Zenon DEF ReadPage, PassTime, vars, requestVars
  <2> QED
    BY <2>1 DEF RepliesComplete, NoReply
<1>10. ASSUME Restart
       PROVE  RepliesComplete'
  BY <1>0, <1>10 DEF Restart, RepliesComplete, NoReply
<1> QED
  BY <1>4, <1>5, <1>6, <1>7, <1>8, <1>9, <1>10 DEF Next, RequestStep, TurnStep

----------------------------------------------------------------------------
\* The store inside the application is in the order of use, as StoreProofs shows
\* of the store alone, and a restart only empties it.
InOrderOfUse ==
  /\ \A k \in ToSet(order) : entry[k].touchedAt <= now
  /\ \A a, b \in ToSet(order) :
       Precedes(order, a, b) => entry[a].touchedAt <= entry[b].touchedAt

\* Nothing in the store was last used Ttl ago or longer.
Purged == \A k \in ToSet(order) : entry[k].touchedAt > now - Ttl

\* What _expire leaves is what is not overdue.
LEMMA LiveIsNotOverdue ==
  ASSUME StoreTypeOK, InOrderOfUse
  PROVE  /\ Live \in Orders(Ids) /\ ToSet(Live) = ToSet(order) \ Overdue
         /\ \A k \in ToSet(Live) : entry[k].touchedAt > now - Ttl
         /\ \A a, b : Precedes(Live, a, b) => Precedes(order, a, b)
<1> DEFINE t == [k \in ToSet(order) |-> entry[k].touchedAt]
           c == now - Ttl
<1>1. /\ order \in Orders(Ids) /\ c \in Int
      /\ \A k \in ToSet(order) : t[k] = entry[k].touchedAt /\ t[k] \in Int
      /\ \A a, b \in ToSet(order) : Precedes(order, a, b) => t[a] <= t[b]
  BY StoreAssumption DEF StoreTypeOK, InOrderOfUse
<1> HIDE DEF t, c
<1>2. Overdue = {k \in ToSet(order) : t[k] <= c}
  BY <1>1 DEF Overdue, c
<1>3. ToSet(Live) = {k \in ToSet(order) : t[k] > c}
  BY <1>1, <1>2, DropLeadingByTime DEF Live
<1>4. /\ Live \in Orders(Ids)
      /\ \A a, b : Precedes(Live, a, b) => Precedes(order, a, b)
  BY <1>1, DropLeadingOrder DEF Live
<1>5. \A k \in ToSet(order) : t[k] > c <=> ~ (t[k] <= c)
  BY <1>1
<1> QED
  BY <1>1, <1>2, <1>3, <1>4, <1>5 DEF c

\* A use of id that leaves live conversations only, id as the newest.
LEMMA UsePurges ==
  ASSUME StoreTypeOK, InOrderOfUse, NEW id \in Ids, NEW e, e.touchedAt = now,
         NEW kept \in Orders(Ids),
         \A k \in ToSet(kept) : k = id \/ k \in ToSet(Live),
         \A a, b : Precedes(kept, a, b) => a # id /\ (b = id \/ Precedes(order, a, b)),
         Keep(kept, id, e), now' = now
  PROVE  InOrderOfUse' /\ Purged'
<1>1. /\ now \in Nat /\ Ttl \in Nat \ {0} /\ order' = kept
      /\ \A k \in ToSet(order) : entry[k].touchedAt \in Nat
      /\ \A k \in ToSet(kept) : entry'[k] = IF k = id THEN e ELSE entry[k]
  BY StoreAssumption DEF StoreTypeOK, Keep
<1>2. /\ ToSet(Live) \subseteq ToSet(order)
      /\ \A k \in ToSet(Live) : entry[k].touchedAt > now - Ttl /\ entry[k].touchedAt <= now
  BY LiveIsNotOverdue DEF InOrderOfUse
<1>3. ASSUME NEW k \in ToSet(kept)
      PROVE  entry'[k].touchedAt <= now /\ entry'[k].touchedAt > now - Ttl
  <2>1. CASE k = id
    BY <1>1, <2>1
  <2>2. CASE k # id
    BY <1>1, <1>2, <2>2
  <2> QED
    BY <2>1, <2>2
<1>4. ASSUME NEW a \in ToSet(kept), NEW b \in ToSet(kept), Precedes(kept, a, b)
      PROVE  entry'[a].touchedAt <= entry'[b].touchedAt
  <2>1. a # id /\ a \in ToSet(order) /\ entry'[a] = entry[a]
    BY <1>1, <1>2, <1>4
  <2>2. CASE b = id
    BY <1>1, <1>2, <2>1, <2>2, <1>4
  <2>3. CASE b # id
    <3>1. b \in ToSet(order) /\ entry'[b] = entry[b] /\ Precedes(order, a, b)
      BY <1>1, <1>2, <1>4, <2>3
    <3> QED
      BY <2>1, <3>1 DEF InOrderOfUse
  <2> QED
    BY <2>2, <2>3
<1> QED
  BY <1>1, <1>3, <1>4 DEF InOrderOfUse, Purged

\* Every load and every save keeps the order and purges.
LEMMA AccessPurges ==
  ASSUME StoreTypeOK, InOrderOfUse, NEW id \in Ids, Load(id) \/ \E m : Save(id, m), now' = now
  PROVE  InOrderOfUse' /\ Purged'
<1> DEFINE moved == MoveToEnd(Live, id)
<1>1. /\ Live \in Orders(Ids) /\ ToSet(Live) \subseteq ToSet(order)
      /\ \A k \in ToSet(Live) : entry[k].touchedAt > now - Ttl
      /\ \A a, b : Precedes(Live, a, b) => Precedes(order, a, b)
  BY LiveIsNotOverdue
<1>2. /\ moved \in Orders(Ids) /\ ToSet(moved) = ToSet(Live) \cup {id}
      /\ \A a, b : Precedes(moved, a, b) => a # id /\ (b = id \/ Precedes(order, a, b))
  BY <1>1, MoveToEndOrder
<1>3. CASE LoadKnown(id)
  <2> DEFINE e == [entry[id] EXCEPT !.touchedAt = now]
  <2>1. id \in ToSet(order) /\ Keep(moved, id, e)
    BY <1>1, <1>3 DEF LoadKnown
  <2>2. e.touchedAt = now
    BY <2>1 DEF StoreTypeOK
  <2> HIDE DEF e, moved
  <2> QED
    BY <1>2, <2>1, <2>2, UsePurges
<1>4. CASE LoadUnknown(id)
  BY <1>1, <1>4 DEF LoadUnknown, InOrderOfUse, Purged
<1>5. ASSUME NEW m, Save(id, m)
      PROVE  InOrderOfUse' /\ Purged'
  <2> DEFINE e == [messages |-> m, touchedAt |-> now]
             kept == KeepNewest(moved, MaxConversations)
  <2>1. Keep(kept, id, e) /\ e.touchedAt = now
    BY <1>5 DEF Save
  <2> HIDE DEF e, moved
  <2>2. /\ kept \in Orders(Ids) /\ ToSet(kept) \subseteq ToSet(moved)
        /\ \A a, b : Precedes(kept, a, b) => Precedes(moved, a, b)
    BY <1>2, KeepNewestOrder, StoreAssumption
  <2> HIDE DEF kept
  <2> QED
    BY <1>2, <2>1, <2>2, UsePurges
<1> QED
  BY <1>3, <1>4, <1>5 DEF Load

\* Over one step.
LEMMA StepPurges ==
  ASSUME TypeOK, InOrderOfUse, [Next]_vars
  PROVE  InOrderOfUse' /\ (Purged' \/ UNCHANGED <<order, entry>>)
<1>1. /\ StoreTypeOK /\ now \in Nat
      /\ \A k \in ToSet(order) : entry[k].touchedAt \in Nat
  BY DEF TypeOK, StoreTypeOK
<1>2. CASE Restart
  BY <1>2, EmptyOrder DEF Restart, InOrderOfUse, Purged
<1>3. CASE UNCHANGED <<order, entry>> /\ (now' = now \/ now' = now + 1)
  BY <1>1, <1>3 DEF InOrderOfUse
<1>4. ASSUME now' = now, NEW id \in Ids, Load(id) \/ \E m : Save(id, m)
      PROVE  InOrderOfUse' /\ Purged'
  BY <1>1, <1>4, AccessPurges
<1> QED
  BY <1>2, <1>3, <1>4, StoreSteps

\* "Limits how long conversation content exists at all" (InMemoryConversationStore),
\* with requests and pages in any order: whatever touches the store, turn,
\* response or page, leaves nothing overdue in memory.
THEOREM EveryUsePurges == Spec => []InOrderOfUse /\ [][Purged' \/ UNCHANGED <<order, entry>>]_vars
<1>1. Init => InOrderOfUse
  BY EmptyOrder DEF Init, StoreInit, InOrderOfUse
<1>2. TypeOK /\ InOrderOfUse /\ [Next]_vars =>
        InOrderOfUse' /\ [Purged' \/ UNCHANGED <<order, entry>>]_vars
  BY StepPurges
<1> QED
  BY <1>1, <1>2, TypeCorrect, PTL DEF Spec

\* And what a turn, a response or a page is made of is the whole history, unless
\* that is overdue: then it is a new conversation, although the old one is still
\* in memory.
THEOREM OverdueIsUnknown ==
  Spec => [](\A id \in Ids : Loaded(id) = IF id \in Overdue THEN <<>> ELSE Stored(id))
<1>1. ASSUME TypeOK, InOrderOfUse, NEW id \in Ids
      PROVE  Loaded(id) = IF id \in Overdue THEN <<>> ELSE Stored(id)
  <2>1. ToSet(Live) = ToSet(order) \ Overdue /\ DOMAIN entry = ToSet(order)
    BY <1>1, LiveIsNotOverdue DEF TypeOK, StoreTypeOK
  <2> QED
    BY <2>1 DEF Loaded, Stored
<1>2. TypeOK /\ InOrderOfUse =>
        \A id \in Ids : Loaded(id) = IF id \in Overdue THEN <<>> ELSE Stored(id)
  BY <1>1
<1> QED
  BY <1>2, TypeCorrect, EveryUsePurges, PTL
----------------------------------------------------------------------------
\* The pages name conversations, and wait for requests of their own conversation
\* that they sent.
PagesKnown ==
  /\ shows \in [Pages -> Ids]
  /\ waiting \in [Pages -> Requests \cup {Nobody}]
  /\ \A p \in Pages : waiting[p] # Nobody => conv[waiting[p]] = shows[p]

\* The request a page sends is one of its conversation that was not sent.
LEMMA FreshIsUnsent ==
  ASSUME NEW p, Unsent(p) # {}
  PROVE  Fresh(p) \in Requests /\ pc[Fresh(p)] = "new" /\ conv[Fresh(p)] = shows[p]
<1>1. Fresh(p) \in Unsent(p)
  BY DEF Fresh
<1> QED
  BY <1>1 DEF Unsent

\* What a page does, to the application and to itself.
LEMMA PageStepIs ==
  ASSUME PagesKnown, NEW p \in Pages, PageStep(p)
  PROVE  /\ \/ \E r \in Requests : Send(r) /\ Submit(p) /\ r = Fresh(p)
            \/ UNCHANGED vars /\ (Deliver(p) \/ GatewayGivesUp(p))
            \/ ReadPage(shows[p]) /\ Reload(p)
         /\ shows[p] \in Ids /\ shows' = shows
         /\ UNCHANGED historyVars \/ Observe({p})
<1>1. shows[p] \in Ids
  BY DEF PagesKnown
<1>2. CASE Submit(p)
  BY <1>1, <1>2, FreshIsUnsent DEF Submit, historyVars
<1>3. CASE Deliver(p)
  BY <1>1, <1>3 DEF Deliver, historyVars
<1>4. CASE GatewayGivesUp(p)
  BY <1>1, <1>4 DEF GatewayGivesUp, historyVars
<1>5. CASE Reload(p)
  BY <1>1, <1>5 DEF Reload
<1> QED
  BY <1>2, <1>3, <1>4, <1>5 DEF PageStep

\* Every step of the browsers and the handlers is one of the application, or none.
LEMMA ClientStepIsStep ==
  ASSUME PagesKnown, [ClientNext]_clientVars
  PROVE  [Next]_vars
<1>1. CASE HandlerStep
  BY <1>1 DEF HandlerStep, Next
<1>2. ASSUME NEW p \in Pages, PageStep(p)
      PROVE  [Next]_vars
  <2>1. \/ \E r \in Requests : Send(r)
        \/ UNCHANGED vars
        \/ \E id \in Ids : ReadPage(id)
    BY <1>2, PageStepIs
  <2> QED
    BY <2>1 DEF Next
<1>3. CASE PassTime \/ Restart
  BY <1>3 DEF Next
<1>4. CASE UNCHANGED clientVars
  BY <1>4 DEF clientVars
<1> QED
  BY <1>1, <1>2, <1>3, <1>4 DEF ClientNext

LEMMA StepKeepsPagesKnown ==
  ASSUME PagesKnown, [ClientNext]_clientVars
  PROVE  PagesKnown'
<1>1. conv' = conv
  BY ClientStepIsStep, ConvFixed
<1>2. CASE UNCHANGED pageVars
  BY <1>1, <1>2 DEF PagesKnown, pageVars
<1>3. ASSUME NEW p \in Pages, PageStep(p)
      PROVE  PagesKnown'
  <2>1. /\ \/ waiting' = [waiting EXCEPT ![p] = Nobody]
           \/ /\ waiting' = [waiting EXCEPT ![p] = Fresh(p)]
              /\ Fresh(p) \in Requests /\ conv[Fresh(p)] = shows[p]
        /\ shows' = shows
    BY <1>3, FreshIsUnsent DEF PageStep, Submit, Deliver, GatewayGivesUp, Reload, Await
  <2> QED
    BY <1>1, <2>1 DEF PagesKnown
<1> QED
  BY <1>2, <1>3 DEF ClientNext, HandlerStep, clientVars

\* The pages use the application as it is specified: what is proved of it holds
\* in front of any number of them.
THEOREM PagesUseTheService == ClientSpec => Spec /\ []PagesKnown
<1>1. ClientInit => Init /\ PagesKnown
  BY DEF ClientInit, PagesKnown
<1>2. PagesKnown /\ [ClientNext]_clientVars => PagesKnown'
  BY StepKeepsPagesKnown
<1>3. PagesKnown /\ [ClientNext]_clientVars => [Next]_vars
  BY ClientStepIsStep
<1> QED
  BY <1>1, <1>2, <1>3, PTL DEF ClientSpec, Spec

----------------------------------------------------------------------------
\* The elements of s are elements of h, in the same order.
InOrder(s, h) ==
  /\ s \in Seq(Messages)
  /\ \A i \in 1 .. Len(s) : s[i] \in ToSet(h)
  /\ \A i, j \in 1 .. Len(s) : i < j => Precedes(h, s[i], s[j])

\* If a is in h, then after all of s.
ComesAfter(a, s, h) == a \in ToSet(h) => \A i \in 1 .. Len(s) : Precedes(h, s[i], a)

\* So s can be had from h by leaving elements out.
LEMMA InOrderIsPart ==
  ASSUME NEW h \in Orders(Messages), NEW s, InOrder(s, h)
  PROVE  IsPartOf(s, h)
<1> DEFINE at == [i \in DOMAIN s |-> CHOOSE n \in DOMAIN h : h[n] = s[i]]
<1>1. /\ DOMAIN h = 1 .. Len(h) /\ Len(h) \in Nat
      /\ \A i, j \in 1 .. Len(h) : h[i] = h[j] => i = j
      /\ DOMAIN s = 1 .. Len(s) /\ Len(s) \in Nat
  BY OrderElements DEF InOrder
<1>2. ASSUME NEW i \in DOMAIN s
      PROVE  at[i] \in DOMAIN h /\ h[at[i]] = s[i]
  <2>1. \E n \in DOMAIN h : h[n] = s[i]
    BY <1>1 DEF InOrder, ToSet
  <2> QED
    BY <2>1
<1>3. at \in [DOMAIN s -> DOMAIN h]
  BY <1>2
<1> HIDE DEF at
<1>4. ASSUME NEW i \in DOMAIN s, NEW j \in 1 .. i - 1
      PROVE  at[j] < at[i]
  <2>1. j \in DOMAIN s /\ j < i
    BY <1>1
  <2>2. PICK a, b \in DOMAIN h : a < b /\ h[a] = s[j] /\ h[b] = s[i]
    BY <1>1, <2>1 DEF InOrder, Precedes
  <2>3. a = at[j] /\ b = at[i]
    BY <1>1, <1>2, <2>1, <2>2
  <2> QED
    BY <2>2, <2>3
<1> QED
  BY <1>2, <1>3, <1>4 DEF IsPartOf

\* The next answer is put under the others.
LEMMA NextAnswer ==
  ASSUME NEW h, NEW s, NEW a \in Messages, InOrder(s, h), a \in ToSet(h), ComesAfter(a, s, h)
  PROVE  InOrder(Append(s, a), h)
<1> DEFINE t == Append(s, a)
<1>1. /\ s \in Seq(Messages) /\ Len(s) \in Nat
      /\ \A i \in 1 .. Len(s) : s[i] \in ToSet(h) /\ Precedes(h, s[i], a)
      /\ \A i, j \in 1 .. Len(s) : i < j => Precedes(h, s[i], s[j])
  BY DEF InOrder, ComesAfter
<1>2. /\ t \in Seq(Messages) /\ Len(t) = Len(s) + 1 /\ t[Len(s) + 1] = a
      /\ \A i \in 1 .. Len(s) : t[i] = s[i]
  BY <1>1
<1> HIDE DEF t
<1>3. ASSUME NEW i \in 1 .. Len(t)
      PROVE  t[i] \in ToSet(h)
  <2>1. i \in 1 .. Len(s) \/ i = Len(s) + 1
    BY <1>1, <1>2
  <2> QED
    BY <1>1, <1>2, <2>1
<1>4. ASSUME NEW i \in 1 .. Len(t), NEW j \in 1 .. Len(t), i < j
      PROVE  Precedes(h, t[i], t[j])
  <2>1. i \in 1 .. Len(s) /\ (j \in 1 .. Len(s) \/ j = Len(s) + 1)
    BY <1>1, <1>2, <1>4
  <2> QED
    BY <1>1, <1>2, <1>4, <2>1
<1> QED
  BY <1>2, <1>3, <1>4 DEF InOrder, t

\* A rendered page has the answers of the history in their order, and only those.
LEMMA AnswersInOrder ==
  ASSUME NEW h \in Orders(Messages)
  PROVE  /\ InOrder(Answers(h), h)
         /\ ToSet(Answers(h)) = ToSet(h) \cap {Answer(r) : r \in Requests}
<1> DEFINE K == {Answer(r) : r \in Requests}
           rest == Restricted(h, K)
<1> HIDE DEF K
<1>1. /\ rest \in Orders(Messages) /\ ToSet(rest) = ToSet(h) \cap K
      /\ \A i, j \in 1 .. Len(rest) : i < j => Precedes(h, rest[i], rest[j])
  BY RestrictedOrder
<1> HIDE DEF rest
<1>2. /\ rest \in Seq(Messages)
      /\ ToSet(rest) = {rest[i] : i \in 1 .. Len(rest)}
  BY <1>1, OrderElements
<1>3. InOrder(rest, h)
  BY <1>1, <1>2 DEF InOrder
<1> QED
  BY <1>1, <1>3 DEF Answers, rest, K

----------------------------------------------------------------------------
\* What is stored is an order of messages of answered requests, each question
\* with its answer.
LEMMA StoredIsSound ==
  ASSUME TypeOK, HistoriesSound, NEW k
  PROVE  /\ Stored(k) \in Orders(Messages)
         /\ \A r \in Requests :
              /\ Answer(r) \in ToSet(Stored(k)) => r \in Answered(k)
              /\ Question(r) \in ToSet(Stored(k)) => r \in Answered(k) /\ Answer(r) \in ToSet(Stored(k))
<1> DEFINE m == Stored(k)
<1>1. Sound(m, Answered(k))
  BY EmptySound DEF TypeOK, StoreTypeOK, HistoriesSound, Stored
<1> HIDE DEF m
<1>2. /\ m \in Orders(Messages) /\ DOMAIN m = 1 .. Len(m) /\ Len(m) \in Nat
      /\ \A i \in 1 .. Len(m) : m[i] \in Messages /\ m[i].of \in Answered(k)
  BY <1>1, OrderIntro DEF Sound
<1>3. ASSUME NEW r \in Requests, NEW x \in {Question(r), Answer(r)}, x \in ToSet(m)
      PROVE  r \in Answered(k)
  BY <1>2, <1>3 DEF ToSet, Question, Answer
<1>4. ASSUME NEW r \in Requests, Question(r) \in ToSet(m)
      PROVE  Answer(r) \in ToSet(m)
  <2>1. PICK i \in 1 .. Len(m) : m[i] = Question(r)
    BY <1>2, <1>4 DEF ToSet
  <2>2. i % 2 = 1 /\ i < Len(m)
    BY <1>1, <2>1 DEF Sound, Paired, Question
  <2>3. i + 1 \in 1 .. Len(m) /\ (i + 1) % 2 # 1 /\ (i + 1) - 1 = i
    BY <1>2, <2>2
  <2>4. m[i + 1].role = "assistant" /\ m[i + 1].of = r
    BY <1>1, <2>1, <2>3 DEF Sound, Paired, Question
  <2>5. m[i + 1] = Answer(r)
    BY <1>2, <2>3, <2>4 DEF Messages, Answer
  <2> QED
    BY <1>2, <2>3, <2>5 DEF ToSet
<1> QED
  BY <1>2, <1>3, <1>4 DEF m

\* In the words of a state, for the state after a step.
StoredSound ==
  \A k \in Ids :
    /\ Stored(k) \in Orders(Messages)
    /\ \A r \in Requests : Question(r) \in ToSet(Stored(k)) => Answer(r) \in ToSet(Stored(k))

\* And so is what is loaded.
LEMMA LoadedIsSound ==
  ASSUME TypeOK, HistoriesSound, NEW k
  PROVE  /\ Loaded(k) \in Orders(Messages)
         /\ \A r \in Requests : Answer(r) \in ToSet(Loaded(k)) => r \in Answered(k)
<1>1. ToSet(Live) \subseteq ToSet(order) /\ DOMAIN entry = ToSet(order)
  BY DropLeadingOrder DEF Live, TypeOK, StoreTypeOK
<1>2. CASE Loaded(k) = Stored(k)
  BY <1>2, StoredIsSound
<1>3. CASE Loaded(k) = <<>>
  BY <1>3, EmptyOrder
<1> QED
  BY <1>1, <1>2, <1>3 DEF Loaded, Stored

\* A page shows answers of its own conversation.
ShownOwn ==
  /\ shown \in [Pages -> Seq(Messages)]
  /\ \A p \in Pages, r \in Requests : Answer(r) \in ToSet(shown[p]) => conv[r] = shows[p]

LEMMA StepKeepsShownOwn ==
  ASSUME TypeOK, HistoriesSound, PagesKnown, ShownOwn, [ClientNext]_clientVars
  PROVE  ShownOwn'
<1>1. conv' = conv
  BY ClientStepIsStep, ConvFixed
<1>2. CASE UNCHANGED <<shows, shown>>
  BY <1>1, <1>2 DEF ShownOwn, Answer
<1>3. ASSUME NEW p \in Pages, NEW s \in Seq(Messages), shows' = shows,
             shown' = [shown EXCEPT ![p] = s],
             \A r \in Requests : Answer(r) \in ToSet(s) => conv[r] = shows[p]
      PROVE  ShownOwn'
  BY <1>1, <1>3 DEF ShownOwn, Answer
<1>4. ASSUME NEW p \in Pages, Deliver(p)
      PROVE  ShownOwn'
  <2>1. /\ waiting[p] \in Requests /\ conv[waiting[p]] = shows[p] /\ shows' = shows
        /\ shown[p] \in Seq(Messages)
        /\ \/ shown' = [shown EXCEPT ![p] = shown[p]]
           \/ shown' = [shown EXCEPT ![p] = Append(shown[p], Answer(waiting[p]))]
    BY <1>4 DEF Deliver, Show, PagesKnown, ShownOwn
  <2>2. \A r \in Requests : Answer(r) \in ToSet(shown[p]) => conv[r] = shows[p]
    BY DEF ShownOwn
  <2> DEFINE a == Answer(waiting[p])
  <2>3. /\ a \in Messages
        /\ \A r \in Requests : Answer(r) = a => r = waiting[p]
    BY <2>1, MessageTypes DEF Answer
  <2>4. Append(shown[p], a) \in Seq(Messages) /\ ToSet(Append(shown[p], a)) = ToSet(shown[p]) \cup {a}
    BY <2>1, <2>3, OneMore
  <2> HIDE DEF a
  <2>5. CASE shown' = [shown EXCEPT ![p] = shown[p]]
    BY <1>3, <2>1, <2>2, <2>5
  <2>6. CASE shown' = [shown EXCEPT ![p] = Append(shown[p], a)]
    <3>1. \A r \in Requests : Answer(r) \in ToSet(Append(shown[p], a)) => conv[r] = shows[p]
      BY <2>1, <2>2, <2>3, <2>4
    <3> QED
      BY <1>3, <2>1, <2>4, <2>6, <3>1
  <2> QED
    BY <2>1, <2>5, <2>6 DEF a
<1>5. ASSUME NEW p \in Pages, Reload(p)
      PROVE  ShownOwn'
  <2> DEFINE h == Loaded(shows[p])
  <2>1. shown' = [shown EXCEPT ![p] = Answers(h)] /\ shows' = shows
    BY <1>5 DEF Reload, Show
  <2>2. /\ h \in Orders(Messages)
        /\ \A r \in Requests : Answer(r) \in ToSet(h) => conv[r] = shows[p]
    BY LoadedIsSound DEF Answered
  <2> HIDE DEF h
  <2>3. Answers(h) \in Seq(Messages) /\ ToSet(Answers(h)) \subseteq ToSet(h)
    BY <2>2, AnswersInOrder DEF InOrder
  <2> QED
    BY <1>3, <2>1, <2>2, <2>3
<1> QED
  BY <1>2, <1>4, <1>5
     DEF ClientNext, HandlerStep, PageStep, Submit, GatewayGivesUp, clientVars, pageVars
\* A longer history keeps the order of the shorter one, and what is new in it comes
\* after what was there.
LEMMA PrefixKeepsOrder ==
  ASSUME NEW m \in Seq(Messages), NEW n \in Seq(Messages), IsPrefix(m, n), NEW s, InOrder(s, m)
  PROVE  InOrder(s, n) /\ \A a : ComesAfter(a, s, m) => ComesAfter(a, s, n)
<1>1. /\ Len(m) \in Nat /\ Len(n) \in Nat /\ Len(m) <= Len(n)
      /\ SubSeq(m, 1, Len(m)) = SubSeq(n, 1, Len(m))
      /\ DOMAIN m = 1 .. Len(m) /\ DOMAIN n = 1 .. Len(n)
  BY DEF IsPrefix
<1>2. ASSUME NEW i \in 1 .. Len(m)
      PROVE  m[i] = n[i] /\ i \in 1 .. Len(n)
  <2>1. SubSeq(m, 1, Len(m))[i] = m[i] /\ SubSeq(n, 1, Len(m))[i] = n[i]
    BY <1>1
  <2> QED
    BY <1>1, <2>1
<1>3. ASSUME NEW a, NEW b, Precedes(m, a, b)
      PROVE  Precedes(n, a, b)
  BY <1>1, <1>2, <1>3 DEF Precedes
<1>4. InOrder(s, n)
  BY <1>3, PrefixElements DEF InOrder
<1>5. ASSUME NEW a, ComesAfter(a, s, m), a \in ToSet(n), NEW i \in 1 .. Len(s)
      PROVE  Precedes(n, s[i], a)
  <2>1. CASE a \in ToSet(m)
    BY <1>3, <1>5, <2>1 DEF ComesAfter
  <2>2. CASE a \notin ToSet(m)
    <3>1. PICK j \in 1 .. Len(n) : n[j] = a
      BY <1>1, <1>5 DEF ToSet
    <3>2. PICK l \in 1 .. Len(m) : m[l] = s[i]
      BY <1>1, <1>5 DEF InOrder, ToSet
    <3>3. j \notin 1 .. Len(m)
      BY <1>1, <1>2, <2>2, <3>1 DEF ToSet
    <3>4. l < j /\ l \in 1 .. Len(n) /\ n[l] = s[i]
      BY <1>1, <1>2, <3>1, <3>2, <3>3
    <3> QED
      BY <1>1, <3>1, <3>4 DEF Precedes
  <2> QED
    BY <2>1, <2>2
<1> QED
  BY <1>4, <1>5 DEF ComesAfter

\* A history grows, unless its conversation is dropped.
LEMMA StoredGrows ==
  ASSUME TypeOK, TurnsSerialized, LocalCurrent, [Next]_vars,
         NEW k, k \notin DOMAIN entry \ DOMAIN entry'
  PROVE  /\ Stored(k) \in Seq(Messages) /\ Stored(k)' \in Seq(Messages)
         /\ IsPrefix(Stored(k), Stored(k)')
<1>1. Stored(k) \in Seq(Messages) /\ Stored(k)' \in Seq(Messages)
  BY StepKeepsTypes DEF TypeOK, StoreTypeOK, Stored
<1>2. CASE k \notin DOMAIN entry
  <2> DEFINE n == Stored(k)'
  <2>1. n \in Seq(Messages) /\ Stored(k) = <<>>
    BY <1>1, <1>2 DEF Stored
  <2> HIDE DEF n
  <2>2. IsPrefix(<<>>, n)
    <3>1. SubSeq(<<>>, 1, 0) = <<>> /\ SubSeq(n, 1, 0) = <<>> /\ Len(<<>>) = 0 /\ Len(n) \in Nat
      BY <2>1
    <3> QED
      BY <3>1 DEF IsPrefix
  <2> QED
    BY <1>1, <2>1, <2>2 DEF n
<1>3. CASE k \in DOMAIN entry /\ k \in DOMAIN entry'
  BY <1>1, <1>3, StepKeepsHistory DEF Stored
<1> QED
  BY <1>2, <1>3

\* The turn of r is saved and its response about to be read or given.
Saved(r) == Replying(r) \/ reply[r].status = "ok"

\* What a page shows is in the history, in its order, and the answer it waits for
\* comes after that: in the history once the turn is saved, and in the response.
Follows(p) ==
  LET r == waiting[p]
      h == Stored(shows[p])
  IN  /\ InOrder(shown[p], h)
      /\ r # Nobody =>
           /\ ComesAfter(Answer(r), shown[p], h)
           /\ Saved(r) => Answer(r) \in ToSet(h)
           /\ reply[r].status = "ok" =>
                /\ reply[r].messages \in Orders(Messages)
                /\ InOrder(Append(shown[p], Answer(r)), reply[r].messages)

\* All pages do until their conversation is dropped, and a request that was not
\* sent was not answered.
PagesFollow ==
  /\ \A p \in Pages \ stale : Follows(p)
  /\ \A r \in Requests : pc[r] = "new" => reply[r].status # "ok"

LEMMA SavedSteps ==
  ASSUME TypeOK, [Next]_vars, NEW r \in Requests, Saved(r)'
  PROVE  Saved(r) \/ SaveTurn(r)
<1>1. CASE Replying(r)'
  BY <1>1, RequestProgress DEF Replying, Saved
<1>2. CASE reply'[r].status = "ok"
  <2>1. reply'[r] = reply[r] \/ Reply(r)
    BY <1>2, RequestProgress
  <2>2. Reply(r) => Replying(r)
    BY DEF Reply, Goto, Replying
  <2> QED
    BY <1>2, <2>1, <2>2 DEF Saved
<1> QED
  BY <1>1, <1>2 DEF Saved

\* The response is what is stored once it is read.
LEMMA ReplyReads ==
  ASSUME TypeOK, NEW r \in Requests, Reply(r)
  PROVE  \A k \in Ids : k = conv[r] => reply'[r] = [status |-> "ok", messages |-> Stored(k)']
<1>1. /\ Load(conv[r]) /\ now' = now /\ conv[r] \in Ids
      /\ reply'[r] = [status |-> "ok", messages |-> Loaded(conv[r])]
  BY DEF TypeOK, RequestsTypeOK, Reply, Finish
<1>2. /\ DOMAIN entry' = ToSet(order')
      /\ Loaded(conv[r]) = IF conv[r] \in ToSet(order') THEN entry'[conv[r]].messages ELSE <<>>
  BY <1>1, LoadEffect DEF TypeOK, StoreTypeOK
<1> QED
  BY <1>1, <1>2 DEF Stored

\* A page that does not move follows what the others do.
LEMMA StillFollows ==
  ASSUME TypeOK, TurnsSerialized, LocalCurrent, StoredSound', PagesKnown, [Next]_vars,
         NEW p \in Pages, shows' = shows, shown'[p] = shown[p], waiting'[p] = waiting[p],
         shows[p] \notin DOMAIN entry \ DOMAIN entry', Follows(p)
  PROVE  Follows(p)'
<1>0. PICK k \in Ids : k = shows[p]
  BY DEF PagesKnown
<1>1. PICK r \in Requests \cup {Nobody} : r = waiting[p] /\ (r # Nobody => conv[r] = k)
  BY <1>0 DEF PagesKnown
<1> DEFINE m == Stored(k)
           n == Stored(k)'
<1>2. m \in Seq(Messages) /\ n \in Seq(Messages) /\ IsPrefix(m, n)
  BY <1>0, StoredGrows
<1>3. n \in Orders(Messages)
  <2>1. \A l \in Ids : Stored(l)' \in Orders(Messages)
    BY DEF StoredSound, Question, Answer
  <2> QED
    BY <2>1
<1>4. /\ InOrder(shown[p], m)
      /\ r # Nobody => /\ ComesAfter(Answer(r), shown[p], m)
                       /\ Saved(r) => Answer(r) \in ToSet(m)
                       /\ reply[r].status = "ok" =>
                            /\ reply[r].messages \in Orders(Messages)
                            /\ InOrder(Append(shown[p], Answer(r)), reply[r].messages)
  BY <1>0, <1>1 DEF Follows
<1>5. r # Nobody /\ SaveTurn(r) => Answer(r) \in ToSet(n)
  <2> SUFFICES ASSUME r # Nobody, SaveTurn(r)
               PROVE  Answer(r) \in ToSet(n)
    OBVIOUS
  <2>1. Answer(r) \in ToSet(Stored(conv[r])')
    BY <1>1, SavedIsStored
  <2>2. conv' = conv /\ conv[r] = k
    BY <1>1, ConvFixed
  <2> QED
    BY <2>1, <2>2 DEF Stored
<1>6. r # Nobody /\ Reply(r) => reply'[r] = [status |-> "ok", messages |-> n]
  <2>1. r # Nobody /\ Reply(r) =>
          \A l \in Ids : l = conv[r] => reply'[r] = [status |-> "ok", messages |-> Stored(l)']
    BY <1>1, ReplyReads
  <2> QED
    BY <1>1, <2>1
<1> HIDE DEF m, n
<1>7. InOrder(shown[p], n) /\ (r # Nobody => ComesAfter(Answer(r), shown[p], n))
  BY <1>2, <1>4, PrefixKeepsOrder
<1>8. ASSUME r # Nobody, Saved(r)'
      PROVE  Answer(r) \in ToSet(n)
  <2>1. ToSet(m) \subseteq ToSet(n)
    BY <1>2, PrefixElements
  <2>2. Saved(r) \/ SaveTurn(r)
    BY <1>1, <1>8, SavedSteps
  <2> QED
    BY <1>4, <1>5, <1>8, <2>1, <2>2
<1>9. ASSUME r # Nobody, reply'[r].status = "ok"
      PROVE  /\ reply'[r].messages \in Orders(Messages)
             /\ InOrder(Append(shown[p], Answer(r)), reply'[r].messages)
  <2>1. CASE reply'[r] = reply[r]
    BY <1>4, <1>9, <2>1
  <2>2. CASE Reply(r)
    <3>1. Answer(r) \in ToSet(n)
      BY <1>8, <1>9 DEF Saved
    <3>2. Answer(r) \in Messages
      BY <1>1, <1>9, MessageTypes
    <3>3. InOrder(Append(shown[p], Answer(r)), n)
      BY <1>7, <1>9, <3>1, <3>2, NextAnswer
    <3> QED
      BY <1>3, <1>6, <1>9, <2>2, <3>3
  <2> QED
    BY <1>1, <1>9, <2>1, <2>2, RequestProgress
<1>10. shows'[p] = k /\ waiting'[p] = r
  BY <1>0, <1>1
<1> QED
  BY <1>7, <1>8, <1>9, <1>10 DEF Follows, n, Answer, Stored, Saved, Replying

\* Every step keeps the pages in the order of the histories.
LEMMA StepKeepsPagesFollow ==
  ASSUME TypeOK, TurnsSerialized, LocalCurrent, HistoriesSound, StoredSound', PagesKnown,
         ShownOwn, PagesFollow, [ClientNext]_clientVars
  PROVE  PagesFollow'
<1>1. conv' = conv /\ [Next]_vars
  BY ClientStepIsStep, ConvFixed
<1>2. \A r \in Requests : pc'[r] = "new" => reply'[r].status # "ok"
  <2> SUFFICES ASSUME NEW r \in Requests, pc'[r] = "new", reply'[r].status = "ok"
               PROVE  FALSE
    OBVIOUS
  <2>1. pc[r] = "new" /\ (reply'[r] = reply[r] \/ Reply(r))
    BY <1>1, RequestProgress
  <2>2. ~ Reply(r)
    BY <2>1 DEF Reply, Goto
  <2> QED
    BY <2>1, <2>2 DEF PagesFollow
<1>3. ASSUME \A p \in Pages \ stale' : Follows(p)'
      PROVE  PagesFollow'
  BY <1>2, <1>3 DEF PagesFollow
\* A page that this step leaves alone.
<1>4. ASSUME NEW p \in Pages, NEW rendered, p \notin rendered, p \notin stale',
             UNCHANGED <<entry, historyVars>> \/ Observe(rendered),
             shows' = shows, shown'[p] = shown[p], waiting'[p] = waiting[p]
      PROVE  Follows(p)'
  <2>1. p \notin stale /\ shows[p] \notin DOMAIN entry \ DOMAIN entry'
    BY <1>4 DEF Observe, historyVars
  <2>2. Follows(p)
    BY <2>1 DEF PagesFollow
  <2> QED
    BY <1>1, <1>4, <2>1, <2>2, StillFollows
\* The application moves, the pages do not.
<1>5. ASSUME UNCHANGED pageVars, UNCHANGED <<entry, historyVars>> \/ Observe({})
      PROVE  PagesFollow'
  <2>1. ASSUME NEW p \in Pages \ stale'
        PROVE  Follows(p)'
    BY <1>4, <1>5, <2>1 DEF pageVars
  <2> QED
    BY <1>3, <2>1
\* A page moves.
<1>6. ASSUME NEW p \in Pages, NEW s, NEW w,
             shown' = [shown EXCEPT ![p] = s], waiting' = [waiting EXCEPT ![p] = w],
             shows' = shows, UNCHANGED <<entry, historyVars>> \/ Observe({p}),
             p \notin stale' => Follows(p)'
      PROVE  PagesFollow'
  <2>1. ASSUME NEW q \in Pages \ stale', q # p
        PROVE  Follows(q)'
    <3>1. shown'[q] = shown[q] /\ waiting'[q] = waiting[q]
      BY <1>6, <2>1 DEF ShownOwn, PagesKnown
    <3> QED
      BY <1>4, <1>6, <2>1, <3>1
  <2> QED
    BY <1>3, <1>6, <2>1
\* A page that waits for nothing need only show what is stored.
<1>7. ASSUME NEW p \in Pages, NEW k \in Ids, shows'[p] = k, waiting'[p] = Nobody,
             InOrder(shown'[p], Stored(k)')
      PROVE  Follows(p)'
  BY <1>7 DEF Follows, Stored
<1>8. ASSUME NEW p \in Pages, Submit(p)
      PROVE  PagesFollow'
  <2>1. PICK r \in Requests : r = Fresh(p) /\ pc[r] = "new" /\ conv[r] = shows[p]
    BY <1>8, FreshIsUnsent DEF Submit
  <2>2. PICK k \in Ids : k = shows[p]
    BY DEF PagesKnown
  <2>3. /\ shown' = [shown EXCEPT ![p] = shown[p]] /\ waiting' = [waiting EXCEPT ![p] = r]
        /\ UNCHANGED <<shows, shown, entry, historyVars, reply>> /\ pc'[r] = "queued"
    BY <1>8, <2>1 DEF Submit, Send, Goto, Await, ShownOwn, TypeOK, RequestsTypeOK, storeVars
  <2>4. ASSUME p \notin stale'
        PROVE  Follows(p)'
    <3> DEFINE h == Stored(k)
    <3>1. Stored(k)' = h /\ shows'[p] = k /\ waiting'[p] = r /\ shown'[p] = shown[p]
      BY <2>2, <2>3 DEF Stored, PagesKnown
    <3>2. InOrder(shown[p], h)
      BY <2>2, <2>3, <2>4 DEF PagesFollow, Follows, historyVars
    <3>3. Answer(r) \notin ToSet(h)
      BY <2>1, StoredIsSound DEF Answered
    <3>4. reply'[r].status # "ok" /\ ~ (pc'[r] \in {"reply", "release"})
      BY <2>1, <2>3 DEF PagesFollow
    <3> HIDE DEF h
    <3>5. ComesAfter(Answer(r), shown[p], h)
      BY <3>3 DEF ComesAfter
    <3>6. ~ Saved(r)'
      BY <3>4 DEF Saved, Replying
    <3> QED
      BY <3>1, <3>2, <3>4, <3>5, <3>6 DEF Follows, h, Answer, Stored, Saved, Replying
  <2> QED
    BY <1>6, <2>3, <2>4
<1>9. ASSUME NEW p \in Pages, Deliver(p)
      PROVE  PagesFollow'
  <2>1. PICK r \in Requests : r = waiting[p] /\ r # Nobody
    BY <1>9 DEF Deliver, PagesKnown
  <2>2. PICK k \in Ids : k = shows[p]
    BY DEF PagesKnown
  <2> DEFINE s == IF reply[r].status = "ok" THEN Append(shown[p], Answer(r)) ELSE shown[p]
  <2>3. /\ shown' = [shown EXCEPT ![p] = s] /\ waiting' = [waiting EXCEPT ![p] = Nobody]
        /\ UNCHANGED <<shows, entry, historyVars>>
    BY <1>9, <2>1 DEF Deliver, Show, Await, vars, storeVars
  <2>4. ASSUME p \notin stale'
        PROVE  Follows(p)'
    <3> DEFINE h == Stored(k)
    <3>1. Stored(k)' = h /\ shows'[p] = k /\ waiting'[p] = Nobody /\ shown'[p] = s
      BY <2>2, <2>3 DEF Stored, PagesKnown, ShownOwn
    <3>2. /\ InOrder(shown[p], h) /\ ComesAfter(Answer(r), shown[p], h)
          /\ Saved(r) => Answer(r) \in ToSet(h)
      BY <2>1, <2>2, <2>3, <2>4 DEF PagesFollow, Follows, historyVars
    <3>3. Answer(r) \in Messages
      BY MessageTypes
    <3> HIDE DEF h
    <3>4. reply[r].status = "ok" => InOrder(Append(shown[p], Answer(r)), h)
      BY <3>2, <3>3, NextAnswer DEF Saved
    <3>5. InOrder(s, h)
      BY <3>2, <3>4
    <3> HIDE DEF s
    <3> QED
      BY <1>7, <3>1, <3>5
  <2> HIDE DEF s
  <2> QED
    BY <1>6, <2>3, <2>4
<1>10. ASSUME NEW p \in Pages, GatewayGivesUp(p)
       PROVE  PagesFollow'
  <2>1. PICK k \in Ids : k = shows[p]
    BY DEF PagesKnown
  <2>2. /\ shown' = [shown EXCEPT ![p] = shown[p]]
        /\ waiting' = [waiting EXCEPT ![p] = Nobody]
        /\ UNCHANGED <<shows, shown, entry, historyVars>>
    BY <1>10 DEF GatewayGivesUp, Await, ShownOwn, vars, storeVars
  <2>3. ASSUME p \notin stale'
        PROVE  Follows(p)'
    <3>1. Stored(k)' = Stored(k) /\ shows'[p] = k /\ waiting'[p] = Nobody /\ shown'[p] = shown[p]
      BY <2>1, <2>2 DEF Stored, PagesKnown
    <3>2. InOrder(shown[p], Stored(k))
      BY <2>1, <2>2, <2>3 DEF PagesFollow, Follows, historyVars
    <3> QED
      BY <1>7, <3>1, <3>2
  <2> QED
    BY <1>6, <2>2, <2>3
<1>11. ASSUME NEW p \in Pages, Reload(p)
       PROVE  PagesFollow'
  <2>1. PICK k \in Ids : k = shows[p]
    BY DEF PagesKnown
  <2> DEFINE h == Loaded(k)
  <2>2. /\ shown' = [shown EXCEPT ![p] = Answers(h)]
        /\ waiting' = [waiting EXCEPT ![p] = Nobody]
        /\ shows' = shows /\ Observe({p})
    BY <1>11, <2>1 DEF Reload, Show, Await
  <2>3. Stored(k)' = h
    <3>1. Load(k) /\ now' = now
      BY <1>11, <2>1 DEF Reload, ReadPage
    <3>2. /\ DOMAIN entry' = ToSet(order')
          /\ h = IF k \in ToSet(order') THEN entry'[k].messages ELSE <<>>
      BY <3>1, LoadEffect DEF TypeOK, StoreTypeOK
    <3> QED
      BY <3>2 DEF Stored
  <2>4. h \in Orders(Messages)
    BY LoadedIsSound
  <2> HIDE DEF h
  <2>5. InOrder(Answers(h), h)
    BY <2>4, AnswersInOrder
  <2>6. shows'[p] = k /\ waiting'[p] = Nobody /\ shown'[p] = Answers(h)
    BY <2>1, <2>2 DEF PagesKnown, ShownOwn
  <2>7. Follows(p)'
    BY <1>7, <2>3, <2>5, <2>6
  <2> QED
    BY <1>6, <2>2, <2>7
<1>12. ASSUME UNCHANGED clientVars \/ (PassTime /\ UNCHANGED <<pageVars, historyVars>>)
       PROVE  PagesFollow'
  <2>1. UNCHANGED pageVars /\ UNCHANGED <<entry, historyVars>>
    BY <1>12 DEF clientVars, vars, storeVars, PassTime, Tick
  <2> QED
    BY <1>5, <2>1
<1> QED
  BY <1>5, <1>8, <1>9, <1>10, <1>11, <1>12 DEF ClientNext, HandlerStep, PageStep

\* The pages follow the histories in every state, as long as the registry need not
\* drop a lock.
THEOREM PagesStayInOrder ==
  ASSUME RoomyRegistry
  PROVE  ClientSpec => []PagesFollow
<1>1. ClientInit => ShownOwn
  BY EmptyOrder DEF ClientInit, ShownOwn
<1>2. ClientInit => PagesFollow
  <2>1. ClientInit => \A p \in Pages : shown[p] = <<>> /\ waiting[p] = Nobody
    BY DEF ClientInit
  <2>2. \A h : InOrder(<<>>, h)
    BY EmptyOrder DEF InOrder
  <2> QED
    BY <2>1, <2>2 DEF ClientInit, Init, NoReply, PagesFollow, Follows
<1>3. TypeOK /\ HistoriesSound /\ PagesKnown /\ ShownOwn /\ [ClientNext]_clientVars => ShownOwn'
  BY StepKeepsShownOwn
<1>4. TypeOK /\ HistoriesSound => StoredSound
  BY StoredIsSound DEF StoredSound
<1>5. /\ TypeOK /\ TurnsSerialized /\ LocalCurrent /\ HistoriesSound /\ StoredSound'
      /\ PagesKnown /\ ShownOwn /\ PagesFollow /\ [ClientNext]_clientVars
      => PagesFollow'
  BY StepKeepsPagesFollow
<1> QED
  BY <1>1, <1>2, <1>3, <1>4, <1>5, PagesUseTheService, HistoriesStaySound, CopiesStayCurrent,
     TurnsOfOneConversationAreSerialized, PTL DEF ClientSpec

\* What a page shows is part of the stored history, in its order, whatever was
\* cut off, for any number of pages and a store of any size, until its
\* conversation is dropped: by the idle timeout, the bound or a restart.
THEOREM ShownAnswersAreStored ==
  ASSUME RoomyRegistry
  PROVE  ClientSpec => []ShownIsStored
<1>1. TypeOK /\ HistoriesSound /\ PagesFollow => ShownIsStored
  BY StoredIsSound, InOrderIsPart DEF PagesFollow, Follows, ShownIsStored
<1> QED
  BY <1>1, PagesStayInOrder, PagesUseTheService, HistoriesStaySound, PTL

\* "The complete visible history including the current turn" (ChatResponse), as a
\* page sees it: the response repeats every answer the page shows and has the new
\* one after them, although it is read when the lock is released and other turns
\* go on, unless the conversation is dropped before that.
THEOREM ResponsesAreComplete ==
  ASSUME RoomyRegistry
  PROVE  ClientSpec => []ReplyIsComplete
<1>1. PagesFollow => ReplyIsComplete
  BY InOrderIsPart DEF PagesFollow, Follows, ReplyIsComplete
<1> QED
  BY <1>1, PagesStayInOrder, PTL
----------------------------------------------------------------------------
\* A page waits for each request that is in the handlers, or was cut off from it.
HandledIsAwaited ==
  \A r \in Requests :
    pc[r] \notin {"new", "done"} => r \in cut \/ \E p \in Pages : waiting[p] = r

\* What a handler does is done by a request that was sent and is not done.
LEMMA HandlersWereSent ==
  ASSUME TypeOK, NEW s \in Requests, RequestStep(s)
  PROVE  pc[s] \notin {"new", "done"} /\ \A r \in Requests : r # s => pc'[r] = pc[r]
<1>1. \E from, to : Goto(s, from, to) /\ from \notin {"new", "done"}
  <2>1. ASSUME Start(s) \/ Refuse(s) \/ UseEngine(s) \/ Build(s)
        PROVE  \E from, to : Goto(s, from, to) /\ from \in {"queued", "engine"}
    BY <2>1, Zenon DEF Start, Refuse, UseEngine, Build
  <2>2. ASSUME BuildSucceeds(s) \/ BuildFails(s) \/ Register(s) \/ Acquire(s) \/ GiveUp(s)
        PROVE  \E from, to : Goto(s, from, to) /\ from \in {"building", "lock", "acquire"}
    BY <2>2, Zenon DEF BuildSucceeds, BuildFails, Register, Acquire, GiveUp
  <2>3. ASSUME TurnStep(s) \/ Release(s) \/ Reply(s)
        PROVE  \E from, to : Goto(s, from, to) /\ from \in Answering \cup {"release", "reply"}
    BY <2>3, Zenon DEF TurnStep, LoadHistory, Condense, Retrieve, Generate, SaveTurn, TurnFails,
       Release, Reply, Answering
  <2>4. Answering = {"load", "condense", "retrieve", "generate", "save"}
    BY DEF Answering
  <2> QED
    BY <2>1, <2>2, <2>3, <2>4 DEF RequestStep
<1> QED
  BY <1>1 DEF Goto, TypeOK, RequestsTypeOK

\* No step forgets a request, or a question that became part of a history.
LEMMA StepKeepsSeen ==
  ASSUME TypeOK, HistoriesSound, StoredSound', RepliesComplete, PagesKnown,
         ShownOwn, HandledIsAwaited, UnseenWasCutOff, [ClientNext]_clientVars
  PROVE  HandledIsAwaited' /\ UnseenWasCutOff'
<1>1. conv' = conv /\ [Next]_vars
  BY ClientStepIsStep, ConvFixed
<1>2. /\ pc \in [Requests -> Steps] /\ conv \in [Requests -> Ids]
      /\ \A p \in Pages : shows[p] \in Ids /\ waiting[p] \in Requests \cup {Nobody}
  BY DEF TypeOK, RequestsTypeOK, PagesKnown
<1>3. Nobody \notin Requests
  BY LocksAssumption
\* A request is handled only once it was sent, and stays with its page.
<1>4. HandledIsAwaited'
  <2>1. ASSUME UNCHANGED pageVars,
               \A r \in Requests : pc'[r] \notin {"new", "done"} => pc[r] \notin {"new", "done"}
        PROVE  HandledIsAwaited'
    BY <2>1 DEF HandledIsAwaited, pageVars
  <2>2. CASE HandlerStep
    BY <2>1, <2>2, HandlersWereSent DEF HandlerStep
  <2>3. CASE Restart /\ UNCHANGED pageVars
    BY <1>2, <2>1, <2>3 DEF Restart
  <2>4. CASE UNCHANGED clientVars \/ (PassTime /\ UNCHANGED pageVars)
    BY <2>1, <2>4 DEF clientVars, PassTime, vars, requestVars
  <2>5. ASSUME NEW p \in Pages, Submit(p)
        PROVE  HandledIsAwaited'
    <3>1. /\ Fresh(p) \in Requests /\ waiting[p] = Nobody /\ cut' = cut
          /\ \A r \in Requests : r # Fresh(p) => pc'[r] = pc[r]
          /\ \A q \in Pages : waiting'[q] = IF q = p THEN Fresh(p) ELSE waiting[q]
      BY <1>2, <2>5, FreshIsUnsent DEF Submit, Await, Send, Goto, PagesKnown
    <3> QED
      BY <1>3, <3>1 DEF HandledIsAwaited
  <2>6. ASSUME NEW p \in Pages, Deliver(p) \/ GatewayGivesUp(p) \/ Reload(p)
        PROVE  HandledIsAwaited'
    <3>1. /\ pc' = pc /\ cut \subseteq cut'
          /\ \A q \in Pages : waiting'[q] = IF q = p THEN Nobody ELSE waiting[q]
          /\ waiting[p] \in Requests => waiting[p] \in cut' \/ pc[waiting[p]] = "done"
      BY <1>3, <2>6
         DEF Deliver, GatewayGivesUp, Reload, ReadPage, Await, PagesKnown, vars, requestVars
    <3> QED
      BY <3>1 DEF HandledIsAwaited
  <2> QED
    BY <2>2, <2>3, <2>4, <2>5, <2>6 DEF ClientNext, PageStep, pageVars
<1> DEFINE Asked(r) == Question(r) \in ToSet(Stored(conv[r]))
           Seen(r) == \/ r \in cut \cup revived
                      \/ \E p \in Pages : waiting[p] = r \/ Answer(r) \in ToSet(shown[p])
<1>5. \A r \in Requests : Asked(r) => Seen(r)
  BY DEF UnseenWasCutOff
<1>6. ASSUME \A r \in Requests : Asked(r)' => Seen(r)'
      PROVE  UnseenWasCutOff'
  BY <1>6 DEF UnseenWasCutOff
\* What is asked anew is about to be saved, and its handler awaited, or revived.
<1>7. ASSUME NEW rendered, Observe(rendered), NEW r \in Requests, Asked(r)'
      PROVE  \/ Asked(r)
             \/ r \in revived'
             \/ r \in cut \/ \E p \in Pages : waiting[p] = r
  <2>1. CASE pc[r] = "save"
    BY <2>1 DEF HandledIsAwaited
  <2>2. CASE pc[r] # "save" /\ ~ Asked(r)
    <3>1. Question(r) \in ToSet(Stored(conv[r])')
      BY <1>1, <1>7 DEF Question
    <3>2. r \in revived'
      BY <1>7, <2>2, <3>1 DEF Observe
    <3> QED
      BY <3>2
  <2> QED
    BY <2>1, <2>2
\* The application moves, the pages do not.
<1>8. ASSUME UNCHANGED pageVars, NEW rendered, Observe(rendered)
      PROVE  UnseenWasCutOff'
  <2> SUFFICES ASSUME NEW r \in Requests, Asked(r)'
               PROVE  Seen(r)'
    BY <1>6
  <2>1. revived \subseteq revived'
    BY <1>8 DEF Observe
  <2>2. Seen(r) \/ r \in revived'
    <3> HIDE DEF Asked
    <3> QED
      BY <1>5, <1>7, <1>8
  <2> QED
    BY <1>8, <2>1, <2>2 DEF pageVars, Answer
\* A page moves and the store does not.
<1>9. ASSUME UNCHANGED <<entry, historyVars>>,
             \A r \in Requests : Asked(r) /\ Seen(r) => Seen(r)'
      PROVE  UnseenWasCutOff'
  <2>1. \A r \in Requests : Asked(r)' <=> Asked(r)
    BY <1>1, <1>9 DEF Stored, Question
  <2> HIDE DEF Asked, Seen
  <2> QED
    BY <1>5, <1>6, <1>9, <2>1
<1>10. ASSUME NEW p \in Pages, Submit(p)
       PROVE  UnseenWasCutOff'
  <2>1. /\ waiting[p] = Nobody /\ UNCHANGED <<shown, cut, entry, historyVars>>
        /\ \A q \in Pages : q # p => waiting'[q] = waiting[q]
    BY <1>10 DEF Submit, Send, Await, PagesKnown, storeVars
  <2>2. \A r \in Requests : Asked(r) /\ Seen(r) => Seen(r)'
    BY <1>3, <2>1 DEF Answer, historyVars
  <2> HIDE DEF Asked, Seen
  <2> QED
    BY <1>9, <2>1, <2>2
<1>11. ASSUME NEW p \in Pages, Deliver(p)
       PROVE  UnseenWasCutOff'
  <2> DEFINE w == waiting[p]
             s == IF reply[w].status = "ok" THEN Append(shown[p], Answer(w)) ELSE shown[p]
  <2>1. /\ w \in Requests /\ pc[w] = "done" /\ UNCHANGED <<cut, entry, historyVars>>
        /\ \A q \in Pages : q # p => waiting'[q] = waiting[q] /\ shown'[q] = shown[q]
        /\ shown'[p] = s
    BY <1>2, <1>11 DEF Deliver, Show, Await, PagesKnown, ShownOwn, vars, storeVars
  <2>2. Asked(w) => reply[w].status = "ok"
    BY <2>1, StoredIsSound DEF Answered, RepliesComplete
  <2>3. /\ ToSet(shown[p]) \subseteq ToSet(s)
        /\ reply[w].status = "ok" => Answer(w) \in ToSet(s)
    <3>1. ToSet(Append(shown[p], Answer(w))) = ToSet(shown[p]) \cup {Answer(w)}
      BY <2>1, MessageTypes, OneMore DEF ShownOwn
    <3> QED
      BY <3>1
  <2> HIDE DEF s, Asked
  <2>4. ASSUME NEW r \in Requests, Asked(r), Seen(r)
        PROVE  Seen(r)'
    <3>1. CASE r \in cut \cup revived
      BY <2>1, <3>1 DEF historyVars
    <3>2. CASE r = w
      BY <2>1, <2>2, <2>3, <2>4, <3>2 DEF Answer
    <3>3. ASSUME NEW q \in Pages, r # w, waiting[q] = r \/ Answer(r) \in ToSet(shown[q])
          PROVE  Seen(r)'
      <4>1. CASE q = p
        BY <2>1, <2>3, <3>3, <4>1 DEF Answer
      <4>2. CASE q # p
        BY <2>1, <3>3, <4>2 DEF Answer
      <4> QED
        BY <4>1, <4>2
    <3> QED
      BY <2>4, <3>1, <3>2, <3>3
  <2> HIDE DEF Seen
  <2> QED
    BY <1>9, <2>1, <2>4
<1>12. ASSUME NEW p \in Pages, GatewayGivesUp(p)
       PROVE  UnseenWasCutOff'
  <2>1. /\ cut' = cut \cup {waiting[p]} /\ UNCHANGED <<shown, entry, historyVars>>
        /\ \A q \in Pages : q # p => waiting'[q] = waiting[q]
    BY <1>12 DEF GatewayGivesUp, Await, PagesKnown, vars, storeVars
  <2>2. \A r \in Requests : Asked(r) /\ Seen(r) => Seen(r)'
    BY <2>1 DEF Answer, historyVars
  <2> HIDE DEF Asked, Seen
  <2> QED
    BY <1>9, <2>1, <2>2
\* A page that is rendered anew shows what is asked in its conversation.
<1>13. ASSUME NEW p \in Pages, Reload(p)
       PROVE  UnseenWasCutOff'
  <2> DEFINE h == Loaded(shows[p])
  <2>1. /\ cut' = cut \cup ({waiting[p]} \ {Nobody}) /\ Observe({p})
        /\ \A q \in Pages : q # p => waiting'[q] = waiting[q] /\ shown'[q] = shown[q]
        /\ shown'[p] = Answers(h)
    BY <1>13 DEF Reload, Show, Await, PagesKnown, ShownOwn
  <2>2. \A k \in Ids : k = shows[p] => Stored(k)' = h
    <3>1. Load(shows[p]) /\ now' = now /\ shows[p] \in Ids
      BY <1>2, <1>13 DEF Reload, ReadPage
    <3>2. /\ DOMAIN entry' = ToSet(order')
          /\ h = IF shows[p] \in ToSet(order') THEN entry'[shows[p]].messages ELSE <<>>
      BY <3>1, LoadEffect DEF TypeOK, StoreTypeOK
    <3> QED
      BY <3>1, <3>2 DEF Stored
  <2>3. \A k \in Ids : k = shows[p] =>
          /\ Stored(k)' \in Orders(Messages)
          /\ \A r \in Requests : Question(r) \in ToSet(Stored(k)') => Answer(r) \in ToSet(Stored(k)')
    BY DEF StoredSound, Question, Answer
  <2>4. /\ h \in Orders(Messages)
        /\ \A r \in Requests : Question(r) \in ToSet(h) => Answer(r) \in ToSet(h)
    BY <1>2, <2>2, <2>3
  <2>5. \A r \in Requests : conv[r] = shows[p] /\ Asked(r)' => Question(r) \in ToSet(h)
    <3> SUFFICES ASSUME NEW r \in Requests, conv[r] = shows[p], Asked(r)'
                 PROVE  Question(r) \in ToSet(h)
      OBVIOUS
    <3>1. \A k \in Ids : k = conv[r] => Question(r) \in ToSet(Stored(k)')
      BY <1>1 DEF Question, Stored
    <3> QED
      BY <1>2, <2>2, <3>1
  <2> HIDE DEF h
  <2>6. \A r \in Requests : Answer(r) \in ToSet(h) => Answer(r) \in ToSet(Answers(h))
    BY <2>4, AnswersInOrder
  <2> SUFFICES ASSUME NEW r \in Requests, Asked(r)'
               PROVE  Seen(r)'
    BY <1>6
  <2>7. Seen(r) \/ r \in revived'
    <3> HIDE DEF Asked
    <3> QED
      BY <1>5, <1>7, <2>1
  <2>8. CASE r \in cut \/ r = waiting[p]
    BY <1>3, <2>1, <2>8
  <2>9. CASE r \in revived \/ r \in revived'
    BY <2>1, <2>9 DEF Observe
  <2>10. CASE Answer(r) \in ToSet(shown[p])
    <3>1. conv[r] = shows[p]
      BY <2>10 DEF ShownOwn
    <3>2. Answer(r) \in ToSet(shown'[p])
      BY <2>1, <2>4, <2>5, <2>6, <3>1
    <3> QED
      BY <3>2 DEF Answer
  <2>11. ASSUME NEW q \in Pages, q # p, waiting[q] = r \/ Answer(r) \in ToSet(shown[q])
         PROVE  Seen(r)'
    BY <2>1, <2>11 DEF Answer
  <2> QED
    BY <2>7, <2>8, <2>9, <2>10, <2>11
<1>14. ASSUME UNCHANGED <<entry, pageVars, historyVars>>
       PROVE  UnseenWasCutOff'
  <2>1. \A r \in Requests : Asked(r) /\ Seen(r) => Seen(r)'
    BY <1>14 DEF pageVars, historyVars, Answer
  <2> HIDE DEF Asked, Seen
  <2> QED
    BY <1>9, <1>14, <2>1
<1>15. ASSUME UNCHANGED clientVars \/ (PassTime /\ UNCHANGED <<pageVars, historyVars>>)
       PROVE  UnseenWasCutOff'
  BY <1>14, <1>15 DEF clientVars, vars, storeVars, PassTime, Tick
<1>16. UnseenWasCutOff'
  <2> HIDE DEF Asked, Seen
  <2> QED
    BY <1>8, <1>10, <1>11, <1>12, <1>13, <1>15 DEF ClientNext, HandlerStep, PageStep
<1> QED
  BY <1>4, <1>16

\* A turn that is part of a history is shown or awaited by a page, unless it was
\* cut off from it or came back with another turn's copy after its conversation
\* was dropped: an error of the application leaves nothing behind.  That holds
\* whatever the store and the registry drop.
THEOREM UnseenTurnsWereCutOff == ClientSpec => []UnseenWasCutOff
<1>1. ClientInit => RepliesComplete /\ ShownOwn /\ HandledIsAwaited
  BY EmptyOrder DEF ClientInit, Init, RepliesComplete, ShownOwn, HandledIsAwaited, NoReply
<1>2. ClientInit => UnseenWasCutOff
  BY DEF ClientInit, Init, StoreInit, UnseenWasCutOff, Stored, ToSet
<1>3. TypeOK /\ RepliesComplete /\ [Next]_vars => RepliesComplete'
  BY StepCompletesReplies
<1>4. TypeOK /\ HistoriesSound /\ PagesKnown /\ ShownOwn /\ [ClientNext]_clientVars => ShownOwn'
  BY StepKeepsShownOwn
<1>5. TypeOK /\ HistoriesSound => StoredSound
  BY StoredIsSound DEF StoredSound
<1>6. /\ TypeOK /\ HistoriesSound /\ StoredSound' /\ RepliesComplete
      /\ PagesKnown /\ ShownOwn
      /\ HandledIsAwaited /\ UnseenWasCutOff /\ [ClientNext]_clientVars
      => (HandledIsAwaited /\ UnseenWasCutOff)'
  BY StepKeepsSeen
<1> QED
  BY <1>1, <1>2, <1>3, <1>4, <1>5, <1>6, PagesUseTheService, HistoriesStaySound, PTL
     DEF ClientSpec, Spec
====
