---- MODULE ChatService ----
(****************************************************************************)
(* The web application of webapp.py with the engine's turn of pipeline.py:  *)
(* message requests run through post_message on a pool of threads, sharing  *)
(* the engine provider, the lock registry and the conversation store, while *)
(* pages are read, time passes and the task may be restarted.               *)
(*                                                                          *)
(* Each request posts one question.  A step is one critical section, one    *)
(* call of a backend, or the code between two of them.  The rate limiter is *)
(* any refusal here; RateLimiter models it.  What the backends answer is    *)
(* left open: every call returns a result or raises.                        *)
(****************************************************************************)
EXTENDS ConversationStore, ConversationLocks, EngineProvider

CONSTANTS
  Threads,     \* threads of the server's pool that run the handlers
  MaxRestarts  \* bound of the restarts of the task

ASSUME ServiceAssumption ==
  Threads \in Nat \ {0} /\ MaxRestarts \in Nat /\ NoBuilder \notin Requests

VARIABLES
  pc,        \* where post_message is for each request
  conv,      \* the conversation each request addresses
  lockOf,    \* the lock each request got from the registry
  local,     \* the engine's own copy of the messages, per request
  reply,     \* the response, per request
  restarts

requestVars == <<pc, conv, lockOf, local, reply>>
vars == <<storeVars, locksVars, providerVars, requestVars, restarts>>

NoReply == [status |-> "none", messages |-> <<>>]

Init ==
  /\ StoreInit /\ LocksInit /\ ProviderInit
  /\ pc = [r \in Requests |-> "new"]
  /\ conv \in [Requests -> Ids]
  /\ lockOf = [r \in Requests |-> Nobody]
  /\ local = [r \in Requests |-> <<>>]
  /\ reply = [r \in Requests |-> NoReply]
  /\ restarts = 0

Question(r) == [role |-> "user", of |-> r]
Answer(r) == [role |-> "assistant", of |-> r]

\* Where a request is inside engine.answer, between lock.acquire and release.
Answering == {"load", "condense", "retrieve", "generate", "save"}
InTurn(r) == pc[r] \in Answering \cup {"release"}

Goto(r, from, to) == pc[r] = from /\ pc' = [pc EXCEPT ![r] = to]

Finish(r, status, messages) ==
  reply' = [reply EXCEPT ![r] = [status |-> status, messages |-> messages]]

\* The threads that run a handler.
Busy == {r \in Requests : pc[r] \notin {"new", "queued", "done"}}
----------------------------------------------------------------------------
Send(r) ==
  /\ Goto(r, "new", "queued")
  /\ UNCHANGED <<storeVars, locksVars, providerVars, conv, lockOf, local, reply, restarts>>

\* The handler starts when a thread of the pool is free.
Start(r) ==
  /\ Cardinality(Busy) < Threads
  /\ Goto(r, "queued", "engine")
  /\ UNCHANGED <<storeVars, locksVars, providerVars, conv, lockOf, local, reply, restarts>>

\* 400 for a malformed identifier or question, 429 by the rate limiter.
Refuse(r) ==
  /\ Cardinality(Busy) < Threads
  /\ Goto(r, "queued", "done")
  /\ Finish(r, "refused", <<>>)
  /\ UNCHANGED <<storeVars, locksVars, providerVars, conv, lockOf, local, restarts>>

UseEngine(r) ==
  /\ Goto(r, "engine", "lock")
  /\ EngineFound
  /\ UNCHANGED <<storeVars, locksVars, conv, lockOf, local, reply, restarts>>

Build(r) ==
  /\ Goto(r, "engine", "building")
  /\ BeginBuild(r)
  /\ UNCHANGED <<storeVars, locksVars, conv, lockOf, local, reply, restarts>>

BuildSucceeds(r) ==
  /\ Goto(r, "building", "lock")
  /\ EndBuild(r, TRUE)
  /\ UNCHANGED <<storeVars, locksVars, conv, lockOf, local, reply, restarts>>

\* 503, and _engine stays None.
BuildFails(r) ==
  /\ Goto(r, "building", "done")
  /\ EndBuild(r, FALSE)
  /\ Finish(r, "unavailable", <<>>)
  /\ UNCHANGED <<storeVars, locksVars, conv, lockOf, local, restarts>>

Register(r) ==
  /\ Goto(r, "lock", "acquire")
  /\ lockOf' = [lockOf EXCEPT ![r] = LockFor(conv[r], r)]
  /\ GetLock(conv[r], r)
  /\ UNCHANGED <<storeVars, providerVars, conv, local, reply, restarts>>

Acquire(r) ==
  /\ Goto(r, "acquire", "load")
  /\ AcquireLock(lockOf[r], r)
  /\ UNCHANGED <<storeVars, providerVars, conv, lockOf, local, reply, restarts>>

\* 503: acquire timed out, which it does only while the lock is taken.
GiveUp(r) ==
  /\ Goto(r, "acquire", "done")
  /\ holder[lockOf[r]] # Nobody
  /\ Finish(r, "busy", <<>>)
  /\ UNCHANGED <<storeVars, locksVars, providerVars, conv, lockOf, local, restarts>>
----------------------------------------------------------------------------
LoadHistory(r) ==
  /\ Goto(r, "load", "condense")
  /\ Load(conv[r])
  /\ local' = [local EXCEPT ![r] = Loaded(conv[r])]
  /\ UNCHANGED <<now, locksVars, providerVars, conv, lockOf, reply, restarts>>

\* condense_and_extract falls back to the raw question and never raises.
Condense(r) ==
  /\ Goto(r, "condense", "retrieve")
  /\ UNCHANGED <<storeVars, locksVars, providerVars, conv, lockOf, local, reply, restarts>>

Retrieve(r) ==
  /\ Goto(r, "retrieve", "generate")
  /\ UNCHANGED <<storeVars, locksVars, providerVars, conv, lockOf, local, reply, restarts>>

\* add_user takes the question once the model has answered.
Generate(r) ==
  /\ Goto(r, "generate", "save")
  /\ local' = [local EXCEPT ![r] = Append(@, Question(r))]
  /\ UNCHANGED <<storeVars, locksVars, providerVars, conv, lockOf, reply, restarts>>

\* Mutant: the answer is not added before the conversation is saved.
SaveQuestionOnly(r) ==
  /\ Goto(r, "save", "release")
  /\ Save(conv[r], local[r])
  /\ local' = [local EXCEPT ![r] = <<>>]
  /\ UNCHANGED <<now, locksVars, providerVars, conv, lockOf, reply, restarts>>

\* add_assistant and save.
SaveTurn(r) ==
  /\ Goto(r, "save", "release")
  /\ Save(conv[r], Append(local[r], Answer(r)))
  /\ local' = [local EXCEPT ![r] = <<>>]
  /\ UNCHANGED <<now, locksVars, providerVars, conv, lockOf, reply, restarts>>

\* Mutant: a turn that fails after the answer leaves what it has in the store.
TurnFailsStored(r) ==
  /\ Goto(r, "save", "release")
  /\ Save(conv[r], local[r])
  /\ local' = [local EXCEPT ![r] = <<>>]
  /\ Finish(r, "failed", <<>>)
  /\ UNCHANGED <<now, locksVars, providerVars, conv, lockOf, restarts>>

\* 503, 504 or 500: retrieval, the context budget or the model raised, or
\* add_assistant rejected a blank answer.
TurnFails(r) ==
  /\ \E at \in {"retrieve", "generate", "save"} : Goto(r, at, "release")
  /\ local' = [local EXCEPT ![r] = <<>>]
  /\ Finish(r, "failed", <<>>)
  /\ UNCHANGED <<storeVars, locksVars, providerVars, conv, lockOf, restarts>>
----------------------------------------------------------------------------
\* Mutant: the lock is released after a success, but not in a finally block.
ReleaseOnSuccess(r) ==
  /\ Goto(r, "release", IF reply[r] = NoReply THEN "reply" ELSE "done")
  /\ IF reply[r] = NoReply THEN ReleaseLock(lockOf[r]) ELSE UNCHANGED locksVars
  /\ UNCHANGED <<storeVars, providerVars, conv, lockOf, local, reply, restarts>>

\* The finally block, after which an error is returned and a success goes on.
Release(r) ==
  /\ Goto(r, "release", IF reply[r] = NoReply THEN "reply" ELSE "done")
  /\ ReleaseLock(lockOf[r])
  /\ UNCHANGED <<storeVars, providerVars, conv, lockOf, local, reply, restarts>>

\* 200: the history is read from the store again, without the lock.
Reply(r) ==
  /\ Goto(r, "reply", "done")
  /\ Load(conv[r])
  /\ Finish(r, "ok", Loaded(conv[r]))
  /\ UNCHANGED <<now, locksVars, providerVars, conv, lockOf, local, restarts>>

\* chat_page and read_conversation.
ReadPage(id) ==
  /\ Cardinality(Busy) < Threads
  /\ Load(id)
  /\ UNCHANGED <<now, locksVars, providerVars, requestVars, restarts>>

PassTime == Tick /\ UNCHANGED <<locksVars, providerVars, requestVars, restarts>>

\* The task is replaced: its memory and the requests in it are gone.
Restart ==
  /\ restarts < MaxRestarts
  /\ restarts' = restarts + 1
  /\ order' = <<>> /\ entry' = <<>>
  /\ lockOrder' = <<>> /\ registry' = <<>> /\ holder' = [l \in Requests |-> Nobody]
  /\ built' = FALSE /\ builder' = NoBuilder
  /\ LET gone == {r \in Requests : pc[r] \notin {"new", "done"}}
     IN  /\ pc' = [r \in Requests |-> IF r \in gone THEN "done" ELSE pc[r]]
         /\ local' = [r \in Requests |-> <<>>]
         /\ reply' = [r \in Requests |->
              IF r \in gone THEN [status |-> "lost", messages |-> <<>>] ELSE reply[r]]
  /\ UNCHANGED <<now, conv, lockOf>>

TurnStep(r) ==
  \/ LoadHistory(r) \/ Condense(r) \/ Retrieve(r) \/ Generate(r)
  \/ SaveTurn(r) \/ TurnFails(r)

RequestStep(r) ==
  \/ Start(r) \/ Refuse(r)
  \/ UseEngine(r) \/ Build(r) \/ BuildSucceeds(r) \/ BuildFails(r)
  \/ Register(r) \/ Acquire(r) \/ GiveUp(r)
  \/ TurnStep(r)
  \/ Release(r) \/ Reply(r)

Next ==
  \/ \E r \in Requests : Send(r) \/ RequestStep(r)
  \/ \E id \in Ids : ReadPage(id)
  \/ PassTime
  \/ Restart

Spec == Init /\ [][Next]_vars
----------------------------------------------------------------------------
Roles == {"user", "assistant"}
Messages == [role : Roles, of : Requests]
Statuses == {"none", "refused", "unavailable", "busy", "failed", "ok", "lost"}
Steps == {"new", "queued", "engine", "building", "lock", "acquire", "release", "reply", "done"}
           \cup Answering

StoreTypeOK ==
  /\ order \in Orders(Ids) /\ Len(order) <= MaxConversations
  /\ entry \in [ToSet(order) -> [messages : Seq(Messages), touchedAt : Nat]]
  /\ now \in Nat

LocksTypeOK ==
  /\ lockOrder \in Orders(Ids) /\ Len(lockOrder) <= MaxLocks
  /\ registry \in [ToSet(lockOrder) -> Requests]
  /\ holder \in [Requests -> Requests \cup {Nobody}]

RequestsTypeOK ==
  /\ pc \in [Requests -> Steps]
  /\ conv \in [Requests -> Ids]
  /\ lockOf \in [Requests -> Requests \cup {Nobody}]
  /\ local \in [Requests -> Seq(Messages)]
  /\ reply \in [Requests -> [status : Statuses, messages : Seq(Messages)]]

\* The store and the registry stay within their bounds, and every variable of
\* the application keeps its type.
TypeOK ==
  /\ StoreTypeOK /\ LocksTypeOK /\ RequestsTypeOK
  /\ built \in BOOLEAN /\ builder \in Requests \cup {NoBuilder}
  /\ restarts \in Nat

\* "Turns of one conversation are serialized" (_ConversationLocks): two
\* requests are never inside the engine with the same conversation.  It takes
\* a registry that keeps a lock for as long as someone may hold it.
TurnsSerialized ==
  \A r, s \in Requests : r # s /\ InTurn(r) /\ InTurn(s) => conv[r] # conv[s]

\* A stored history only ever grows at its end while it is in the store: no
\* turn overwrites one that was answered meanwhile (pipeline.answer loads,
\* calls two models and saves the whole list back).
HistoryGrows ==
  [][\A id \in DOMAIN entry \cap DOMAIN entry' :
       IsPrefix(entry[id].messages, entry'[id].messages)]_vars

\* What is stored, and so what a page or a prompt is made of, is a list of
\* whole turns: question, answer, question, answer, each pair of one request.
WholeTurns ==
  \A id \in DOMAIN entry :
    LET m == entry[id].messages
    IN  \A i \in DOMAIN m :
          IF i % 2 = 1 THEN m[i].role = "user" /\ i < Len(m)
                       ELSE m[i].role = "assistant" /\ m[i].of = m[i - 1].of

\* A turn that failed, was refused or was lost leaves no trace: what is stored
\* under a conversation was asked there, and only once, and was answered.
OnlyAnsweredStored ==
  \A id \in DOMAIN entry :
    LET m == entry[id].messages
    IN  \A i \in DOMAIN m :
          /\ conv[m[i].of] = id
          /\ reply[m[i].of].status \in {"none", "ok"}
          /\ pc[m[i].of] \in {"release", "reply", "done"}
          /\ \A j \in DOMAIN m : m[i] = m[j] => i = j

\* The factory runs in one request at a time and never once an engine is there:
\* the second look at _engine is under the lock the builder holds.
BuildsOnce ==
  \A r \in Requests : pc[r] = "building" => builder = r /\ ~ built

\* "The complete visible history including the current turn" (ChatResponse): the
\* response to an answered question shows its answer.  The history is read from
\* the store after the lock is released (post_message).
ReplyIncludesTurn ==
  \A r \in Requests :
    reply[r].status = "ok" => Answer(r) \in ToSet(reply[r].messages)

\* Every request that was sent is answered, whoever it waits for: the pool, the
\* builder of the engine or the turn before it, which may fail.  A request runs
\* once, so one that is new or done again and again is not under way for good.
EveryRequestAnswered ==
  \A r \in Requests : []<>(pc[r] \in {"new", "done"})

\* No lock is held for good: each path out of a turn releases the lock it took,
\* so that all of them are free again and again.
LocksReleased ==
  []<>(\A l \in Requests : holder[l] = Nobody)
====
