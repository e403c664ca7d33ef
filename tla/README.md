# A verification project for cvbot-retriever

cvbot-retriever answers questions about a CV: a FastAPI application keeps
conversations in memory, looks up chunks of documents in ChromaDB, and lets a
Bedrock model answer. This directory models its stateful core in TLA+, checks it
with TLC on small instances and proves the central properties with TLAPS for all
of them. Every definition is a translation of the source; `PROJECT.json` maps
each to its lines. Paths below are relative to `src/`.

## 1. The system

### Inventory

| Component | State | Operations | What makes it correct |
| --- | --- | --- | --- |
| `InMemoryConversationStore` (`cvbot_retriever/conversation.py`) | an `OrderedDict` of conversations with the time of last use | `load`, `save`, each with `_expire`, under one lock | order is order of last use; nothing overdue survives an access; a full store forgets the conversation unused for longest, never the one written |
| `_ConversationLocks` (`webapp.py`) | a bounded `OrderedDict` of locks | `get` under a guard | requests of a conversation get the same lock while one holds it |
| `_EngineProvider` (`webapp.py`) | the engine or `None` | `get` under a lock | one construction at a time, none after a success, another after a failure |
| `post_message`, `chat_page`, `read_conversation` (`webapp.py`) with `ConversationEngine.answer` (`pipeline.py`) | the progress of each handler on the thread pool, its copy of the history | limiter, provider, lock, load, condense, retrieve, generate, save, unlock, load again, reply | turns of a conversation are serialized, none is lost or torn, a failed one leaves no trace, every request is answered |
| `SlidingWindowRateLimiter` (`ratelimit.py`) | a bounded `OrderedDict` of deques | `check` | budgets per minute and hour; refusals are free; the deadline told is right; only the right client is forgotten |
| `build_context` and token counts (`context.py`, `tokens.py`) | none; cuts the history of a turn | `build_context` | fits the budget, drops no more than needed, alternates |
| Condensation (`query_condensation.py`) | none | one optional model call, validation of its filters | never fails the turn, only known filters pass |
| Retrieval and ranking (`retriever.py`, `ranking.py`) | none | over-fetch, score, stable sort, cut | best `top_k` by score, ties by similarity |
| `ConversationEngine.__init__` with vector store access (`pipeline.py`, `vector_store.py`) | model id, schema and collection, read once per process | three reads of ChromaDB | the model of the query is that of the chunks; a failed construction leaves nothing |
| `BedrockLLMClient` (`llm.py`) and the client of embeddings | none; each has its own timeouts and retries | calls that return or raise, repeated by botocore | bounded attempts; the response names what failed |
| Browser page (`templates/chat.html`), behind an API gateway | log, disabled form | submit, response, reload | one question at a time per page; the form comes back; what it shows is what the models will see |
| `deploy.yml`, `lifecycle.yml` (`.github/workflows`) | desired counts, task definition, running tasks (in ECS) | roll out; start and stop with ChromaDB | one task; stopped stays stopped; ChromaDB outlives the web application |
| Settings (`config.py`) and command line (`__main__.py`) | settings of the process | environment, arguments, checks, start | what is accepted meets what every other part takes for granted |
| Prompts, schemas, static files, image, tests | none that changes | rendering, packaging | |

Requests meet in four shared objects, each with a lock of its own: the provider,
the registry, the store and the limiter. Nothing is persisted: a restart of the
task empties all four. Behind them are two things the application does not own:
the collection in ChromaDB, which the ingestion pipeline of another repository
replaces at any time, and the models of Bedrock. Between two critical sections anything may happen, and a
turn spans many: it reads the history, waits for two models and a vector store
for up to minutes, and writes the whole history back. What keeps that safe is
the lock of the conversation, which lives in a registry that evicts.

### What is hard

Interleavings of turns with eviction and expiry; a registry that evicts locks in
use; work done outside the lock (the second `load`, the clock of the limiter); a
collection that changes between two reads and after them; a gateway that gives up
on a turn that goes on; failures at each stage; boundaries of windows, budgets and timeouts; restarts;
and two workflows that change one service. `PROJECT.json` lists these under
`hazards`, each at its line with the properties that cover it, or the reason why
none does yet.

## 2. The modules

| Module | Models | Uses |
| --- | --- | --- |
| `OrderedDicts` | the key order of `OrderedDict`, and the loops that drop from its front | |
| `ConversationStore` | the store's variables, `Load`, `Save`, the clock | `OrderedDicts` |
| `AbstractStore` | what a store promises: sets and times of use, no order | |
| `StoreSession` | the store alone, under any sequence of calls; `KeepsPromise` is the refinement of `AbstractStore` | `ConversationStore` |
| `ConversationLocks` | the registry and the locks | `OrderedDicts` |
| `EngineProvider` | construction of the engine | |
| `ChatService` | `post_message` with the engine's turn, pages, thread pool, restarts | the three above |
| `RateLimiter` | the limiter with concurrent handlers | `OrderedDicts` |
| `TurnContext` | what the turns of a conversation send to the models | |
| `Retrieval` | the filters of the condensation call, their validation, the ranking of the candidates | |
| `Deployment` | both workflows and the two ECS services | |
| `KnowledgeBase` | the collection, ingestion, and what a constructor reads of it | |
| `BedrockCalls` | a call of a model: attempts, retries, outcomes | |
| `Configuration` | `Settings`: defaults, overrides, checks; operators only | |
| `EngineTurn` | a process from its start to its end: settings, construction, turns, and the way of every error to the response | the three above |
| `ChatClient` | pages and the gateway in front of the requests | `ChatService` |
| `MC...` | symmetry sets, views, constants and sanity assumptions of the runs | |
| `OrderedDictLemmas` and `...Proofs` | the proofs | the module of that name |

Definitions that a comment calls a *mutant* are faulty versions of the
definition that follows. They take no part in any specification; put in the
place of the correct definition, each makes one property fail.

### Correspondence

*Store.* `order` is the order of the keys of `_conversations`, `entry` its
values, `now` the clock. `Load` and `Save` are the bodies of the `with` blocks,
atomic because both are critical sections of one lock. The code reads the clock
twice in a critical section; the model once. `Loaded(id)` is what `load`
returns, a copy, and the engine's copy is `local` in `ChatService`.

*Locks.* A lock object has the name of the request whose `get` created it, since
a call creates at most one. `holder` outlives the registration: an evicted lock
goes on being held and waited for, as in Python.

*Requests.* `pc` follows `post_message`: `queued`, `engine`, (`building`),
`lock`, `acquire`, then inside the lock `load`, `condense`, `retrieve`,
`generate`, `save`, `release`, and `reply` or `done`. `Refuse` stands for a
malformed identifier or question and for a refusal by the limiter.
`TurnFails` is every `except` clause. Adding the question and the answer happens
on the copy; `SaveTurn` is `add_assistant` and `save`, `TurnFails` at `save` the
blank answer that `add_assistant` rejects. `Condense` has no failing variant
because the code falls back to the raw question. `ReadPage` is the `load` of
`chat_page` and `read_conversation`. `Restart` is a new task.

*Limiter.* `ReadClock` and `Check` are separate, since `check` reads the clock
before it takes the lock. `Check` is the whole critical section: `_bucket`,
`_evict`, `_drop_before`, both windows, `_reject`. The clock counts ticks,
`Second` of them to a second, so that readings fall between the whole seconds
that a client is told: `Refuse` is `max(1, int(retry_after) + 1)`, and `Tell` what
becomes of it. `lag`, any number up to `MaxLag`, bounds the delay between the two
steps in a behaviour. `granted` and `refusal` are history variables, void once a
client is forgotten; `refusal` keeps the first and the latest moment (`first`,
`until`) that a client was told for a window since it was last admitted.

*Context.* A message is its role and its number of cl100k tokens.
`MessageTokens` is `ceil((n + 4) * 1.2)` in integers, which an assumption of
`MCTurnContext` compares with the definition of rounding up. `Overflow` and
`Opening` are the two loops of `build_context`.

*Retrieval.* A key or a value is a spelling, and `NormalKey` and `NormalValue`
stand for the two functions of `cvbot_core`. `Grammar` is `_build_json_schema`,
which chooses its fields and values by `CappedFields` and `CappedValues`;
`Prompt` is `_build_system_prompt`, which chooses its own by `Listed` and
`Rendered`: two translations of two functions, compared in `PromptMatchesGrammar`. `Answer` is a condensation call that
returned an object, conforming or not; `Fallback` one that was skipped, raised or
brought no object; `Validate` is `_validate_boost` as a whole. `Retrieve` is
`retrieve` with `rerank`: `Insert` puts a candidate behind all that score no
less, which is what a stable sort by descending score does. Scores are in units
that make the divisions exact, so rounding of floats is not modelled. The schema
of the call and the candidates are independent, because the collection may have
been indexed again since the engine read its schema.

*Knowledge base.* Whatever ingestion publishes gets a version, and `read` and
`engine` hold versions instead of the values read, which lets properties say
where a value came from. `ReadModel`, `ReadSchema` and `OpenCollection` are the
three calls of the constructor. Ingestion is external: it creates (under a new
identifier, as ChromaDB does), clears and fills anew, or deletes. A client that
opened a collection uses its identifier, so an engine does not find a collection
that was created again (`Found`).

*Turns and errors.* `EngineTurn` follows one handler at a time from `Start` to
the response. `ResponseTo` is the chain of `except` clauses of `post_message`, in
its order; `EndTurn` is also the return of `main` for a single question. Each of
the three clients has a call that `BedrockCalls` may repeat; only a transient
failure is. `Condensed` goes on whatever came back. `Accepted` is checked twice,
for the settings of the environment and for those with arguments, as `from_env`
and `with_overrides` do. Values are whole numbers, weights hundredths; a text is
`Proper` or `Malformed`.

*Page.* `Submit` and `Deliver` are the two halves of the submit listener around
its `await`; `shown` keeps the answers in the log and leaves out questions and
errors. `GatewayGivesUp` and `Reload` leave the handler running, and `cut`
remembers its request. `Reload` is `chat_page`, which renders what is stored.
Time passes and the task is replaced as in `ChatService`. Two history variables
say what a page cannot know (`Observe`): `stale` has the pages whose conversation
was dropped since they were rendered, by its timeout, the bound of the store or a
restart; `revived` the requests whose turn was dropped with its conversation and
came back with the copy that another turn had made before.

*Workflows.* Each call of AWS is a step, and `DeployFails` and `CommandFails`
may end a workflow before any of them. The concurrency group of `deploy.yml` is
the guard of `StartDeploy`; `lifecycle.yml` has its own, and so the two
interleave. `stopped` records what the last lifecycle command did. ECS is
external: `Launch`, `Retire` and `ChromaChanges` are what the workflows rely on
(a wait for stability implies that the old task is gone).

## 3. The runs

| Run | Shows | Bounds, and why they are enough |
| --- | --- | --- |
| `store` | `AccessPurges`, and the refinement of `AbstractStore` (`KeepsPromise`) | 4 conversations for 3 places and a clock beyond two timeouts: each can expire, be evicted, and come back |
| `chat` | safety of the turns (`TurnsSerialized`, `HistoryGrows`, `WholeTurns`, `OnlyAnsweredStored`, `BuildsOnce`); what pages show and get (`ShownIsStored`, `UnseenWasCutOff`, `ReplyIsComplete`); liveness (`EveryRequestAnswered`, `LocksReleased`, `FormComesBack`) | 2 pages: one with 2 questions for a conversation, one with a question for another, whose turn evicts the first from a store of 1; 2 threads, so that one request waits for another and a third is queued; reloads, a gateway that gives up on the first page, builds and turns that fail. A conversation times out or the task is replaced, but not both (`Bounded`), as both would multiply the states; each is enough to drop a conversation before, during and after a turn. The registry has room for both conversations. No symmetry, as liveness needs |
| `reply_after_release` | violation: a response without the turn it belongs to, because another turn evicted the conversation after its lock was released | 2 requests on 2 conversations, a store of 1, a clock that stands still: eviction is enough |
| `limiter` | `MinuteBudget` exactly, `HourBudgetLessLag`, `RefusedOnlyOverBudget`, `DeadlineHolds`, `LiveClientsKept` | 3 clients for 2 places, 2 handlers, delays of none or one tick, ticks of half a second, so that refusals between the seconds round to different moments; budgets of 2 a minute (1 second) and 3 an hour (3 seconds), a clock beyond the hour. `FewAdmitted` keeps the admissions in memory to 4, enough to exceed an hour's budget and to run out of both. What a client is told when it is refused again (`RefusedAgain`) is about behaviours without delays |
| `limiter_retry_after` | violation: the wait that a client is told is that of the minute even if the hour is used up | one client, 2 a minute, 3 an hour |
| `context` | `FitsBudget`, `KeepsMost`, `ConverseAccepts` | up to 10 messages of 2 sizes, a budget of about 3 that some histories fill exactly, chunks that fit, nearly fit and do not |
| `retrieval` | `GrammarSurvives`, `OnlyKnown`, `PromptMatchesGrammar`, `BestReturned`, `OvertakenForReason` | 4 spellings of fields (one not normal, one excluded) and 3 of values; schemas of any set of these fields, each with no values, 2, or 3 of which 2 are the same but for their spelling; caps of 2 fields and 2 values so that both cut, and after the cut a list has a value twice; answers of 2 entries; up to 4 candidates of 5 kinds at 4 distances (one below 0), of which 2 are returned, with gaps of relevance below and above what the weights can bridge |
| `deployment` | `OneTask`, `CountRestored`, `ChromaBelowWeb`, `NeverOlder` | 3 deployments and 4 commands: the first three properties speak of one workflow without the other, the last of both |
| `deploy_restarts` | violation: a deployment starts a service that was stopped meanwhile | one deployment, one command |
| `engine_turn` | `ResponseNamesFailure`, `EveryTurnEnds`, and in `TypeOK` the bound of attempts and `Sufficient`, what the other modules assume of the settings | 2 versions of a collection and 3 models, 2 of the same dimension: replaced by one that fits and by one that does not; the retries of `llm.py`; environments with each number below its bound and each value malformed, and a budget of the hour at and below that of the minute |
| `same_model` | violation: an engine embeds with the model of a collection that was replaced while it was built | the same, without clearing |
| `attempts_as_stated` | violation: a condensation call is repeated | the same |

Every passing run also checks the type invariant of its module. Deadlock is checked for the store, the
limiter, the context, the search and the process, whose callers never stop. The
others may really stop: all requests answered, the clock at its bound, no
commands left.

### Fairness

In `ChatClient` fairness is weak fairness of `Progress`: some handler which can go
on does, or a response that was sent reaches a page that still waits for it. The
threads are scheduled by the operating system, every
call of a backend returns or raises within the timeouts of its client, and the
wait for a conversation's lock ends after 20 seconds (`GiveUp`). Fairness of all
of them together is enough, because each step brings its request closer to its
end and the requests are finitely many; a request runs once, so that what is to
happen is stated as something that is true again and again (`[]<>`). Nothing is
assumed of the gateway, reloads, questions, the clock and restarts.

In `EngineTurn` it is weak fairness of `ProcessStep`: a turn that was begun goes
on, and botocore gives up after its last attempt. Ingestion, questions and
restarts need not happen.

### Findings

Five runs exhibit what a comment or a workflow promises and the code does not do;
`PROJECT.json` quotes them. `README.md:36` ("Query and chunk vectors always come
from the same model") repeats the promise that `same_model` refutes, and the
section "Security" of `README.md` the "short timeout without retry" of
`attempts_as_stated`.

Other observations have no run of their own:

- A registry that is full drops a lock in use, and the turns of that conversation
  then overlap (`TurnsSerialized` fails in `chat` with `MaxLocks = 1`). The
  code has room for 10,000 locks (`_MAX_TRACKED_LOCKS`, `webapp.py:72`) and 50
  conversations, but the comment in `_ConversationLocks.get` (dropped locks are
  those of conversations no longer in the store) is no argument: requests whose
  turns fail take places in the registry and none in the store.
- What does hold of the response that `reply_after_release` is about is
  `ReplyIsComplete`: until the conversation is dropped, it repeats every answer the
  page shows and has the new one.
- A conversation that is dropped while one of its turns is under way comes back with
  its whole history when that turn is saved, since the turn works on its copy
  (`revived`). A page may have been loaded in between and shows none of it.
- The delayed clock of the limiter breaks the order of a deque and, by the delay,
  the budget of the hour, which is why `HourBudgetLessLag` is stated as it is; a
  handler that was overtaken may also tell its client too short a wait.
- The grammar offers the name of a field as it was published and `_validate_boost`
  looks up its normal form, so that a published name that is not normal (the key
  "Status") can never be filtered on; hence `NormalSchema` in `GrammarSurvives`.
  The prompt shows the normal name and the grammar the published one.
- The prompt lists the dates of a period, the grammar leaves them out, as the
  docstring of `_build_json_schema` says it should; `PromptMatchesGrammar` therefore
  excepts them, and no others.
- A client that is refused again and again is told moments up to a second apart,
  since each refusal rounds up the rest of its own window; `DeadlineHolds` says by
  how much.
- The list of the condensation call is not cut: from a certain length of the
  conversation on it exceeds `max_context_tokens`, "Upper bound for the whole
  context sent to the LLM" (`config.py:123`), if that is meant for both calls.
  `CondensationFits` in `TurnContext` states it; no run checks it.
- An engine whose collection was created again refuses every turn with 503 until
  the process is replaced; `OpenCollection` happens once.
- Settings are accepted whose budget is smaller than the system prompt
  (`max_context_tokens` 2, `response_token_buffer` 1): every turn then ends in
  `ContextFails`, a 500.
- After its conversation was dropped, by its timeout, the bound of the store or a
  restart, a page goes on showing answers the models no longer know;
  `ShownIsStored` is therefore about pages that are not `stale`.

## 4. The proofs

TLAPS proves, for every value of the constants that the named assumptions of the
modules allow (the ranges that the constructors and `Settings` accept, which TLC
evaluates in the runs):

- `StoreProofs`: `TypeCorrect`, `OldestFirstInvariant`, `EveryAccessPurges`, and
  `StoreKeepsPromise`, the refinement of `AbstractStore`. The inductive invariant
  is the type of the store with `OldestFirst`. It is needed because `_expire` looks
  only at the front: that nothing overdue is left behind the first live entry
  (`LiveIsFresh`) is the order of use, and `load` and `save` keep it by moving what
  they touch to the end with the newest time. For the refinement the order says
  more: the entries `_expire` leaves are the ones fresh by their times, and the
  entry at the front is one that was unused for longest.
- `ChatServiceProofs`: `TypeCorrect`; `EngineBuiltOnce`; `StoredTurnsAreWhole` and
  `OnlyAnsweredTurnsStored`; and, assuming `RoomyRegistry` (the registry has room
  for every conversation), `LocksStayConsistent`,
  `TurnsOfOneConversationAreSerialized` and `NoTurnIsOverwritten`.
  `LocksConsistent` says that a request inside its turn holds the lock it got, and
  that requests of a conversation beyond `Register` got the registered lock;
  `LocalCurrent` that the copy of a request in its turn extends what the store
  holds, which mutual exclusion keeps true until it is saved. `HistoriesSound` says
  of the store and of every copy, however stale, that it is a list of whole turns
  of answered requests; a stale copy that overwrites another history replaces it
  by a sound one, so these theorems need no room in the registry.

  Of the store inside the application: `EveryUsePurges`, by which a turn, a response
  or a page leaves nothing overdue in memory, and `OverdueIsUnknown`, by which none of
  them is made of an overdue conversation or misses one that is not. Both rest on
  the order of use (`InOrderOfUse`), like `EveryAccessPurges`.

  About pages there are five. `PagesUseTheService` is the step from `ChatService` to
  `ChatClient`: `ClientSpec` implies `Spec`, since a page moves the application by
  `Send` and `ReadPage` only, so every theorem about `Spec` holds in front of pages.

  `PagesStayInOrder`, `ShownAnswersAreStored` and `ResponsesAreComplete` assume
  `RoomyRegistry`; the store may have any size and any timeout. A history only ever
  grows until it is dropped (`StoredGrows`, from the argument of
  `NoTurnIsOverwritten`), and what is new in it comes after what was there
  (`PrefixKeepsOrder`). The invariant is `PagesFollow`: the answers of a page whose
  conversation was not dropped are in the history in its order; the answer it waits
  for comes after all of them, is there once its turn is saved, although requests
  that were cut off may save in between, and is in the response once that is read,
  which `Reply` does without the lock.

  `UnseenTurnsWereCutOff` assumes nothing of registry or store. It rests on
  `HandledIsAwaited` (a page waits for every request in a handler that was not cut
  off), `ShownOwn` (a page shows answers of its own conversation, so that a reload
  brings back all it replaces), `RepliesComplete` (no path out of a handler forgets
  the response, so that a page that is told of an error waited for a turn that left
  nothing) and `StoredSound` (stored questions are followed by their answers). A
  turn that is in the store again without having been saved by its own request is
  in `revived`. All are for any number of pages, also of one conversation.
- `RateLimiterProofs`: `TypeCorrect`, `MinuteBudgetHolds`, `HourBudgetHolds`,
  `LiveClientsStay`, `RefusalsHaveReason`, `DeadlinesHold`. The invariant says that
  the deque of a client is the end of what it was ever granted and that the rest
  is an hour old on the clock (`HitsBookGrants`), that readings are at most `lag`
  old, and that grants are out of order by `lag` at most. A count over the deque
  is then a count over everything granted, if the window is shorter than an hour
  by the lag, which is the assumption of `MinuteBudgetHolds` (for the code: no
  handler waits 59 minutes for the lock) and the window of `HourBudgetHolds`. A
  refusal names a moment computed from one hit of the deque; without lag the deque
  is in order, so that hit stays the one that decides until the client is admitted,
  and each refusal names the end of its window rounded up by at most a second of its
  own (`RestRoundedUp`, `RefusalsNameDeadlines`), for any number of ticks to a second.
- `TurnContextProofs`: `TypeCorrect`; `EveryRequestAlternates`,
  `ContextFitsBudget`, `ContextKeepsMost`. The history is a sequence of whole turns,
  and the second loop of `build_context` stops after an even number of messages
  wherever the first one stopped. Token counts are sums over sequences; what is
  needed of them is that a longer end of a history costs more and that the first
  message can be split off, which follows from the definition of the sum, one
  message at a time.
- `RetrievalProofs`: `TypeCorrect`; `OnlyKnownFilters`, `GrammarIsEnough`,
  `PromptOffersGrammar`. The invariant is that an answer has finitely many entries
  with different keys, so that among the entries that name a field there is a last
  one, which decides; under the grammar it is the only one. `PromptOffersGrammar` compares
  the two translations: both caps select the same fields (`SameFields`: fewer than so
  many names before one, and at most so many up to it) and the same values
  (`SameValues`: a list cut and then normalized, and a set of the values at its first
  positions). `BestAreReturned`:
  `Rerank` is a recursive function over the number of candidates inserted so far,
  which exists and leaves them ranked after every insertion (`RankingsExist`,
  `InsertRanked`, by induction over that number); the returned list is the
  beginning of a ranking, so nothing outside it is better. `OvertakenOnlyForReason`
  adds arithmetic about scores: relevance falls with distance, and the shares of
  matched fields and of years lie between nothing and their weights.
- `DeploymentProofs`: `TypeCorrect`, `DeploymentsRunOneTask`,
  `DeploymentsRestoreCount`, `CommandsKeepChromaBelow`, `RevisionsNeverGoBack`. The
  invariant has a part for each. `InOrder`: deployments start in the order of their
  revisions, and the running one is the last that started, hence nothing newer can
  be taken back. `Drains`: between the wait for the old task and the new revision
  the service is empty. `Restores`: a started service that is down has a deployment
  to blame that read 1, and all later ones read 0. `ChromaFirst` follows a command
  through its waits.
- `EngineTurnProofs`: `TypeCorrect` (with `Sufficient`: accepted settings meet the
  assumptions of the other modules), `ResponsesNameFailures`. `KnowledgeSound` says
  which version was read before which, `ControlSound` which client a place in the code goes with.
- `OrderedDictLemmas`: what the operations on key orders return. Loops are defined
  by `CHOOSE` or by a recursive function, and the lemmas establish that what is
  chosen exists. `Restricted` is such a function where `SelectSeq` would do,
  because the proof system knows nothing of `SelectSeq`.

Only model-checked: what is to happen eventually (`EveryRequestAnswered`,
`LocksReleased`, `FormComesBack`, `EveryTurnEnds`), which is out of the prover's
reach. Every other property that a passing run checks is also a theorem; the five
runs that end in a violation check what the findings quote.

## 5. Not modelled

- Texts: prompts (`prompts.py`, which also neutralizes delimiters in what it
  quotes), wording, Markdown, logging, JSON formats, cookies and headers. Of a
  prompt only its size matters to the modelled parts.
- The API schemas, image and tests: declarations and packaging without state.
- The parsers and checks of `cvbot_core`, which are not in this repository:
  `Configuration` takes them by name.
- Durations: a call that times out is an outcome, however long it takes. That the
  stated worst case of two minutes is a matter of attempts is what
  `AttemptsAsStated` is about.
- The limiter is composed with the requests only as a possible refusal: the two
  share no state but the order of calls. Likewise `ChatService` leaves open why a
  turn fails, and `EngineTurn`, with one handler, says why.
- The health probe, which needs a thread of the pool and nothing else.
- Conversation identifiers are taken as they come; their validation is a
  refusal.

## 6. Plan

Done: store, locks, provider, requests, limiter, context, search, workflows,
knowledge base, calls, settings, process, page and gateway; proofs about all of
them. Left, in this order:

1. The health probe in the thread pool of `ChatService`, once the deployment is
   composed with it: what ECS does to a task whose pool is full.
2. Two pages of one conversation in `chat`, whose two pages have one each, which
   multiplies its states; the theorems hold for any number.
