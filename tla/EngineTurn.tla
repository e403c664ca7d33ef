---- MODULE EngineTurn ----
(****************************************************************************)
(* A process from its start to its end, and one turn after the other in it: *)
(* the settings, the construction of the engine, and what becomes of the    *)
(* errors of ChromaDB and Bedrock on their way out (pipeline.py, llm.py,    *)
(* the except clauses of webapp.py, main of __main__.py), while ingestion   *)
(* changes the collection.                                                  *)
(*                                                                          *)
(* One handler at a time: handlers share nothing here but the engine, which *)
(* is built under a lock and never changes.  ChatService is about the rest  *)
(* of what they share.                                                      *)
(****************************************************************************)
EXTENDS KnowledgeBase, BedrockCalls, Configuration

CONSTANTS
  Environments, Arguments,  \* what a process may be started with
  NoSettings

\* A number is given as a number, or not.
ASSUME SettingsAssumption ==
  \A given \in Environments \cup Arguments : \A f \in Numbers \cap DOMAIN given :
    given[f] = Malformed \/ given[f] \in Int

VARIABLES
  mode,       \* "serve", or "once" for a single question
  settings,   \* Settings of the process
  pc,         \* where the process or its handler is
  searched,   \* version of the chunks that the search was made in, or 0
  status      \* the response, or how the process ended

processVars == <<mode, settings>>
vars == <<knowledgeVars, callVars, processVars, pc, searched, status>>

Init ==
  /\ KnowledgeInit /\ NoCalls
  /\ mode \in {"serve", "once"} /\ settings = NoSettings
  /\ pc = "start" /\ searched = 0 /\ status = "none"

Goto(from, to) == pc = from /\ pc' = to

\* A process that answers a single question ends with the turn; whatever is
\* raised there makes main return 1.
EndTurn(response) ==
  /\ pc' = IF mode = "once" THEN "exited" ELSE "idle"
  /\ status' = IF mode = "once" /\ response # "answered" THEN "failed" ELSE response

BotoErrors == {"rejected"} \cup Transient  \* BotoCoreError and ClientError

\* Mutant: the clause of read timeouts comes after that of their superclass.
ResponseToLate(error) ==
  CASE error = "chroma"            -> "no knowledge base"
    [] error \in BotoErrors        -> "no answer service"
    [] OTHER                       -> "unexpected"

\* The except clauses of post_message, of which the first that fits is taken.
ResponseTo(error) ==
  CASE error = "chroma"                        -> "no knowledge base"
    [] error = "timeout"                       -> "timeout"
    [] error \in BotoErrors \ {"timeout"}      -> "no answer service"
    [] OTHER                                   -> "unexpected"

Raise(error) == EndTurn(ResponseTo(error))
----------------------------------------------------------------------------
\* main and create_app: both the environment's settings and those with the
\* arguments of the command line are checked.
Start ==
  /\ pc = "start"
  /\ \E env \in Environments, arguments \in Arguments :
       LET s == FromEnv(env)
           t == WithOverrides(s, arguments)
       IN  IF Accepted(s) /\ Accepted(t)
             THEN pc' = "idle" /\ settings' = t /\ UNCHANGED status
             ELSE pc' = "exited" /\ status' = "failed" /\ UNCHANGED settings
  /\ UNCHANGED <<knowledgeVars, callVars, searched, mode>>

\* A question arrives; the engine is built first if there is none.
Ask ==
  /\ Goto("idle", IF engine = NoEngine THEN "read model" ELSE "condense")
  /\ searched' = 0 /\ status' = "none"
  /\ ForgetCalls
  /\ UNCHANGED <<knowledgeVars, processVars>>

BuildStep ==
  /\ \/ Goto("read model", "read schema") /\ ReadModel
     \/ Goto("read schema", "open") /\ ReadSchema
     \/ Goto("open", "condense") /\ OpenCollection
  /\ UNCHANGED <<callVars, processVars, searched, status>>

Building == pc \in {"read model", "read schema", "open"}

\* Mutant: the construction is tried again until it succeeds.
BuildFailsNot ==
  /\ Building /\ pc' = "read model"
  /\ ForgetRead
  /\ UNCHANGED <<callVars, processVars, searched, status>>

\* ChromaDB is not there, or the collection is not, or carries no model.  The
\* engine stays None.
BuildFails ==
  /\ Building
  /\ EndTurn("no knowledge base")
  /\ ForgetRead
  /\ UNCHANGED <<callVars, processVars, searched>>
----------------------------------------------------------------------------
HasFields == published[engine.schema].fields

\* A conversation without messages, which that of a single question always is,
\* and a collection without fields.
SkipCondensation ==
  /\ Goto("condense", "embed")
  /\ ~ HasFields
  /\ UNCHANGED <<knowledgeVars, callVars, processVars, searched, status>>

\* generate_json, embed_query and generate send their request.
Call ==
  /\ \/ Goto("condense", "condensing") /\ (mode = "serve" \/ HasFields) /\ BeginCall("condense")
     \/ Goto("embed", "embedding") /\ BeginCall("embed")
     \/ Goto("generate", "generating") /\ BeginCall("answer")
  /\ UNCHANGED <<knowledgeVars, processVars, searched, status>>

CallAgain ==
  /\ Retry
  /\ UNCHANGED <<knowledgeVars, processVars, searched, pc, status>>

\* Whatever the call brings, and whatever it raises, the turn goes on.
Condensed ==
  /\ Goto("condensing", "embed")
  /\ \E result \in Outcomes : EndCall(result)
  /\ UNCHANGED <<knowledgeVars, processVars, searched, status>>

Embedded ==
  /\ pc = "embedding"
  /\ \E result \in Outcomes \ {"blank"} :
       /\ EndCall(result)
       /\ IF result = "usable" THEN pc' = "search" /\ UNCHANGED status
                               ELSE Raise(result)
  /\ UNCHANGED <<knowledgeVars, processVars, searched>>

\* The query; a collection without chunks returns none.
Search ==
  /\ Goto("search", "context")
  /\ Found
  /\ searched' = IF collection.filled THEN collection.version ELSE 0
  /\ UNCHANGED <<knowledgeVars, callVars, processVars, status>>

SearchFails ==
  /\ pc = "search"
  /\ Raise("chroma")
  /\ UNCHANGED <<knowledgeVars, callVars, processVars, searched>>

Context ==
  /\ Goto("context", "generate")
  /\ UNCHANGED <<knowledgeVars, callVars, processVars, searched, status>>

\* The question and its chunks exceed the budget.
ContextFails ==
  /\ pc = "context"
  /\ Raise("ValueError")
  /\ UNCHANGED <<knowledgeVars, callVars, processVars, searched>>

\* generate returns, and the turn is saved unless add_assistant rejects a blank
\* answer; or it raises.
Answered ==
  /\ pc = "generating"
  /\ \E result \in Outcomes :
       /\ EndCall(result)
       /\ IF result = "usable" THEN EndTurn("answered") ELSE Raise(result)
  /\ UNCHANGED <<knowledgeVars, processVars, searched>>

\* The process ends at any time, and another one is started.
Restart ==
  /\ pc' = "start" /\ mode' \in {"serve", "once"} /\ settings' = NoSettings
  /\ searched' = 0 /\ status' = "none"
  /\ ForgetCalls /\ ForgetEngine

Indexing == Ingest /\ UNCHANGED <<callVars, processVars, searched, pc, status>>

ProcessStep ==
  \/ Start
  \/ BuildStep \/ BuildFails
  \/ SkipCondensation \/ Call \/ CallAgain \/ Condensed
  \/ Embedded \/ Search \/ SearchFails \/ Context \/ ContextFails \/ Answered

Next == Ask \/ ProcessStep \/ Restart \/ Indexing

Spec == Init /\ [][Next]_vars

\* A started turn goes on: every call returns or raises within the timeouts of
\* its client.  Nothing makes a question, ingestion or a restart happen.
FairSpec == Spec /\ WF_vars(ProcessStep)
----------------------------------------------------------------------------
Versions == 1 .. Latest
Steps == {"start", "idle", "exited", "read model", "read schema", "open", "condense",
          "condensing", "embed", "embedding", "search", "context", "generate",
          "generating"}
Responses == {"none", "answered", "no knowledge base", "timeout", "no answer service",
              "unexpected", "failed"}

\* What the other parts take for granted of the settings they are given: the
\* assumptions of ConversationStore, RateLimiter and TurnContext, and the
\* divisor and the weights of the ranking.
Sufficient(s) ==
  /\ {s.conversation_ttl_seconds, s.max_conversations, s.rate_limit_per_minute,
      s.top_k, s.overfetch_factor, s.recency_window_years} \subseteq Nat \ {0}
  /\ s.rate_limit_per_hour >= s.rate_limit_per_minute
  /\ s.response_token_buffer \in 1 .. s.max_context_tokens - 1
  /\ {s.filter_weight, s.recency_weight} \subseteq Nat

\* What was read and opened was published before, no client sends more than one
\* request and its retries, and settings set in two places fit each other.
TypeOK ==
  /\ published \in Seq([id : Versions, model : Models, fields : BOOLEAN])
  /\ collection \in [version : Versions, filled : BOOLEAN] \cup {NoCollection}
  /\ read \in [model : 0 .. Latest, schema : 0 .. Latest]
  /\ engine \in [model : Versions, schema : Versions, opened : Versions] \cup {NoEngine}
  /\ client \in Clients /\ outcome \in Outcomes \cup {"none", "pending"}
  /\ attempts \in 0 .. MaxAttempts[client] + 1
  /\ mode \in {"serve", "once"} /\ pc \in Steps /\ status \in Responses
  /\ searched \in 0 .. Latest
  /\ settings # NoSettings => Sufficient(settings)

\* "so query and index vectors are always built with the same model" (Settings).
SameModel == searched # 0 => ModelOf(engine.model) = ModelOf(searched)

\* The response says what failed, whatever the optional condensation met: 504
\* is a read timeout of the embedding or the answer, 503 for the answer service
\* any other error of theirs, 503 for the knowledge base an engine without
\* construction or search, and an answer stands on text of the model.
ResponseNamesFailure ==
  status \notin {"none", "failed"} =>
    /\ status = "timeout" <=> client # "condense" /\ outcome = "timeout"
    /\ status = "no answer service" <=>
         client # "condense" /\ outcome \in BotoErrors \ {"timeout"}
    /\ status = "answered" <=> client = "answer" /\ outcome = "usable"
    /\ status = "no knowledge base" => engine = NoEngine \/ client = "embed"

\* "Two attempts keep the worst case near two minutes" and, for condensation,
\* "a short timeout and no retry" (llm.py).
AttemptsAsStated ==
  /\ client = "answer" => attempts <= 2
  /\ client = "condense" => attempts <= 1

\* Every start, and every turn, comes to an end, whatever ingestion does in the
\* meantime and however often a backend fails.
EveryTurnEnds == pc \notin {"idle", "exited"} ~> pc \in {"idle", "exited"}
====
