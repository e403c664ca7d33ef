---- MODULE EngineTurnProofs ----
(****************************************************************************)
(* Proofs about EngineTurn, for any models, dimensions, retries, settings   *)
(* and number of versions.  The invariant adds to the properties what the   *)
(* position of the process says of the engine and of the call before:       *)
(*   - while an engine is built there is none, nothing has been searched,   *)
(*     and what was read is a published version;                            *)
(*   - a turn has an engine; the last call is that of the part that the     *)
(*     turn is in, and it was of use once the turn goes on to the search;   *)
(*   - a response is there only between turns.                              *)
(****************************************************************************)
EXTENDS EngineTurn, SequenceTheorems, TLAPS

Publication(versions) == [id : versions, model : Models, fields : BOOLEAN]
Kept(versions) == [model : versions, schema : versions, opened : versions]

InTurn == pc \notin {"start", "idle", "exited"} /\ ~ Building

KnowledgeSound ==
  /\ Exists => /\ collection \in [version : Versions, filled : BOOLEAN]
               /\ collection.version = Latest
  /\ Building => engine = NoEngine
  /\ pc = "start" \/ Building => searched = 0
  /\ pc \in {"read schema", "open"} => read.model # 0
  /\ pc = "open" => read.schema # 0
  /\ InTurn \/ searched # 0 => engine \in Kept(Versions)

ControlSound ==
  /\ status # "none" => pc \in {"idle", "exited"}
  /\ Building \/ pc \in {"condense", "condensing", "embed"} => client = "condense"
  /\ pc = "embedding" => client = "embed"
  /\ pc \in {"search", "context", "generate"} => client = "embed" /\ outcome = "usable"
  /\ pc = "generating" => client = "answer"
  /\ Building => outcome = "none"

IInv ==
  TypeOK /\ KnowledgeSound /\ ControlSound /\ ResponseNamesFailure
----------------------------------------------------------------------------
(****************************************************************************)
(* The settings.                                                            *)
(****************************************************************************)

\* Whatever the environment and the arguments give, the settings are numbers
\* where numbers belong, unless they are malformed (from_env, with_overrides).
LEMMA NumbersAreNumbers ==
  ASSUME NEW env \in Environments, NEW arguments \in Arguments
  PROVE  \A f \in Numbers :
           LET t == WithOverrides(FromEnv(env), arguments)
           IN  t[f] = Malformed \/ t[f] \in Int
<1> SUFFICES ASSUME NEW f \in Numbers
             PROVE  LET t == WithOverrides(FromEnv(env), arguments)
                    IN  t[f] = Malformed \/ t[f] \in Int
  OBVIOUS
<1>1. Defaults[f] \in Int
  BY DEF Numbers, Defaults
<1>2. FromEnv(env)[f] = Malformed \/ FromEnv(env)[f] \in Int
  BY <1>1, SettingsAssumption DEF FromEnv, Given
<1>3. f \in DOMAIN FromEnv(env)
  BY DEF FromEnv
<1>4. WithOverrides(FromEnv(env), arguments)[f]
        = Given(arguments, f, FromEnv(env)[f])
  BY <1>3 DEF WithOverrides
<1> QED BY <1>2, <1>4, SettingsAssumption DEF Given

\* What __post_init__ lets pass is enough for the other parts.
LEMMA AcceptedSuffices ==
  ASSUME NEW t, Accepted(t),
         \A f \in Numbers : t[f] = Malformed \/ t[f] \in Int
  PROVE  Sufficient(t)
<1>1. /\ Parsed(t) /\ RankingAccepted(t)
      /\ \A f \in {"top_k", "max_context_tokens", "response_token_buffer",
                   "rate_limit_per_minute", "conversation_ttl_seconds",
                   "max_conversations"} : t[f] > 0
      /\ Below(t.response_token_buffer, t.max_context_tokens)
      /\ t.rate_limit_per_hour >= t.rate_limit_per_minute
  BY Zenon DEF Accepted
<1>2. \A f \in Numbers : t[f] \in Int
  BY <1>1, Zenon DEF Parsed
<1>3. Numbers = {"top_k", "overfetch_factor", "filter_weight", "recency_weight",
                 "recency_window_years", "max_context_tokens",
                 "response_token_buffer", "rate_limit_per_minute",
                 "rate_limit_per_hour", "conversation_ttl_seconds",
                 "max_conversations", "chroma_port", "web_port"}
  BY DEF Numbers, Defaults
<1> HIDE DEF Numbers
<1>4. /\ t.top_k \in Int /\ t.overfetch_factor \in Int
      /\ t.recency_window_years \in Int
      /\ t.max_context_tokens \in Int /\ t.response_token_buffer \in Int
      /\ t.rate_limit_per_minute \in Int /\ t.rate_limit_per_hour \in Int
      /\ t.conversation_ttl_seconds \in Int /\ t.max_conversations \in Int
  BY <1>2, <1>3
<1>5. /\ t.top_k > 0 /\ t.max_context_tokens > 0 /\ t.response_token_buffer > 0
      /\ t.rate_limit_per_minute > 0 /\ t.conversation_ttl_seconds > 0
      /\ t.max_conversations > 0
      /\ t.response_token_buffer < t.max_context_tokens
  BY <1>1 DEF Below
<1>6. /\ t.overfetch_factor > 0 /\ t.recency_window_years > 0
      /\ t.filter_weight \in 0 .. 100 /\ t.recency_weight \in 0 .. 100
  BY <1>1 DEF RankingAccepted
<1> QED BY <1>1, <1>4, <1>5, <1>6 DEF Sufficient
----------------------------------------------------------------------------
(****************************************************************************)
(* The steps.  TypeOK and KnowledgeSound name the versions that exist, so   *)
(* ingestion, which adds one, has lemmas of its own.                        *)
(****************************************************************************)

\* A publication keeps what was published before.
LEMMA PublishKeeps ==
  ASSUME TypeOK, NEW m \in Models, NEW id \in 1 .. Latest + 1, Publish(m, id)
  PROVE  /\ published' \in Seq(Publication(1 .. Latest + 1))
         /\ Len(published') = Latest + 1
         /\ \A v \in 1 .. Latest : published'[v] = published[v]
         /\ collection' \in [version : 1 .. Latest + 1, filled : BOOLEAN]
         /\ collection'.version = Latest + 1
<1>1. Latest \in Nat
  BY DEF TypeOK, Latest
<1>2. PICK fields \in BOOLEAN :
        published' = Append(published, [id |-> id, model |-> m, fields |-> fields])
  BY DEF Publish
<1>3. published \in Seq(Publication(1 .. Latest + 1))
  <2>1. Publication(1 .. Latest) \subseteq Publication(1 .. Latest + 1)
    BY <1>1 DEF Publication
  <2>2. published \in Seq(Publication(1 .. Latest))
    BY DEF TypeOK, Publication, Versions
  <2> QED BY <2>1, <2>2, SeqMonotonic
<1>4. [id |-> id, model |-> m, fields |-> fields] \in Publication(1 .. Latest + 1)
  BY DEF Publication
<1> QED BY <1>1, <1>2, <1>3, <1>4 DEF Publish, Latest

\* What every step of ingestion leaves: the versions so far, and a collection
\* that is gone or of the last version.
LEMMA IngestKeeps ==
  ASSUME IInv, Ingest
  PROVE  /\ Latest \in Nat /\ Latest' \in Nat /\ Latest <= Latest'
         /\ published' \in Seq(Publication(1 .. Latest'))
         /\ \A v \in 1 .. Latest : published'[v] = published[v]
         /\ collection' # NoCollection =>
              /\ collection' \in [version : 1 .. Latest', filled : BOOLEAN]
              /\ collection'.version = Latest'
<1>1. Latest \in Nat /\ published \in Seq(Publication(1 .. Latest))
  BY DEF IInv, TypeOK, Latest, Publication, Versions
<1>2. ASSUME NEW m \in Models, NEW id \in 1 .. Latest + 1, Publish(m, id)
      PROVE  /\ Latest' = Latest + 1
             /\ published' \in Seq(Publication(1 .. Latest + 1))
             /\ \A v \in 1 .. Latest : published'[v] = published[v]
             /\ collection' \in [version : 1 .. Latest + 1, filled : BOOLEAN]
             /\ collection'.version = Latest + 1
  <2>1. TypeOK
    BY DEF IInv
  <2> QED BY <2>1, <1>2, PublishKeeps DEF Latest
<1>3. CASE Create
  <2>1. PICK m \in Models : Publish(m, Latest + 1)
    BY <1>3 DEF Create
  <2>2. Latest + 1 \in 1 .. Latest + 1
    BY <1>1
  <2> QED BY <1>1, <1>2, <2>1, <2>2
<1>4. CASE Clear
  <2>1. PICK m \in Models : Publish(m, CollectionOf(collection.version))
    BY <1>4 DEF Clear
  <2>2. CollectionOf(collection.version) \in 1 .. Latest + 1
    <3>1. collection.version \in 1 .. Latest
      BY <1>4 DEF Clear, IInv, KnowledgeSound, Versions
    <3>2. published[collection.version] \in Publication(1 .. Latest)
      BY <1>1, <3>1 DEF Latest
    <3> QED BY <1>1, <3>2 DEF CollectionOf, Publication
  <2> QED BY <1>1, <1>2, <2>1, <2>2
<1>5. CASE Fill
  <2>1. /\ collection \in [version : 1 .. Latest, filled : BOOLEAN]
        /\ collection.version = Latest
    BY <1>5 DEF Fill, IInv, KnowledgeSound, Versions
  <2>2. published' = published /\ collection' = [collection EXCEPT !.filled = TRUE]
    BY <1>5 DEF Fill
  <2>3. /\ collection' \in [version : 1 .. Latest, filled : BOOLEAN]
        /\ collection'.version = Latest
    BY <2>1, <2>2
  <2>4. Latest' = Latest
    BY <2>2 DEF Latest
  <2> QED BY <1>1, <2>2, <2>3, <2>4
<1>6. CASE Delete
  BY <1>1, <1>6 DEF Delete, Latest
<1> QED BY <1>3, <1>4, <1>5, <1>6 DEF Ingest

\* Ingestion at any moment, between two reads of a constructor as well.
LEMMA IndexingPreserves ==
  ASSUME IInv, Indexing
  PROVE  IInv'
<1>1. Ingest /\ UNCHANGED <<engineVars, callVars, processVars, searched, pc, status>>
  BY DEF Indexing, Ingest
<1>2. /\ Latest \in Nat /\ Latest' \in Nat /\ Latest <= Latest'
      /\ published' \in Seq(Publication(1 .. Latest'))
      /\ \A v \in 1 .. Latest : published'[v] = published[v]
      /\ collection' # NoCollection =>
           /\ collection' \in [version : 1 .. Latest', filled : BOOLEAN]
           /\ collection'.version = Latest'
  BY <1>1, IngestKeeps
<1>3. 1 .. Latest \subseteq 1 .. Latest' /\ 0 .. Latest \subseteq 0 .. Latest'
  BY <1>2
<1>4. Kept(1 .. Latest) \subseteq Kept(1 .. Latest')
  BY <1>3 DEF Kept
<1>5. TypeOK'
  <2>1. /\ published' \in Seq([id : 1 .. Latest', model : Models, fields : BOOLEAN])
        /\ collection' \in [version : 1 .. Latest', filled : BOOLEAN] \cup {NoCollection}
    BY <1>2 DEF Publication
  <2>2. read' \in [model : 0 .. Latest', schema : 0 .. Latest']
    <3>1. read \in [model : 0 .. Latest, schema : 0 .. Latest] /\ read' = read
      BY <1>1 DEF IInv, TypeOK, engineVars
    <3> QED BY <1>3, <3>1
  <2>3. engine' \in Kept(1 .. Latest') \cup {NoEngine}
    BY <1>1, <1>4 DEF IInv, TypeOK, Kept, Versions, engineVars
  <2>4. searched' \in 0 .. Latest'
    BY <1>1, <1>3 DEF IInv, TypeOK
  <2>5. /\ client' \in Clients /\ outcome' \in Outcomes \cup {"none", "pending"}
        /\ attempts' \in 0 .. MaxAttempts[client'] + 1
        /\ mode' \in {"serve", "once"} /\ pc' \in Steps /\ status' \in Responses
        /\ settings' # NoSettings => Sufficient(settings')
    BY <1>1 DEF IInv, TypeOK, callVars, processVars
  <2> QED BY <2>1, <2>2, <2>3, <2>4, <2>5 DEF TypeOK, Versions, Kept
<1>6. KnowledgeSound'
  <2>1. InTurn' \/ searched' # 0 => engine' \in Kept(1 .. Latest')
    <3>1. InTurn \/ searched # 0 => engine \in Kept(1 .. Latest)
      BY DEF IInv, KnowledgeSound, Versions
    <3>2. (InTurn' <=> InTurn) /\ searched' = searched /\ engine' = engine
      BY <1>1 DEF InTurn, Building, engineVars
    <3> QED BY <1>4, <3>1, <3>2
  <2>2. /\ Building' => engine' = NoEngine
        /\ pc' = "start" \/ Building' => searched' = 0
        /\ pc' \in {"read schema", "open"} => read'.model # 0
        /\ pc' = "open" => read'.schema # 0
    BY <1>1 DEF IInv, KnowledgeSound, Building, engineVars
  <2> QED BY <1>2, <2>1, <2>2 DEF KnowledgeSound, Exists, Versions
<1>7. ControlSound' /\ ResponseNamesFailure'
  BY <1>1 DEF IInv, ControlSound, ResponseNamesFailure, Building, engineVars, callVars
<1> QED BY <1>5, <1>6, <1>7 DEF IInv

\* Whatever the process does on its own, ingestion's variables stay, so types
\* and versions are those of before.
LEMMA ProcessKeeps ==
  ASSUME IInv, UNCHANGED ingestVars
  PROVE  /\ Latest \in Nat /\ Latest' = Latest /\ Versions' = Versions
         /\ published' = published /\ collection' = collection
         /\ published' \in Seq([id : Versions, model : Models, fields : BOOLEAN])'
         /\ collection' \in ([version : Versions, filled : BOOLEAN] \cup {NoCollection})'
         /\ Exists' => /\ collection' \in [version : Versions, filled : BOOLEAN]'
                       /\ collection'.version = Latest'
<1>1. published' = published /\ collection' = collection
  BY DEF ingestVars
<1>2. Latest' = Latest /\ Versions' = Versions
  BY <1>1 DEF Latest, Versions
<1>3. Latest \in Nat
  BY DEF IInv, TypeOK, Latest
<1>4. /\ published \in Seq([id : Versions, model : Models, fields : BOOLEAN])
      /\ collection \in [version : Versions, filled : BOOLEAN] \cup {NoCollection}
      /\ Exists => /\ collection \in [version : Versions, filled : BOOLEAN]
                   /\ collection.version = Latest
  BY DEF IInv, TypeOK, KnowledgeSound
<1> QED BY <1>1, <1>2, <1>3, <1>4 DEF Exists

\* A step of the process that leaves what was searched, or forgets it.
LEMMA SearchedStays ==
  ASSUME IInv, UNCHANGED ingestVars,
         UNCHANGED searched \/ searched' = 0
  PROVE  searched' \in (0 .. Latest)'
<1>1. 0 \in 0 .. Latest
  BY ProcessKeeps
<1> QED BY <1>1, ProcessKeeps DEF IInv, TypeOK

\* Every client may send one request at least.
LEMMA OneAttempt ==
  \A c \in Clients : {0, 1} \subseteq 0 .. MaxAttempts[c] + 1
<1> SUFFICES ASSUME NEW c \in Clients
             PROVE  {0, 1} \subseteq 0 .. MaxAttempts[c] + 1
  OBVIOUS
<1>1. MaxAttempts[c] \in Nat
  BY CallsAssumption
<1> QED BY <1>1

\* main and create_app.
LEMMA StartPreserves ==
  ASSUME IInv, Start
  PROVE  IInv'
<1>1. /\ pc = "start" /\ UNCHANGED <<ingestVars, engineVars, callVars, searched, mode>>
      /\ \/ pc' = "idle" /\ UNCHANGED status
         \/ pc' = "exited" /\ status' = "failed"
  BY Zenon DEF Start, knowledgeVars
<1>2. settings' # NoSettings => Sufficient(settings')
  <2>1. PICK env \in Environments, arguments \in Arguments :
          LET s == FromEnv(env)
              t == WithOverrides(s, arguments)
          IN  IF Accepted(s) /\ Accepted(t)
                THEN pc' = "idle" /\ settings' = t /\ UNCHANGED status
                ELSE pc' = "exited" /\ status' = "failed" /\ UNCHANGED settings
    BY Zenon DEF Start
  <2> DEFINE t == WithOverrides(FromEnv(env), arguments)
  <2>2. Accepted(t) => Sufficient(t)
    BY NumbersAreNumbers, AcceptedSuffices
  <2>3. settings' = settings \/ (Accepted(t) /\ settings' = t)
    BY <2>1
  <2>4. settings # NoSettings => Sufficient(settings)
    BY DEF IInv, TypeOK
  <2> HIDE DEF t
  <2> QED BY <2>2, <2>3, <2>4
<1>3. TypeOK'
  BY <1>1, <1>2, ProcessKeeps, SearchedStays
  DEF IInv, TypeOK, engineVars, callVars, Steps, Responses
<1>4. KnowledgeSound'
  BY <1>1, ProcessKeeps DEF IInv, KnowledgeSound, InTurn, Building, engineVars
<1>5. ControlSound' /\ ResponseNamesFailure'
  BY <1>1 DEF IInv, ControlSound, ResponseNamesFailure, Building, callVars, engineVars
<1> QED BY <1>1, <1>3, <1>4, <1>5 DEF IInv, engineVars

\* A question.
LEMMA AskPreserves ==
  ASSUME IInv, Ask
  PROVE  IInv'
<1>1. /\ pc = "idle" /\ pc' = IF engine = NoEngine THEN "read model" ELSE "condense"
      /\ searched' = 0 /\ status' = "none"
      /\ client' = "condense" /\ attempts' = 0 /\ outcome' = "none"
      /\ UNCHANGED <<ingestVars, engineVars, mode, settings>>
  BY DEF Ask, Goto, ForgetCalls, knowledgeVars, processVars
<1>2. attempts' \in 0 .. MaxAttempts[client'] + 1 /\ client' \in Clients
  <2>1. "condense" \in Clients
    BY DEF Clients
  <2> QED BY <1>1, <2>1, OneAttempt
<1>3. TypeOK'
  BY <1>1, <1>2, ProcessKeeps, SearchedStays
  DEF IInv, TypeOK, engineVars, Steps, Responses
<1>4. KnowledgeSound'
  <2>1. engine # NoEngine => engine \in Kept(Versions)
    BY DEF IInv, TypeOK, Kept
  <2> QED BY <1>1, <2>1, ProcessKeeps DEF KnowledgeSound, InTurn, Building, engineVars, Kept
<1>5. ControlSound' /\ ResponseNamesFailure'
  BY <1>1 DEF ControlSound, ResponseNamesFailure, Building
<1> QED BY <1>1, <1>3, <1>4, <1>5 DEF IInv, engineVars

\* The constructor of the engine, call by call.
LEMMA BuildStepPreserves ==
  ASSUME IInv, BuildStep
  PROVE  IInv'
<1>1. /\ Building /\ engine = NoEngine /\ searched = 0 /\ searched' = 0
      /\ client = "condense" /\ outcome = "none" /\ status = "none"
      /\ UNCHANGED <<ingestVars, callVars, mode, settings, status>>
  BY DEF IInv, KnowledgeSound, ControlSound, BuildStep, Building, Goto, ReadModel,
         ReadSchema, OpenCollection, processVars
<1>2. /\ Latest \in Nat /\ Latest' = Latest /\ Versions' = Versions
      /\ read \in [model : 0 .. Latest, schema : 0 .. Latest]
      /\ Exists => collection.version \in Versions /\ collection.version = Latest
  <2>1. Exists => /\ collection \in [version : Versions, filled : BOOLEAN]
                  /\ collection.version = Latest
    BY DEF IInv, KnowledgeSound
  <2>2. read \in [model : 0 .. Latest, schema : 0 .. Latest]
    BY DEF IInv, TypeOK
  <2> QED BY <1>1, <2>1, <2>2, ProcessKeeps
<1>3. /\ read' \in [model : 0 .. Latest, schema : 0 .. Latest]
      /\ pc' \in {"read schema", "open"} => read'.model # 0
      /\ pc' = "open" => read'.schema # 0
  <2>1. Exists => collection.version \in 1 .. Latest
    BY <1>2 DEF Versions
  <2>2. CASE Goto("read model", "read schema") /\ ReadModel
    <3>1. read' = [model |-> collection.version, schema |-> 0] /\ pc' = "read schema"
      BY <2>2 DEF Goto, ReadModel, NothingRead
    <3>2. collection.version \in 1 .. Latest
      BY <2>1, <2>2 DEF ReadModel
    <3>3. collection.version \in 0 .. Latest /\ 0 \in 0 .. Latest
      BY <1>2, <3>2
    <3>4. read' \in [model : 0 .. Latest, schema : 0 .. Latest]
      BY <3>1, <3>3
    <3>5. read'.model # 0
      <4>1. collection.version # 0
        BY <1>2, <3>2
      <4>2. read'.model = collection.version
        BY <3>1
      <4> QED BY <4>1, <4>2
    <3> QED BY <3>1, <3>4, <3>5
  <2>3. CASE Goto("read schema", "open") /\ ReadSchema
    <3>1. read.model # 0
      BY <2>3 DEF IInv, KnowledgeSound, Goto
    <3>2. collection.version \in 1 .. Latest
      BY <2>1, <2>3 DEF ReadSchema
    <3>3. read' = [model |-> read.model, schema |-> collection.version] /\ pc' = "open"
      BY <1>2, <2>3 DEF Goto, ReadSchema
    <3> QED BY <1>2, <3>1, <3>2, <3>3
  <2>4. CASE Goto("open", "condense") /\ OpenCollection
    BY <1>2, <2>4 DEF Goto, OpenCollection, NothingRead
  <2> QED BY <2>2, <2>3, <2>4 DEF BuildStep
<1>4. \/ pc' \in {"read schema", "open"} /\ engine' = NoEngine
      \/ pc' = "condense" /\ engine' \in Kept(Versions)
  <2>1. CASE Goto("open", "condense") /\ OpenCollection
    <3>1. read.model \in Versions /\ read.schema \in Versions
      <4>1. read.model # 0 /\ read.schema # 0
        BY <2>1 DEF IInv, KnowledgeSound, Goto
      <4> QED BY <1>2, <4>1 DEF Versions
    <3>2. CollectionOf(collection.version) \in Versions
      <4>1. published \in Seq([id : Versions, model : Models, fields : BOOLEAN])
        BY DEF IInv, TypeOK
      <4>2. collection.version \in 1 .. Len(published)
        BY <1>2, <2>1 DEF OpenCollection, Versions, Latest
      <4>3. published[collection.version] \in [id : Versions, model : Models, fields : BOOLEAN]
        BY <4>1, <4>2, ElementOfSeq
      <4> QED BY <4>3 DEF CollectionOf
    <3>3. engine' = [model |-> read.model, schema |-> read.schema,
                     opened |-> CollectionOf(collection.version)]
      BY <2>1 DEF OpenCollection
    <3>4. engine' \in Kept(Versions)
      BY <3>1, <3>2, <3>3 DEF Kept
    <3> QED BY <2>1, <3>4 DEF Goto
  <2>2. CASE Goto("read model", "read schema") /\ ReadModel
    BY <1>1, <2>2 DEF Goto, ReadModel
  <2>3. CASE Goto("read schema", "open") /\ ReadSchema
    BY <1>1, <2>3 DEF Goto, ReadSchema
  <2> QED BY <2>1, <2>2, <2>3 DEF BuildStep
<1>5. TypeOK'
  <2>1. engine' \in [model : Versions, schema : Versions, opened : Versions] \cup {NoEngine}
    BY <1>4 DEF Kept
  <2> QED BY <1>1, <1>2, <1>3, <1>4, <2>1, ProcessKeeps
          DEF IInv, TypeOK, callVars, Steps
<1>6. KnowledgeSound'
  BY <1>1, <1>2, <1>3, <1>4, ProcessKeeps
  DEF IInv, KnowledgeSound, InTurn, Building, Kept
<1>7. ControlSound' /\ ResponseNamesFailure'
  BY <1>1, <1>4
  DEF IInv, ControlSound, ResponseNamesFailure, Building, callVars
<1> QED BY <1>5, <1>6, <1>7 DEF IInv

\* A response is given, whatever part of the turn it comes from.
LEMMA EndOfTurn ==
  ASSUME IInv, NEW response \in Responses, EndTurn(response),
         UNCHANGED <<ingestVars, read, engine, processVars, searched>>,
         attempts' = attempts, client' = client, outcome' \in Outcomes \cup {"none"},
         response # "failed",
         /\ response = "timeout" <=> client # "condense" /\ outcome' = "timeout"
         /\ response = "no answer service" <=>
              client # "condense" /\ outcome' \in BotoErrors \ {"timeout"}
         /\ response = "answered" <=> client = "answer" /\ outcome' = "usable"
         /\ response = "no knowledge base" => engine = NoEngine \/ client = "embed"
  PROVE  IInv'
<1>1. /\ pc' \in {"idle", "exited"} /\ status' \in {"failed", response}
      /\ mode' = mode /\ settings' = settings
  BY DEF EndTurn, processVars
<1>2. TypeOK'
  BY <1>1, ProcessKeeps, SearchedStays DEF IInv, TypeOK, Steps, Responses
<1>3. KnowledgeSound'
  BY <1>1, ProcessKeeps DEF IInv, KnowledgeSound, InTurn, Building
<1>4. ControlSound' /\ ResponseNamesFailure'
  BY <1>1 DEF ControlSound, ResponseNamesFailure, Building
<1> QED BY <1>2, <1>3, <1>4 DEF IInv


\* A construction that raises.
LEMMA BuildFailsPreserves ==
  ASSUME IInv, BuildFails
  PROVE  IInv'
<1>1. /\ Building /\ EndTurn("no knowledge base") /\ read' = NothingRead
      /\ UNCHANGED <<ingestVars, engine, callVars, processVars, searched>>
  BY DEF BuildFails, ForgetRead
<1>2. client = "condense" /\ outcome = "none" /\ engine = NoEngine
  BY <1>1 DEF IInv, KnowledgeSound, ControlSound
<1>3. /\ pc' \in {"idle", "exited"} /\ status' \in {"failed", "no knowledge base"}
      /\ mode' = mode /\ settings' = settings
  BY <1>1 DEF EndTurn, processVars
<1>4. read' \in [model : 0 .. Latest, schema : 0 .. Latest]
  <2>1. Latest \in Nat
    BY DEF IInv, TypeOK, Latest
  <2>2. 0 \in 0 .. Latest
    BY <2>1
  <2>3. read' = [model |-> 0, schema |-> 0]
    BY <1>1 DEF NothingRead
  <2> QED BY <2>2, <2>3
<1>5. TypeOK'
  BY <1>1, <1>3, <1>4, ProcessKeeps, SearchedStays
  DEF IInv, TypeOK, Steps, Responses, callVars
<1>6. KnowledgeSound'
  BY <1>1, <1>3, ProcessKeeps DEF IInv, KnowledgeSound, InTurn, Building
<1>7. ControlSound' /\ ResponseNamesFailure'
  BY <1>1, <1>2, <1>3
  DEF ControlSound, ResponseNamesFailure, Building, callVars, BotoErrors, Transient
<1> QED BY <1>1, <1>5, <1>6, <1>7 DEF IInv

\* The steps inside a turn leave the engine and the settings; that a turn stays
\* sound is then a matter of its position and its calls.
LEMMA InsideTurn ==
  ASSUME IInv, UNCHANGED <<ingestVars, engineVars, processVars, searched, status>>,
         client' \in Clients, outcome' \in Outcomes \cup {"none", "pending"},
         attempts' \in 0 .. MaxAttempts[client'] + 1,
         InTurn, InTurn', pc' \in Steps, ControlSound'
  PROVE  IInv'
<1>1. read' = read /\ engine' = engine /\ mode' = mode /\ settings' = settings
  BY DEF engineVars, processVars
<1>2. status' = "none"
  BY DEF IInv, ControlSound, InTurn
<1>3. TypeOK'
  BY <1>1, ProcessKeeps, SearchedStays DEF IInv, TypeOK
<1>4. KnowledgeSound'
  <2>1. engine' \in Kept(Versions)'
    BY <1>1, ProcessKeeps DEF IInv, KnowledgeSound, Kept
  <2>2. ~ Building' /\ pc' # "start" /\ pc' \notin {"read schema", "open"}
    BY DEF InTurn, Building
  <2> QED BY <2>1, <2>2, ProcessKeeps DEF KnowledgeSound
<1>5. ResponseNamesFailure'
  BY <1>2 DEF ResponseNamesFailure
<1> QED BY <1>1, <1>3, <1>4, <1>5 DEF IInv

\* A turn without condensation, and the building of the context.
LEMMA QuietPreserves ==
  ASSUME IInv, SkipCondensation \/ Context
  PROVE  IInv'
<1>1. /\ UNCHANGED <<ingestVars, engineVars, processVars, searched, status>>
      /\ client' = client /\ attempts' = attempts /\ outcome' = outcome
      /\ \/ pc = "condense" /\ pc' = "embed"
         \/ pc = "context" /\ pc' = "generate"
  BY DEF SkipCondensation, Context, Goto, knowledgeVars, callVars
<1>2. ControlSound' /\ InTurn /\ InTurn' /\ pc' \in Steps
  BY <1>1 DEF IInv, ControlSound, InTurn, Building, Steps
<1>3. /\ client' \in Clients /\ outcome' \in Outcomes \cup {"none", "pending"}
      /\ attempts' \in 0 .. MaxAttempts[client'] + 1
  BY <1>1 DEF IInv, TypeOK
<1> QED BY <1>1, <1>2, <1>3, InsideTurn

\* A client sends its request.
LEMMA CallPreserves ==
  ASSUME IInv, Call
  PROVE  IInv'
<1>1. /\ UNCHANGED <<ingestVars, engineVars, processVars, searched, status>>
      /\ attempts' = 1 /\ outcome' = "pending"
      /\ \/ pc = "condense" /\ pc' = "condensing" /\ client' = "condense"
         \/ pc = "embed" /\ pc' = "embedding" /\ client' = "embed"
         \/ pc = "generate" /\ pc' = "generating" /\ client' = "answer"
  BY DEF Call, Goto, BeginCall, knowledgeVars
<1>2. ControlSound' /\ InTurn /\ InTurn' /\ pc' \in Steps
  BY <1>1 DEF IInv, ControlSound, InTurn, Building, Steps
<1>3. client' \in Clients
  BY <1>1 DEF Clients
<1>4. attempts' \in 0 .. MaxAttempts[client'] + 1
  BY <1>1, <1>3, OneAttempt
<1> QED BY <1>1, <1>2, <1>3, <1>4, InsideTurn

\* botocore tries again.
LEMMA CallAgainPreserves ==
  ASSUME IInv, CallAgain
  PROVE  IInv'
<1>1. /\ UNCHANGED <<ingestVars, engineVars, processVars, searched, pc, status>>
      /\ client' = client /\ outcome' = outcome
      /\ attempts < MaxAttempts[client] + 1 /\ attempts' = attempts + 1
  BY DEF CallAgain, Retry, TotalAttempts, knowledgeVars
<1>2. attempts' \in 0 .. MaxAttempts[client'] + 1
  <2>1. client \in Clients /\ attempts \in 0 .. MaxAttempts[client] + 1
    BY DEF IInv, TypeOK
  <2>2. MaxAttempts[client] \in Nat
    BY <2>1, CallsAssumption
  <2>3. attempts + 1 \in 0 .. MaxAttempts[client] + 1
    BY <1>1, <2>1, <2>2
  <2> QED BY <1>1, <2>3
<1>3. read' = read /\ engine' = engine /\ mode' = mode /\ settings' = settings
  BY <1>1 DEF engineVars, processVars
<1>4. TypeOK'
  BY <1>1, <1>2, <1>3, ProcessKeeps, SearchedStays DEF IInv, TypeOK
<1>5. KnowledgeSound'
  BY <1>1, <1>3, ProcessKeeps DEF IInv, KnowledgeSound, InTurn, Building
<1>6. ControlSound' /\ ResponseNamesFailure'
  BY <1>1, <1>3 DEF IInv, ControlSound, ResponseNamesFailure, Building
<1> QED BY <1>1, <1>3, <1>4, <1>5, <1>6 DEF IInv

\* The condensation ends, however it does.
LEMMA CondensedPreserves ==
  ASSUME IInv, Condensed
  PROVE  IInv'
<1>1. /\ UNCHANGED <<ingestVars, engineVars, processVars, searched, status>>
      /\ client' = client /\ attempts' = attempts /\ outcome' \in Outcomes
      /\ pc = "condensing" /\ pc' = "embed"
  BY DEF Condensed, EndCall, Goto, knowledgeVars
<1>2. ControlSound' /\ InTurn /\ InTurn' /\ pc' \in Steps
  BY <1>1 DEF IInv, ControlSound, InTurn, Building, Steps
<1>3. client' \in Clients /\ attempts' \in 0 .. MaxAttempts[client'] + 1
  BY <1>1 DEF IInv, TypeOK
<1> QED BY <1>1, <1>2, <1>3, InsideTurn

\* The embedding of the query ends.
LEMMA EmbeddedPreserves ==
  ASSUME IInv, Embedded
  PROVE  IInv'
<1>1. PICK result \in Outcomes \ {"blank"} :
        /\ outcome' = result /\ client' = client /\ attempts' = attempts
        /\ IF result = "usable" THEN pc' = "search" /\ UNCHANGED status
                                ELSE EndTurn(ResponseTo(result))
  BY DEF Embedded, EndCall, Raise
<1>2. /\ UNCHANGED <<ingestVars, engineVars, processVars, searched>>
      /\ pc = "embedding" /\ client = "embed"
  BY DEF Embedded, IInv, ControlSound, knowledgeVars
<1>3. CASE result = "usable"
  <2>1. ControlSound' /\ InTurn /\ InTurn' /\ pc' \in Steps
    BY <1>1, <1>2, <1>3 DEF IInv, ControlSound, InTurn, Building, Steps
  <2>2. client' \in Clients /\ attempts' \in 0 .. MaxAttempts[client'] + 1
    BY <1>1 DEF IInv, TypeOK
  <2> QED BY <1>1, <1>2, <1>3, <2>1, <2>2, InsideTurn
<1>4. CASE result # "usable"
  <2>1. result \in {"rejected", "timeout", "server"}
    BY <1>4 DEF Outcomes, Transient
  <2>2. ResponseTo(result) = IF result = "timeout" THEN "timeout"
                                                   ELSE "no answer service"
    BY <2>1 DEF ResponseTo, BotoErrors, Transient
  <2> DEFINE response == ResponseTo(result)
  <2>3. response \in Responses /\ response # "failed"
    BY <2>2 DEF Responses
  <2>4. /\ response = "timeout" <=> client # "condense" /\ outcome' = "timeout"
        /\ response = "no answer service" <=>
             client # "condense" /\ outcome' \in BotoErrors \ {"timeout"}
        /\ response = "answered" <=> client = "answer" /\ outcome' = "usable"
        /\ response = "no knowledge base" => engine = NoEngine \/ client = "embed"
    BY <1>1, <1>2, <2>1, <2>2 DEF BotoErrors, Transient
  <2> HIDE DEF response
  <2>5. EndTurn(response)
    BY <1>1, <1>4 DEF response
  <2> QED BY <1>1, <1>2, <2>3, <2>4, <2>5, EndOfTurn DEF engineVars
<1> QED BY <1>3, <1>4

\* The search.  What it finds was published after the model that the engine
\* read, or with it, and has vectors of the same length.
LEMMA SearchPreserves ==
  ASSUME IInv, Search
  PROVE  IInv'
<1>1. /\ UNCHANGED <<ingestVars, engineVars, callVars, processVars, status>>
      /\ pc = "search" /\ pc' = "context" /\ Found
      /\ searched' = IF collection.filled THEN collection.version ELSE 0
  BY DEF Search, Goto, knowledgeVars
<1>2. /\ read' = read /\ engine' = engine /\ mode' = mode /\ settings' = settings
      /\ client' = client /\ attempts' = attempts /\ outcome' = outcome
      /\ status' = status /\ status = "none"
  BY <1>1 DEF engineVars, processVars, callVars, IInv, ControlSound
<1>3. /\ Latest \in Nat /\ Latest' = Latest /\ Versions' = Versions
      /\ published' = published
  BY <1>1, ProcessKeeps
<1>4. engine \in Kept(Versions)
  BY <1>1 DEF IInv, KnowledgeSound, InTurn, Building
<1>5. collection.version = Latest /\ Latest \in Versions
  <2>1. /\ collection \in [version : Versions, filled : BOOLEAN]
        /\ collection.version = Latest
    BY <1>1 DEF IInv, KnowledgeSound, Found
  <2> QED BY <2>1
<1>6. searched' \in 0 .. Latest
  BY <1>1, <1>3, <1>5
<1>7. TypeOK'
  BY <1>1, <1>2, <1>3, <1>6, ProcessKeeps DEF IInv, TypeOK, Steps
<1>8. KnowledgeSound'
  <2>1. engine' \in Kept(Versions)'
    BY <1>2, <1>3, <1>4 DEF Kept
  <2>2. ~ Building'
    BY <1>1 DEF Building
  <2> QED BY <1>1, <2>1, <2>2, ProcessKeeps DEF KnowledgeSound
<1>9. ControlSound' /\ ResponseNamesFailure'
  BY <1>1, <1>2 DEF IInv, ControlSound, ResponseNamesFailure, Building
<1> QED BY <1>7, <1>8, <1>9 DEF IInv

\* The search or the budget of the context fails.
LEMMA RaisesPreserves ==
  ASSUME IInv, SearchFails \/ ContextFails
  PROVE  IInv'
<1>1. /\ UNCHANGED <<ingestVars, engineVars, callVars, processVars, searched>>
      /\ pc \in {"search", "context"}
      /\ Raise("chroma") \/ Raise("ValueError")
  BY DEF SearchFails, ContextFails, knowledgeVars
<1>2. client = "embed" /\ outcome = "usable"
  BY <1>1 DEF IInv, ControlSound
<1>3. /\ ResponseTo("chroma") = "no knowledge base"
      /\ ResponseTo("ValueError") = "unexpected"
  BY DEF ResponseTo, BotoErrors, Transient
<1>4. PICK response \in {"no knowledge base", "unexpected"} : EndTurn(response)
  BY <1>1, <1>3 DEF Raise
<1>5. read' = read /\ engine' = engine /\ client' = client /\ attempts' = attempts
        /\ outcome' = outcome
  BY <1>1 DEF engineVars, callVars
<1>6. outcome' \in Outcomes \cup {"none"} /\ response \in Responses
  BY <1>2, <1>5 DEF Outcomes, Responses
<1> QED BY <1>1, <1>2, <1>4, <1>5, <1>6, EndOfTurn DEF BotoErrors, Transient

\* The answer comes, or an error instead.
LEMMA AnsweredPreserves ==
  ASSUME IInv, Answered
  PROVE  IInv'
<1>1. PICK result \in Outcomes :
        /\ outcome' = result /\ client' = client /\ attempts' = attempts
        /\ IF result = "usable" THEN EndTurn("answered")
                                ELSE EndTurn(ResponseTo(result))
  BY DEF Answered, EndCall, Raise
<1>2. /\ UNCHANGED <<ingestVars, engineVars, processVars, searched>>
      /\ pc = "generating" /\ client = "answer"
  BY DEF Answered, IInv, ControlSound, knowledgeVars
<1>3. result \in {"usable", "blank", "rejected", "timeout", "server"}
  BY DEF Outcomes, Transient
<1>4. /\ ResponseTo("blank") = "unexpected" /\ ResponseTo("timeout") = "timeout"
      /\ ResponseTo("rejected") = "no answer service"
      /\ ResponseTo("server") = "no answer service"
  BY DEF ResponseTo, BotoErrors, Transient
<1> DEFINE response == IF result = "usable" THEN "answered" ELSE ResponseTo(result)
<1>5. response \in Responses /\ response # "failed"
  BY <1>3, <1>4 DEF Responses
<1>6. /\ response = "timeout" <=> client # "condense" /\ outcome' = "timeout"
      /\ response = "no answer service" <=>
           client # "condense" /\ outcome' \in BotoErrors \ {"timeout"}
      /\ response = "answered" <=> client = "answer" /\ outcome' = "usable"
      /\ response = "no knowledge base" => engine = NoEngine \/ client = "embed"
  BY <1>1, <1>2, <1>3, <1>4 DEF BotoErrors, Transient
<1>7. EndTurn(response)
  BY <1>1
<1> HIDE DEF response
<1> QED BY <1>1, <1>2, <1>5, <1>6, <1>7, EndOfTurn DEF engineVars

\* The process ends, and another one starts.
LEMMA RestartPreserves ==
  ASSUME IInv, Restart
  PROVE  IInv'
<1>1. /\ pc' = "start" /\ mode' \in {"serve", "once"} /\ settings' = NoSettings
      /\ searched' = 0 /\ status' = "none" /\ read' = NothingRead /\ engine' = NoEngine
      /\ client' = "condense" /\ attempts' = 0 /\ outcome' = "none"
      /\ UNCHANGED ingestVars
  BY DEF Restart, ForgetCalls, ForgetEngine
<1>2. /\ read' \in [model : 0 .. Latest, schema : 0 .. Latest]
      /\ searched' \in 0 .. Latest
  <2>1. 0 \in 0 .. Latest
    BY <1>1, ProcessKeeps
  <2> QED BY <1>1, <2>1 DEF NothingRead
<1>3. attempts' \in 0 .. MaxAttempts[client'] + 1 /\ client' \in Clients
  <2>1. "condense" \in Clients
    BY DEF Clients
  <2> QED BY <1>1, <2>1, OneAttempt
<1>4. TypeOK'
  BY <1>1, <1>2, <1>3, ProcessKeeps DEF TypeOK, Steps, Responses
<1>5. KnowledgeSound'
  BY <1>1, ProcessKeeps DEF KnowledgeSound, InTurn, Building
<1>6. ControlSound' /\ ResponseNamesFailure'
  BY <1>1 DEF ControlSound, ResponseNamesFailure, Building
<1> QED BY <1>4, <1>5, <1>6 DEF IInv
----------------------------------------------------------------------------
\* The properties and their strengthening hold from the start.
LEMMA InitImpliesInvariant == Init => IInv
<1> SUFFICES ASSUME Init PROVE IInv
  OBVIOUS
<1>1. /\ published = <<>> /\ collection = NoCollection /\ read = NothingRead
      /\ engine = NoEngine /\ mode \in {"serve", "once"} /\ settings = NoSettings
      /\ client = "condense" /\ attempts = 0 /\ outcome = "none"
      /\ pc = "start" /\ searched = 0 /\ status = "none"
  BY DEF Init, KnowledgeInit, NoCalls
<1>2. Latest = 0
  BY <1>1 DEF Latest
<1>3. published \in Seq([id : Versions, model : Models, fields : BOOLEAN])
  BY <1>1
<1>4. read \in [model : 0 .. Latest, schema : 0 .. Latest] /\ searched \in 0 .. Latest
  BY <1>1, <1>2 DEF NothingRead
<1>5. attempts \in 0 .. MaxAttempts[client] + 1 /\ client \in Clients
  <2>1. "condense" \in Clients
    BY DEF Clients
  <2> QED BY <1>1, <2>1, OneAttempt
<1>6. TypeOK
  BY <1>1, <1>3, <1>4, <1>5 DEF TypeOK, Steps, Responses
<1>7. KnowledgeSound /\ ControlSound
  BY <1>1 DEF KnowledgeSound, ControlSound, InTurn, Building, Exists
<1>8. ResponseNamesFailure
  BY <1>1 DEF ResponseNamesFailure
<1> QED BY <1>6, <1>7, <1>8 DEF IInv

\* A step that changes nothing.
LEMMA StutterPreserves ==
  ASSUME IInv, UNCHANGED vars
  PROVE  IInv'
<1>1. /\ UNCHANGED <<ingestVars, read, engine, client, attempts, outcome, mode, settings>>
      /\ pc' = pc /\ searched' = searched /\ status' = status
  BY DEF vars, knowledgeVars, engineVars, callVars, processVars
<1>2. TypeOK'
  BY <1>1, ProcessKeeps, SearchedStays DEF IInv, TypeOK
<1>3. KnowledgeSound'
  BY <1>1, ProcessKeeps DEF IInv, KnowledgeSound, InTurn, Building
<1>4. ControlSound' /\ ResponseNamesFailure'
  BY <1>1 DEF IInv, ControlSound, ResponseNamesFailure, Building
<1> QED BY <1>1, <1>2, <1>3, <1>4 DEF IInv

LEMMA StepsPreserve == IInv /\ [Next]_vars => IInv'
<1> SUFFICES ASSUME IInv, [Next]_vars PROVE IInv'
  OBVIOUS
<1>1. CASE ProcessStep
  BY <1>1, StartPreserves, BuildStepPreserves, BuildFailsPreserves, QuietPreserves,
     CallPreserves, CallAgainPreserves, CondensedPreserves, EmbeddedPreserves,
     SearchPreserves, RaisesPreserves, AnsweredPreserves DEF ProcessStep
<1>2. CASE Ask \/ Restart \/ Indexing
  BY <1>2, AskPreserves, RestartPreserves, IndexingPreserves
<1>3. CASE UNCHANGED vars
  BY <1>3, StutterPreserves
<1> QED BY <1>1, <1>2, <1>3 DEF Next

\* The invariant holds of every process (pipeline.py, webapp.py).
THEOREM EngineTurnInvariant == Spec => []IInv
<1>1. Init => IInv
  BY InitImpliesInvariant
<1>2. IInv /\ [Next]_vars => IInv'
  BY StepsPreserve
<1> QED BY <1>1, <1>2, PTL DEF Spec

\* Types, the bound of the retries, and settings that suffice: __post_init__
\* lets nothing pass that another part could not work with, whatever the
\* environment and the arguments are.
THEOREM TypeCorrect == Spec => []TypeOK
<1>1. IInv => TypeOK
  BY DEF IInv
<1> QED BY <1>1, EngineTurnInvariant, PTL

\* Every response names the call that failed, for any retries (post_message).
THEOREM ResponsesNameFailures == Spec => []ResponseNamesFailure
<1>1. IInv => ResponseNamesFailure
  BY DEF IInv
<1> QED BY <1>1, EngineTurnInvariant, PTL
====
