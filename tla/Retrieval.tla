---- MODULE Retrieval ----
(****************************************************************************)
(* The search of a turn: the filters that query_condensation.py asks the    *)
(* model for and what it keeps of the answer, the over-fetch of             *)
(* retriever.py and the order that ranking.py brings the candidates into.   *)
(*                                                                          *)
(* The schema is that of the engine and may be older than the collection,   *)
(* so any schema meets any candidates.  Shares of the score are whole       *)
(* numbers of a Unit that makes the divisions of the code exact.            *)
(****************************************************************************)
EXTENDS Integers, SequencesExt

CONSTANTS
  Keys,            \* spellings of field names, numbered in the order of sorted()
  NormalKey(_),    \* normalize_key of cvbot_core
  Excluded,        \* EXCLUDED_FILTER_FIELDS
  Values,          \* spellings of values
  NormalValue(_),  \* normalize_value of cvbot_core
  Schemas,         \* published schemas: key |-> its list of values
  MaxFields, MaxValues,  \* MAX_SCHEMA_FIELDS and MAX_VALUES_PER_FIELD
  MaxEntries,      \* bound of the fields in an answer
  Chunks,          \* kinds of chunks: their metadata and the year their period ended
  NoYear,          \* no usable date
  Distances,       \* distances of a chunk from the query
  Now, Window,     \* the current year and recency_window_years
  Unit, FilterWeight, RecencyWeight,  \* 1, filter_weight and recency_weight
  TopK, Overfetch  \* top_k and overfetch_factor

ASSUME RetrievalAssumption ==
  /\ Keys \subseteq Nat
  /\ Excluded \subseteq Keys /\ \A k \in Excluded : NormalKey(k) = k
  /\ \A k \in Keys : NormalKey(k) \in Keys /\ NormalKey(NormalKey(k)) = NormalKey(k)
  /\ \A v \in Values : NormalValue(v) \in Values
                       /\ NormalValue(NormalValue(v)) = NormalValue(v)
  /\ \A s \in Schemas : DOMAIN s \subseteq Keys /\ \A k \in DOMAIN s : s[k] \in Seq(Values)
  /\ MaxFields \in Nat \ {0} /\ MaxValues \in Nat \ {0} /\ MaxEntries \in Nat
  /\ \A c \in Chunks : DOMAIN c.meta \subseteq Keys /\ c.end \in 0 .. Now \cup {NoYear}
  /\ Distances \subseteq Int
  /\ Now \in Nat /\ Window \in Nat \ {0}
  /\ Unit \in Nat \ {0} /\ FilterWeight \in 0 .. Unit /\ RecencyWeight \in 0 .. Unit
  /\ TopK \in Nat \ {0} /\ Overfetch \in Nat \ {0}

VARIABLES
  stage,    \* where the search is
  schema,   \* the schema the condensation call was made with
  filters,  \* the filters the model answered: a key and values, in their order
  boost,    \* normal key |-> the values that move a chunk up
  pool,     \* the candidates, as the store returned them
  result    \* positions in pool, best first

vars == <<stage, schema, filters, boost, pool, result>>

Nothing == <<>>

Init ==
  /\ stage = "idle"
  /\ schema = Nothing /\ filters = Nothing /\ boost = Nothing
  /\ pool = <<>> /\ result = <<>>
----------------------------------------------------------------------------
\* _build_json_schema: the fields and the values within the caps, and the answers
\* that the enforced grammar lets through.
CappedFields(s) ==
  {k \in DOMAIN s : Cardinality({j \in DOMAIN s : j < k}) < MaxFields}

CappedValues(list) == {NormalValue(list[i]) : i \in DOMAIN list \cap 1 .. MaxValues}

Grammar(s) ==
  [k \in {k \in CappedFields(s) \ Excluded : CappedValues(s[k]) # {}} |-> CappedValues(s[k])]

\* _build_system_prompt: the lines the model reads of the schema, whose fields and
\* values it picks for itself.
Listed(s) == {k \in DOMAIN s : Cardinality({j \in DOMAIN s : j <= k}) <= MaxFields}

Rendered(list) == [i \in 1 .. Min({Len(list), MaxValues}) |-> NormalValue(list[i])]

\* Mutant: fields without values are announced as well.
PromptAll(s) == {[name |-> NormalKey(k), values |-> Rendered(s[k])] : k \in Listed(s)}

Prompt(s) ==
  {[name |-> NormalKey(k), values |-> Rendered(s[k])] :
     k \in {k \in Listed(s) : Rendered(s[k]) # <<>>}}

\* Mutants: published values as they are spelled, and any value of a known field.
KnownSpelled(s, k) == ToSet(s[k])
KnownAny(s, k) == Values

Known(s, k) == {NormalValue(v) : v \in ToSet(s[k])}

Kept(s, entry) ==
  LET k == NormalKey(entry.key)
  IN  IF k \in DOMAIN s THEN {NormalValue(v) : v \in entry.values} \cap Known(s, k) ELSE {}

\* Mutant: a known field stays even if no value of it does.
ValidBoostEmpty(s, answer) ==
  LET For(k) == {i \in DOMAIN answer : NormalKey(answer[i].key) = k /\ k \in DOMAIN s}
  IN  [k \in {k \in Keys : For(k) # {}} |-> Kept(s, answer[Max(For(k))])]

\* _validate_boost: of two entries with the same normal name and values left, the
\* later one stays.
ValidBoost(s, answer) ==
  LET For(k) == {i \in DOMAIN answer : NormalKey(answer[i].key) = k /\ Kept(s, answer[i]) # {}}
  IN  [k \in {k \in Keys : For(k) # {}} |-> Kept(s, answer[Max(For(k))])]

\* The answers of a model: an object, so that no spelling of a key occurs twice.
Answers ==
  {a \in SeqOf([key : Keys, values : SUBSET Values], MaxEntries) :
    \A i, j \in DOMAIN a : i # j => a[i].key # a[j].key}
----------------------------------------------------------------------------
\* A distance may be below 0 by rounding.
Relevance(hit) == Unit \div (1 + Max({hit.distance, 0}))

Matched(hit, b) ==
  {k \in DOMAIN b : k \in DOMAIN hit.chunk.meta /\ hit.chunk.meta[k] \cap b[k] # {}}

\* Mutant: the count of the fields instead of their share.
BoostByCount(hit, b) == FilterWeight * Cardinality(Matched(hit, b))

\* filter_weight times _boost_factor
Boost(hit, b) ==
  IF b = Nothing THEN 0
  ELSE (FilterWeight * Cardinality(Matched(hit, b))) \div Cardinality(DOMAIN b)

\* Mutant: a period before the window counts against a chunk.
RecencyNegative(hit) ==
  IF hit.chunk.end = NoYear THEN 0
  ELSE (RecencyWeight * (hit.chunk.end - (Now - Window))) \div Window

\* recency_weight times _recency_factor
Recency(hit) ==
  IF hit.chunk.end = NoYear THEN 0
  ELSE (RecencyWeight * Max({0, Min({hit.chunk.end - (Now - Window), Window})})) \div Window

Score(hit, b) == Relevance(hit) + Boost(hit, b) + Recency(hit)

\* Mutant: of two equal scores the later comes first.
InsertBefore(order, i, p, b) ==
  LET n == Cardinality({j \in DOMAIN order : Score(p[order[j]], b) > Score(p[i], b)})
  IN  InsertAt(order, n + 1, i)

\* Position i goes behind all that score no less: the sort is stable.
Insert(order, i, p, b) ==
  LET n == Cardinality({j \in DOMAIN order : Score(p[order[j]], b) >= Score(p[i], b)})
  IN  InsertAt(order, n + 1, i)

\* rerank, as positions in the pool p.
Rerank(p, b) ==
  LET ranked[n \in 0 .. Len(p)] ==
        IF n = 0 THEN <<>> ELSE Insert(ranked[n - 1], n, p, b)
  IN  ranked[Len(p)]

Top(p, b) == SubSeq(Rerank(p, b), 1, Min({TopK, Len(p)}))

\* What the store may return for a query: the nearest chunks in order of distance.
Pools ==
  {p \in SeqOf([chunk : Chunks, distance : Distances], TopK * Overfetch) :
    \A i \in 2 .. Len(p) : p[i - 1].distance <= p[i].distance}
----------------------------------------------------------------------------
\* The condensation call returned a JSON object, conforming or not.
Answer ==
  /\ stage = "idle"
  /\ stage' = "answered"
  /\ schema' \in Schemas /\ filters' \in Answers
  /\ UNCHANGED <<boost, pool, result>>

\* It was skipped, it raised, or its filters were not an object.
Fallback ==
  /\ stage = "idle"
  /\ stage' = "condensed"
  /\ boost' = Nothing
  /\ UNCHANGED <<schema, filters, pool, result>>

Validate ==
  /\ stage = "answered"
  /\ stage' = "condensed"
  /\ boost' = ValidBoost(schema, filters)
  /\ schema' = Nothing /\ filters' = Nothing
  /\ UNCHANGED <<pool, result>>

Retrieve ==
  /\ stage = "condensed"
  /\ stage' = "retrieved"
  /\ pool' \in Pools /\ result' = Top(pool', boost)
  /\ UNCHANGED <<schema, filters, boost>>

\* The turn goes on, and another begins.
Finish ==
  /\ stage = "retrieved"
  /\ stage' = "idle"
  /\ boost' = Nothing /\ pool' = <<>> /\ result' = <<>>
  /\ UNCHANGED <<schema, filters>>

Next ==
  \/ Answer \/ Fallback \/ Validate
  \/ Retrieve \/ Finish

Spec == Init /\ [][Next]_vars
----------------------------------------------------------------------------
NormalKeys == {NormalKey(k) : k \in Keys}
NormalValues == {NormalValue(v) : v \in Values}

\* A boost has normal names and values, and no field without a value: the share
\* that _boost_factor divides by counts fields that can match.
TypeOK ==
  /\ stage \in {"idle", "answered", "condensed", "retrieved"}
  /\ schema = Nothing \/ schema \in Schemas
  /\ filters \in Seq([key : Keys, values : SUBSET Values])
  /\ DOMAIN boost \subseteq NormalKeys
  /\ \A k \in DOMAIN boost : boost[k] \in (SUBSET NormalValues) \ {{}}
  /\ pool \in Seq([chunk : Chunks, distance : Distances])
  /\ result \in Seq(DOMAIN pool)

NormalSchema(s) == \A k \in DOMAIN s : NormalKey(k) = k

Conforms(s, answer) ==
  \A i \in DOMAIN answer :
    /\ answer[i].key \in DOMAIN Grammar(s)
    /\ answer[i].values \in (SUBSET Grammar(s)[answer[i].key]) \ {{}}

\* Validation is "the second net rather than the primary guard" (_validate_boost):
\* it takes nothing away from an answer that kept to the enforced grammar, however
\* the published values are spelled.  The names must be normal: the grammar offers
\* a name as it is published, and _validate_boost looks the normal one up.
GrammarSurvives ==
  [][stage = "answered" /\ NormalSchema(schema) /\ Conforms(schema, filters) =>
       /\ DOMAIN boost' = {filters[i].key : i \in DOMAIN filters}
       /\ \A i \in DOMAIN filters : boost'[filters[i].key] = filters[i].values]_vars

\* "Keeps only the fields and values the schema actually knows", whatever a
\* degraded answer holds: each comes from the schema and from the answer.
OnlyKnown ==
  [][stage = "answered" => \A k \in DOMAIN boost' : \A v \in boost'[k] :
       /\ k \in DOMAIN schema /\ \E i \in DOMAIN schema[k] : NormalValue(schema[k][i]) = v
       /\ \E i \in DOMAIN filters : /\ NormalKey(filters[i].key) = k
                                    /\ \E w \in filters[i].values : NormalValue(w) = v]_vars

\* "Otherwise the model is invited to use a field the enforced grammar rejects"
\* (test_query_condensation.py): what the grammar offers is in the prompt, under its
\* normal name and with the same values, and the prompt has no more than that and
\* the excluded fields, although each of the two functions walks through the
\* schema for itself, with caps, spellings and empty lists of its own.
PromptMatchesGrammar ==
  LET lines == {<<line.name, ToSet(line.values)>> : line \in Prompt(schema)}
      offers == {<<NormalKey(k), Grammar(schema)[k]>> : k \in DOMAIN Grammar(schema)}
  IN  offers \subseteq lines /\ \A line \in lines \ offers : line[1] \in Excluded

\* Candidate i of a pool ranks before candidate j.
Better(i, j, p, b) ==
  \/ Score(p[i], b) > Score(p[j], b)
  \/ Score(p[i], b) = Score(p[j], b) /\ i < j

\* "Ordered by decreasing total score. Ties keep the order of the store": no
\* candidate is left out in favour of a worse one, returned twice, or misplaced.
BestReturned ==
  stage = "retrieved" =>
    /\ Len(result) = Min({TopK, Len(pool)})
    /\ \A m \in DOMAIN result :
         \A j \in DOMAIN pool \ {result[n] : n \in 1 .. m} :
           Better(result[m], j, pool, boost)

\* Candidates i and j of which the farther one, j, is returned and i is not, or
\* only behind it.
Overtaken ==
  {ij \in (DOMAIN pool) \X ToSet(result) :
    /\ ij[1] < ij[2]
    /\ \A m, n \in DOMAIN result :
         result[m] = ij[1] /\ result[n] = ij[2] => n < m}

Year(hit) == IF hit.chunk.end = NoYear \/ hit.chunk.end <= Now - Window
               THEN Now - Window ELSE hit.chunk.end

\* "Neutral rather than penalised", and "without ever outranking relevance through
\* field count alone": the order of similarity changes only in favour of a chunk
\* that matches more of the boost or ended later within the window, and only over
\* one that is closer by less than both weights, however many fields there are.
\* A chunk without a date, or with one before the window, never loses to its like.
OvertakenForReason ==
  \A ij \in Overtaken :
    LET near == pool[ij[1]]
        far == pool[ij[2]]
    IN  /\ Relevance(near) - Relevance(far) < FilterWeight + RecencyWeight
        /\ \/ Cardinality(Matched(far, boost)) > Cardinality(Matched(near, boost))
           \/ Year(far) > Year(near)
====
