---- MODULE RetrievalProofs ----
(****************************************************************************)
(* For every schema, every answer of the model, every pool and all weights  *)
(* and caps: what becomes of the filters of an answer, and what order the   *)
(* candidates come into.  Nothing that the schema does not know gets        *)
(* through, nothing is lost that the enforced grammar offered, and the best *)
(* candidates are returned, none before a nearer one without a reason.  The *)
(* sort is a function that refers to itself: that it exists, and that each  *)
(* insertion leaves the candidates ranked, is by induction over their       *)
(* number.                                                                  *)
(****************************************************************************)
EXTENDS Retrieval, OrderedDictLemmas, TLAPS

\* An answer is an object, finitely many entries with different keys, and is there
\* together with the schema of the call.
IInv ==
  /\ filters \in Answers
  /\ stage = "answered" => schema \in Schemas

\* The greater and the lesser of two numbers.
LEMMA GreaterOfTwo ==
  ASSUME NEW a \in Int, NEW b \in Int
  PROVE  Max({a, b}) = IF a <= b THEN b ELSE a
<1>1. \E x \in {a, b} : \A y \in {a, b} : x >= y
  OBVIOUS
<1>2. Max({a, b}) \in {a, b} /\ \A y \in {a, b} : Max({a, b}) >= y
  BY <1>1 DEF Max
<1> QED
  BY <1>2

LEMMA LesserOfTwo ==
  ASSUME NEW a \in Int, NEW b \in Int
  PROVE  Min({a, b}) = IF a <= b THEN a ELSE b
<1>1. \E x \in {a, b} : \A y \in {a, b} : x <= y
  OBVIOUS
<1>2. Min({a, b}) \in {a, b} /\ \A y \in {a, b} : Min({a, b}) <= y
  BY <1>1 DEF Min
<1> QED
  BY <1>2

\* A set of positions that is not empty has a greatest one.
LEMMA GreatestPosition ==
  ASSUME NEW n \in Nat, NEW P \in SUBSET (1 .. n), P # {}
  PROVE  Max(P) \in P /\ \A p \in P : Max(P) >= p
<1> DEFINE Behind == {m \in Nat : n - m \in P}
<1>1. Behind \in SUBSET Nat /\ Behind # {}
  <2>1. PICK p \in P : p \in 1 .. n
    OBVIOUS
  <2>2. n - p \in Nat /\ n - (n - p) = p
    BY <2>1
  <2>3. n - p \in Behind
    BY <2>1, <2>2
  <2> QED
    BY <2>3
<1>2. PICK m \in Behind : \A k \in Behind : ~ (<<k, m>> \in OpToRel(<, Nat))
  <2> HIDE DEF Behind
  <2> QED
    BY <1>1, WFMin, NatLessThanWellFounded
<1>3. \A k \in Behind : ~ (k < m)
  BY <1>2 DEF OpToRel
<1>4. \A p \in P : n - m >= p
  <2> SUFFICES ASSUME NEW p \in P
               PROVE  n - m >= p
    OBVIOUS
  <2>1. n - p \in Behind
    <3>1. p \in 1 .. n
      OBVIOUS
    <3>2. n - p \in Nat /\ n - (n - p) = p
      BY <3>1
    <3> QED
      BY <3>2
  <2>2. ~ (n - p < m)
    BY <1>3, <2>1
  <2> QED
    BY <2>2
<1>5. \E x \in P : \A y \in P : x >= y
  BY <1>4
<1> QED
  BY <1>5 DEF Max

\* Answers are what they are meant to be.
LEMMA AnswerShape ==
  ASSUME NEW a \in Answers
  PROVE  /\ a \in Seq([key : Keys, values : SUBSET Values])
         /\ \A i \in DOMAIN a : a[i].key \in Keys
         /\ \A i, j \in DOMAIN a : i # j => a[i].key # a[j].key
<1>1. a \in SeqOf([key : Keys, values : SUBSET Values], MaxEntries)
  BY DEF Answers
<1>2. PICK n \in 0 .. MaxEntries : a \in [1 .. n -> [key : Keys, values : SUBSET Values]]
  BY <1>1 DEF SeqOf
<1>3. a \in Seq([key : Keys, values : SUBSET Values])
  <2> DEFINE Entries == [key : Keys, values : SUBSET Values]
  <2>1. n \in Nat
    BY RetrievalAssumption
  <2>2. a \in [1 .. n -> Entries]
    BY <1>2
  <2> HIDE DEF Entries
  <2>3. a \in Seq(Entries)
    BY <2>1, <2>2
  <2> QED
    BY <2>3 DEF Entries
<1>4. \A i \in DOMAIN a : a[i].key \in Keys
  <2>1. \A i \in DOMAIN a : a[i] \in [key : Keys, values : SUBSET Values]
    BY <1>2
  <2> QED
    BY <2>1
<1> QED
  BY <1>3, <1>4 DEF Answers

\* The entry that decides about a field is one that names it and keeps values.
LEMMA DecidingEntry ==
  ASSUME NEW s, NEW a \in Answers, NEW k \in DOMAIN ValidBoost(s, a)
  PROVE  /\ k \in Keys
         /\ \E i \in DOMAIN a : /\ NormalKey(a[i].key) = k
                                /\ Kept(s, a[i]) # {}
                                /\ ValidBoost(s, a)[k] = Kept(s, a[i])
<1> DEFINE For(x) == {i \in DOMAIN a : NormalKey(a[i].key) = x /\ Kept(s, a[i]) # {}}
<1>1. ValidBoost(s, a) = [x \in {x \in Keys : For(x) # {}} |-> Kept(s, a[Max(For(x))])]
  BY DEF ValidBoost
<1>2. k \in Keys /\ For(k) # {}
  BY <1>1
<1>3. For(k) \in SUBSET (1 .. Len(a)) /\ Len(a) \in Nat
  BY AnswerShape
<1>4. Max(For(k)) \in For(k)
  <2> HIDE DEF For
  <2> QED
    BY <1>2, <1>3, GreatestPosition
<1>5. ValidBoost(s, a)[k] = Kept(s, a[Max(For(k))])
  BY <1>1, <1>2
<1> QED
  BY <1>2, <1>4, <1>5

LEMMA AnswersStayAnswers == Spec => []IInv
<1>1. Nothing \in Answers
  <2>1. <<>> \in [1 .. 0 -> [key : Keys, values : SUBSET Values]]
    OBVIOUS
  <2>2. 0 \in 0 .. MaxEntries
    BY RetrievalAssumption
  <2>3. <<>> \in SeqOf([key : Keys, values : SUBSET Values], MaxEntries)
    BY <2>1, <2>2 DEF SeqOf
  <2> QED
    BY <2>3 DEF Answers, Nothing
<1>2. Init => IInv
  BY <1>1 DEF Init, IInv
<1>3. IInv /\ [Next]_vars => IInv'
  <2> SUFFICES ASSUME IInv, [Next]_vars
               PROVE  IInv'
    OBVIOUS
  <2>1. CASE Answer
    BY <2>1 DEF Answer, IInv
  <2>2. CASE Validate
    BY <2>2, <1>1 DEF Validate, IInv
  <2>3. CASE Fallback \/ Retrieve \/ Finish \/ UNCHANGED vars
    BY <2>3 DEF Fallback, Retrieve, Finish, vars, IInv
  <2> QED
    BY <2>1, <2>2, <2>3 DEF Next
<1> QED
  BY <1>2, <1>3, PTL DEF Spec

\* Only an answer's validation leaves the stage in which there is one.
LEMMA AnswerIsValidated ==
  ASSUME Next, stage = "answered"
  PROVE  boost' = ValidBoost(schema, filters)
BY DEF Next, Answer, Fallback, Validate, Retrieve, Finish

\* Whatever the model answered, a field or value that moves chunks up is one of
\* the engine's schema and of the answer.
THEOREM OnlyKnownFilters == Spec => OnlyKnown
<1> DEFINE Step == stage = "answered" => \A k \in DOMAIN boost' : \A v \in boost'[k] :
       /\ k \in DOMAIN schema /\ \E i \in DOMAIN schema[k] : NormalValue(schema[k][i]) = v
       /\ \E i \in DOMAIN filters : /\ NormalKey(filters[i].key) = k
                                    /\ \E w \in filters[i].values : NormalValue(w) = v
<1>1. IInv /\ [Next]_vars => [Step]_vars
  <2> SUFFICES ASSUME IInv, Next, stage = "answered",
                      NEW k \in DOMAIN boost', NEW v \in boost'[k]
               PROVE  /\ k \in DOMAIN schema
                      /\ \E i \in DOMAIN schema[k] : NormalValue(schema[k][i]) = v
                      /\ \E i \in DOMAIN filters :
                           /\ NormalKey(filters[i].key) = k
                           /\ \E w \in filters[i].values : NormalValue(w) = v
    OBVIOUS
  <2>1. boost' = ValidBoost(schema, filters)
    BY AnswerIsValidated
  <2>2. PICK i \in DOMAIN filters : /\ NormalKey(filters[i].key) = k
                                    /\ Kept(schema, filters[i]) # {}
                                    /\ boost'[k] = Kept(schema, filters[i])
    BY <2>1, DecidingEntry DEF IInv
  <2>3. k \in DOMAIN schema
    BY <2>2 DEF Kept
  <2>4. v \in {NormalValue(w) : w \in filters[i].values} /\ v \in Known(schema, k)
    BY <2>2, <2>3 DEF Kept
  <2>5. \E j \in DOMAIN schema[k] : NormalValue(schema[k][j]) = v
    BY <2>4 DEF Known, ToSet
  <2> QED
    BY <2>2, <2>3, <2>4, <2>5
<1>2. OnlyKnown <=> [][Step]_vars
  BY PTL DEF OnlyKnown
<1> QED
  BY <1>1, <1>2, AnswersStayAnswers, PTL DEF Spec

\* What the grammar offers is a field of the schema with normal forms of its values.
LEMMA OfferedIsKnown ==
  ASSUME NEW s \in Schemas, NEW k \in DOMAIN Grammar(s)
  PROVE  /\ k \in DOMAIN s
         /\ Grammar(s)[k] \subseteq Known(s, k)
         /\ \A v \in Grammar(s)[k] : NormalValue(v) = v
<1>1. k \in DOMAIN s /\ Grammar(s)[k] = CappedValues(s[k])
  BY DEF Grammar, CappedFields
<1>2. s[k] \in Seq(Values)
  BY <1>1, RetrievalAssumption
<1>3. CappedValues(s[k]) \subseteq Known(s, k)
  BY DEF CappedValues, Known, ToSet
<1>4. \A v \in CappedValues(s[k]) : NormalValue(v) = v
  <2> SUFFICES ASSUME NEW v \in CappedValues(s[k])
               PROVE  NormalValue(v) = v
    OBVIOUS
  <2>1. PICK i \in DOMAIN s[k] : v = NormalValue(s[k][i])
    BY DEF CappedValues
  <2>2. s[k][i] \in Values
    BY <1>2, <2>1
  <2> QED
    BY <2>1, <2>2, RetrievalAssumption
<1> QED
  BY <1>1, <1>3, <1>4

\* An entry that keeps to the grammar is kept whole.
LEMMA ConformingEntryKept ==
  ASSUME NEW s \in Schemas, NormalSchema(s),
         NEW entry, entry.key \in DOMAIN Grammar(s),
         entry.values \in SUBSET Grammar(s)[entry.key]
  PROVE  NormalKey(entry.key) = entry.key /\ Kept(s, entry) = entry.values
<1> DEFINE k == entry.key
<1>1. /\ k \in DOMAIN s
      /\ Grammar(s)[k] \subseteq Known(s, k)
      /\ \A v \in Grammar(s)[k] : NormalValue(v) = v
  BY OfferedIsKnown
<1>2. NormalKey(k) = k
  BY <1>1 DEF NormalSchema
<1>3. {NormalValue(v) : v \in entry.values} = entry.values
  BY <1>1
<1> QED
  BY <1>1, <1>2, <1>3 DEF Kept

\* Whatever the caps and however the values are spelled, an answer that kept to the
\* enforced grammar loses nothing, provided that the published names are normal.
THEOREM GrammarIsEnough == Spec => GrammarSurvives
<1> DEFINE Step == stage = "answered" /\ NormalSchema(schema) /\ Conforms(schema, filters) =>
       /\ DOMAIN boost' = {filters[i].key : i \in DOMAIN filters}
       /\ \A i \in DOMAIN filters : boost'[filters[i].key] = filters[i].values
<1>1. IInv /\ [Next]_vars => [Step]_vars
  <2> SUFFICES ASSUME IInv, Next, stage = "answered",
                      NormalSchema(schema), Conforms(schema, filters)
               PROVE  /\ DOMAIN boost' = {filters[i].key : i \in DOMAIN filters}
                      /\ \A i \in DOMAIN filters :
                           boost'[filters[i].key] = filters[i].values
    OBVIOUS
  <2>1. boost' = ValidBoost(schema, filters)
    BY AnswerIsValidated
  <2>2. \A i \in DOMAIN filters : /\ NormalKey(filters[i].key) = filters[i].key
                                  /\ Kept(schema, filters[i]) = filters[i].values
                                  /\ filters[i].values # {}
    <3> SUFFICES ASSUME NEW i \in DOMAIN filters
                 PROVE  /\ NormalKey(filters[i].key) = filters[i].key
                        /\ Kept(schema, filters[i]) = filters[i].values
                        /\ filters[i].values # {}
      OBVIOUS
    <3>1. /\ filters[i].key \in DOMAIN Grammar(schema)
          /\ filters[i].values \in (SUBSET Grammar(schema)[filters[i].key]) \ {{}}
      BY DEF Conforms
    <3>2. schema \in Schemas
      BY DEF IInv
    <3>3. /\ NormalKey(filters[i].key) = filters[i].key
          /\ Kept(schema, filters[i]) = filters[i].values
      <4> DEFINE entry == filters[i]
      <4>1. /\ entry.key \in DOMAIN Grammar(schema)
            /\ entry.values \in SUBSET Grammar(schema)[entry.key]
        BY <3>1
      <4> HIDE DEF entry
      <4>2. NormalKey(entry.key) = entry.key /\ Kept(schema, entry) = entry.values
        BY <3>2, <4>1, ConformingEntryKept
      <4> QED
        BY <4>2 DEF entry
    <3>4. filters[i].values # {}
      BY <3>1
    <3> QED
      BY <3>3, <3>4
  <2>3. \A i \in DOMAIN filters : filters[i].key \in Keys
    BY AnswerShape DEF IInv
  <2>4. \A i \in DOMAIN filters : filters[i].key \in DOMAIN boost'
    <3> SUFFICES ASSUME NEW i \in DOMAIN filters
                 PROVE  filters[i].key \in DOMAIN ValidBoost(schema, filters)
      BY <2>1
    <3>1. i \in {j \in DOMAIN filters : /\ NormalKey(filters[j].key) = filters[i].key
                                      /\ Kept(schema, filters[j]) # {}}
      BY <2>2
    <3> QED
      BY <2>3, <3>1 DEF ValidBoost
  <2>5. \A k \in DOMAIN boost' : \E i \in DOMAIN filters :
          k = filters[i].key /\ boost'[k] = filters[i].values
    <3> SUFFICES ASSUME NEW k \in DOMAIN boost'
                 PROVE  \E i \in DOMAIN filters :
                          k = filters[i].key /\ boost'[k] = filters[i].values
      OBVIOUS
    <3>1. PICK i \in DOMAIN filters : /\ NormalKey(filters[i].key) = k
                                      /\ boost'[k] = Kept(schema, filters[i])
      BY <2>1, DecidingEntry DEF IInv
    <3> QED
      BY <2>2, <3>1
  <2>6. DOMAIN boost' = {filters[i].key : i \in DOMAIN filters}
    BY <2>4, <2>5
  <2>7. \A i \in DOMAIN filters : boost'[filters[i].key] = filters[i].values
    <3> SUFFICES ASSUME NEW i \in DOMAIN filters
                 PROVE  boost'[filters[i].key] = filters[i].values
      OBVIOUS
    <3>1. PICK j \in DOMAIN filters : /\ filters[i].key = filters[j].key
                                      /\ boost'[filters[i].key] = filters[j].values
      BY <2>4, <2>5
    <3>2. i = j
      BY <3>1, AnswerShape DEF IInv
    <3> QED
      BY <3>1, <3>2
  <2> QED
    BY <2>6, <2>7
<1>2. GrammarSurvives <=> [][Step]_vars
  BY PTL DEF GrammarSurvives
<1> QED
  BY <1>1, <1>2, AnswersStayAnswers, PTL DEF Spec

----------------------------------------------------------------------------
\* t is s with e behind the first m elements.
Inserted(s, m, e, t) ==
  /\ Len(t) = Len(s) + 1
  /\ \A j \in 1 .. m : t[j] = s[j]
  /\ t[m + 1] = e
  /\ \A j \in m + 2 .. Len(s) + 1 : t[j] = s[j - 1]

\* What is inserted into a sequence comes to stand where it is inserted, between
\* those before and those after it.
LEMMA InsertedElements ==
  ASSUME NEW S, NEW s \in Seq(S), NEW m \in 0 .. Len(s), NEW e \in S,
         NEW t, t = InsertAt(s, m + 1, e)
  PROVE  t \in Seq(S) /\ Inserted(s, m, e, t)
<1> DEFINE l == Len(s)
           front == SubSeq(s, 1, m)
           back == SubSeq(s, m + 1, l)
<1>1. l \in Nat /\ m \in Nat /\ m <= l /\ (m + 1) - 1 = m
  OBVIOUS
<1>2. front \in Seq(S) /\ Len(front) = m /\ \A j \in 1 .. m : front[j] = s[j]
  BY <1>1
<1>3. back \in Seq(S) /\ Len(back) = l - m /\ \A j \in 1 .. l - m : back[j] = s[m + j]
  BY <1>1
<1>4. InsertAt(s, m + 1, e) = front \o <<e>> \o back
  BY <1>1 DEF InsertAt
<1> HIDE DEF front, back, l
<1>5. /\ front \o <<e>> \in Seq(S) /\ Len(front \o <<e>>) = m + 1
      /\ \A j \in 1 .. m : (front \o <<e>>)[j] = s[j]
      /\ (front \o <<e>>)[m + 1] = e
  BY <1>1, <1>2
<1> DEFINE head == front \o <<e>>
<1> HIDE DEF head
<1>6. head \in Seq(S) /\ Len(head) = m + 1 /\ (\A j \in 1 .. m : head[j] = s[j]) /\ head[m + 1] = e
  BY <1>5 DEF head
<1> DEFINE u == head \o back
<1>7. u \in Seq(S) /\ Len(u) = l + 1
  <2>1. head \in Seq(S) /\ back \in Seq(S)
    BY <1>3, <1>6
  <2>2. u \in Seq(S) /\ Len(u) = Len(head) + Len(back)
    BY <2>1
  <2>3. (m + 1) + (l - m) = l + 1
    BY <1>1
  <2> QED
    BY <1>3, <1>6, <2>2, <2>3
<1>8. \A j \in 1 .. m + 1 : u[j] = head[j]
  BY <1>1, <1>3, <1>6
<1>9. \A j \in m + 2 .. l + 1 : u[j] = s[j - 1]
  <2> SUFFICES ASSUME NEW j \in m + 2 .. l + 1
               PROVE  u[j] = s[j - 1]
    OBVIOUS
  <2>1. /\ j - (m + 1) \in 1 .. l - m /\ m + (j - (m + 1)) = j - 1
        /\ j \in m + 2 .. (m + 1) + (l - m)
    BY <1>1
  <2>2. u[j] = back[j - (m + 1)]
    BY <1>1, <1>3, <1>6, <2>1
  <2> QED
    BY <1>3, <2>1, <2>2
<1>10. t = u
  BY <1>4 DEF head
<1> HIDE DEF u
<1>11. (\A j \in 1 .. m : u[j] = s[j]) /\ u[m + 1] = e
  BY <1>1, <1>6, <1>8
<1> QED
  BY <1>7, <1>9, <1>10, <1>11 DEF l, Inserted

\* A set of positions that holds all before each of its own is an initial segment.
LEMMA InitialSegment ==
  ASSUME NEW l \in Nat, NEW P \in SUBSET (1 .. l),
         \A j \in P : \A i \in 1 .. j : i \in P
  PROVE  Cardinality(P) \in 0 .. l /\ P = 1 .. Cardinality(P)
<1>1. CASE P = {}
  <2>1. Cardinality(P) = 0
    BY <1>1, FS_EmptySet
  <2> QED
    BY <1>1, <2>1
<1>2. CASE P # {}
  <2> DEFINE m == Max(P)
  <2>1. m \in P /\ \A p \in P : m >= p
    BY <1>2, GreatestPosition
  <2> HIDE DEF m
  <2>2. P = 1 .. m
    <3>1. m \in Nat /\ 1 .. m \subseteq P
      BY <2>1
    <3>2. \A p \in P : p \in 1 .. l /\ p <= m
      BY <2>1
    <3>3. \A p \in P : p \in 1 .. m
      BY <3>1, <3>2
    <3> QED
      BY <3>1, <3>3
  <2>3. Cardinality(1 .. m) = m
    BY <2>1, FS_Interval
  <2> QED
    BY <2>1, <2>2, <2>3
<1> QED
  BY <1>1, <1>2

\* The first n candidates in the order that they are ranked in: each of them
\* once, and each before those it is better than.
Ranked(order, n, p, b) ==
  /\ order \in Seq(1 .. n) /\ Len(order) = n
  /\ \A i \in 1 .. n : \E j \in 1 .. n : order[j] = i
  /\ \A i, j \in 1 .. n : i < j => Better(order[i], order[j], p, b)

\* The candidates that score no less than the next are the first ones.
LEMMA PlaceOfNext ==
  ASSUME NEW p, NEW b, NEW n \in Nat, NEW order, Ranked(order, n, p, b),
         \A i \in 1 .. n + 1 : Score(p[i], b) \in Int
  PROVE  \E m \in 0 .. Len(order) :
           /\ Insert(order, n + 1, p, b) = InsertAt(order, m + 1, n + 1)
           /\ \A j \in 1 .. m : Score(p[order[j]], b) >= Score(p[n + 1], b)
           /\ \A j \in m + 1 .. n : Score(p[order[j]], b) < Score(p[n + 1], b)
<1> DEFINE sc(i) == Score(p[i], b)
           P == {j \in 1 .. n : sc(order[j]) >= sc(n + 1)}
<1>1. order \in Seq(1 .. n) /\ Len(order) = n /\ DOMAIN order = 1 .. n
  BY DEF Ranked
<1>2. \A j \in 1 .. n : order[j] \in 1 .. n
  BY <1>1
<1>3. \A j \in 1 .. n : sc(order[j]) \in Int
  BY <1>2
<1>4. sc(n + 1) \in Int
  OBVIOUS
<1>5. \A i, j \in 1 .. n : i < j => sc(order[i]) >= sc(order[j])
  <2>1. \A i, j \in 1 .. n : i < j =>
          sc(order[i]) > sc(order[j]) \/ sc(order[i]) = sc(order[j])
    BY DEF Ranked, Better
  <2> HIDE DEF sc
  <2> QED
    BY <1>3, <2>1
<1>6. \A j \in P : \A i \in 1 .. j : i \in P
  <2> SUFFICES ASSUME NEW j \in P, NEW i \in 1 .. j
               PROVE  i \in 1 .. n /\ sc(order[i]) >= sc(n + 1)
    OBVIOUS
  <2>1. i \in 1 .. n /\ j \in 1 .. n /\ sc(order[j]) >= sc(n + 1) /\ (i < j \/ i = j)
    OBVIOUS
  <2> HIDE DEF sc, P
  <2> QED
    BY <1>3, <1>4, <1>5, <2>1
<1>7. Insert(order, n + 1, p, b) = InsertAt(order, Cardinality(P) + 1, n + 1)
  BY <1>1 DEF Insert
<1>8. P \in SUBSET (1 .. n)
  OBVIOUS
<1>9. \A j \in 1 .. n : j \notin P => sc(order[j]) < sc(n + 1)
  <2>1. \A j \in 1 .. n : j \notin P => ~ (sc(order[j]) >= sc(n + 1))
    OBVIOUS
  <2> HIDE DEF sc, P
  <2> QED
    BY <1>3, <1>4, <2>1
<1>10. \A j \in P : sc(order[j]) >= sc(n + 1)
  OBVIOUS
<1> DEFINE m == Cardinality(P)
<1>11. m \in 0 .. n /\ P = 1 .. m
  <2> HIDE DEF P
  <2> QED
    BY <1>6, <1>8, InitialSegment
<1>12. /\ m \in 0 .. Len(order)
       /\ Insert(order, n + 1, p, b) = InsertAt(order, m + 1, n + 1)
       /\ \A j \in 1 .. m : sc(order[j]) >= sc(n + 1)
       /\ \A j \in m + 1 .. n : sc(order[j]) < sc(n + 1)
  <2>1. \A j \in m + 1 .. n : j \in 1 .. n /\ j \notin 1 .. m
    <3> HIDE DEF P, m
    <3> QED
      BY <1>11
  <2> HIDE DEF P, sc
  <2> QED
    BY <1>1, <1>7, <1>9, <1>10, <1>11, <2>1
<1> HIDE DEF m
<1> QED
  BY <1>12

\* The next candidate comes to stand behind all that are no worse.
LEMMA InsertRanked ==
  ASSUME NEW p, NEW b, NEW n \in Nat, NEW order, Ranked(order, n, p, b),
         \A i \in 1 .. n + 1 : Score(p[i], b) \in Int
  PROVE  Ranked(Insert(order, n + 1, p, b), n + 1, p, b)
<1> DEFINE sc(i) == Score(p[i], b)
           t == Insert(order, n + 1, p, b)
<1>1. order \in Seq(1 .. n) /\ Len(order) = n
  BY DEF Ranked
<1>2. \A j \in 1 .. n : order[j] \in 1 .. n
  BY <1>1
<1>3. PICK m \in 0 .. Len(order) :
           /\ t = InsertAt(order, m + 1, n + 1)
           /\ \A j \in 1 .. m : sc(order[j]) >= sc(n + 1)
           /\ \A j \in m + 1 .. n : sc(order[j]) < sc(n + 1)
  BY PlaceOfNext
<1>4. m \in 0 .. n
  BY <1>1, <1>3
<1>5. /\ t \in Seq(1 .. n + 1) /\ Len(t) = n + 1
      /\ \A j \in 1 .. m : t[j] = order[j]
      /\ t[m + 1] = n + 1
      /\ \A j \in m + 2 .. n + 1 : t[j] = order[j - 1]
  <2>1. order \in Seq(1 .. n + 1)
    BY <1>1, <1>2
  <2>2. n + 1 \in 1 .. n + 1
    OBVIOUS
  <2> HIDE DEF t
  <2>3. t \in Seq(1 .. n + 1) /\ Inserted(order, m, n + 1, t)
    <3> DEFINE S == 1 .. n + 1
    <3>1. t = InsertAt(order, m + 1, n + 1)
      BY <1>3
    <3>2. order \in Seq(S) /\ n + 1 \in S
      BY <2>1, <2>2
    <3> DEFINE e == n + 1
    <3>3. t = InsertAt(order, m + 1, e) /\ e \in S
      BY <3>1, <3>2
    <3> HIDE DEF S, e
    <3>4. t \in Seq(S) /\ Inserted(order, m, e, t)
      BY <3>2, <3>3, InsertedElements
    <3> QED
      BY <3>4 DEF S, e
  <2> QED
    BY <1>1, <2>3 DEF Inserted
<1>6. \A i \in 1 .. n + 1 : \E j \in 1 .. n + 1 : t[j] = i
  <2> HIDE DEF t
  <2> SUFFICES ASSUME NEW i \in 1 .. n + 1
               PROVE  \E j \in 1 .. n + 1 : t[j] = i
    OBVIOUS
  <2>1. i = n + 1 => t[m + 1] = i /\ m + 1 \in 1 .. n + 1
    BY <1>4, <1>5
  <2>2. ASSUME i # n + 1
        PROVE  \E j \in 1 .. n + 1 : t[j] = i
    <3>1. i \in 1 .. n
      BY <2>2
    <3>2. PICK j \in 1 .. n : order[j] = i
      BY <3>1 DEF Ranked
    <3>3. j <= m => j \in 1 .. m /\ j \in 1 .. n + 1
      BY <1>4
    <3>4. ~ j <= m => j + 1 \in m + 2 .. n + 1 /\ (j + 1) - 1 = j /\ j + 1 \in 1 .. n + 1
      BY <1>4
    <3> QED
      BY <1>5, <3>2, <3>3, <3>4
  <2> QED
    BY <2>1, <2>2
<1>7. ASSUME NEW i \in 1 .. n + 1, NEW j \in 1 .. n + 1, i < j
      PROVE  Better(t[i], t[j], p, b)
  <2> HIDE DEF t
  <2>1. \A x, y \in 1 .. n : x < y => Better(order[x], order[y], p, b)
    BY DEF Ranked
  <2>2. \A x \in 1 .. m : Better(order[x], n + 1, p, b)
    <3> SUFFICES ASSUME NEW x \in 1 .. m
                 PROVE  Better(order[x], n + 1, p, b)
      OBVIOUS
    <3>1. order[x] \in 1 .. n
      BY <1>2, <1>4
    <3>2. sc(order[x]) \in Int /\ sc(n + 1) \in Int /\ order[x] < n + 1
      BY <3>1
    <3>3. sc(order[x]) >= sc(n + 1)
      BY <1>3
    <3>4. sc(order[x]) > sc(n + 1) \/ sc(order[x]) = sc(n + 1)
      <4> HIDE DEF sc
      <4> QED
        BY <3>2, <3>3
    <3> QED
      BY <3>2, <3>4 DEF Better
  <2>3. \A x \in m + 1 .. n : Better(n + 1, order[x], p, b)
    <3> SUFFICES ASSUME NEW x \in m + 1 .. n
                 PROVE  Better(n + 1, order[x], p, b)
      OBVIOUS
    <3>1. order[x] \in 1 .. n
      BY <1>2, <1>4
    <3>2. sc(order[x]) \in Int /\ sc(n + 1) \in Int
      BY <3>1
    <3>3. sc(order[x]) < sc(n + 1)
      BY <1>3
    <3>4. sc(n + 1) > sc(order[x])
      <4> HIDE DEF sc
      <4> QED
        BY <3>2, <3>3
    <3> QED
      BY <3>4 DEF Better
  <2>4. /\ i \in 1 .. m \/ i = m + 1 \/ i \in m + 2 .. n + 1
        /\ j \in 1 .. m \/ j = m + 1 \/ j \in m + 2 .. n + 1
    BY <1>4
  <2>5. CASE j \in 1 .. m
    <3>1. i \in 1 .. m /\ i \in 1 .. n /\ j \in 1 .. n
      BY <1>4, <1>7, <2>5
    <3>2. t[i] = order[i] /\ t[j] = order[j]
      BY <1>5, <2>5, <3>1
    <3> QED
      BY <1>7, <2>1, <3>1, <3>2
  <2>6. CASE j = m + 1
    BY <1>4, <1>5, <1>7, <2>2, <2>6
  <2>7. CASE j \in m + 2 .. n + 1
    <3>1. /\ j - 1 \in m + 1 .. n /\ j - 1 \in 1 .. n
          /\ i \in 1 .. m => i \in 1 .. n /\ i < j - 1
          /\ i \in m + 2 .. n + 1 => i - 1 \in 1 .. n /\ i - 1 < j - 1
      BY <1>4, <1>7, <2>7
    <3>5. t[j] = order[j - 1]
      BY <1>5, <2>7
    <3>2. CASE i \in 1 .. m
      <4>1. t[i] = order[i]
        BY <1>5, <3>2
      <4> QED
        BY <2>1, <3>1, <3>2, <3>5, <4>1
    <3>3. CASE i = m + 1
      BY <1>5, <2>3, <3>1, <3>3, <3>5
    <3>4. CASE i \in m + 2 .. n + 1
      <4>1. t[i] = order[i - 1]
        BY <1>5, <3>4
      <4> QED
        BY <2>1, <3>1, <3>4, <3>5, <4>1
    <3> QED
      BY <2>4, <3>2, <3>3, <3>4
  <2> QED
    BY <2>4, <2>5, <2>6, <2>7
<1> QED
  BY <1>5, <1>6, <1>7 DEF Ranked

\* The orders that Rerank builds, one candidate after the other.
RankStep(p, b, ranked, n) ==
  IF n = 0 THEN <<>> ELSE Insert(ranked[n - 1], n, p, b)

Rankings(p, b, ranked) == ranked = [n \in 0 .. Len(p) |-> RankStep(p, b, ranked, n)]

\* They exist.
LEMMA RankingsExist ==
  ASSUME NEW p, Len(p) \in Nat, NEW b
  PROVE  \E ranked : Rankings(p, b, ranked)
<1> DEFINE Step(ranked, n) == RankStep(p, b, ranked, n)
           Good == {m \in Nat : \E ranked : ranked = [n \in 0 .. m |-> Step(ranked, n)]}
<1>1. 0 \in Good
  <2> DEFINE ranked == [n \in 0 .. 0 |-> <<>>]
  <2>1. ranked = [n \in 0 .. 0 |-> Step(ranked, n)]
    BY DEF RankStep
  <2> QED
    BY <2>1
<1>2. ASSUME NEW m \in Good
      PROVE  m + 1 \in Good
  <2>1. PICK g : g = [n \in 0 .. m |-> Step(g, n)]
    OBVIOUS
  <2> DEFINE ranked == [n \in 0 .. m + 1 |-> Step(g, n)]
  <2>2. m \in Nat
    OBVIOUS
  <2>3. ASSUME NEW n \in 0 .. m + 1
        PROVE  Step(ranked, n) = Step(g, n)
    <3>1. CASE n # 0
      <4>1. n - 1 \in 0 .. m /\ n - 1 \in 0 .. m + 1
        BY <2>2, <3>1
      <4>2. ranked[n - 1] = Step(g, n - 1)
        BY <4>1
      <4>3. g[n - 1] = Step(g, n - 1)
        BY <2>1, <4>1
      <4> HIDE DEF ranked
      <4> QED
        BY <4>2, <4>3 DEF RankStep
    <3> QED
      BY <3>1 DEF RankStep
  <2>4. ranked = [n \in 0 .. m + 1 |-> Step(ranked, n)]
    <3>1. ranked = [n \in 0 .. m + 1 |-> Step(g, n)]
      OBVIOUS
    <3> HIDE DEF ranked, Step
    <3> QED
      BY <2>3, <3>1
  <2>5. m + 1 \in Nat
    BY <2>2
  <2> HIDE DEF ranked, Step
  <2> QED
    BY <2>4, <2>5
<1>3. Good = Nat
  <2> HIDE DEF Good
  <2>1. Good \in SUBSET Nat
    BY DEF Good
  <2> QED
    BY <2>1, <1>1, <1>2, EveryNumber
<1> QED
  BY <1>3 DEF Rankings

\* The whole pool is ranked.
LEMMA RerankRanks ==
  ASSUME NEW p, Len(p) \in Nat, NEW b,
         \A i \in 1 .. Len(p) : Score(p[i], b) \in Int
  PROVE  Ranked(Rerank(p, b), Len(p), p, b)
<1>1. PICK ranked : Rankings(p, b, ranked) /\ Rerank(p, b) = ranked[Len(p)]
  <2> DEFINE it == CHOOSE g : g = [n \in 0 .. Len(p) |-> RankStep(p, b, g, n)]
  <2>1. \E g : g = [n \in 0 .. Len(p) |-> RankStep(p, b, g, n)]
    BY RankingsExist DEF Rankings
  <2>2. it = [n \in 0 .. Len(p) |-> RankStep(p, b, it, n)]
    BY <2>1
  <2>3. Rerank(p, b) = it[Len(p)]
    BY DEF Rerank, RankStep
  <2> HIDE DEF it
  <2> QED
    BY <2>2, <2>3 DEF Rankings
<1> DEFINE Good == {n \in Nat : n <= Len(p) => Ranked(ranked[n], n, p, b)}
<1>2. 0 \in Good
  <2>1. ranked[0] = <<>>
    BY <1>1 DEF Rankings, RankStep
  <2>2. <<>> \in Seq(1 .. 0) /\ Len(<<>>) = 0
    OBVIOUS
  <2>3. Ranked(<<>>, 0, p, b)
    BY <2>2 DEF Ranked
  <2> QED
    BY <2>1, <2>3
<1>3. ASSUME NEW n \in Good
      PROVE  n + 1 \in Good
  <2> SUFFICES ASSUME n + 1 <= Len(p)
               PROVE  Ranked(ranked[n + 1], n + 1, p, b)
    OBVIOUS
  <2>1. n \in Nat /\ n + 1 \in 0 .. Len(p) /\ n + 1 # 0 /\ (n + 1) - 1 = n /\ n <= Len(p)
    OBVIOUS
  <2>2. Ranked(ranked[n], n, p, b)
    BY <2>1
  <2>3. ranked[n + 1] = Insert(ranked[n], n + 1, p, b)
    <3>1. ranked[n + 1] = RankStep(p, b, ranked, n + 1)
      BY <1>1, <2>1 DEF Rankings
    <3> QED
      BY <2>1, <3>1 DEF RankStep
  <2>4. \A i \in 1 .. n + 1 : Score(p[i], b) \in Int
    <3>1. \A i \in 1 .. n + 1 : i \in 1 .. Len(p)
      BY <2>1
    <3> QED
      BY <3>1
  <2> QED
    BY <2>1, <2>2, <2>3, <2>4, InsertRanked
<1>4. Good = Nat
  <2> HIDE DEF Good
  <2>1. Good \in SUBSET Nat
    BY DEF Good
  <2> QED
    BY <2>1, <1>2, <1>3, EveryNumber
<1> QED
  BY <1>1, <1>4

\* The first of the ranked candidates are the best, of equals the nearest: as many
\* as are asked for, each better than every one that is not before it.
LEMMA TopIsBest ==
  ASSUME NEW p, Len(p) \in Nat, NEW b,
         \A i \in 1 .. Len(p) : Score(p[i], b) \in Int
  PROVE  /\ Top(p, b) \in Seq(1 .. Len(p))
         /\ Len(Top(p, b)) = Min({TopK, Len(p)})
         /\ \A m \in 1 .. Len(Top(p, b)) :
              \A j \in (1 .. Len(p)) \ {Top(p, b)[n] : n \in 1 .. m} :
                Better(Top(p, b)[m], j, p, b)
<1> DEFINE order == Rerank(p, b)
           k == Min({TopK, Len(p)})
           top == SubSeq(order, 1, k)
<1>1. Ranked(order, Len(p), p, b)
  BY RerankRanks
<1>2. k \in 0 .. Len(p)
  BY RetrievalAssumption DEF Min
<1>3. Top(p, b) = top
  BY DEF Top
<1>4. order \in Seq(1 .. Len(p)) /\ Len(order) = Len(p)
  BY <1>1 DEF Ranked
<1> HIDE DEF order, k
<1>5. top \in Seq(1 .. Len(p)) /\ Len(top) = k /\ \A i \in 1 .. k : top[i] = order[i]
  <2> DEFINE S == 1 .. Len(p)
  <2>1. order \in Seq(S) /\ k \in Nat /\ k <= Len(order)
    BY <1>2, <1>4
  <2> HIDE DEF S
  <2>2. top \in Seq(S) /\ Len(top) = k
    BY <2>1
  <2>3. \A i \in 1 .. k : top[i] = order[i]
    BY <2>1
  <2> QED
    BY <2>2, <2>3 DEF S
<1> HIDE DEF top
<1>6. ASSUME NEW m \in 1 .. k, NEW j \in (1 .. Len(p)) \ {top[n] : n \in 1 .. m}
      PROVE  Better(top[m], j, p, b)
  <2>1. PICK i \in 1 .. Len(p) : order[i] = j
    BY <1>1 DEF Ranked
  <2>2. m < i
    <3> SUFFICES ASSUME i \in 1 .. m
                 PROVE  FALSE
      BY <1>2
    <3>1. i \in 1 .. k
      BY <1>2
    <3> QED
      BY <1>5, <2>1, <3>1
  <2>3. m \in 1 .. Len(p) /\ top[m] = order[m]
    BY <1>2, <1>5
  <2> QED
    BY <1>1, <2>1, <2>2, <2>3 DEF Ranked
<1> QED
  BY <1>3, <1>5, <1>6 DEF k
----------------------------------------------------------------------------
\* A quotient is a whole number between its neighbours.
LEMMA Quotient ==
  ASSUME NEW n \in Nat \ {0}, NEW x \in Int
  PROVE  /\ x \div n \in Int
         /\ n * (x \div n) <= x
         /\ x < n * (x \div n) + n
  OBVIOUS

\* It grows with what is divided.
LEMMA QuotientGrows ==
  ASSUME NEW n \in Nat \ {0}, NEW x \in Int, NEW y \in Int, x <= y
  PROVE  x \div n <= y \div n
<1> DEFINE q == x \div n
           r == y \div n
<1>1. q \in Int /\ r \in Int /\ n * q <= x /\ y < n * r + n
  BY Quotient
<1> HIDE DEF q, r
<1>2. n * q < n * r + n
  <2> DEFINE v == n * q
             w == n * r
  <2>1. v \in Int /\ w \in Int /\ v <= x /\ y < w + n
    BY <1>1
  <2> HIDE DEF v, w
  <2>2. v < w + n
    BY <2>1
  <2> QED
    BY <2>2 DEF v, w
<1>3. q <= r
  BY <1>1, <1>2
<1> QED
  BY <1>3 DEF q, r

\* A share of a whole: at most all of it, and more of what is shared out is no less.
LEMMA Share ==
  ASSUME NEW n \in Nat \ {0}, NEW w \in Nat, NEW c \in 0 .. n, NEW d \in 0 .. n, c <= d
  PROVE  /\ (w * c) \div n \in 0 .. w
         /\ (w * c) \div n <= (w * d) \div n
<1>1. w * c \in Int /\ w * d \in Int /\ w * n \in Int /\ 0 \in Int
  OBVIOUS
<1>2. 0 <= w * c /\ w * c <= w * d /\ w * c <= w * n
  OBVIOUS
<1>3. 0 \div n = 0 /\ (w * n) \div n = w
  OBVIOUS
<1> DEFINE x == w * c
           y == w * d
           z == w * n
<1>4. x \in Int /\ y \in Int /\ z \in Int /\ 0 <= x /\ x <= y /\ x <= z /\ z \div n = w
  BY <1>1, <1>2, <1>3
<1> HIDE DEF x, y, z
<1>5. 0 \div n <= x \div n /\ x \div n <= z \div n /\ x \div n <= y \div n
  BY <1>4, QuotientGrows
<1>6. x \div n \in Int
  BY <1>4, Quotient
<1>7. x \div n \in 0 .. w /\ x \div n <= y \div n
  BY <1>3, <1>4, <1>5, <1>6
<1> QED
  BY <1>7 DEF x, y

Hits == [chunk : Chunks, distance : Distances]

\* The relevance falls with the distance, or stays where the clamp does.
LEMMA RelevanceFalls ==
  ASSUME NEW near \in Hits, NEW far \in Hits, near.distance <= far.distance
  PROVE  /\ Relevance(near) \in Int /\ Relevance(far) \in Int
         /\ Relevance(far) <= Relevance(near)
<1> DEFINE m == 1 + Max({near.distance, 0})
           n == 1 + Max({far.distance, 0})
           q == Unit \div m
           r == Unit \div n
<1>1. /\ Max({near.distance, 0}) \in Nat /\ Max({far.distance, 0}) \in Nat
      /\ Max({near.distance, 0}) <= Max({far.distance, 0})
  <2>1. near.distance \in Int /\ far.distance \in Int
    BY RetrievalAssumption DEF Hits
  <2>2. /\ Max({near.distance, 0}) = IF near.distance <= 0 THEN 0 ELSE near.distance
        /\ Max({far.distance, 0}) = IF far.distance <= 0 THEN 0 ELSE far.distance
    BY <2>1, GreaterOfTwo
  <2> QED
    BY <2>1, <2>2
<1>2. m \in Nat \ {0} /\ n \in Nat \ {0} /\ m <= n /\ Unit \in Nat /\ Unit \in Int
  BY <1>1, RetrievalAssumption
<1>3. Relevance(near) = q /\ Relevance(far) = r
  BY DEF Relevance
<1> HIDE DEF m, n
<1>4. /\ q \in Int /\ r \in Int
      /\ Unit < m * q + m /\ n * r <= Unit
      /\ 0 <= Unit /\ n * r + n > Unit
  BY <1>2, Quotient
<1> HIDE DEF q, r
<1>5. r >= 0
  BY <1>2, <1>4
<1>6. m * r <= n * r
  BY <1>2, <1>4, <1>5
<1>7. m * r < m * q + m
  <2> DEFINE x == m * r
             y == n * r
             z == m * q
  <2>1. x \in Int /\ y \in Int /\ z \in Int
    BY <1>2, <1>4
  <2>2. x <= y /\ y <= Unit /\ Unit < z + m
    BY <1>4, <1>6
  <2> HIDE DEF x, y, z
  <2>3. x < z + m
    BY <1>2, <2>1, <2>2
  <2> QED
    BY <2>3 DEF x, z
<1>8. r <= q
  BY <1>2, <1>4, <1>7
<1> QED
  BY <1>3, <1>4, <1>8

\* A boost that counts a finite number of fields, and none as no boost.
Countable(b) ==
  \/ b = Nothing
  \/ IsFiniteSet(DOMAIN b) /\ DOMAIN b # {}

\* The matched fields can be counted, and years compared.
LEMMA MatchesAndYears ==
  ASSUME NEW b, Countable(b), NEW hit \in Hits
  PROVE  Cardinality(Matched(hit, b)) \in Nat /\ Year(hit) \in Int
<1>1. Cardinality(Matched(hit, b)) \in Nat
  <2>1. b # Nothing => IsFiniteSet(Matched(hit, b))
    <3>1. Matched(hit, b) \subseteq DOMAIN b
      BY DEF Matched
    <3> QED
      BY <3>1, FS_Subset DEF Countable
  <2>2. b = Nothing => Matched(hit, b) = {}
    BY DEF Nothing, Matched
  <2> QED
    BY <2>1, <2>2, FS_CardinalityType, FS_EmptySet
<1>2. Year(hit) \in Int
  <2>1. Now \in Nat /\ Window \in Nat /\ hit.chunk.end \in 0 .. Now \cup {NoYear}
    BY RetrievalAssumption DEF Hits
  <2> QED
    BY <2>1 DEF Year
<1> QED
  BY <1>1, <1>2

\* The boost lies between nothing and its weight, and grows with the matches.
LEMMA BoostRange ==
  ASSUME NEW b, Countable(b), NEW hit, NEW other,
         Cardinality(Matched(hit, b)) <= Cardinality(Matched(other, b))
  PROVE  /\ Boost(hit, b) \in 0 .. FilterWeight
         /\ Boost(hit, b) <= Boost(other, b)
<1>0. FilterWeight \in Nat
  BY RetrievalAssumption
<1>1. CASE b = Nothing
  BY <1>0, <1>1 DEF Boost
<1>2. CASE b # Nothing
  <2> DEFINE n == Cardinality(DOMAIN b)
             c == Cardinality(Matched(hit, b))
             d == Cardinality(Matched(other, b))
  <2>1. IsFiniteSet(DOMAIN b) /\ DOMAIN b # {}
    BY <1>2 DEF Countable
  <2>2. n \in Nat \ {0}
    BY <2>1, FS_CardinalityType, FS_EmptySet
  <2>3. Matched(hit, b) \subseteq DOMAIN b /\ Matched(other, b) \subseteq DOMAIN b
    BY DEF Matched
  <2>4. c \in 0 .. n /\ d \in 0 .. n
    <3>1. /\ IsFiniteSet(Matched(hit, b)) /\ c <= n
          /\ IsFiniteSet(Matched(other, b)) /\ d <= n
      BY <2>1, <2>3, FS_Subset
    <3>2. c \in Nat /\ d \in Nat
      BY <3>1, FS_CardinalityType
    <3> HIDE DEF c, d, n
    <3> QED
      BY <2>2, <3>1, <3>2
  <2>5. Boost(hit, b) = (FilterWeight * c) \div n /\ Boost(other, b) = (FilterWeight * d) \div n
    BY <1>2 DEF Boost
  <2>6. c <= d
    OBVIOUS
  <2> HIDE DEF c, d, n
  <2> QED
    BY <1>0, <2>2, <2>4, <2>5, <2>6, Share
<1> QED
  BY <1>1, <1>2

\* So does the recency with the year, of which a chunk without a date has the
\* earliest.
LEMMA RecencyRange ==
  ASSUME NEW hit \in Hits, NEW other \in Hits, Year(hit) <= Year(other)
  PROVE  /\ Year(hit) \in Int
         /\ Recency(hit) \in 0 .. RecencyWeight
         /\ Recency(hit) <= Recency(other)
<1>0. /\ RecencyWeight \in Nat /\ Window \in Nat \ {0} /\ Now \in Nat
      /\ hit.chunk.end \in 0 .. Now \cup {NoYear} /\ other.chunk.end \in 0 .. Now \cup {NoYear}
  BY RetrievalAssumption DEF Hits
<1> DEFINE c(h) == Year(h) - (Now - Window)
<1>1. ASSUME NEW h \in Hits, h.chunk.end \in 0 .. Now \cup {NoYear}
      PROVE  /\ Year(h) \in Int /\ c(h) \in 0 .. Window
             /\ Recency(h) = (RecencyWeight * c(h)) \div Window
  <2>1. CASE h.chunk.end = NoYear
    <3>1. Year(h) = Now - Window /\ c(h) = 0
      BY <1>0, <2>1 DEF Year
    <3>2. (RecencyWeight * 0) \div Window = 0
      BY <1>0
    <3> QED
      BY <1>0, <2>1, <3>1, <3>2 DEF Recency
  <2>2. CASE h.chunk.end # NoYear
    <3> DEFINE e == h.chunk.end
               f == e - (Now - Window)
    <3>1. e \in 0 .. Now /\ f \in Int /\ f <= Window
      BY <1>0, <1>1, <2>2
    <3>2. /\ e <= Now - Window => Year(h) = Now - Window
          /\ ~ e <= Now - Window => Year(h) = e
      BY <2>2 DEF Year
    <3>3. Recency(h) = (RecencyWeight * Max({0, Min({f, Window})})) \div Window
      BY <2>2 DEF Recency
    <3>4. Min({f, Window}) = f
      <4> HIDE DEF f
      <4> QED
        BY <1>0, <3>1 DEF Min
    <3>5. e <= Now - Window => f <= 0 /\ c(h) = 0
      BY <1>0, <3>1, <3>2
    <3>6. ~ e <= Now - Window => f \in 0 .. Window /\ f > 0 /\ c(h) = f
      BY <1>0, <3>1, <3>2
    <3>7. Max({0, f}) = c(h)
      <4> HIDE DEF f, c
      <4> QED
        BY <3>1, <3>5, <3>6 DEF Max
    <3>8. Year(h) \in Int /\ c(h) \in 0 .. Window
      BY <1>0, <3>1, <3>2, <3>5, <3>6
    <3> QED
      BY <3>3, <3>4, <3>7, <3>8
  <2> QED
    BY <2>1, <2>2
<1>2. /\ Year(hit) \in Int /\ c(hit) \in 0 .. Window
      /\ Recency(hit) = (RecencyWeight * c(hit)) \div Window
      /\ Year(other) \in Int /\ c(other) \in 0 .. Window
      /\ Recency(other) = (RecencyWeight * c(other)) \div Window
  BY <1>0, <1>1
<1>3. c(hit) <= c(other)
  BY <1>0, <1>2
<1> HIDE DEF c
<1> QED
  BY <1>0, <1>2, <1>3, Share

\* What the store returns stands in the order of distance.
LEMMA PoolShape ==
  ASSUME NEW p \in Pools
  PROVE  /\ p \in Seq(Hits) /\ Len(p) \in Nat /\ DOMAIN p = 1 .. Len(p)
         /\ \A i \in 1 .. Len(p) : p[i] \in Hits
         /\ \A i, j \in 1 .. Len(p) : i < j => p[i].distance <= p[j].distance
<1> DEFINE l == TopK * Overfetch
<1>1. /\ p \in SeqOf(Hits, l)
      /\ \A i \in 2 .. Len(p) : p[i - 1].distance <= p[i].distance
  BY DEF Pools, Hits
<1>2. l \in Nat
  BY RetrievalAssumption
<1> HIDE DEF l
<1>3. PICK n \in 0 .. l : p \in [1 .. n -> Hits]
  BY <1>1 DEF SeqOf
<1>4. n \in Nat
  BY <1>2
<1>5. p \in Seq(Hits) /\ Len(p) = n
  BY <1>3, <1>4
<1>6. \A i \in 1 .. n : p[i] \in Hits
  BY <1>3
<1>7. \A i \in 1 .. n : p[i].distance \in Int
  BY <1>6, RetrievalAssumption DEF Hits
<1> DEFINE d(i) == p[i].distance
           Good == {m \in Nat : \A i, j \in 1 .. n : i < j /\ j <= m => d(i) <= d(j)}
<1>8. \A i \in 2 .. n : d(i - 1) <= d(i)
  BY <1>1, <1>5
<1>9. \A i \in 1 .. n : d(i) \in Int
  BY <1>7
<1> HIDE DEF d
<1>10. 0 \in Good
  OBVIOUS
<1>11. ASSUME NEW m \in Good
       PROVE  m + 1 \in Good
  <2> SUFFICES ASSUME NEW i \in 1 .. n, NEW j \in 1 .. n, i < j, j = m + 1
               PROVE  d(i) <= d(j)
    <3>1. m \in Nat /\ \A i, j \in 1 .. n : i < j /\ j <= m => d(i) <= d(j)
      OBVIOUS
    <3>2. \A j \in 1 .. n : j <= m + 1 => j <= m \/ j = m + 1
      BY <3>1
    <3>3. \A i, j \in 1 .. n : i < j /\ j = m + 1 => d(i) <= d(j)
      OBVIOUS
    <3>4. \A i, j \in 1 .. n : i < j /\ j <= m + 1 => d(i) <= d(j)
      BY <3>1, <3>2, <3>3
    <3> QED
      BY <3>1, <3>4
  <2>1. j \in 2 .. n /\ j - 1 \in 1 .. n /\ j - 1 <= m /\ (i < j - 1 \/ i = j - 1)
    OBVIOUS
  <2>2. d(i) <= d(j - 1)
    <3>1. CASE i < j - 1
      BY <2>1, <3>1
    <3>2. CASE i = j - 1
      BY <1>9, <3>2
    <3> QED
      BY <2>1, <3>1, <3>2
  <2>3. d(j - 1) <= d(j)
    BY <1>8, <2>1
  <2>4. d(i) \in Int /\ d(j - 1) \in Int /\ d(j) \in Int
    BY <1>9, <2>1
  <2> QED
    BY <2>2, <2>3, <2>4
<1>12. Good = Nat
  <2> HIDE DEF Good
  <2>1. Good \in SUBSET Nat
    BY DEF Good
  <2> QED
    BY <2>1, <1>10, <1>11, EveryNumber
<1>13. \A i, j \in 1 .. n : i < j => d(i) <= d(j)
  <2>1. n \in Good /\ \A j \in 1 .. n : j <= n
    BY <1>4, <1>12
  <2> QED
    BY <2>1
<1> QED
  BY <1>4, <1>5, <1>6, <1>13 DEF d

\* Scores can be compared.
LEMMA ScoresAreNumbers ==
  ASSUME NEW p \in Pools, NEW b, Countable(b)
  PROVE  \A i \in 1 .. Len(p) :
           /\ Score(p[i], b) = Relevance(p[i]) + Boost(p[i], b) + Recency(p[i])
           /\ Relevance(p[i]) \in Int
           /\ Boost(p[i], b) \in 0 .. FilterWeight
           /\ Recency(p[i]) \in 0 .. RecencyWeight
           /\ Score(p[i], b) \in Int
<1> SUFFICES ASSUME NEW i \in 1 .. Len(p)
             PROVE  /\ Score(p[i], b) = Relevance(p[i]) + Boost(p[i], b) + Recency(p[i])
                    /\ Relevance(p[i]) \in Int
                    /\ Boost(p[i], b) \in 0 .. FilterWeight
                    /\ Recency(p[i]) \in 0 .. RecencyWeight
                    /\ Score(p[i], b) \in Int
  OBVIOUS
<1>1. p[i] \in Hits
  BY PoolShape
<1>2. p[i].distance \in Int
  BY <1>1, RetrievalAssumption DEF Hits
<1>3. Relevance(p[i]) \in Int
  <2>1. p[i].distance <= p[i].distance
    BY <1>2
  <2> QED
    BY <1>1, <2>1, RelevanceFalls
<1>4. Boost(p[i], b) \in 0 .. FilterWeight
  <2>1. Cardinality(Matched(p[i], b)) \in Nat
    BY <1>1, MatchesAndYears
  <2>2. Cardinality(Matched(p[i], b)) <= Cardinality(Matched(p[i], b))
    BY <2>1
  <2> QED
    BY <2>2, BoostRange
<1>5. Recency(p[i]) \in 0 .. RecencyWeight
  <2>1. Year(p[i]) \in Int
    BY <1>1, MatchesAndYears
  <2>2. Year(p[i]) <= Year(p[i])
    BY <2>1
  <2> QED
    BY <1>1, <2>2, RecencyRange
<1>6. FilterWeight \in Nat /\ RecencyWeight \in Nat
  BY RetrievalAssumption
<1>7. Score(p[i], b) = Relevance(p[i]) + Boost(p[i], b) + Recency(p[i])
  BY DEF Score
<1> QED
  BY <1>3, <1>4, <1>5, <1>6, <1>7

\* What _validate_boost keeps has normal names and values, finitely many fields,
\* and no field without a value; where nothing is kept there is no boost.
LEMMA ValidBoostShape ==
  ASSUME NEW s, NEW a \in Answers
  PROVE  /\ Countable(ValidBoost(s, a))
         /\ DOMAIN ValidBoost(s, a) \subseteq NormalKeys
         /\ \A k \in DOMAIN ValidBoost(s, a) :
              ValidBoost(s, a)[k] \in (SUBSET NormalValues) \ {{}}
<1> DEFINE b == ValidBoost(s, a)
<1>1. /\ a \in Seq([key : Keys, values : SUBSET Values])
      /\ \A i \in DOMAIN a : a[i].key \in Keys
      /\ DOMAIN a = 1 .. Len(a) /\ Len(a) \in Nat
      /\ \A i \in 1 .. Len(a) : a[i] \in [key : Keys, values : SUBSET Values]
  <2>1. a \in Seq([key : Keys, values : SUBSET Values]) /\ \A i \in DOMAIN a : a[i].key \in Keys
    BY AnswerShape
  <2> DEFINE E == [key : Keys, values : SUBSET Values]
  <2>2. a \in Seq(E)
    BY <2>1
  <2> HIDE DEF E
  <2>3. DOMAIN a = 1 .. Len(a) /\ Len(a) \in Nat /\ \A i \in 1 .. Len(a) : a[i] \in E
    BY <2>2
  <2> QED
    BY <2>1, <2>3 DEF E
<1>2. \A k \in DOMAIN b : \E i \in DOMAIN a : /\ NormalKey(a[i].key) = k
                                              /\ Kept(s, a[i]) # {}
                                              /\ b[k] = Kept(s, a[i])
  BY DecidingEntry
<1>3. \A i \in DOMAIN a : Kept(s, a[i]) \subseteq NormalValues
  <2> SUFFICES ASSUME NEW i \in DOMAIN a
               PROVE  Kept(s, a[i]) \subseteq NormalValues
    OBVIOUS
  <2>1. a[i] \in [key : Keys, values : SUBSET Values]
    BY <1>1
  <2>2. a[i].values \subseteq Values
    BY <2>1
  <2> QED
    BY <2>2 DEF Kept, NormalValues
<1>4. b = Nothing \/ DOMAIN b # {}
  <2> DEFINE D == {k \in Keys : {i \in DOMAIN a : NormalKey(a[i].key) = k /\ Kept(s, a[i]) # {}} # {}}
             v(k) == Kept(s, a[Max({i \in DOMAIN a : NormalKey(a[i].key) = k /\ Kept(s, a[i]) # {}})])
  <2>1. b = [k \in D |-> v(k)]
    BY DEF ValidBoost
  <2> HIDE DEF D, v, b
  <2>2. CASE D = {}
    <3>1. b = [k \in {} |-> v(k)]
      BY <2>1, <2>2
    <3>2. [k \in {} |-> v(k)] = <<>>
      OBVIOUS
    <3> QED
      BY <3>1, <3>2 DEF Nothing
  <2>3. CASE D # {}
    BY <2>1, <2>3
  <2> QED
    BY <2>2, <2>3
<1>5. IsFiniteSet(DOMAIN b)
  <2> DEFINE names == [i \in 1 .. Len(a) |-> NormalKey(a[i].key)]
             T == {names[i] : i \in 1 .. Len(a)}
  <2>1. names \in Surjection(1 .. Len(a), T)
    BY DEF Surjection
  <2>2. IsFiniteSet(1 .. Len(a))
    BY <1>1, FS_Interval
  <2>3. IsFiniteSet(T)
    BY <2>1, <2>2, FS_Surjection
  <2>4. DOMAIN b \subseteq T
    <3> HIDE DEF b
    <3> QED
      BY <1>1, <1>2
  <2> QED
    BY <2>3, <2>4, FS_Subset
<1>6. DOMAIN b \subseteq NormalKeys
  <2> HIDE DEF b
  <2> QED
    BY <1>1, <1>2 DEF NormalKeys
<1>7. \A k \in DOMAIN b : b[k] \in (SUBSET NormalValues) \ {{}}
  <2> HIDE DEF b
  <2> QED
    BY <1>2, <1>3
<1> QED
  BY <1>4, <1>5, <1>6, <1>7 DEF Countable

\* The state of a search: the boost is one that was validated, and the result is
\* the top of the pool for as long as there is one.
BoostInv ==
  /\ Countable(boost)
  /\ DOMAIN boost \subseteq NormalKeys
  /\ \A k \in DOMAIN boost : boost[k] \in (SUBSET NormalValues) \ {{}}

SearchInv ==
  /\ stage \in {"idle", "answered", "condensed", "retrieved"}
  /\ schema = Nothing \/ schema \in Schemas
  /\ IF stage = "retrieved" THEN pool \in Pools /\ result = Top(pool, boost)
                            ELSE pool = <<>> /\ result = <<>>

LEMMA SearchStaysRight == Spec => [](IInv /\ BoostInv /\ SearchInv)
<1>1. Nothing = <<>> /\ DOMAIN Nothing = {}
  BY DEF Nothing
<1>2. ASSUME boost = Nothing
      PROVE  BoostInv
  BY <1>1, <1>2 DEF BoostInv, Countable
<1>3. Init => BoostInv /\ SearchInv
  BY <1>1, <1>2 DEF Init, SearchInv
<1>4. IInv /\ BoostInv /\ [Next]_vars => BoostInv'
  <2> SUFFICES ASSUME IInv, BoostInv, [Next]_vars
               PROVE  BoostInv'
    OBVIOUS
  <2>1. CASE boost' = boost
    BY <2>1 DEF BoostInv
  <2>2. CASE boost' = Nothing
    BY <1>1, <2>2 DEF BoostInv, Countable
  <2>3. CASE Validate
    <3>1. boost' = ValidBoost(schema, filters) /\ filters \in Answers
      BY <2>3 DEF Validate, IInv
    <3> QED
      BY <3>1, ValidBoostShape DEF BoostInv
  <2> QED
    BY <2>1, <2>2, <2>3 DEF Next, Answer, Fallback, Retrieve, Finish, vars
<1>5. SearchInv /\ [Next]_vars => SearchInv'
  <2> SUFFICES ASSUME SearchInv, [Next]_vars
               PROVE  SearchInv'
    OBVIOUS
  <2> USE DEF SearchInv
  <2>1. CASE Answer
    BY <2>1 DEF Answer
  <2>2. CASE Fallback
    BY <2>2 DEF Fallback
  <2>3. CASE Validate
    BY <2>3 DEF Validate
  <2>4. CASE Retrieve
    BY <2>4 DEF Retrieve
  <2>5. CASE Finish
    BY <2>5 DEF Finish
  <2>6. CASE UNCHANGED vars
    BY <2>6 DEF vars
  <2> QED
    BY <2>1, <2>2, <2>3, <2>4, <2>5, <2>6 DEF Next
<1> QED
  BY <1>3, <1>4, <1>5, AnswersStayAnswers, PTL DEF Spec

\* What is returned is the top of a pool whose scores can be compared.
LEMMA ResultIsTop ==
  ASSUME BoostInv, SearchInv, stage = "retrieved"
  PROVE  /\ pool \in Pools /\ Len(pool) \in Nat /\ DOMAIN pool = 1 .. Len(pool)
         /\ result \in Seq(DOMAIN pool) /\ DOMAIN result = 1 .. Len(result)
         /\ Len(result) = Min({TopK, Len(pool)})
         /\ \A m \in DOMAIN result :
              \A j \in DOMAIN pool \ {result[n] : n \in 1 .. m} :
                Better(result[m], j, pool, boost)
<1>1. pool \in Pools /\ result = Top(pool, boost) /\ Countable(boost)
  BY DEF BoostInv, SearchInv
<1>2. Len(pool) \in Nat /\ DOMAIN pool = 1 .. Len(pool)
  BY <1>1, PoolShape
<1>3. \A i \in 1 .. Len(pool) : Score(pool[i], boost) \in Int
  BY <1>1, ScoresAreNumbers
<1>4. /\ result \in Seq(1 .. Len(pool))
      /\ Len(result) = Min({TopK, Len(pool)})
      /\ \A m \in 1 .. Len(result) :
           \A j \in (1 .. Len(pool)) \ {result[n] : n \in 1 .. m} :
             Better(result[m], j, pool, boost)
  BY <1>1, <1>2, <1>3, TopIsBest
<1>5. DOMAIN result = 1 .. Len(result)
  BY <1>4
<1> QED
  BY <1>1, <1>2, <1>4, <1>5

\* The state keeps its shape: above all, the share that _boost_factor divides by
\* counts fields that can match, whatever the model answered.
THEOREM TypeCorrect == Spec => []TypeOK
<1>1. IInv /\ BoostInv /\ SearchInv => TypeOK
  <2> SUFFICES ASSUME IInv, BoostInv, SearchInv
               PROVE  TypeOK
    OBVIOUS
  <2>1. filters \in Seq([key : Keys, values : SUBSET Values])
    BY AnswerShape DEF IInv
  <2>2. pool \in Seq([chunk : Chunks, distance : Distances]) /\ result \in Seq(DOMAIN pool)
    <3>1. CASE stage = "retrieved"
      <4>1. pool \in Seq(Hits)
        BY <3>1, ResultIsTop, PoolShape
      <4> QED
        BY <3>1, <4>1, ResultIsTop DEF Hits
    <3>2. CASE stage # "retrieved"
      <4>1. pool = <<>> /\ result = <<>>
        BY <3>2 DEF SearchInv
      <4> QED
        BY <4>1
    <3> QED
      BY <3>1, <3>2
  <2> QED
    BY <2>1, <2>2 DEF TypeOK, BoostInv, SearchInv
<1> QED
  BY <1>1, SearchStaysRight, PTL

\* Both functions cut the sorted fields at the same one.
LEMMA SameFields ==
  ASSUME NEW s \in Schemas
  PROVE  Listed(s) = CappedFields(s)
<1> SUFFICES ASSUME NEW k \in DOMAIN s
             PROVE  Cardinality({j \in DOMAIN s : j <= k}) <= MaxFields
                      <=> Cardinality({j \in DOMAIN s : j < k}) < MaxFields
  BY DEF Listed, CappedFields
<1> DEFINE before == {j \in DOMAIN s : j < k}
           upto == {j \in DOMAIN s : j <= k}
<1>1. DOMAIN s \subseteq Nat /\ MaxFields \in Nat
  BY RetrievalAssumption
<1>2. IsFiniteSet(before) /\ Cardinality(before) \in Nat
  <2>1. before \in SUBSET Nat /\ \A j \in before : j <= k
    BY <1>1
  <2>2. k \in Nat
    BY <1>1
  <2> HIDE DEF before
  <2> QED
    BY <2>1, <2>2, FS_BoundedSetOfNaturals, FS_CardinalityType
<1>3. upto = before \cup {k} /\ k \notin before
  BY <1>1
<1>4. Cardinality(upto) = Cardinality(before) + 1
  <2> HIDE DEF before, upto
  <2> QED
    BY <1>2, <1>3, FS_AddElement
<1> HIDE DEF before, upto
<1>5. Cardinality(upto) <= MaxFields <=> Cardinality(before) < MaxFields
  BY <1>1, <1>2, <1>4
<1> QED
  BY <1>5 DEF before, upto

\* A line of the prompt lists what the grammar enumerates, if that is anything.
LEMMA SameValues ==
  ASSUME NEW s \in Schemas, NEW k \in DOMAIN s
  PROVE  /\ ToSet(Rendered(s[k])) = CappedValues(s[k])
         /\ Rendered(s[k]) = <<>> <=> CappedValues(s[k]) = {}
<1> DEFINE list == s[k]
           n == Min({Len(list), MaxValues})
<1>1. list \in Seq(Values) /\ Len(list) \in Nat /\ DOMAIN list = 1 .. Len(list)
  BY RetrievalAssumption
<1>2. MaxValues \in Nat
  BY RetrievalAssumption
<1> HIDE DEF list
<1>3. n = IF Len(list) <= MaxValues THEN Len(list) ELSE MaxValues
  BY <1>1, <1>2, LesserOfTwo
<1> HIDE DEF n
<1>4. n \in Nat /\ 1 .. n = DOMAIN list \cap 1 .. MaxValues
  <2> DEFINE l == Len(list)
  <2>1. l \in Nat /\ MaxValues \in Nat /\ n = IF l <= MaxValues THEN l ELSE MaxValues
    BY <1>1, <1>2, <1>3
  <2> HIDE DEF l
  <2>2. n \in Nat /\ \A i \in Int : i \in 1 .. n <=> i \in 1 .. l /\ i \in 1 .. MaxValues
    BY <2>1
  <2>3. 1 .. n = 1 .. l \cap 1 .. MaxValues
    BY <2>2
  <2> QED
    BY <1>1, <2>2, <2>3 DEF l
<1>5. Rendered(list) = [i \in 1 .. n |-> NormalValue(list[i])]
  BY DEF Rendered, n
<1>6. ToSet(Rendered(list)) = {NormalValue(list[i]) : i \in 1 .. n}
  BY <1>5 DEF ToSet
<1>7. CappedValues(list) = {NormalValue(list[i]) : i \in 1 .. n}
  BY <1>4 DEF CappedValues
<1>8. Rendered(list) = <<>> <=> n = 0
  <2>1. DOMAIN Rendered(list) = 1 .. n
    BY <1>5
  <2>2. ASSUME n = 0 PROVE Rendered(list) = <<>>
    <3>1. Rendered(list) = [i \in {} |-> NormalValue(list[i])]
      BY <1>5, <2>2
    <3> QED
      BY <3>1
  <2>3. ASSUME Rendered(list) = <<>> PROVE n = 0
    BY <1>4, <2>1, <2>3
  <2> QED
    BY <2>2, <2>3
<1>9. CappedValues(list) = {} <=> n = 0
  <2>1. ASSUME n # 0 PROVE CappedValues(list) # {}
    <3>1. 1 \in 1 .. n
      BY <1>4, <2>1
    <3> QED
      BY <1>7, <3>1
  <2>2. ASSUME n = 0 PROVE CappedValues(list) = {}
    BY <1>7, <2>2
  <2> QED
    BY <2>1, <2>2
<1> QED
  BY <1>6, <1>7, <1>8, <1>9 DEF list

\* For every schema and all caps, and however names and values are spelled, the
\* lines that _build_system_prompt writes are what _build_json_schema accepts, and
\* the excluded fields.
THEOREM PromptOffersGrammar == Spec => []PromptMatchesGrammar
<1>1. TypeOK => PromptMatchesGrammar
  <2> SUFFICES ASSUME TypeOK PROVE PromptMatchesGrammar
    OBVIOUS
  <2>1. CASE schema = Nothing
    <3>1. DOMAIN schema = {}
      BY <2>1 DEF Nothing
    <3>2. Prompt(schema) = {} /\ DOMAIN Grammar(schema) = {}
      BY <3>1 DEF Prompt, Listed, Grammar, CappedFields
    <3> QED
      BY <3>2 DEF PromptMatchesGrammar
  <2>2. CASE schema \in Schemas
    <3> DEFINE lines == {<<line.name, ToSet(line.values)>> : line \in Prompt(schema)}
               offers == {<<NormalKey(k), Grammar(schema)[k]>> : k \in DOMAIN Grammar(schema)}
               written == {k \in CappedFields(schema) : CappedValues(schema[k]) # {}}
    <3>1. written \subseteq DOMAIN schema
      BY DEF CappedFields
    <3>2. Prompt(schema) = {[name |-> NormalKey(k), values |-> Rendered(schema[k])] : k \in written}
      <4>1. {k \in Listed(schema) : Rendered(schema[k]) # <<>>} = written
        BY <2>2, SameFields, SameValues DEF CappedFields
      <4> QED
        BY <4>1 DEF Prompt
    <3>3. \A k \in written : ToSet(Rendered(schema[k])) = CappedValues(schema[k])
      BY <2>2, <3>1, SameValues
    <3>4. /\ DOMAIN Grammar(schema) = written \ Excluded
          /\ \A k \in written \ Excluded : Grammar(schema)[k] = CappedValues(schema[k])
      BY DEF Grammar
    <3>5. \A k \in written \cap Excluded : NormalKey(k) \in Excluded
      BY RetrievalAssumption
    <3> HIDE DEF written
    <3>6. lines = {<<NormalKey(k), CappedValues(schema[k])>> : k \in written}
      <4> DEFINE Line(k) == [name |-> NormalKey(k), values |-> Rendered(schema[k])]
      <4>1. \A k \in written :
              <<Line(k).name, ToSet(Line(k).values)>> = <<NormalKey(k), CappedValues(schema[k])>>
        BY <3>3
      <4>2. Prompt(schema) = {Line(k) : k \in written}
        BY <3>2
      <4> HIDE DEF Line
      <4>3. lines = {<<Line(k).name, ToSet(Line(k).values)>> : k \in written}
        BY <4>2
      <4> QED
        BY <4>1, <4>3
    <3>7. offers = {<<NormalKey(k), CappedValues(schema[k])>> : k \in written \ Excluded}
      BY <3>4
    <3> HIDE DEF lines, offers
    <3>8. offers \subseteq lines /\ \A line \in lines \ offers : line[1] \in Excluded
      BY <3>5, <3>6, <3>7
    <3> QED
      BY <3>8 DEF PromptMatchesGrammar, lines, offers
  <2> QED
    BY <2>1, <2>2 DEF TypeOK
<1> QED
  BY <1>1, TypeCorrect, PTL

\* Whatever was found and whatever is boosted: as many candidates as asked for,
\* none left out in favour of a worse one, returned twice, or misplaced.
THEOREM BestAreReturned == Spec => []BestReturned
<1>1. BoostInv /\ SearchInv => BestReturned
  BY ResultIsTop DEF BestReturned
<1> QED
  BY <1>1, SearchStaysRight, PTL

\* The order of similarity changes only for a reason: the candidate that overtakes
\* matches more of the boost or ended later, and the one that it overtakes is closer
\* by less than both weights together, for all weights, windows and boosts.
THEOREM OvertakenOnlyForReason == Spec => []OvertakenForReason
<1>1. ASSUME BoostInv, SearchInv
      PROVE  OvertakenForReason
  <2> SUFFICES ASSUME NEW ij \in Overtaken
               PROVE  LET near == pool[ij[1]]
                          far == pool[ij[2]]
                      IN  /\ Relevance(near) - Relevance(far) < FilterWeight + RecencyWeight
                          /\ \/ Cardinality(Matched(far, boost)) > Cardinality(Matched(near, boost))
                             \/ Year(far) > Year(near)
    BY DEF OvertakenForReason
  <2> DEFINE i == ij[1]
             j == ij[2]
             near == pool[i]
             far == pool[j]
  <2>1. /\ i \in DOMAIN pool /\ j \in ToSet(result) /\ i < j
        /\ \A m, n \in DOMAIN result : result[m] = i /\ result[n] = j => n < m
    BY DEF Overtaken
  <2>2. stage = "retrieved"
    <3>1. CASE result = <<>>
      <4>1. ToSet(<<>>) = {}
        BY EmptyOrder
      <4> QED
        BY <2>1, <3>1, <4>1
    <3> QED
      BY <1>1, <3>1 DEF SearchInv
  <2>3. /\ pool \in Pools /\ Len(pool) \in Nat /\ DOMAIN pool = 1 .. Len(pool)
        /\ result \in Seq(DOMAIN pool) /\ DOMAIN result = 1 .. Len(result)
        /\ \A m \in DOMAIN result :
             \A k \in DOMAIN pool \ {result[n] : n \in 1 .. m} :
               Better(result[m], k, pool, boost)
    BY <1>1, <2>2, ResultIsTop
  <2> HIDE DEF i, j
  <2>4. PICK n \in DOMAIN result : result[n] = j
    BY <2>1 DEF ToSet
  <2>5. i \notin {result[m] : m \in 1 .. n}
    <3> SUFFICES ASSUME NEW m \in 1 .. n, result[m] = i
                 PROVE  FALSE
      OBVIOUS
    <3>1. m \in DOMAIN result /\ ~ n < m
      BY <2>3, <2>4
    <3> QED
      BY <2>1, <2>4, <3>1
  <2>6. Better(j, i, pool, boost)
    BY <2>1, <2>3, <2>4, <2>5
  <2>7. i \in 1 .. Len(pool) /\ j \in 1 .. Len(pool)
    <3>1. result[n] \in DOMAIN pool
      BY <2>3, <2>4
    <3> QED
      BY <2>1, <2>3, <2>4, <3>1
  <2>8. Score(far, boost) > Score(near, boost)
    <3>1. ~ (j < i)
      BY <2>1, <2>7
    <3> QED
      BY <2>6, <3>1 DEF Better
  <2>9. near \in Hits /\ far \in Hits /\ near.distance <= far.distance
    BY <2>1, <2>3, <2>7, PoolShape
  <2>10. /\ Score(near, boost) = Relevance(near) + Boost(near, boost) + Recency(near)
         /\ Score(far, boost) = Relevance(far) + Boost(far, boost) + Recency(far)
         /\ Relevance(near) \in Int /\ Relevance(far) \in Int
         /\ Boost(near, boost) \in 0 .. FilterWeight /\ Boost(far, boost) \in 0 .. FilterWeight
         /\ Recency(near) \in 0 .. RecencyWeight /\ Recency(far) \in 0 .. RecencyWeight
         /\ Countable(boost)
    <3>1. Countable(boost)
      BY <1>1 DEF BoostInv
    <3> QED
      BY <2>3, <2>7, <3>1, ScoresAreNumbers
  <2>11. Relevance(far) <= Relevance(near)
    BY <2>9, RelevanceFalls
  <2> HIDE DEF near, far
  <2>12. Relevance(near) - Relevance(far) < FilterWeight + RecencyWeight
    <3>1. FilterWeight \in Nat /\ RecencyWeight \in Nat
      BY RetrievalAssumption
    <3> QED
      BY <2>8, <2>10, <3>1
  <2>13. ~ (/\ Cardinality(Matched(far, boost)) <= Cardinality(Matched(near, boost))
            /\ Year(far) <= Year(near))
    <3> SUFFICES ASSUME Cardinality(Matched(far, boost)) <= Cardinality(Matched(near, boost)),
                        Year(far) <= Year(near)
                 PROVE  FALSE
      OBVIOUS
    <3>1. Boost(far, boost) <= Boost(near, boost)
      BY <2>10, BoostRange
    <3>2. Recency(far) <= Recency(near)
      BY <2>9, RecencyRange
    <3>3. FilterWeight \in Nat /\ RecencyWeight \in Nat
      BY RetrievalAssumption
    <3> QED
      BY <2>8, <2>10, <2>11, <3>1, <3>2, <3>3
  <2>14. /\ Cardinality(Matched(far, boost)) \in Nat /\ Cardinality(Matched(near, boost)) \in Nat
         /\ Year(far) \in Int /\ Year(near) \in Int
    BY <2>9, <2>10, MatchesAndYears
  <2>15. \/ Cardinality(Matched(far, boost)) > Cardinality(Matched(near, boost))
         \/ Year(far) > Year(near)
    BY <2>13, <2>14
  <2> QED
    BY <2>12, <2>15 DEF near, far, i, j
<1> QED
  BY <1>1, SearchStaysRight, PTL
====
