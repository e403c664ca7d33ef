---- MODULE MCRetrieval ----
EXTENDS Retrieval, TLC

\* "Status", "startdate", "status" and "tech", in the order of their code points.
MCNormalKey(k) == IF k = 1 THEN 3 ELSE k

\* "Go", "go" and "java".
MCNormalValue(v) == IF v = "Go" THEN "go" ELSE v

MCSchemas ==
  UNION {[ks -> {<<>>, <<"Go", "java">>, <<"go", "Go", "java">>}] : ks \in SUBSET Keys}

MCDistances == {-1, 0, 1, 3}

\* An undated chunk, a period before the window, one within it, and current ones
\* that match one field or both.
MCChunks ==
  {[meta |-> Nothing, end |-> NoYear],
   [meta |-> Nothing, end |-> 1],
   [meta |-> 3 :> {"java"}, end |-> 4],
   [meta |-> 3 :> {"go"}, end |-> 5],
   [meta |-> 3 :> {"go", "java"} @@ 4 :> {"java"}, end |-> 5]}

\* The divisions are exact.
ASSUME
  /\ \A d \in Distances : Unit % (1 + Max({d, 0})) = 0
  /\ \A n \in 1 .. MaxEntries : FilterWeight % n = 0
  /\ RecencyWeight % Window = 0
====
