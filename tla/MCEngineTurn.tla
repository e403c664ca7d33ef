---- MODULE MCEngineTurn ----
EXTENDS EngineTurn, TLC, FiniteSets

CONSTANTS m1, m2, m3

MCModels == {m1, m2, m3}
MCDimension == m1 :> 2 @@ m2 :> 2 @@ m3 :> 3

\* llm.py, and a client of embeddings with one retry.
MCMaxAttempts == "condense" :> 1 @@ "embed" :> 1 @@ "answer" :> 2

Unset == [f \in {} |-> 0]

\* Two environments that are accepted, one that must not be, and one for each
\* number below its bounds.
MCEnvironments ==
  {Unset, "rate_limit_per_hour" :> 10, "rate_limit_per_hour" :> 9}
    \cup {f :> 0 : f \in Numbers \ {"filter_weight", "recency_weight"}}
    \cup {f :> Malformed : f \in Numbers \cup Texts}

MCArguments == {Unset, "top_k" :> 0}
====
