---- MODULE Configuration ----
(****************************************************************************)
(* Settings of config.py: read from the environment, checked, overridden by *)
(* the arguments of the command line and checked again.  A value is a whole *)
(* number (weights in hundredths), Proper for a text that passes its check, *)
(* or Malformed for anything that cannot be parsed or is no such text.      *)
(****************************************************************************)
EXTENDS Integers

CONSTANTS Proper, Malformed

Defaults ==
  [top_k |-> 4, overfetch_factor |-> 4, filter_weight |-> 20, recency_weight |-> 20,
   recency_window_years |-> 10, max_context_tokens |-> 32000,
   response_token_buffer |-> 2048, rate_limit_per_minute |-> 10,
   rate_limit_per_hour |-> 60, conversation_ttl_seconds |-> 1800,
   max_conversations |-> 50, chroma_port |-> 8000, web_port |-> 8080]

Numbers == DOMAIN Defaults
Texts == {"chroma_host", "collection_name", "aws_region", "llm_model_id", "web_host",
          "log_level", "cors_allowed_origins"}

\* The value that given, a part of the environment or of the arguments, sets.
Given(given, f, otherwise) == IF f \in DOMAIN given THEN given[f] ELSE otherwise

\* from_env, before the check.
FromEnv(env) ==
  [f \in Numbers \cup Texts |->
     Given(env, f, IF f \in Numbers THEN Defaults[f] ELSE Proper)]

\* with_overrides: arguments that are not given change nothing.
WithOverrides(s, arguments) == [f \in DOMAIN s |-> Given(arguments, f, s[f])]

\* require_below of cvbot_core, taken by its name.
Below(value, limit) == value < limit

Parsed(s) ==
  /\ \A f \in Numbers : s[f] # Malformed
  /\ \A f \in Texts : s[f] = Proper

\* require_port of cvbot_core.
Ports == 1 .. 65535

\* RankingConfig.__post_init__
RankingAccepted(s) ==
  /\ s.overfetch_factor > 0 /\ Below(s.overfetch_factor, 20)
  /\ {s.filter_weight, s.recency_weight} \subseteq 0 .. 100
  /\ s.recency_window_years > 0

\* Mutant: the budget of the hour may be smaller than that of the minute.
AcceptedAnyHour(s) ==
  /\ Parsed(s) /\ RankingAccepted(s)
  /\ \A f \in {"top_k", "max_context_tokens", "response_token_buffer",
               "rate_limit_per_minute", "conversation_ttl_seconds",
               "max_conversations"} : s[f] > 0
  /\ Below(s.response_token_buffer, s.max_context_tokens)
  /\ {s.chroma_port, s.web_port} \subseteq Ports

\* Settings.__post_init__.
Accepted(s) ==
  /\ Parsed(s) /\ RankingAccepted(s)
  /\ \A f \in {"top_k", "max_context_tokens", "response_token_buffer",
               "rate_limit_per_minute", "conversation_ttl_seconds",
               "max_conversations"} : s[f] > 0
  /\ Below(s.response_token_buffer, s.max_context_tokens)
  /\ s.rate_limit_per_hour >= s.rate_limit_per_minute
  /\ {s.chroma_port, s.web_port} \subseteq Ports
====
