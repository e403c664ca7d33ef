---- MODULE BedrockCalls ----
(****************************************************************************)
(* Calls of Bedrock by the clients of one engine: the condensation and the  *)
(* answer (BedrockLLMClient of llm.py, each with a configuration of its     *)
(* own), and the embedding of the query.  A call is one request of the      *)
(* program and up to TotalAttempts requests of botocore, which repeats one  *)
(* that failed for a transient reason while its retry quota lasts, and      *)
(* raises the last error otherwise.  How long an attempt takes is left out. *)
(****************************************************************************)
EXTENDS Integers

CONSTANTS
  MaxAttempts  \* client |-> retries["max_attempts"] of its configuration

Clients == {"condense", "embed", "answer"}

ASSUME CallsAssumption == MaxAttempts \in [Clients -> Nat]

VARIABLES
  client,    \* whose call runs, or ran last
  attempts,  \* requests that were sent for it
  outcome    \* of that call, "pending" while it runs, "none" before the first

callVars == <<client, attempts, outcome>>

\* A read timeout, and a server that cannot be reached, throttles or fails.
Transient == {"timeout", "server"}

\* A result that is of use, one without text, and what converse raises.
Outcomes == {"usable", "blank", "rejected"} \cup Transient

NoCalls == client = "condense" /\ attempts = 0 /\ outcome = "none"

ForgetCalls == client' = "condense" /\ attempts' = 0 /\ outcome' = "none"

\* botocore: max_attempts in the configuration of a client counts the retries.
TotalAttempts(c) == MaxAttempts[c] + 1

\* generate, generate_json or embed_query sends its request.
BeginCall(c) == client' = c /\ attempts' = 1 /\ outcome' = "pending"

\* A transient failure is followed by another attempt.
Retry ==
  /\ outcome = "pending"
  /\ attempts < TotalAttempts(client)
  /\ attempts' = attempts + 1
  /\ UNCHANGED <<client, outcome>>

\* The call returns, is rejected, or fails with no attempt or no quota left.
EndCall(result) ==
  /\ outcome' = result
  /\ UNCHANGED <<client, attempts>>
====
