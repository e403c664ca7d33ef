---- MODULE EngineProvider ----
(****************************************************************************)
(* _EngineProvider of webapp.py: the engine is built by the first request   *)
(* that needs it, under a lock the others wait at, and shared from then on. *)
(* A failed construction is not remembered.                                 *)
(****************************************************************************)
CONSTANT NoBuilder

VARIABLES
  built,   \* _engine is not None
  builder  \* the request that holds the provider's lock while it builds

providerVars == <<built, builder>>

ProviderInit == built = FALSE /\ builder = NoBuilder

\* get() by a request that finds the engine.
EngineFound == builder = NoBuilder /\ built /\ UNCHANGED providerVars

\* Mutants: no second look at _engine under the lock, and no release of it.
BeginBuildAgain(r) ==
  /\ builder = NoBuilder
  /\ builder' = r
  /\ UNCHANGED built

EndBuildLocked(r, success) ==
  /\ builder = r
  /\ built' = success
  /\ UNCHANGED builder

\* get() by the request that enters the factory.
BeginBuild(r) ==
  /\ builder = NoBuilder
  /\ ~ built
  /\ builder' = r
  /\ UNCHANGED built

EndBuild(r, success) ==
  /\ builder = r
  /\ built' = success
  /\ builder' = NoBuilder
====
