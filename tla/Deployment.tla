---- MODULE Deployment ----
(****************************************************************************)
(* The two workflows that change the web application's service: deploy.yml, *)
(* which rolls out a new task definition, and lifecycle.yml, which starts   *)
(* and stops the web application together with ChromaDB.  Each has a        *)
(* concurrency group of its own, so that one deployment and one lifecycle   *)
(* command may run at the same time.                                        *)
(*                                                                          *)
(* Every call of AWS is a step.  ECS is external: it starts a task of the   *)
(* current revision while one is desired, retires the task of an older one  *)
(* once the newer runs, and stops every task while none is desired.  Its    *)
(* waits end when the service is stable, or fail.                           *)
(****************************************************************************)
EXTENDS Integers, FiniteSets

CONSTANTS
  MaxPushes,   \* bound of the deployments
  MaxCommands  \* bound of the lifecycle commands

ASSUME DeploymentAssumption == MaxPushes \in Nat /\ MaxCommands \in Nat

VARIABLES
  revision,  \* task definition the web service points at
  desired,   \* desired count of the web service
  tasks,     \* revisions of the web tasks that run
  chromaDesired, chromaRuns,
  deploy,    \* step of each deployment; d registers revision d
  count,     \* steps.current.outputs.count of each deployment
  command,   \* step of the lifecycle command that runs
  commands,  \* lifecycle commands so far
  stopped    \* whether the last command to change the web service stopped it

Deployments == 1 .. MaxPushes

ecsVars == <<revision, desired, tasks>>
chromaVars == <<chromaDesired, chromaRuns>>
deployVars == <<deploy, count>>
commandVars == <<command, commands, stopped>>
vars == <<ecsVars, chromaVars, deployVars, commandVars>>

\* Both services are stopped, or both run.
Init ==
  /\ revision = 0
  /\ desired \in {0, 1} /\ chromaDesired = desired
  /\ tasks = (IF desired = 1 THEN {0} ELSE {})
  /\ chromaRuns = (desired = 1)
  /\ deploy = [d \in Deployments |-> "new"] /\ count = [d \in Deployments |-> 0]
  /\ command = "idle" /\ commands = 0
  /\ stopped = (desired = 0)

\* aws ecs wait services-stable
WebStable == tasks = IF desired = 1 THEN {revision} ELSE {}
ChromaStable == chromaRuns <=> chromaDesired = 1

DeployStep(d, from, to) == deploy[d] = from /\ deploy' = [deploy EXCEPT ![d] = to]
Running == {d \in Deployments : deploy[d] \notin {"new", "done", "failed"}}
CommandStep(from, to) == command = from /\ command' = to
----------------------------------------------------------------------------
\* Mutant: without the concurrency group.
StartDeployAnyway(d) ==
  /\ \A e \in 1 .. d - 1 : deploy[e] # "new"
  /\ DeployStep(d, "new", "registered")
  /\ UNCHANGED <<ecsVars, chromaVars, count, commandVars>>

\* A run of the workflow enters its concurrency group: tests, image and a new
\* revision of the task definition.
StartDeploy(d) ==
  /\ Running = {}
  /\ \A e \in 1 .. d - 1 : deploy[e] # "new"
  /\ DeployStep(d, "new", "registered")
  /\ UNCHANGED <<ecsVars, chromaVars, count, commandVars>>

\* Read current desired count; the next step is skipped if it is 0.
ReadCount(d) ==
  /\ DeployStep(d, "registered", IF desired = 0 THEN "point" ELSE "stop")
  /\ count' = [count EXCEPT ![d] = desired]
  /\ UNCHANGED <<ecsVars, chromaVars, commandVars>>

StopTask(d) ==
  /\ DeployStep(d, "stop", "drain")
  /\ desired' = 0
  /\ UNCHANGED <<revision, tasks, chromaVars, count, commandVars>>

\* Mutant: without waiting for the old task to be gone.
DrainedAtOnce(d) ==
  /\ DeployStep(d, "drain", "point")
  /\ UNCHANGED <<ecsVars, chromaVars, count, commandVars>>

Drained(d) ==
  /\ DeployStep(d, "drain", "point")
  /\ WebStable
  /\ UNCHANGED <<ecsVars, chromaVars, count, commandVars>>

\* Mutant: the count is left as it is, which is 0 after the task was stopped.
PointKeepingCount(d) ==
  /\ DeployStep(d, "point", IF count[d] = 0 THEN "done" ELSE "wait")
  /\ revision' = d
  /\ UNCHANGED <<desired, tasks, chromaVars, count, commandVars>>

\* Point the service at the new revision, with the count read before.
Point(d) ==
  /\ DeployStep(d, "point", IF count[d] = 0 THEN "done" ELSE "wait")
  /\ revision' = d
  /\ desired' = count[d]
  /\ UNCHANGED <<tasks, chromaVars, count, commandVars>>

RolledOut(d) ==
  /\ DeployStep(d, "wait", "done")
  /\ WebStable
  /\ UNCHANGED <<ecsVars, chromaVars, count, commandVars>>

\* A call fails or a wait times out, and the steps after it do not run.
DeployFails(d) ==
  /\ d \in Running
  /\ deploy' = [deploy EXCEPT ![d] = "failed"]
  /\ UNCHANGED <<ecsVars, chromaVars, count, commandVars>>
----------------------------------------------------------------------------
\* A run of the other workflow: start, or stop.
StartCommand ==
  /\ commands < MaxCommands
  /\ commands' = commands + 1
  /\ \E first \in {"start chroma", "stop web"} : CommandStep("idle", first)
  /\ UNCHANGED <<ecsVars, chromaVars, deployVars, stopped>>

StartChroma ==
  /\ CommandStep("start chroma", "chroma starts")
  /\ chromaDesired' = 1
  /\ UNCHANGED <<ecsVars, chromaRuns, deployVars, commands, stopped>>

ChromaStarted ==
  /\ CommandStep("chroma starts", "start web")
  /\ ChromaStable
  /\ UNCHANGED <<ecsVars, chromaVars, deployVars, commands, stopped>>

StartWeb ==
  /\ CommandStep("start web", "web starts")
  /\ desired' = 1
  /\ stopped' = FALSE
  /\ UNCHANGED <<revision, tasks, chromaVars, deployVars, commands>>

\* The probe of the public endpoint changes nothing.
WebStarted ==
  /\ CommandStep("web starts", "idle")
  /\ WebStable
  /\ UNCHANGED <<ecsVars, chromaVars, deployVars, commands, stopped>>

StopWeb ==
  /\ CommandStep("stop web", "web stops")
  /\ desired' = 0
  /\ stopped' = TRUE
  /\ UNCHANGED <<revision, tasks, chromaVars, deployVars, commands>>

\* Mutant: ChromaDB goes down without waiting for the web application.
WebStoppedAtOnce ==
  /\ CommandStep("web stops", "stop chroma")
  /\ UNCHANGED <<ecsVars, chromaVars, deployVars, commands, stopped>>

WebStopped ==
  /\ CommandStep("web stops", "stop chroma")
  /\ WebStable
  /\ UNCHANGED <<ecsVars, chromaVars, deployVars, commands, stopped>>

StopChroma ==
  /\ CommandStep("stop chroma", "chroma stops")
  /\ chromaDesired' = 0
  /\ UNCHANGED <<ecsVars, chromaRuns, deployVars, commands, stopped>>

ChromaStopped ==
  /\ CommandStep("chroma stops", "idle")
  /\ ChromaStable
  /\ UNCHANGED <<ecsVars, chromaVars, deployVars, commands, stopped>>

CommandFails ==
  /\ command # "idle" /\ command' = "idle"
  /\ UNCHANGED <<ecsVars, chromaVars, deployVars, commands, stopped>>
----------------------------------------------------------------------------
\* ECS, as the workflows rely on it.
Launch ==
  /\ desired = 1 /\ revision \notin tasks
  /\ tasks' = tasks \cup {revision}
  /\ UNCHANGED <<revision, desired, chromaVars, deployVars, commandVars>>

Retire ==
  /\ \E t \in tasks :
       /\ desired = 0 \/ (t # revision /\ revision \in tasks)
       /\ tasks' = tasks \ {t}
  /\ UNCHANGED <<revision, desired, chromaVars, deployVars, commandVars>>

ChromaChanges ==
  /\ ~ ChromaStable
  /\ chromaRuns' = ~ chromaRuns
  /\ UNCHANGED <<ecsVars, chromaDesired, deployVars, commandVars>>

DeployNext ==
  \E d \in Deployments :
    \/ StartDeploy(d) \/ ReadCount(d) \/ StopTask(d) \/ Drained(d)
    \/ Point(d) \/ RolledOut(d) \/ DeployFails(d)

CommandNext ==
  \/ StartCommand \/ CommandFails
  \/ StartChroma \/ ChromaStarted \/ StartWeb \/ WebStarted
  \/ StopWeb \/ WebStopped \/ StopChroma \/ ChromaStopped

Next == DeployNext \/ CommandNext \/ Launch \/ Retire \/ ChromaChanges

Spec == Init /\ [][Next]_vars
----------------------------------------------------------------------------
DeploySteps == {"new", "registered", "stop", "drain", "point", "wait", "done", "failed"}
CommandSteps == {"idle", "start chroma", "chroma starts", "start web", "web starts",
                 "stop web", "web stops", "stop chroma", "chroma stops"}

\* At most one deployment runs, and neither the service nor a task is ahead of
\* the revisions that were registered.
TypeOK ==
  /\ deploy \in [Deployments -> DeploySteps] /\ Cardinality(Running) <= 1
  /\ count \in [Deployments -> {0, 1}]
  /\ revision \in {0} \cup {d \in Deployments : deploy[d] # "new"}
  /\ tasks \subseteq 0 .. revision
  /\ {desired, chromaDesired} \subseteq {0, 1}
  /\ {chromaRuns, stopped} \subseteq BOOLEAN
  /\ command \in CommandSteps /\ commands \in 0 .. MaxCommands

\* Nobody has used lifecycle.yml yet, or deploy.yml.
OnlyDeployments == commands = 0
OnlyCommands == \A d \in Deployments : deploy[d] = "new"

\* "Draining first keeps the single-task guarantee": deployments alone, even if
\* they fail, never run two tasks side by side, which would split the
\* conversations kept in memory.
OneTask == OnlyDeployments => Cardinality(tasks) <= 1

\* "A stopped service (desired count 0) stays stopped": it is started again
\* through lifecycle.yml only.
StoppedStaysStopped == stopped => desired = 0

\* Deployments alone restore the count they find: they keep a stopped service
\* stopped at every moment, and a started service that is down was stopped by
\* one of them, which is about to restore it or failed in between, at the latest
\* in the wait for the old task; whatever was deployed since then read 0.
CountRestored ==
  OnlyDeployments =>
    /\ StoppedStaysStopped
    /\ ~ stopped /\ desired = 0 =>
         \E d \in Deployments :
           /\ count[d] = 1 /\ deploy[d] \in {"drain", "point", "failed"}
           /\ \A e \in d + 1 .. MaxPushes : count[e] = 0

\* "On start ChromaDB comes up first, on stop the web app goes down first":
\* start and stop alone never let the web application run without ChromaDB,
\* whichever call fails.
ChromaBelowWeb == OnlyCommands /\ tasks # {} => chromaRuns

\* "Deployments must never overlap": no deployment takes back the revision that
\* a later one has rolled out, nor the task that it started.
NeverOlder ==
  [][revision' >= revision /\ \A t \in tasks' \ tasks : \A u \in tasks : t >= u]_vars
====
