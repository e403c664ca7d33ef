---- MODULE DeploymentProofs ----
(****************************************************************************)
(* For any number of deployments and of start and stop commands, failing at *)
(* any call: revisions never go back; deployments alone run one task at     *)
(* most and restore the count they find; and commands alone never run the   *)
(* web application without ChromaDB.                                        *)
(****************************************************************************)
EXTENDS Deployment, FiniteSetTheorems, TLAPS

\* TypeOK without the cardinality.
Types ==
  /\ deploy \in [Deployments -> DeploySteps]
  /\ count \in [Deployments -> {0, 1}]
  /\ revision \in {0} \cup {d \in Deployments : deploy[d] # "new"}
  /\ tasks \subseteq 0 .. revision
  /\ {desired, chromaDesired} \subseteq {0, 1}
  /\ {chromaRuns, stopped} \subseteq BOOLEAN
  /\ command \in CommandSteps /\ commands \in 0 .. MaxCommands

\* Deployments start in the order of their revisions, and the one that runs is
\* the last that started.
InOrder ==
  \A d \in Deployments :
    /\ deploy[d] # "new" => \A e \in Deployments : e < d => deploy[e] # "new"
    /\ d \in Running => \A e \in Deployments : e > d => deploy[e] = "new"
    /\ deploy[d] \in {"new", "registered"} => count[d] = 0
    /\ deploy[d] \in {"stop", "drain"} => count[d] = 1

\* A service that is about to be pointed at a new revision has been stopped, and
\* is empty if it is going to be started again.
Drains ==
  OnlyDeployments =>
    /\ command = "idle"
    /\ \A t, u \in tasks : t = u
    /\ desired = 1 => tasks \subseteq {revision}
    /\ \A d \in Deployments :
         /\ deploy[d] \in {"drain", "point"} => desired = 0
         /\ deploy[d] = "point" /\ count[d] = 1 => tasks = {}
    /\ stopped => desired = 0 /\ \A d \in Deployments : count[d] = 0

\* The part of CountRestored that is not in Drains.
Restores ==
  OnlyDeployments /\ ~ stopped /\ desired = 0 =>
    \E d \in Deployments :
      /\ count[d] = 1 /\ deploy[d] \in {"drain", "point", "failed"}
      /\ \A e \in d + 1 .. MaxPushes : count[e] = 0

\* The web service is there, or will be, only above a ChromaDB that stays.
ChromaFirst ==
  OnlyCommands =>
    /\ desired = 1 \/ tasks # {} \/ command = "start web" =>
         chromaRuns /\ chromaDesired = 1
    /\ command = "chroma starts" => chromaDesired = 1
    /\ command \in {"web stops", "stop chroma"} => desired = 0
    /\ command = "stop chroma" => tasks = {}

IInv == Types /\ InOrder /\ Drains /\ Restores /\ ChromaFirst

\* The deployment that runs is the only one, whatever else is running.
LEMMA OneRuns ==
  ASSUME Types, InOrder, NEW d \in Running, NEW e \in Running
  PROVE  d = e
<1>1. d \in Deployments /\ e \in Deployments /\ deploy[d] # "new" /\ deploy[e] # "new"
  BY DEF Running
<1>2. ~ (d < e) /\ ~ (e < d)
  BY <1>1 DEF InOrder
<1> QED
  BY <1>1, <1>2 DEF Deployments

\* What a step of deployment d leaves alone, and where it is afterwards.
LEMMA StepOfOne ==
  ASSUME Types, NEW d \in Deployments, NEW from, NEW to, DeployStep(d, from, to)
  PROVE  /\ deploy[d] = from /\ deploy'[d] = to
         /\ \A e \in Deployments : e # d => deploy'[e] = deploy[e]
         /\ DOMAIN deploy' = Deployments
BY DEF Types, DeployStep

LEMMA StepKeepsTypes ==
  ASSUME Types, InOrder, [Next]_vars
  PROVE  Types' /\ revision' >= revision
<1> USE DEF Types
<1>0. /\ revision \in Int /\ MaxPushes \in Nat /\ Deployments \subseteq Nat
      /\ \A d \in Deployments : d \in Nat /\ d > 0
  BY DeploymentAssumption DEF Deployments
<1>1. ASSUME NEW d \in Deployments,
             StartDeploy(d) \/ ReadCount(d) \/ StopTask(d) \/ Drained(d) \/ RolledOut(d)
               \/ DeployFails(d)
      PROVE  Types' /\ revision' = revision
  <2>1. /\ UNCHANGED <<revision, tasks, chromaVars, commandVars>> /\ desired' \in {0, 1}
        /\ count' \in [Deployments -> {0, 1}]
    BY <1>1 DEF StartDeploy, ReadCount, StopTask, Drained, RolledOut, DeployFails, ecsVars
  <2>2. PICK to \in DeploySteps \ {"new"} : deploy' = [deploy EXCEPT ![d] = to]
    BY <1>1 DEF StartDeploy, ReadCount, StopTask, Drained, RolledOut, DeployFails,
                DeployStep, DeploySteps
  <2>3. /\ deploy' \in [Deployments -> DeploySteps]
        /\ \A e \in Deployments : deploy[e] # "new" => deploy'[e] # "new"
    BY <2>2
  <2> QED
    BY <2>1, <2>3 DEF chromaVars, commandVars
<1>2. ASSUME NEW d \in Deployments, Point(d)
      PROVE  Types' /\ revision' >= revision
  <2>1. /\ revision' = d /\ desired' = count[d] /\ deploy[d] = "point"
        /\ UNCHANGED <<tasks, chromaVars, count, commandVars>>
    BY <1>2 DEF Point, DeployStep
  <2>2. PICK to \in DeploySteps \ {"new"} : deploy' = [deploy EXCEPT ![d] = to]
    BY <1>2 DEF Point, DeployStep, DeploySteps
  <2>3. deploy' \in [Deployments -> DeploySteps] /\ deploy'[d] # "new"
    BY <2>2
  <2>4. revision <= d
    <3>1. d \in Running
      BY <2>1 DEF Running
    <3>2. ASSUME revision > d
          PROVE  FALSE
      <4>1. revision \in Deployments /\ deploy[revision] # "new"
        BY <3>2, <1>0
      <4> QED
        BY <4>1, <3>1, <3>2 DEF InOrder
    <3> QED
      BY <3>2, <1>0
  <2>5. tasks \subseteq 0 .. d
    BY <2>4, <1>0
  <2> QED
    BY <2>1, <2>3, <2>4, <2>5 DEF chromaVars, commandVars
<1>3. ASSUME CommandNext
      PROVE  Types' /\ revision' = revision
  <2>1. /\ UNCHANGED <<revision, tasks, deployVars, chromaRuns>>
        /\ {desired', chromaDesired'} \subseteq {0, 1} /\ stopped' \in BOOLEAN
    BY <1>3 DEF CommandNext, StartCommand, CommandFails, StartChroma, ChromaStarted, StartWeb,
                WebStarted, StopWeb, WebStopped, StopChroma, ChromaStopped, ecsVars, chromaVars
  <2>2. command' \in CommandSteps
    BY <1>3 DEF CommandNext, StartCommand, CommandFails, StartChroma, ChromaStarted, StartWeb,
                WebStarted, StopWeb, WebStopped, StopChroma, ChromaStopped, CommandStep,
                CommandSteps
  <2>3. commands' \in 0 .. MaxCommands
    <3>1. commands' = commands \/ (commands < MaxCommands /\ commands' = commands + 1)
      BY <1>3 DEF CommandNext, StartCommand, CommandFails, StartChroma, ChromaStarted, StartWeb,
                  WebStarted, StopWeb, WebStopped, StopChroma, ChromaStopped, commandVars
    <3> QED
      BY <3>1, DeploymentAssumption
  <2> QED
    BY <2>1, <2>2, <2>3 DEF deployVars
<1>4. ASSUME Launch \/ Retire
      PROVE  Types' /\ revision' = revision
  <2>1. /\ UNCHANGED <<revision, desired, chromaVars, deployVars, commandVars>>
        /\ tasks' \subseteq tasks \cup {revision}
    BY <1>4 DEF Launch, Retire
  <2>2. tasks' \subseteq 0 .. revision
    <3>1. revision \in 0 .. revision
      BY <1>0
    <3> QED
      BY <2>1, <3>1
  <2> QED
    BY <2>1, <2>2 DEF chromaVars, deployVars, commandVars
<1>5. ASSUME ChromaChanges
      PROVE  Types' /\ revision' = revision
  BY <1>5 DEF ChromaChanges, ecsVars, deployVars, commandVars
<1>6. ASSUME UNCHANGED vars
      PROVE  Types' /\ revision' = revision
  BY <1>6 DEF vars, ecsVars, chromaVars, deployVars, commandVars
<1> QED
  BY <1>0, <1>1, <1>2, <1>3, <1>4, <1>5, <1>6 DEF Next, DeployNext

LEMMA StepKeepsOrder ==
  ASSUME Types, InOrder, [Next]_vars
  PROVE  InOrder'
<1>0. /\ Deployments \subseteq Nat
      /\ deploy \in [Deployments -> DeploySteps] /\ count \in [Deployments -> {0, 1}]
      /\ desired \in {0, 1}
  BY DeploymentAssumption DEF Deployments, Types
<1>1. ASSUME NEW d \in Deployments, StartDeploy(d)
      PROVE  InOrder'
  <2>1. /\ deploy[d] = "new" /\ deploy'[d] = "registered" /\ count' = count
        /\ \A e \in Deployments : e # d => deploy'[e] = deploy[e]
        /\ \A e \in Deployments : deploy[e] \in {"new", "done", "failed"}
        /\ \A e \in Deployments : e < d => deploy[e] # "new"
    BY <1>0, <1>1, StepOfOne DEF StartDeploy, Running, Deployments, deployVars
  <2>2. \A e \in Deployments : e > d => deploy[e] = "new"
    BY <2>1, <1>0 DEF InOrder
  <2> QED
    BY <2>1, <2>2, <1>0 DEF InOrder, Running
<1>2. ASSUME NEW d \in Deployments,
             ReadCount(d) \/ StopTask(d) \/ Drained(d) \/ Point(d) \/ RolledOut(d)
               \/ DeployFails(d)
      PROVE  InOrder'
  <2>1. /\ d \in Running /\ deploy'[d] # "new"
        /\ \A e \in Deployments : e # d => deploy'[e] = deploy[e] /\ count'[e] = count[e]
        /\ deploy'[d] # "registered"
        /\ deploy'[d] \in {"stop", "drain"} => count'[d] = 1
    <3>1. CASE ReadCount(d)
      BY <3>1, <1>0, StepOfOne DEF ReadCount, Running
    <3>2. CASE StopTask(d) \/ Drained(d)
      BY <3>2, <1>0, StepOfOne DEF StopTask, Drained, Running, InOrder
    <3>3. CASE Point(d) \/ RolledOut(d)
      BY <3>3, <1>0, StepOfOne DEF Point, RolledOut, Running
    <3>4. CASE DeployFails(d)
      BY <3>4, <1>0 DEF DeployFails, Running
    <3> QED
      BY <3>1, <3>2, <3>3, <3>4, <1>2
  <2> QED
    BY <2>1, <1>0 DEF InOrder, Running
<1>3. ASSUME UNCHANGED deployVars
      PROVE  InOrder'
  BY <1>3 DEF deployVars, InOrder, Running
<1>4. CommandNext \/ Launch \/ Retire \/ ChromaChanges \/ UNCHANGED vars => UNCHANGED deployVars
  BY DEF CommandNext, StartCommand, CommandFails, StartChroma, ChromaStarted, StartWeb,
         WebStarted, StopWeb, WebStopped, StopChroma, ChromaStopped,
         Launch, Retire, ChromaChanges, vars
<1> QED
  BY <1>1, <1>2, <1>3, <1>4 DEF Next, DeployNext

LEMMA StepKeepsDrains ==
  ASSUME Types, InOrder, Drains, Restores, [Next]_vars
  PROVE  Drains' /\ Restores'
<1> SUFFICES ASSUME OnlyDeployments'
             PROVE  Drains' /\ Restores'
  BY DEF Drains, Restores
<1>0. /\ Deployments \subseteq Nat /\ commands \in Nat
      /\ deploy \in [Deployments -> DeploySteps] /\ count \in [Deployments -> {0, 1}]
      /\ desired \in {0, 1}
      /\ \A d \in Deployments : d + 1 .. MaxPushes \subseteq Deployments
  BY DeploymentAssumption DEF Deployments, Types
<1>1. OnlyDeployments
  <2>1. commands' = commands \/ commands' = commands + 1
    BY DEF Next, DeployNext, StartDeploy, ReadCount, StopTask, Drained, Point, RolledOut,
           DeployFails, CommandNext, StartCommand, CommandFails, StartChroma, ChromaStarted,
           StartWeb, WebStarted, StopWeb, WebStopped, StopChroma, ChromaStopped,
           Launch, Retire, ChromaChanges, vars, commandVars
  <2> QED
    BY <2>1, <1>0 DEF OnlyDeployments
<1>2. /\ command = "idle" /\ \A t, u \in tasks : t = u
      /\ desired = 1 => tasks \subseteq {revision}
      /\ \A d \in Deployments :
           /\ deploy[d] \in {"drain", "point"} => desired = 0
           /\ deploy[d] = "point" /\ count[d] = 1 => tasks = {}
      /\ stopped => desired = 0 /\ \A d \in Deployments : count[d] = 0
  BY <1>1 DEF Drains
<1>3. \A d, e \in Deployments : d # e /\ d \in Running => e \notin Running
  BY OneRuns
<1>4. ~ CommandNext
  <2>1. ~ StartCommand
    BY <1>1, <1>0 DEF StartCommand, OnlyDeployments
  <2>2. \A first, next : first # "idle" => ~ CommandStep(first, next)
    BY <1>2 DEF CommandStep
  <2> QED
    BY <2>1, <2>2, <1>2
       DEF CommandNext, CommandFails, StartChroma, ChromaStarted, StartWeb, WebStarted,
           StopWeb, WebStopped, StopChroma, ChromaStopped
<1>5. ASSUME NEW d \in Deployments, StartDeploy(d) \/ RolledOut(d) \/ DeployFails(d)
      PROVE  Drains' /\ Restores'
  <2>1. /\ UNCHANGED <<ecsVars, count, commandVars>>
        /\ \A e \in Deployments : e # d => deploy'[e] = deploy[e]
        /\ \/ deploy[d] \in {"new", "wait"} /\ deploy'[d] \in {"registered", "done"}
           \/ deploy'[d] = "failed"
    BY <1>0, <1>5, StepOfOne DEF StartDeploy, RolledOut, DeployFails
  <2>2. Drains'
    BY <2>1, <1>2 DEF Drains, ecsVars, commandVars
  <2>3. Restores'
    BY <2>1, <1>0, <1>1 DEF Restores, OnlyDeployments, ecsVars, commandVars
  <2> QED
    BY <2>2, <2>3
<1>6. ASSUME NEW d \in Deployments, ReadCount(d)
      PROVE  Drains' /\ Restores'
  <2>1. /\ UNCHANGED <<ecsVars, commandVars>>
        /\ \A e \in Deployments : e # d => deploy'[e] = deploy[e] /\ count'[e] = count[e]
        /\ deploy[d] = "registered" /\ count'[d] = desired
        /\ deploy'[d] = IF desired = 0 THEN "point" ELSE "stop"
    BY <1>0, <1>6, StepOfOne DEF ReadCount
  <2>2. Drains'
    BY <2>1, <1>0, <1>2 DEF Drains, ecsVars, commandVars
  <2>3. Restores'
    <3> SUFFICES ASSUME ~ stopped, desired = 0
                 PROVE  \E e \in Deployments :
                          /\ count'[e] = 1 /\ deploy'[e] \in {"drain", "point", "failed"}
                          /\ \A k \in e + 1 .. MaxPushes : count'[k] = 0
      BY <2>1 DEF Restores, ecsVars, commandVars
    <3>1. PICK e \in Deployments :
            /\ count[e] = 1 /\ deploy[e] \in {"drain", "point", "failed"}
            /\ \A k \in e + 1 .. MaxPushes : count[k] = 0
      BY <1>1 DEF Restores
    <3>2. e # d
      BY <3>1, <2>1
    <3>3. \A k \in e + 1 .. MaxPushes : count'[k] = 0
      BY <3>1, <2>1, <1>0
    <3> QED
      BY <3>1, <3>2, <3>3, <2>1
  <2> QED
    BY <2>2, <2>3
<1>7. ASSUME NEW d \in Deployments, StopTask(d)
      PROVE  Drains' /\ Restores'
  <2>1. /\ UNCHANGED <<revision, tasks, count, commandVars>> /\ desired' = 0
        /\ \A e \in Deployments : e # d => deploy'[e] = deploy[e]
        /\ deploy[d] = "stop" /\ deploy'[d] = "drain" /\ d \in Running
    BY <1>0, <1>7, StepOfOne DEF StopTask, Running
  <2>2. Drains'
    BY <2>1, <1>2 DEF Drains, commandVars
  <2>3. \A k \in d + 1 .. MaxPushes : count[k] = 0
    <3> SUFFICES ASSUME NEW k \in d + 1 .. MaxPushes
                 PROVE  count[k] = 0
      OBVIOUS
    <3>1. k \in Deployments /\ k > d
      BY <1>0
    <3>2. deploy[k] = "new"
      BY <3>1, <2>1 DEF InOrder
    <3> QED
      BY <3>1, <3>2 DEF InOrder
  <2>4. count[d] = 1
    BY <2>1 DEF InOrder
  <2>5. Restores'
    BY <2>1, <2>3, <2>4 DEF Restores
  <2> QED
    BY <2>2, <2>5
<1>8. ASSUME NEW d \in Deployments, Drained(d)
      PROVE  Drains' /\ Restores'
  <2>1. /\ UNCHANGED <<ecsVars, count, commandVars>> /\ WebStable
        /\ \A e \in Deployments : e # d => deploy'[e] = deploy[e]
        /\ deploy[d] = "drain" /\ deploy'[d] = "point"
    BY <1>0, <1>8, StepOfOne DEF Drained
  <2>2. desired = 0 /\ tasks = {}
    BY <2>1, <1>2 DEF WebStable
  <2>3. Drains'
    BY <2>1, <2>2, <1>2 DEF Drains, ecsVars, commandVars
  <2>4. Restores'
    BY <2>1, <1>0, <1>1 DEF Restores, OnlyDeployments, ecsVars, commandVars
  <2> QED
    BY <2>3, <2>4
<1>9. ASSUME NEW d \in Deployments, Point(d)
      PROVE  Drains' /\ Restores'
  <2>1. /\ UNCHANGED <<tasks, count, commandVars>> /\ revision' = d /\ desired' = count[d]
        /\ \A e \in Deployments : e # d => deploy'[e] = deploy[e]
        /\ deploy[d] = "point" /\ deploy'[d] \in {"wait", "done"} /\ d \in Running
    BY <1>0, <1>9, StepOfOne DEF Point, Running
  <2>2. \A e \in Deployments : deploy'[e] \notin {"drain", "point"}
    <3> TAKE e \in Deployments
    <3>1. CASE e = d
      BY <3>1, <2>1
    <3>2. CASE e # d
      BY <3>2, <2>1, <1>3 DEF Running
    <3> QED
      BY <3>1, <3>2
  <2>3. desired' = 1 => tasks = {}
    BY <2>1, <1>2
  <2>4. stopped => desired' = 0
    BY <2>1, <1>2
  <2>5. Drains'
    BY <2>1, <2>2, <2>3, <2>4, <1>2 DEF Drains, commandVars
  <2>6. Restores'
    <3> SUFFICES ASSUME ~ stopped, count[d] = 0
                 PROVE  \E e \in Deployments :
                          /\ count[e] = 1 /\ deploy'[e] \in {"drain", "point", "failed"}
                          /\ \A k \in e + 1 .. MaxPushes : count[k] = 0
      BY <2>1 DEF Restores, commandVars
    <3>1. PICK e \in Deployments :
            /\ count[e] = 1 /\ deploy[e] \in {"drain", "point", "failed"}
            /\ \A k \in e + 1 .. MaxPushes : count[k] = 0
      BY <1>1, <1>2, <2>1 DEF Restores
    <3> QED
      BY <3>1, <2>1
  <2> QED
    BY <2>5, <2>6
<1>10. ASSUME Launch
       PROVE  Drains' /\ Restores'
  <2>1. /\ UNCHANGED <<revision, desired, deployVars, commandVars>>
        /\ desired = 1 /\ revision \notin tasks /\ tasks' = tasks \cup {revision}
    BY <1>10 DEF Launch
  <2>2. tasks' = {revision}
    BY <2>1, <1>2
  <2>3. Drains'
    BY <2>1, <2>2, <1>2 DEF Drains, deployVars, commandVars
  <2> QED
    BY <2>1, <2>3 DEF Restores
<1>11. ASSUME Retire
       PROVE  Drains' /\ Restores'
  <2>1. /\ UNCHANGED <<revision, desired, deployVars, commandVars>>
        /\ tasks' \subseteq tasks
    BY <1>11 DEF Retire
  <2>2. Drains'
    BY <2>1, <1>2 DEF Drains, deployVars, commandVars
  <2>3. Restores'
    BY <2>1, <1>1 DEF Restores, deployVars, commandVars
  <2> QED
    BY <2>2, <2>3
<1>12. ASSUME UNCHANGED <<ecsVars, deployVars, commandVars>>
       PROVE  Drains' /\ Restores'
  BY <1>1, <1>12 DEF Drains, Restores, OnlyDeployments, ecsVars, deployVars, commandVars
<1> QED
  BY <1>4, <1>5, <1>6, <1>7, <1>8, <1>9, <1>10, <1>11, <1>12
     DEF Next, DeployNext, ChromaChanges, vars

LEMMA StepKeepsChroma ==
  ASSUME Types, ChromaFirst, [Next]_vars
  PROVE  ChromaFirst'
<1> SUFFICES ASSUME OnlyCommands'
             PROVE  ChromaFirst'
  BY DEF ChromaFirst
<1>0. deploy \in [Deployments -> DeploySteps] /\ chromaRuns \in BOOLEAN /\ 0 # 1
  BY DEF Types
<1>1. ~ DeployNext
  <2>1. ASSUME NEW d \in Deployments, DeployNext
        PROVE  \E e \in Deployments : deploy'[e] # "new"
    <3>1. PICK e \in Deployments, to \in DeploySteps \ {"new"} :
            deploy' = [deploy EXCEPT ![e] = to]
      BY <2>1 DEF DeployNext, StartDeploy, ReadCount, StopTask, Drained, Point, RolledOut,
                  DeployFails, DeployStep, DeploySteps
    <3> QED
      BY <3>1, <1>0
  <2> QED
    BY <2>1 DEF DeployNext, OnlyCommands
<1>2. OnlyCommands
  <2>1. UNCHANGED deployVars
    BY <1>1 DEF Next, CommandNext, StartCommand, CommandFails, StartChroma, ChromaStarted,
                StartWeb, WebStarted, StopWeb, WebStopped, StopChroma, ChromaStopped,
                Launch, Retire, ChromaChanges, vars
  <2> QED
    BY <2>1 DEF OnlyCommands, deployVars
<1>3. /\ desired = 1 \/ tasks # {} \/ command = "start web" =>
           chromaRuns /\ chromaDesired = 1
      /\ command = "chroma starts" => chromaDesired = 1
      /\ command \in {"web stops", "stop chroma"} => desired = 0
      /\ command = "stop chroma" => tasks = {}
  BY <1>2 DEF ChromaFirst
<1>4. ASSUME StartCommand \/ CommandFails \/ WebStarted \/ ChromaStopped
      PROVE  ChromaFirst'
  BY <1>3, <1>4 DEF StartCommand, CommandFails, WebStarted, ChromaStopped, CommandStep,
                    ecsVars, chromaVars, ChromaFirst
<1>5. ASSUME StartChroma \/ ChromaStarted
      PROVE  ChromaFirst'
  BY <1>3, <1>5 DEF StartChroma, ChromaStarted, ChromaStable, CommandStep,
                    ecsVars, chromaVars, ChromaFirst
<1>6. ASSUME StartWeb \/ StopWeb
      PROVE  ChromaFirst'
  <2>1. CASE StartWeb
    <3>1. /\ command = "start web" /\ command' = "web starts" /\ desired' = 1
          /\ UNCHANGED <<tasks, chromaDesired, chromaRuns>>
      BY <2>1 DEF StartWeb, CommandStep, chromaVars
    <3>2. chromaRuns /\ chromaDesired = 1
      BY <3>1, <1>3
    <3> QED
      BY <3>1, <3>2 DEF ChromaFirst
  <2>2. CASE StopWeb
    <3>1. /\ command' = "web stops" /\ desired' = 0
          /\ UNCHANGED <<tasks, chromaDesired, chromaRuns>>
      BY <2>2 DEF StopWeb, CommandStep, chromaVars
    <3> QED
      BY <3>1, <1>0, <1>3 DEF ChromaFirst
  <2> QED
    BY <2>1, <2>2, <1>6
<1>7. ASSUME WebStopped
      PROVE  ChromaFirst'
  <2>1. tasks = {} /\ desired = 0
    <3>1. command = "web stops" /\ WebStable
      BY <1>7 DEF WebStopped, CommandStep
    <3>2. desired = 0
      BY <3>1, <1>3
    <3> QED
      BY <3>1, <3>2, <1>0 DEF WebStable
  <2> QED
    BY <2>1, <1>3, <1>7 DEF WebStopped, CommandStep, ecsVars, chromaVars, ChromaFirst
<1>8. ASSUME StopChroma
      PROVE  ChromaFirst'
  BY <1>3, <1>8 DEF StopChroma, CommandStep, ecsVars, ChromaFirst
<1>9. ASSUME Launch \/ Retire
      PROVE  ChromaFirst'
  <2>1. /\ UNCHANGED <<desired, chromaDesired, chromaRuns, command>>
        /\ tasks' # {} => desired = 1 \/ tasks # {}
        /\ tasks' \subseteq tasks \/ desired = 1
    BY <1>9 DEF Launch, Retire, chromaVars, commandVars
  <2>2. CASE desired = 1
    <3>1. command \notin {"web stops", "stop chroma"}
      BY <2>2, <1>0, <1>3
    <3> QED
      BY <2>1, <2>2, <3>1, <1>3 DEF ChromaFirst
  <2>3. CASE desired # 1
    BY <2>1, <2>3, <1>3 DEF ChromaFirst
  <2> QED
    BY <2>2, <2>3
<1>10. ASSUME ChromaChanges
       PROVE  ChromaFirst'
  BY <1>0, <1>3, <1>10 DEF ChromaChanges, ChromaStable, ecsVars, commandVars, ChromaFirst
<1>11. ASSUME UNCHANGED vars
       PROVE  ChromaFirst'
  BY <1>3, <1>11 DEF vars, ecsVars, chromaVars, commandVars, ChromaFirst
<1> QED
  BY <1>1, <1>4, <1>5, <1>6, <1>7, <1>8, <1>9, <1>10, <1>11 DEF Next, CommandNext

\* The strengthening of all the invariants below, in every state.
THEOREM DeploymentInvariant == Spec => []IInv
<1>1. Init => IInv
  <2> SUFFICES ASSUME Init
               PROVE  IInv
    OBVIOUS
  <2>1. Types
    BY DeploymentAssumption DEF Init, Types, DeploySteps, CommandSteps
  <2>2. InOrder
    BY DEF Init, InOrder, Running
  <2>3. Drains /\ Restores
    BY DEF Init, Drains, Restores
  <2>4. ChromaFirst
    BY DEF Init, ChromaFirst
  <2> QED
    BY <2>1, <2>2, <2>3, <2>4 DEF IInv
<1>2. IInv /\ [Next]_vars => IInv'
  BY StepKeepsTypes, StepKeepsOrder, StepKeepsDrains, StepKeepsChroma DEF IInv
<1> QED
  BY <1>1, <1>2, PTL DEF Spec

\* At most one deployment runs, and neither the service nor a task is ahead of
\* the revisions that were registered (the concurrency group of deploy.yml).
THEOREM TypeCorrect == Spec => []TypeOK
<1>1. IInv => TypeOK
  <2> SUFFICES ASSUME IInv
               PROVE  TypeOK
    OBVIOUS
  <2>1. Cardinality(Running) <= 1
    <3>1. CASE Running = {}
      BY <3>1, FS_EmptySet
    <3>2. CASE Running # {}
      <4>1. PICK d : Running = {d}
        BY <3>2, OneRuns DEF IInv
      <4> QED
        BY <4>1, FS_Singleton
    <3> QED
      BY <3>1, <3>2
  <2> QED
    BY <2>1 DEF IInv, Types, TypeOK
<1> QED
  BY <1>1, DeploymentInvariant, PTL

\* Deployments alone, failing at any call, never run two tasks side by side.
THEOREM DeploymentsRunOneTask == Spec => []OneTask
<1>1. IInv => OneTask
  <2> SUFFICES ASSUME IInv, OnlyDeployments
               PROVE  Cardinality(tasks) <= 1
    BY DEF OneTask
  <2>1. CASE tasks = {}
    BY <2>1, FS_EmptySet
  <2>2. CASE tasks # {}
    <3>1. PICK t : tasks = {t}
      BY <2>2 DEF IInv, Drains
    <3> QED
      BY <3>1, FS_Singleton
  <2> QED
    BY <2>1, <2>2
<1> QED
  BY <1>1, DeploymentInvariant, PTL

\* Deployments alone restore the count they find, and only one that failed
\* leaves a started service down.
THEOREM DeploymentsRestoreCount == Spec => []CountRestored
<1>1. IInv => CountRestored
  BY DEF IInv, Drains, Restores, CountRestored, StoppedStaysStopped
<1> QED
  BY <1>1, DeploymentInvariant, PTL

\* Start and stop commands alone, failing at any call, never run the web
\* application without ChromaDB.
THEOREM CommandsKeepChromaBelow == Spec => []ChromaBelowWeb
<1>1. IInv => ChromaBelowWeb
  BY DEF IInv, ChromaFirst, ChromaBelowWeb
<1> QED
  BY <1>1, DeploymentInvariant, PTL

\* No step goes back to an older revision, nor starts a task of one.
THEOREM RevisionsNeverGoBack == Spec => NeverOlder
<1>1. IInv /\ [Next]_vars =>
        [revision' >= revision /\ \A t \in tasks' \ tasks : \A u \in tasks : t >= u]_vars
  <2> SUFFICES ASSUME IInv, [Next]_vars
               PROVE  revision' >= revision /\ \A t \in tasks' \ tasks : \A u \in tasks : t >= u
    OBVIOUS
  <2>1. revision' >= revision
    BY StepKeepsTypes DEF IInv
  <2>2. tasks' \subseteq tasks \cup {revision}
    BY DEF Next, DeployNext, StartDeploy, ReadCount, StopTask, Drained, Point, RolledOut,
           DeployFails, CommandNext, StartCommand, CommandFails, StartChroma, ChromaStarted,
           StartWeb, WebStarted, StopWeb, WebStopped, StopChroma, ChromaStopped,
           Launch, Retire, ChromaChanges, vars, ecsVars
  <2>3. \A u \in tasks : revision >= u
    BY DeploymentAssumption DEF IInv, Types, Deployments
  <2> QED
    BY <2>1, <2>2, <2>3
<1> QED
  BY <1>1, DeploymentInvariant, PTL DEF Spec, NeverOlder
====
