------------------------- MODULE EnvironmentsProofs -------------------------
(***************************************************************************)
(* For clients that wait for their answers, and for any number of          *)
(* customers, environments, containers, requests and restarts: nobody      *)
(* exceeds the plan, a deleted environment stays deleted, and it has no    *)
(* container and no instance that EC2 agreed to terminate.  EnvInv is      *)
(* inductive: besides these it says that a background task has its         *)
(* environment for itself, and that what a request has checked before an   *)
(* await still holds after it.                                             *)
(***************************************************************************)
EXTENDS Environments, FiniteSetTheorems, TLAPS

\* Clients do not delete what is being launched, nor ask twice at a time.
Patient == Habits = {}

-----------------------------------------------------------------------------
(* Types *)

\* An idle request is typed (the requests of environments.py and containers.py).
LEMMA IdleTyped == IdleRequest \in RequestTask
  BY DEF IdleRequest, RequestTask

\* The tables start empty.
LEMMA InitTypes == Init => TypeOK
<1> SUFFICES ASSUME Init PROVE TypeOK
  OBVIOUS
<1>1. envs \in [Env -> EnvRow] /\ conts \in [Container -> ContainerRow]
  BY DEF Init, EnvRow, ContainerRow
<1>2. req \in [Request -> RequestTask]
  BY IdleTyped DEF Init
<1>3. crashes \in 0 .. MaxCrash /\ refused \subseteq Env
  BY EnvironmentAssumption DEF Init
<1> QED
  BY <1>1, <1>2, <1>3 DEF Init, TypeOK

\* What a typed request is (the requests of environments.py and containers.py).
LEMMA RequestTyped ==
  ASSUME NEW q \in RequestTask
  PROVE /\ q.pc \in {"terminate", "marking", "create"}
             => q = [pc |-> q.pc, env |-> q.env, cont |-> Nothing] /\ q.env \in Env
        /\ q.pc = "remove" => q.env \in Env /\ q.cont \in Container
        /\ q.pc = "idle" => q.env = Nothing
        /\ q.pc \in {"idle", "terminate", "marking", "create", "remove"}
  BY DEF RequestTask

\* Marking an environment keeps the types, and changes no container's environment
\* (delete_environment).
LEMMA MarkedTypes ==
  ASSUME TypeOK, NEW e \in Env, Marked(e)
  PROVE /\ envs' \in [Env -> EnvRow] /\ conts' \in [Container -> ContainerRow]
        /\ \A k \in Container : /\ conts'[k].env = conts[k].env
                                /\ conts[k].env # e => conts'[k] = conts[k]
                                /\ conts[k].env = e => conts'[k].status = "stopped"
<1>1. envs \in [Env -> EnvRow] /\ conts \in [Container -> ContainerRow]
  BY DEF TypeOK
<1>2. envs' \in [Env -> EnvRow]
  BY <1>1 DEF Marked, EnvRow
<1>3. conts' \in [Container -> ContainerRow]
  BY <1>1 DEF Marked, ContainerRow
<1>4. \A k \in Container : /\ conts'[k].env = conts[k].env
                           /\ conts[k].env # e => conts'[k] = conts[k]
                           /\ conts[k].env = e => conts'[k].status = "stopped"
  BY <1>1 DEF Marked, ContainerRow
<1> QED
  BY <1>2, <1>3, <1>4

\* Every step of requests, background tasks and restarts preserves the types.
LEMMA TypeStep == TypeOK /\ ContainersBelong /\ [Next]_vars => TypeOK'
<1> SUFFICES ASSUME TypeOK, ContainersBelong, [Next]_vars PROVE TypeOK'
  OBVIOUS
<1>0. /\ envs \in [Env -> EnvRow]
      /\ ec2 \in [Env -> {"none", "running", "terminated"}]
      /\ conts \in [Container -> ContainerRow]
      /\ role \in [User -> Plan]
      /\ proc \in [Env -> {"idle", "launch", "address", "poll"}]
      /\ req \in [Request -> RequestTask]
      /\ crashes \in 0 .. MaxCrash
      /\ refused \subseteq Env
  BY DEF TypeOK
<1>1. ASSUME NEW u \in User, NEW e \in Env, ProvisionEnvironment(u, e) PROVE TypeOK'
  <2>1. envs' \in [Env -> EnvRow]
    BY <1>0, <1>1 DEF ProvisionEnvironment, EnvRow
  <2>2. proc' \in [Env -> {"idle", "launch", "address", "poll"}]
    BY <1>0, <1>1 DEF ProvisionEnvironment
  <2> QED
    BY <1>0, <1>1, <2>1, <2>2 DEF ProvisionEnvironment, TypeOK
<1>2. ASSUME NEW e \in Env, Background(e) PROVE TypeOK'
  <2>1. envs' \in [Env -> EnvRow]
    <3>1. CASE LaunchSucceeds(e) \/ PollBreaks(e)
      BY <1>0, <3>1 DEF LaunchSucceeds, PollBreaks
    <3>2. CASE AddressAssigned(e)
      BY <1>0, <3>2 DEF AddressAssigned, EnvRow
    <3>3. CASE PollSucceeds(e)
      BY <1>0, <3>3 DEF PollSucceeds, EnvRow
    <3>4. CASE Fails(e)
      BY <1>0, <3>4 DEF Fails, EnvRow
    <3> QED
      BY <1>2, <3>1, <3>2, <3>3, <3>4 DEF Background
  <2>2. /\ proc' \in [Env -> {"idle", "launch", "address", "poll"}]
        /\ ec2' \in [Env -> {"none", "running", "terminated"}]
    BY <1>0, <1>2 DEF Background, LaunchSucceeds, AddressAssigned, PollSucceeds, Fails,
                      PollBreaks
  <2>3. UNCHANGED <<conts, role, req, crashes, refused>>
    BY <1>2 DEF Background, LaunchSucceeds, AddressAssigned, PollSucceeds, Fails, PollBreaks
  <2> QED
    BY <1>0, <2>1, <2>2, <2>3 DEF TypeOK
<1>3. ASSUME NEW r \in Request, NEW e \in Env, DeleteEnvironment(r, e) PROVE TypeOK'
  <2>1. [pc |-> "terminate", env |-> e, cont |-> Nothing] \in RequestTask
    BY DEF RequestTask
  <2>2. req' \in [Request -> RequestTask]
    BY <1>0, <1>3, <2>1 DEF DeleteEnvironment
  <2>3. envs' \in [Env -> EnvRow] /\ conts' \in [Container -> ContainerRow]
    BY <1>0, <1>3, MarkedTypes DEF DeleteEnvironment
  <2> QED
    BY <1>0, <1>3, <2>2, <2>3 DEF DeleteEnvironment, TypeOK
<1>4. ASSUME NEW r \in Request, NEW e \in Env, CreateContainer(r, e) PROVE TypeOK'
  <2>1. [pc |-> "create", env |-> e, cont |-> Nothing] \in RequestTask
    BY DEF RequestTask
  <2> QED
    BY <1>0, <1>4, <2>1 DEF CreateContainer, TypeOK
<1>5. ASSUME NEW r \in Request, TerminateSucceeds(r) \/ TerminateFails(r) PROVE TypeOK'
  <2>1. req[r] \in RequestTask /\ req[r].pc = "terminate"
    BY <1>0, <1>5 DEF TerminateSucceeds, TerminateFails
  <2>2. req[r].env \in Env /\ req[r] = [pc |-> "terminate", env |-> req[r].env, cont |-> Nothing]
    BY <2>1, RequestTyped
  <2>3. [req[r] EXCEPT !.pc = "marking"] = [pc |-> "marking", env |-> req[r].env, cont |-> Nothing]
    BY <2>2
  <2>4. [req[r] EXCEPT !.pc = "marking"] \in RequestTask
    BY <2>2, <2>3 DEF RequestTask
  <2>5. req' = [req EXCEPT ![r] = [req[r] EXCEPT !.pc = "marking"]]
    BY <1>5 DEF TerminateSucceeds, TerminateFails
  <2>6. req' \in [Request -> RequestTask]
    BY <1>0, <2>4, <2>5
  <2> QED
    BY <1>0, <1>5, <2>2, <2>6 DEF TerminateSucceeds, TerminateFails, TypeOK
<1>6. ASSUME NEW r \in Request, MarkTerminated(r) PROVE TypeOK'
  <2>1. req[r].env \in Env
    BY <1>0, <1>6, RequestTyped DEF MarkTerminated
  <2>2. envs' \in [Env -> EnvRow] /\ conts' \in [Container -> ContainerRow]
    BY <1>6, <2>1, MarkedTypes DEF MarkTerminated
  <2>3. req' \in [Request -> RequestTask]
    BY <1>0, <1>6, IdleTyped DEF MarkTerminated
  <2> QED
    BY <1>0, <1>6, <2>2, <2>3 DEF MarkTerminated, TypeOK
<1>7. ASSUME NEW r \in Request, NEW k \in Container, ContainerCreated(r, k) PROVE TypeOK'
  <2>1. req[r].env \in Env
    BY <1>0, <1>7, RequestTyped DEF ContainerCreated
  <2>2. conts' \in [Container -> ContainerRow]
    BY <1>0, <1>7, <2>1 DEF ContainerCreated, ContainerRow
  <2>3. req' \in [Request -> RequestTask]
    BY <1>0, <1>7, IdleTyped DEF ContainerCreated
  <2> QED
    BY <1>0, <1>7, <2>2, <2>3 DEF ContainerCreated, TypeOK
<1>8. ASSUME NEW r \in Request, NEW k \in Container, RemoveContainer(r, k) PROVE TypeOK'
  <2>1. [pc |-> "remove", env |-> conts[k].env, cont |-> k] \in RequestTask
    <3>1. conts[k] \in ContainerRow /\ conts[k].env # Nothing
      BY <1>0, <1>8 DEF RemoveContainer, ContainersBelong
    <3> QED
      BY <3>1 DEF ContainerRow, RequestTask
  <2> QED
    BY <1>0, <1>8, <2>1 DEF RemoveContainer, TypeOK
<1>9. ASSUME NEW r \in Request, CreateFails(r) PROVE TypeOK'
  BY <1>0, <1>9, IdleTyped DEF CreateFails, TypeOK
<1>10. ASSUME NEW r \in Request, ContainerRemoved(r) PROVE TypeOK'
  <2>1. req[r].cont \in Container
    BY <1>0, <1>10, RequestTyped DEF ContainerRemoved
  <2>2. conts' = [conts EXCEPT ![req[r].cont].status = "stopped"]
    BY <1>10 DEF ContainerRemoved
  <2>3. conts' \in [Container -> ContainerRow]
    BY <1>0, <2>1, <2>2 DEF ContainerRow
  <2>4. req' \in [Request -> RequestTask]
    BY <1>0, <1>10, IdleTyped DEF ContainerRemoved
  <2> QED
    BY <1>0, <1>10, <2>3, <2>4 DEF ContainerRemoved, TypeOK
<1>11. CASE Restart
  BY <1>0, <1>11, IdleTyped, EnvironmentAssumption DEF Restart, TypeOK
<1>12. CASE UNCHANGED vars
  BY <1>0, <1>12 DEF vars, TypeOK
<1> QED
  BY <1>1, <1>2, <1>3, <1>4, <1>5, <1>6, <1>7, <1>8, <1>9, <1>10, <1>11, <1>12 DEF Next

\* Containers keep their environment, and requests theirs (containers.py).
LEMMA BelongStep == TypeOK /\ ContainersBelong /\ [Next]_vars => ContainersBelong'
<1> SUFFICES ASSUME TypeOK, ContainersBelong, [Next]_vars PROVE ContainersBelong'
  OBVIOUS
<1>0. /\ conts \in [Container -> ContainerRow] /\ req \in [Request -> RequestTask]
      /\ Nothing \notin Env
      /\ \A k \in Container : conts[k].status = "none" <=> conts[k].env = Nothing
      /\ \A r \in Request : req[r].pc = "remove" => conts[req[r].cont].env = req[r].env
  BY EnvironmentAssumption DEF TypeOK, ContainersBelong
<1>1. ASSUME UNCHANGED conts,
             \A r \in Request : req'[r].pc = "remove" => req'[r] = req[r]
      PROVE ContainersBelong'
  BY <1>0, <1>1 DEF ContainersBelong
<1>2. ASSUME NEW e \in Env, Marked(e), 
             \A r \in Request : req'[r].pc = "remove" => req'[r] = req[r]
      PROVE ContainersBelong'
  <2>1. \A k \in Container : /\ conts'[k].env = conts[k].env
                             /\ conts[k].env # e => conts'[k] = conts[k]
                             /\ conts[k].env = e => conts'[k].status = "stopped"
    BY <1>2, MarkedTypes
  <2>2. ASSUME NEW k \in Container PROVE conts'[k].status = "none" <=> conts'[k].env = Nothing
    <3>1. CASE conts[k].env = e
      BY <1>0, <2>1, <3>1
    <3>2. CASE conts[k].env # e
      <4>1. conts'[k] = conts[k]
        BY <2>1, <3>2
      <4> QED
        BY <1>0, <4>1
    <3> QED
      BY <3>1, <3>2
  <2>3. ASSUME NEW r \in Request, req'[r].pc = "remove"
        PROVE conts'[req'[r].cont].env = req'[r].env
    <3>1. req'[r] = req[r] /\ req[r].cont \in Container
      BY <1>0, <1>2, <2>3, RequestTyped
    <3>2. conts[req[r].cont].env = req[r].env
      BY <1>0, <2>3, <3>1
    <3>3. conts'[req[r].cont].env = conts[req[r].cont].env
      BY <2>1, <3>1
    <3> QED
      BY <3>1, <3>2, <3>3
  <2> QED
    BY <2>2, <2>3 DEF ContainersBelong
<1>3. ASSUME NEW u \in User, NEW e \in Env, ProvisionEnvironment(u, e) PROVE ContainersBelong'
  BY <1>1, <1>3 DEF ProvisionEnvironment
<1>4. ASSUME NEW e \in Env, Background(e) PROVE ContainersBelong'
  BY <1>1, <1>4 DEF Background, LaunchSucceeds, AddressAssigned, PollSucceeds, Fails, PollBreaks
<1>5. ASSUME NEW r \in Request, NEW e \in Env, DeleteEnvironment(r, e) PROVE ContainersBelong'
  <2>1. \A q \in Request : req'[q].pc = "remove" => req'[q] = req[q]
    BY <1>0, <1>5 DEF DeleteEnvironment
  <2> QED
    BY <1>1, <1>2, <1>5, <2>1 DEF DeleteEnvironment
<1>6. ASSUME NEW r \in Request, NEW e \in Env, CreateContainer(r, e) PROVE ContainersBelong'
  BY <1>0, <1>1, <1>6 DEF CreateContainer
<1>7. ASSUME NEW r \in Request, TerminateSucceeds(r) \/ TerminateFails(r)
      PROVE ContainersBelong'
  BY <1>0, <1>1, <1>7, RequestTyped DEF TerminateSucceeds, TerminateFails
<1>8. ASSUME NEW r \in Request, MarkTerminated(r) PROVE ContainersBelong'
  <2>1. \A q \in Request : req'[q].pc = "remove" => req'[q] = req[q]
    BY <1>0, <1>8 DEF MarkTerminated, IdleRequest
  <2>2. req[r].env \in Env
    BY <1>0, <1>8, RequestTyped DEF MarkTerminated
  <2> QED
    BY <1>2, <1>8, <2>1, <2>2 DEF MarkTerminated
<1>9. ASSUME NEW r \in Request, NEW k \in Container, ContainerCreated(r, k)
      PROVE ContainersBelong'
  <2>1. req[r].env \in Env /\ conts[k].env = Nothing
    BY <1>0, <1>9, RequestTyped DEF ContainerCreated
  <2>2. conts' = [conts EXCEPT ![k] = [status |-> "running", env |-> req[r].env]]
    BY <1>9 DEF ContainerCreated
  <2>3. \A j \in Container : conts'[j].status = "none" <=> conts'[j].env = Nothing
    BY <1>0, <2>1, <2>2
  <2>4. ASSUME NEW q \in Request, req'[q].pc = "remove"
        PROVE conts'[req'[q].cont].env = req'[q].env
    <3>1. req'[q] = req[q]
      BY <1>0, <1>9, <2>4 DEF ContainerCreated, IdleRequest
    <3>2. req[q].cont \in Container /\ req[q].env \in Env
      BY <1>0, <2>4, <3>1, RequestTyped
    <3>3. conts[req[q].cont].env = req[q].env /\ req[q].cont # k
      BY <1>0, <2>1, <2>4, <3>1, <3>2
    <3> QED
      BY <1>0, <2>2, <3>1, <3>2, <3>3
  <2> QED
    BY <2>3, <2>4 DEF ContainersBelong
<1>10. ASSUME NEW r \in Request, NEW k \in Container, RemoveContainer(r, k)
       PROVE ContainersBelong'
  BY <1>0, <1>10 DEF RemoveContainer, ContainersBelong
<1>11. ASSUME NEW r \in Request, CreateFails(r) PROVE ContainersBelong'
  BY <1>0, <1>1, <1>11 DEF CreateFails, IdleRequest
<1>12. ASSUME NEW r \in Request, ContainerRemoved(r) PROVE ContainersBelong'
  <2>1. req[r].cont \in Container /\ conts[req[r].cont].env = req[r].env /\ req[r].env \in Env
    BY <1>0, <1>12, RequestTyped DEF ContainerRemoved
  <2>2. conts' = [conts EXCEPT ![req[r].cont].status = "stopped"]
    BY <1>12 DEF ContainerRemoved
  <2>3. \A k \in Container : conts'[k].env = conts[k].env
                           /\ (conts'[k].status = "none" <=> conts[k].status = "none")
    <3>1. conts[req[r].cont].status # "none"
      BY <1>0, <2>1
    <3> QED
      BY <1>0, <2>1, <2>2, <3>1 DEF ContainerRow
  <2>4. ASSUME NEW q \in Request, req'[q].pc = "remove"
        PROVE conts'[req'[q].cont].env = req'[q].env
    <3>1. req'[q] = req[q]
      BY <1>0, <1>12, <2>4 DEF ContainerRemoved, IdleRequest
    <3>2. req[q].cont \in Container
      BY <1>0, <2>4, <3>1, RequestTyped
    <3> QED
      BY <1>0, <2>3, <2>4, <3>1, <3>2
  <2> QED
    BY <1>0, <2>3, <2>4 DEF ContainersBelong
<1>13. CASE Restart
  BY <1>0, <1>1, <1>13 DEF Restart, IdleRequest
<1>14. CASE UNCHANGED vars
  BY <1>0, <1>1, <1>14 DEF vars
<1> QED
  BY <1>3, <1>4, <1>5, <1>6, <1>7, <1>8, <1>9, <1>10, <1>11, <1>12, <1>13, <1>14 DEF Next

-----------------------------------------------------------------------------
(* The background task and the requests of an environment *)

\* Patient clients ask when no request of the environment is under way.
LEMMA AsksAlone ==
  ASSUME Patient, NEW e, MayAsk(e) PROVE \A r \in Request : req[r].env # e
  BY DEF Patient, MayAsk, Busy

\* What the steps of the background task do (_provision_background, poller.py).
LEMMA BackgroundEffect ==
  ASSUME TypeOK, NEW e \in Env, Background(e)
  PROVE /\ UNCHANGED <<conts, role, req, crashes, refused>>
        /\ proc[e] # "idle"
        /\ \A d \in Env : d # e => /\ envs'[d] = envs[d] /\ ec2'[d] = ec2[d]
                                 /\ proc'[d] = proc[d]
        /\ proc'[e] # "idle" => envs'[e].status = envs[e].status
        /\ envs'[e].owner = envs[e].owner
        /\ envs'[e].status \in {envs[e].status, "ready", "error"}
<1>1. envs \in [Env -> EnvRow] /\ ec2 \in [Env -> {"none", "running", "terminated"}]
      /\ proc \in [Env -> {"idle", "launch", "address", "poll"}]
  BY DEF TypeOK
<1>2. CASE LaunchSucceeds(e) \/ PollBreaks(e)
  BY <1>1, <1>2 DEF LaunchSucceeds, PollBreaks
<1>3. CASE AddressAssigned(e)
  BY <1>1, <1>3 DEF AddressAssigned, EnvRow
<1>4. CASE PollSucceeds(e)
  BY <1>1, <1>4 DEF PollSucceeds, EnvRow
<1>5. CASE Fails(e)
  BY <1>1, <1>5 DEF Fails, EnvRow
<1> QED
  BY <1>2, <1>3, <1>4, <1>5 DEF Background

\* Requests of patient clients follow one another (environments.py, containers.py).
LEMMA OneRequestStep ==
  TypeOK /\ Patient /\ OneRequest /\ [Next]_vars => OneRequest'
<1> SUFFICES ASSUME TypeOK, Patient, OneRequest, [Next]_vars PROVE OneRequest'
  OBVIOUS
<1>0. req \in [Request -> RequestTask] /\ conts \in [Container -> ContainerRow]
  BY DEF TypeOK
<1>1. ASSUME \A r \in Request : req'[r].env \in {req[r].env, Nothing} PROVE OneRequest'
  BY <1>1 DEF OneRequest
<1>2. ASSUME NEW r \in Request, NEW e, MayAsk(e), NEW q, q.env = e,
             req' = [req EXCEPT ![r] = q]
      PROVE OneRequest'
  <2>1. \A o \in Request : req[o].env # e
    BY <1>2, AsksAlone
  <2> QED
    BY <1>0, <1>2, <2>1 DEF OneRequest
<1>3. ASSUME NEW e \in Env, Background(e) \/ \E u \in User : ProvisionEnvironment(u, e)
      PROVE OneRequest'
  BY <1>1, <1>3, BackgroundEffect DEF ProvisionEnvironment
<1>4. ASSUME NEW r \in Request, NEW e \in Env,
             DeleteEnvironment(r, e) \/ CreateContainer(r, e)
      PROVE OneRequest'
  BY <1>1, <1>2, <1>4 DEF DeleteEnvironment, CreateContainer
<1>5. ASSUME NEW r \in Request, NEW k \in Container, RemoveContainer(r, k) PROVE OneRequest'
  BY <1>2, <1>5 DEF RemoveContainer
<1>6. ASSUME NEW r \in Request, TerminateSucceeds(r) \/ TerminateFails(r) PROVE OneRequest'
  <2>1. req[r].pc = "terminate" /\ req' = [req EXCEPT ![r].pc = "marking"]
    BY <1>6 DEF TerminateSucceeds, TerminateFails
  <2>2. req[r] = [pc |-> "terminate", env |-> req[r].env, cont |-> Nothing]
    BY <1>0, <2>1, RequestTyped
  <2>3. [req[r] EXCEPT !.pc = "marking"].env = req[r].env
    BY <2>2
  <2>4. \A o \in Request : req'[o].env = req[o].env
    BY <1>0, <2>1, <2>3
  <2> QED
    BY <1>1, <2>4
<1>7. ASSUME NEW r \in Request, MarkTerminated(r) \/ CreateFails(r) \/ ContainerRemoved(r)
      PROVE OneRequest'
  BY <1>0, <1>1, <1>7 DEF MarkTerminated, CreateFails, ContainerRemoved, IdleRequest
<1>8. ASSUME NEW r \in Request, NEW k \in Container, ContainerCreated(r, k) PROVE OneRequest'
  BY <1>0, <1>1, <1>8 DEF ContainerCreated, IdleRequest
<1>9. CASE Restart
  BY <1>1, <1>9 DEF Restart, IdleRequest
<1>10. CASE UNCHANGED vars
  BY <1>1, <1>10 DEF vars
<1> QED
  BY <1>3, <1>4, <1>5, <1>6, <1>7, <1>8, <1>9, <1>10 DEF Next

\* The part of EnvInv that does not count.
CreateReady ==
  \A r \in Request, e \in Env : Waits(r, {"create"}, e) => envs[e].status = "ready"

Control == LaunchAlone /\ DeleteUnderway /\ CreateReady /\ ContainersLaunched
           /\ DeletedNotRunning

\* A background task and the requests of an environment do not meet
\* (provision_environment, delete_environment, provision_container).
LEMMA ControlStep ==
  TypeOK /\ Patient /\ OneRequest /\ Control /\ [Next]_vars => Control'
<1> SUFFICES ASSUME TypeOK, Patient, OneRequest, Control, [Next]_vars PROVE Control'
  OBVIOUS
<1>0. /\ envs \in [Env -> EnvRow] /\ ec2 \in [Env -> {"none", "running", "terminated"}]
      /\ proc \in [Env -> {"idle", "launch", "address", "poll"}]
      /\ conts \in [Container -> ContainerRow] /\ req \in [Request -> RequestTask]
      /\ Nothing \notin Env
  BY EnvironmentAssumption DEF TypeOK
<1>1. LaunchAlone /\ DeleteUnderway /\ CreateReady /\ ContainersLaunched /\ DeletedNotRunning
  BY DEF Control
<1>2. \A r \in Request : /\ req[r].pc \in {"idle", "terminate", "marking", "create", "remove"}
                         /\ req[r].pc = "idle" => req[r].env = Nothing
  BY <1>0, RequestTyped
<1>3. ASSUME UNCHANGED <<envs, ec2, proc, conts, refused>>,
             \A r \in Request : req'[r] = req[r] \/ req'[r].env = Nothing \/ req'[r].pc = "remove"
      PROVE Control'
  BY <1>0, <1>1, <1>3 DEF Control, LaunchAlone, DeleteUnderway, CreateReady,
                          ContainersLaunched, DeletedNotRunning, Waits
<1>4. ASSUME NEW u \in User, NEW e \in Env, ProvisionEnvironment(u, e) PROVE Control'
  <2>0. envs[e].status = "none"
    BY <1>4 DEF ProvisionEnvironment
  <2>1. ASSUME NEW r \in Request, req[r].env = e PROVE req[r].pc = "remove"
    <3>1. req[r].pc \notin {"terminate", "marking"}
      BY <1>1, <2>0, <2>1 DEF DeleteUnderway, Waits
    <3>2. req[r].pc # "create"
      BY <1>1, <2>0, <2>1 DEF CreateReady, Waits
    <3> QED
      BY <1>0, <1>2, <2>1, <3>1, <3>2
  <2>2. /\ envs'[e].status = "provisioning" /\ UNCHANGED <<ec2, conts, req, refused>>
        /\ \A d \in Env : d # e => envs'[d] = envs[d] /\ proc'[d] = proc[d]
    BY <1>0, <1>4 DEF ProvisionEnvironment
  <2> HIDE DEF EnvRow
  <2>3. LaunchAlone'
    BY <1>1, <2>1, <2>2 DEF LaunchAlone
  <2>4. DeleteUnderway' /\ CreateReady'
    BY <1>1, <2>1, <2>2 DEF DeleteUnderway, CreateReady, Waits
  <2>5. ContainersLaunched'
    BY <1>0, <1>1, <2>2 DEF ContainersLaunched, ContainerRow
  <2>6. DeletedNotRunning'
    BY <1>1, <2>2 DEF DeletedNotRunning
  <2> QED
    BY <2>3, <2>4, <2>5, <2>6 DEF Control
<1>5. ASSUME NEW e \in Env, Background(e) PROVE Control'
  <2>1. /\ UNCHANGED <<conts, req, refused>> /\ proc[e] # "idle"
        /\ \A d \in Env : d # e => /\ envs'[d] = envs[d] /\ ec2'[d] = ec2[d]
                                 /\ proc'[d] = proc[d]
        /\ proc'[e] # "idle" => envs'[e].status = envs[e].status
        /\ envs'[e].status \in {envs[e].status, "ready", "error"}
    BY <1>5, BackgroundEffect
  <2>2. /\ envs[e].status = "provisioning"
        /\ \A r \in Request : req[r].env = e => req[r].pc = "remove"
    BY <1>1, <2>1 DEF LaunchAlone
  <2>3. LaunchAlone'
    BY <1>1, <2>1, <2>2 DEF LaunchAlone
  <2>4. DeleteUnderway' /\ CreateReady'
    BY <1>1, <2>1, <2>2 DEF DeleteUnderway, CreateReady, Waits
  <2>5. ContainersLaunched'
    BY <1>0, <1>1, <2>1, <2>2 DEF ContainersLaunched, ContainerRow
  <2>6. DeletedNotRunning'
    BY <1>1, <2>1, <2>2 DEF DeletedNotRunning
  <2> QED
    BY <2>3, <2>4, <2>5, <2>6 DEF Control
<1>6. ASSUME NEW r \in Request, NEW e \in Env, DeleteEnvironment(r, e) PROVE Control'
  <2>1. /\ proc[e] = "idle" /\ envs[e].status # "none"
        /\ \A o \in Request : req[o].env # e
        /\ UNCHANGED <<ec2, proc, refused>>
    BY <1>6, AsksAlone DEF DeleteEnvironment, Patient
  <2>2. CASE envs[e].recorded
    <3>1. UNCHANGED <<envs, conts>> /\ req'[r].pc = "terminate" /\ req'[r].env = e
          /\ \A o \in Request : o # r => req'[o] = req[o]
      BY <1>0, <1>6, <2>2 DEF DeleteEnvironment
    <3> QED
      BY <1>1, <2>1, <3>1 DEF Control, LaunchAlone, DeleteUnderway, CreateReady,
                              ContainersLaunched, DeletedNotRunning, Waits
  <2>3. CASE ~envs[e].recorded
    <3>1. Marked(e) /\ UNCHANGED req
      BY <1>6, <2>3 DEF DeleteEnvironment
    <3>2. /\ \A d \in Env : d # e => envs'[d] = envs[d]
          /\ envs'[e].status = "terminated" /\ envs'[e].recorded = envs[e].recorded
      BY <1>0, <3>1 DEF Marked, EnvRow
    <3>3. \A k \in Container : conts'[k].env = conts[k].env
      BY <3>1, MarkedTypes
    <3>4. LaunchAlone' /\ DeleteUnderway' /\ CreateReady'
      BY <1>1, <2>1, <3>1, <3>2 DEF LaunchAlone, DeleteUnderway, CreateReady, Waits
    <3>5. ContainersLaunched'
      BY <1>0, <1>1, <3>2, <3>3 DEF ContainersLaunched, ContainerRow
    <3>6. DeletedNotRunning'
      BY <1>1, <2>1, <2>3, <3>2 DEF DeletedNotRunning
    <3> QED
      BY <3>4, <3>5, <3>6 DEF Control
  <2> QED
    BY <2>2, <2>3
<1>7. ASSUME NEW r \in Request, NEW e \in Env, CreateContainer(r, e) PROVE Control'
  <2>1. /\ envs[e].status = "ready" /\ UNCHANGED <<envs, ec2, conts, proc, refused>>
        /\ req'[r].pc = "create" /\ req'[r].env = e
        /\ \A o \in Request : o # r => req'[o] = req[o]
    BY <1>0, <1>7 DEF CreateContainer
  <2> QED
    BY <1>1, <2>1 DEF Control, LaunchAlone, DeleteUnderway, CreateReady,
                      ContainersLaunched, DeletedNotRunning, Waits
<1>8. ASSUME NEW r \in Request, TerminateSucceeds(r) \/ TerminateFails(r) PROVE Control'
  <2>1. req[r].pc = "terminate" /\ req' = [req EXCEPT ![r].pc = "marking"]
        /\ UNCHANGED <<envs, conts, proc>>
    BY <1>8 DEF TerminateSucceeds, TerminateFails
  <2>2. req[r] = [pc |-> "terminate", env |-> req[r].env, cont |-> Nothing] /\ req[r].env \in Env
    BY <1>0, <2>1, RequestTyped
  <2>3. /\ req'[r].pc = "marking" /\ req'[r].env = req[r].env
        /\ \A o \in Request : o # r => req'[o] = req[o]
    BY <1>0, <2>1, <2>2
  <2>4. /\ \A d \in Env \ refused' : d \notin refused /\ ec2'[d] \in {ec2[d], "terminated"}
        /\ req[r].env \notin refused' => ec2'[req[r].env] = "terminated"
    BY <1>0, <1>8, <2>2 DEF TerminateSucceeds, TerminateFails
  <2>5. LaunchAlone' /\ CreateReady' /\ ContainersLaunched'
    BY <1>1, <2>1, <2>3 DEF LaunchAlone, CreateReady, ContainersLaunched, Waits
  <2>6. DeleteUnderway'
    BY <1>1, <2>1, <2>3, <2>4 DEF DeleteUnderway, Waits
  <2>7. DeletedNotRunning'
    BY <1>1, <2>1, <2>4 DEF DeletedNotRunning
  <2> QED
    BY <2>5, <2>6, <2>7 DEF Control
<1>9. ASSUME NEW r \in Request, MarkTerminated(r) PROVE Control'
  <2> DEFINE e == req[r].env
  <2>1. /\ req[r].pc = "marking" /\ e \in Env /\ Marked(e)
        /\ UNCHANGED <<ec2, proc, refused>>
    BY <1>0, <1>9, RequestTyped DEF MarkTerminated
  <2>2. req'[r].env = Nothing /\ \A o \in Request : o # r => req'[o] = req[o]
    BY <1>0, <1>9 DEF MarkTerminated, IdleRequest
  <2>3. /\ \A d \in Env : d # e => envs'[d] = envs[d]
        /\ envs'[e].status = "terminated"
    BY <1>0, <2>1 DEF Marked, EnvRow
  <2>4. \A k \in Container : conts'[k].env = conts[k].env
    BY <2>1, MarkedTypes
  <2>5. proc[e] = "idle" /\ (e \notin refused => ec2[e] = "terminated")
    BY <1>1, <2>1 DEF LaunchAlone, DeleteUnderway, Waits
  <2>6. \A o \in Request : o # r => req[o].env # e
    BY <1>0, <2>1 DEF OneRequest, e
  <2> HIDE DEF e
  <2>7. LaunchAlone' /\ DeleteUnderway' /\ CreateReady'
    BY <1>0, <1>1, <2>1, <2>2, <2>3, <2>5, <2>6
       DEF LaunchAlone, DeleteUnderway, CreateReady, Waits
  <2>8. ContainersLaunched'
    BY <1>0, <1>1, <2>3, <2>4 DEF ContainersLaunched, ContainerRow
  <2>9. DeletedNotRunning'
    BY <1>1, <2>1, <2>3, <2>5 DEF DeletedNotRunning
  <2> QED
    BY <2>7, <2>8, <2>9 DEF Control
<1>10. ASSUME NEW r \in Request, NEW k \in Container, ContainerCreated(r, k) PROVE Control'
  <2>1. /\ req[r].pc = "create" /\ req[r].env \in Env
        /\ conts' = [conts EXCEPT ![k] = [status |-> "running", env |-> req[r].env]]
        /\ UNCHANGED <<envs, ec2, proc, refused>>
    BY <1>0, <1>10, RequestTyped DEF ContainerCreated
  <2>2. envs[req[r].env].status = "ready"
    BY <1>1, <2>1 DEF CreateReady, Waits
  <2>3. req'[r].env = Nothing /\ \A o \in Request : o # r => req'[o] = req[o]
    BY <1>0, <1>10 DEF ContainerCreated, IdleRequest
  <2>4. LaunchAlone' /\ DeleteUnderway' /\ CreateReady' /\ DeletedNotRunning'
    BY <1>0, <1>1, <2>1, <2>3
       DEF LaunchAlone, DeleteUnderway, CreateReady, DeletedNotRunning, Waits
  <2>5. ContainersLaunched'
    BY <1>0, <1>1, <2>1, <2>2 DEF ContainersLaunched
  <2> QED
    BY <2>4, <2>5 DEF Control
<1>11. ASSUME NEW r \in Request, NEW k \in Container, RemoveContainer(r, k) PROVE Control'
  BY <1>0, <1>3, <1>11 DEF RemoveContainer
<1>12. ASSUME NEW r \in Request, CreateFails(r) PROVE Control'
  BY <1>0, <1>3, <1>12 DEF CreateFails, IdleRequest
<1>13. ASSUME NEW r \in Request, ContainerRemoved(r) PROVE Control'
  <2>1. /\ req[r].cont \in Container
        /\ conts' = [conts EXCEPT ![req[r].cont].status = "stopped"]
        /\ UNCHANGED <<envs, ec2, proc, refused>>
    BY <1>0, <1>13, RequestTyped DEF ContainerRemoved
  <2>2. req'[r].env = Nothing /\ \A o \in Request : o # r => req'[o] = req[o]
    BY <1>0, <1>13 DEF ContainerRemoved, IdleRequest
  <2>3. LaunchAlone' /\ DeleteUnderway' /\ CreateReady' /\ DeletedNotRunning'
    BY <1>0, <1>1, <2>1, <2>2
       DEF LaunchAlone, DeleteUnderway, CreateReady, DeletedNotRunning, Waits
  <2>4. \A k \in Container : conts'[k].env = conts[k].env
    BY <1>0, <2>1 DEF ContainerRow
  <2>5. ContainersLaunched'
    BY <1>0, <1>1, <2>1, <2>4 DEF ContainersLaunched
  <2> QED
    BY <2>3, <2>5 DEF Control
<1>14. CASE Restart
  <2>1. /\ UNCHANGED <<envs, ec2, conts, refused>>
        /\ \A r \in Request : req'[r].env = Nothing
        /\ \A e \in Env : proc'[e] # "idle" => envs[e].status = "provisioning"
    BY <1>14 DEF Restart, Resumed, IdleRequest
  <2> QED
    BY <1>0, <1>1, <2>1 DEF Control, LaunchAlone, DeleteUnderway, CreateReady,
                            ContainersLaunched, DeletedNotRunning, Waits
<1>15. CASE UNCHANGED vars
  BY <1>3, <1>15 DEF vars
<1> QED
  BY <1>4, <1>5, <1>6, <1>7, <1>8, <1>9, <1>10, <1>11, <1>12, <1>13, <1>14, <1>15 DEF Next

\* What a step does to an environment: launch it, or change it in the course of its
\* life, and that only once its containers are stopped when it is deleted.
LEMMA EnvEffect ==
  ASSUME TypeOK, Patient, Control, [Next]_vars, NEW e \in Env
  PROVE /\ role' = role
        /\ \/ envs'[e] = envs[e]
           \/ \E u \in User : ProvisionEnvironment(u, e)
           \/ /\ envs[e].status # "none" /\ envs'[e].status # "none"
              /\ envs'[e].owner = envs[e].owner
              /\ envs[e].status = "terminated" => envs'[e].status = "terminated"
              /\ envs'[e].status = "terminated" => Running(e)' = {}
<1>0. /\ envs \in [Env -> EnvRow] /\ req \in [Request -> RequestTask]
      /\ conts \in [Container -> ContainerRow]
      /\ LaunchAlone /\ DeleteUnderway
  BY DEF TypeOK, Control
<1>1. ASSUME NEW d \in Env, Marked(d), envs[d].status # "none"
      PROVE /\ \/ envs'[e] = envs[e]
               \/ /\ envs[e].status # "none" /\ envs'[e].status = "terminated"
                  /\ envs'[e].owner = envs[e].owner
                  /\ Running(e)' = {}
  <2>1. CASE d # e
    BY <1>0, <1>1, <2>1 DEF Marked
  <2>2. CASE d = e
    <3>1. envs'[e].status = "terminated" /\ envs'[e].owner = envs[e].owner
      BY <1>0, <1>1, <2>2 DEF Marked, EnvRow
    <3>2. \A k \in Container : conts'[k].env = e => conts'[k].status = "stopped"
      BY <1>1, <2>2, MarkedTypes
    <3>3. Running(e)' = {}
      BY <3>2 DEF Running
    <3> QED
      BY <1>1, <2>2, <3>1, <3>3
  <2> QED
    BY <2>1, <2>2
<1>2. ASSUME NEW u \in User, NEW d \in Env, ProvisionEnvironment(u, d)
      PROVE role' = role /\ (envs'[e] = envs[e] \/ ProvisionEnvironment(u, e))
  BY <1>0, <1>2 DEF ProvisionEnvironment
<1>3. ASSUME NEW d \in Env, Background(d)
      PROVE /\ role' = role
            /\ \/ envs'[e] = envs[e]
               \/ /\ envs[e].status = "provisioning"
                  /\ envs'[e].status \in {"provisioning", "ready", "error"}
                  /\ envs'[e].owner = envs[e].owner
  BY <1>0, <1>3, BackgroundEffect DEF LaunchAlone
<1>4. ASSUME NEW r \in Request, NEW d \in Env, DeleteEnvironment(r, d)
      PROVE /\ role' = role
            /\ \/ envs'[e] = envs[e]
               \/ /\ envs[e].status # "none" /\ envs'[e].status = "terminated"
                  /\ envs'[e].owner = envs[e].owner
                  /\ Running(e)' = {}
  BY <1>1, <1>4 DEF DeleteEnvironment
<1>5. ASSUME NEW r \in Request, MarkTerminated(r)
      PROVE /\ role' = role
            /\ \/ envs'[e] = envs[e]
               \/ /\ envs[e].status # "none" /\ envs'[e].status = "terminated"
                  /\ envs'[e].owner = envs[e].owner
                  /\ Running(e)' = {}
  <2>1. req[r].env \in Env /\ Marked(req[r].env) /\ role' = role /\ req[r].pc = "marking"
    BY <1>0, <1>5, RequestTyped DEF MarkTerminated
  <2>2. envs[req[r].env].status # "none"
    BY <1>0, <2>1 DEF DeleteUnderway, Waits
  <2> QED
    BY <1>1, <2>1, <2>2
<1>6. ASSUME \/ \E r \in Request, d \in Env : CreateContainer(r, d)
             \/ \E r \in Request : \/ TerminateSucceeds(r) \/ TerminateFails(r)
                                  \/ CreateFails(r) \/ ContainerRemoved(r)
             \/ \E r \in Request, k \in Container : ContainerCreated(r, k) \/ RemoveContainer(r, k)
             \/ Restart \/ UNCHANGED vars
      PROVE role' = role /\ envs'[e] = envs[e]
  BY <1>6 DEF CreateContainer, TerminateSucceeds, TerminateFails, CreateFails,
              ContainerRemoved, ContainerCreated, RemoveContainer, Restart, vars
<1>7. CASE \E u \in User, d \in Env : ProvisionEnvironment(u, d)
  BY <1>2, <1>7
<1>8. CASE \E d \in Env : Background(d)
  BY <1>3, <1>8
<1>9. CASE \E r \in Request, d \in Env : DeleteEnvironment(r, d)
  BY <1>4, <1>9
<1>10. CASE \E r \in Request : MarkTerminated(r)
  BY <1>5, <1>10
<1> QED
  BY <1>6, <1>7, <1>8, <1>9, <1>10 DEF Next

\* An environment that was launched has an owner (provision_environment).
LEMMA OwnedStep == TypeOK /\ Patient /\ Control /\ Owned /\ [Next]_vars => Owned'
<1> SUFFICES ASSUME TypeOK, Patient, Control, Owned, [Next]_vars,
                    NEW e \in Env, envs'[e].status # "none"
             PROVE envs'[e].owner \in User
  BY DEF Owned
<1>1. CASE \E u \in User : ProvisionEnvironment(u, e)
  BY <1>1 DEF ProvisionEnvironment, TypeOK
<1>2. CASE envs'[e] = envs[e]
  BY <1>2 DEF Owned
<1>3. CASE envs[e].status # "none" /\ envs'[e].owner = envs[e].owner
  BY <1>3 DEF Owned
<1> QED
  BY <1>1, <1>2, <1>3, EnvEffect

-----------------------------------------------------------------------------
(* Counting *)

\* Fewer are no more (check_environment_limit, check_container_limit).
LEMMA FewerCount ==
  ASSUME NEW A, NEW B, IsFiniteSet(B), A \subseteq B
  PROVE Cardinality(A) \in Nat /\ Cardinality(B) \in Nat /\ Cardinality(A) <= Cardinality(B)
  BY FS_Subset, FS_CardinalityType

\* What the limits of a plan count is finite (rbac.py).
LEMMA FiniteCounts ==
  /\ \A u : IsFiniteSet(ActiveOf(u)) /\ Cardinality(ActiveOf(u)) \in Nat
  /\ \A e : IsFiniteSet(Running(e)) /\ Cardinality(Running(e)) \in Nat
<1>1. \A u : ActiveOf(u) \subseteq Env
  BY DEF ActiveOf
<1>2. \A e : Running(e) \subseteq Container
  BY DEF Running
<1> QED
  BY <1>1, <1>2, FS_Subset, FS_CardinalityType, EnvironmentAssumption

\* Plans do not change (rbac.py reads them).
LEMMA RoleStays == [Next]_vars => role' = role
  BY DEF Next, vars, ProvisionEnvironment, Background, LaunchSucceeds, AddressAssigned,
         PollSucceeds, Fails, PollBreaks, DeleteEnvironment, CreateContainer,
         TerminateSucceeds, TerminateFails, MarkTerminated, ContainerCreated,
         RemoveContainer, CreateFails, ContainerRemoved, Restart

\* Nobody has more environments than the plan allows (check_environment_limit).
LEMMA EnvironmentLimitStep ==
  TypeOK /\ Patient /\ Control /\ EnvironmentLimit /\ [Next]_vars => EnvironmentLimit'
<1> SUFFICES ASSUME TypeOK, Patient, Control, EnvironmentLimit, [Next]_vars, NEW u \in User
             PROVE Cardinality(ActiveOf(u)') <= MaxEnvironments[role'[u]]
  BY DEF EnvironmentLimit
<1>1. /\ MaxEnvironments[role[u]] \in Nat /\ envs \in [Env -> EnvRow]
      /\ Cardinality(ActiveOf(u)) <= MaxEnvironments[role[u]]
  BY EnvironmentAssumption DEF TypeOK, EnvironmentLimit
<1>2. CASE \E w \in User, e \in Env : ProvisionEnvironment(w, e)
  <2>1. PICK w \in User, e \in Env : ProvisionEnvironment(w, e)
    BY <1>2
  <2>2. /\ role' = role /\ Cardinality(ActiveOf(w)) < MaxEnvironments[role[w]]
        /\ envs' = [envs EXCEPT ![e] = [status |-> "provisioning", owner |-> w, recorded |-> FALSE]]
    BY <2>1 DEF ProvisionEnvironment
  <2>3. CASE u = w
    <3>1. ActiveOf(u)' \subseteq ActiveOf(u) \cup {e}
      BY <1>1, <2>2 DEF ActiveOf
    <3>2. /\ IsFiniteSet(ActiveOf(u) \cup {e})
          /\ Cardinality(ActiveOf(u) \cup {e}) <= Cardinality(ActiveOf(u)) + 1
      <4>1. IsFiniteSet(ActiveOf(u)) /\ Cardinality(ActiveOf(u)) \in Nat
        BY FiniteCounts
      <4> HIDE DEF ActiveOf
      <4> DEFINE A == ActiveOf(u)
      <4>2. /\ IsFiniteSet(A \cup {e})
            /\ Cardinality(A \cup {e}) = IF e \in A THEN Cardinality(A) ELSE Cardinality(A) + 1
        BY <4>1, FS_AddElement
      <4> HIDE DEF A
      <4>3. Cardinality(A) \in Nat
        BY <4>1 DEF A
      <4>4. Cardinality(A \cup {e}) <= Cardinality(A) + 1
        BY <4>2, <4>3
      <4> QED
        BY <4>2, <4>4 DEF A
    <3>3. /\ Cardinality(ActiveOf(u)') \in Nat /\ Cardinality(ActiveOf(u) \cup {e}) \in Nat
          /\ Cardinality(ActiveOf(u)') <= Cardinality(ActiveOf(u) \cup {e})
      BY <3>1, <3>2, FewerCount
    <3>4. Cardinality(ActiveOf(u)) \in Nat
      BY FiniteCounts
    <3> QED
      BY <1>1, <2>2, <2>3, <3>2, <3>3, <3>4
  <2>4. CASE u # w
    <3>1. ActiveOf(u)' \subseteq ActiveOf(u)
      BY <1>1, <2>2, <2>4 DEF ActiveOf
    <3> QED
      BY <1>1, <2>2, <3>1, FewerCount, FiniteCounts
  <2> QED
    BY <2>3, <2>4
<1>3. CASE ~ \E w \in User, e \in Env : ProvisionEnvironment(w, e)
  <2>1. ASSUME NEW e \in Env
        PROVE /\ role' = role
              /\ \/ envs'[e] = envs[e]
                 \/ /\ envs'[e].owner = envs[e].owner
                    /\ envs[e].status = "terminated" => envs'[e].status = "terminated"
    BY <1>3, <2>1, EnvEffect
  <2>2. ActiveOf(u)' \subseteq ActiveOf(u)
    BY <2>1 DEF ActiveOf
  <2>3. role' = role
    BY RoleStays
  <2> QED
    BY <1>1, <2>2, <2>3, FewerCount, FiniteCounts
<1> QED
  BY <1>2, <1>3

CreateRoom == \A r \in Request, e \in Env : Waits(r, {"create"}, e) => HasRoom(e)

\* What is counted per environment: its containers, and those under way.
Counted == CreateRoom /\ ContainerLimit /\ TerminatedIsEmpty

\* A step that starts no container, after which nothing else is being created.
LEMMA NoneStarted ==
  ASSUME TypeOK, Patient, Control, Owned, Counted, [Next]_vars,
         \A e \in Env : Running(e)' \subseteq Running(e),
         \A r \in Request, e \in Env :
           Waits(r, {"create"}, e)' => \/ Waits(r, {"create"}, e)
                                       \/ envs[e].status = "ready" /\ HasRoom(e)
  PROVE Counted'
<1>0. /\ envs \in [Env -> EnvRow] /\ MaxContainers \in [Plan -> Nat] /\ role \in [User -> Plan]
      /\ role' = role /\ ContainersLaunched /\ CreateReady
  BY EnvironmentAssumption, RoleStays DEF TypeOK, Control
<1>1. ASSUME NEW e \in Env
      PROVE /\ Cardinality(Running(e)') \in Nat /\ Cardinality(Running(e)) \in Nat
            /\ Cardinality(Running(e)') <= Cardinality(Running(e))
  BY FewerCount, FiniteCounts
<1>2. ASSUME NEW e \in Env, envs[e].status # "none"
      PROVE envs'[e].owner = envs[e].owner /\ envs[e].owner \in User
  BY <1>2, EnvEffect DEF ProvisionEnvironment, Owned
<1>3. CreateRoom'
  <2> SUFFICES ASSUME NEW r \in Request, NEW e \in Env, Waits(r, {"create"}, e)'
               PROVE Cardinality(Running(e)') < MaxContainers[role'[envs'[e].owner]]
    BY DEF CreateRoom, HasRoom
  <2>1. envs[e].status = "ready" /\ HasRoom(e)
    BY <1>0 DEF Counted, CreateRoom, CreateReady
  <2>2. envs'[e].owner = envs[e].owner /\ envs[e].owner \in User
    BY <1>2, <2>1
  <2>3. MaxContainers[role[envs[e].owner]] \in Nat
    BY <1>0, <2>2
  <2>4. Cardinality(Running(e)) < MaxContainers[role'[envs'[e].owner]]
    BY <1>0, <2>1, <2>2 DEF HasRoom
  <2> QED
    BY <1>0, <1>1, <2>2, <2>3, <2>4
<1>4. ContainerLimit'
  <2> SUFFICES ASSUME NEW e \in Env, envs'[e].status # "none"
               PROVE Cardinality(Running(e)') <= MaxContainers[role'[envs'[e].owner]]
    BY DEF ContainerLimit
  <2>1. CASE envs[e].status # "none"
    BY <1>0, <1>1, <1>2, <2>1 DEF Counted, ContainerLimit
  <2>2. CASE envs[e].status = "none"
    <3>0. \A k \in Container : conts[k].env # e
      BY <1>0, <2>2, EnvironmentAssumption DEF ContainersLaunched
    <3>1. Running(e)' = {}
      BY <3>0 DEF Running
    <3>2. envs'[e].owner \in User
      BY OwnedStep DEF Owned
    <3> QED
      BY <1>0, <3>1, <3>2, FS_EmptySet
  <2> QED
    BY <2>1, <2>2
<1>5. TerminatedIsEmpty'
  <2> SUFFICES ASSUME NEW e \in Env, envs'[e].status = "terminated" PROVE Running(e)' = {}
    BY DEF TerminatedIsEmpty
  <2>1. CASE envs[e].status = "terminated"
    <3>1. Running(e) = {}
      BY <2>1 DEF Counted, TerminatedIsEmpty
    <3> QED
      BY <3>1
  <2>2. CASE envs[e].status # "terminated"
    <3>1. ASSUME NEW u \in User, ProvisionEnvironment(u, e) PROVE FALSE
      BY <1>0, <3>1 DEF ProvisionEnvironment
    <3> QED
      BY <2>2, <3>1, EnvEffect
  <2> QED
    BY <2>1, <2>2
<1> QED
  BY <1>3, <1>4, <1>5 DEF Counted

\* The containers of an environment stay within the plan, and a deleted environment
\* has none (check_container_limit, delete_environment).
LEMMA CountedStep ==
  /\ TypeOK /\ Patient /\ Control /\ Owned /\ OneRequest /\ ContainersBelong /\ Counted
  /\ [Next]_vars
  => Counted'
<1> SUFFICES ASSUME TypeOK, Patient, Control, Owned, OneRequest, ContainersBelong, Counted,
                    [Next]_vars
             PROVE Counted'
  OBVIOUS
<1>0. /\ envs \in [Env -> EnvRow] /\ conts \in [Container -> ContainerRow]
      /\ req \in [Request -> RequestTask] /\ role \in [User -> Plan]
      /\ MaxContainers \in [Plan -> Nat]
      /\ CreateReady /\ Nothing \notin Env
  BY EnvironmentAssumption DEF TypeOK, Control
<1>1. ASSUME \A e \in Env : Running(e)' \subseteq Running(e),
             \A r \in Request : req'[r].pc = "create" => req'[r] = req[r]
      PROVE Counted'
  BY <1>1, NoneStarted DEF Waits
<1>2. ASSUME NEW d \in Env, Marked(d) PROVE \A e \in Env : Running(e)' \subseteq Running(e)
  <2>1. \A k \in Container : /\ conts'[k].env = conts[k].env
                             /\ conts[k].env # d => conts'[k] = conts[k]
                             /\ conts[k].env = d => conts'[k].status = "stopped"
    BY <1>2, MarkedTypes
  <2> QED
    BY <2>1 DEF Running
<1>3. ASSUME UNCHANGED <<conts, req>> PROVE Counted'
  BY <1>1, <1>3 DEF Running
<1>4. ASSUME NEW r \in Request, NEW e \in Env, DeleteEnvironment(r, e) PROVE Counted'
  <2>1. \A q \in Request : req'[q].pc = "create" => req'[q] = req[q]
    BY <1>0, <1>4 DEF DeleteEnvironment
  <2>2. \A d \in Env : Running(d)' \subseteq Running(d)
    BY <1>2, <1>4 DEF DeleteEnvironment, Running
  <2> QED
    BY <1>1, <2>1, <2>2
<1>5. ASSUME NEW r \in Request, MarkTerminated(r) PROVE Counted'
  <2>1. req[r].env \in Env
    BY <1>0, <1>5, RequestTyped DEF MarkTerminated
  <2>2. \A q \in Request : req'[q].pc = "create" => req'[q] = req[q]
    BY <1>0, <1>5 DEF MarkTerminated, IdleRequest
  <2> QED
    BY <1>1, <1>2, <1>5, <2>1, <2>2 DEF MarkTerminated
<1>6. ASSUME NEW r \in Request, NEW e \in Env, CreateContainer(r, e) PROVE Counted'
  <2>1. /\ envs[e].status = "ready" /\ HasRoom(e) /\ conts' = conts
        /\ req'[r].env = e /\ \A o \in Request : o # r => req'[o] = req[o]
    BY <1>0, <1>6 DEF CreateContainer
  <2>2. \A d \in Env : Running(d)' \subseteq Running(d)
    BY <2>1 DEF Running
  <2>3. \A q \in Request, d \in Env :
          Waits(q, {"create"}, d)' => \/ Waits(q, {"create"}, d)
                                      \/ envs[d].status = "ready" /\ HasRoom(d)
    BY <2>1 DEF Waits
  <2> QED
    BY <2>2, <2>3, NoneStarted
<1>7. ASSUME NEW r \in Request, TerminateSucceeds(r) \/ TerminateFails(r) PROVE Counted'
  <2>1. req' = [req EXCEPT ![r].pc = "marking"] /\ req[r].pc = "terminate" /\ conts' = conts
    BY <1>7 DEF TerminateSucceeds, TerminateFails
  <2>2. req[r] = [pc |-> "terminate", env |-> req[r].env, cont |-> Nothing]
    BY <1>0, <2>1, RequestTyped
  <2>3. \A q \in Request : req'[q].pc = "create" => req'[q] = req[q]
    BY <1>0, <2>1, <2>2
  <2> QED
    BY <1>1, <2>1, <2>3 DEF Running
<1>8. ASSUME NEW r \in Request, NEW k \in Container, RemoveContainer(r, k) PROVE Counted'
  <2>1. conts' = conts /\ \A q \in Request : req'[q].pc = "create" => req'[q] = req[q]
    BY <1>0, <1>8 DEF RemoveContainer
  <2> QED
    BY <1>1, <2>1 DEF Running
<1>9. ASSUME NEW r \in Request, CreateFails(r) PROVE Counted'
  <2>1. conts' = conts /\ \A q \in Request : req'[q].pc = "create" => req'[q] = req[q]
    BY <1>0, <1>9 DEF CreateFails, IdleRequest
  <2> QED
    BY <1>1, <2>1 DEF Running
<1>10. ASSUME NEW r \in Request, ContainerRemoved(r) PROVE Counted'
  <2>1. conts' = [conts EXCEPT ![req[r].cont].status = "stopped"]
        /\ \A q \in Request : req'[q].pc = "create" => req'[q] = req[q]
    BY <1>0, <1>10 DEF ContainerRemoved, IdleRequest
  <2>2. \A j \in Container : /\ conts'[j].env = conts[j].env
                             /\ conts'[j].status \in {conts[j].status, "stopped"}
    BY <1>0, <2>1 DEF ContainerRow
  <2> QED
    BY <1>1, <2>1, <2>2 DEF Running
<1>11. CASE Restart
  BY <1>1, <1>11 DEF Restart, IdleRequest, Running
<1>12. ASSUME NEW r \in Request, NEW k \in Container, ContainerCreated(r, k) PROVE Counted'
  <2>0. PICK e \in Env : e = req[r].env
    BY <1>0, <1>12, RequestTyped DEF ContainerCreated
  <2>1. /\ Waits(r, {"create"}, e)
        /\ conts' = [conts EXCEPT ![k] = [status |-> "running", env |-> e]]
        /\ envs' = envs /\ role' = role
    BY <1>12, <2>0 DEF ContainerCreated, Waits
  <2>2. /\ req'[r].pc = "idle" /\ \A o \in Request : o # r => req'[o] = req[o]
        /\ \A o \in Request : o # r => req[o].env # e
    BY <1>0, <1>12, <2>0 DEF ContainerCreated, IdleRequest, OneRequest
  <2>3. envs[e].status = "ready" /\ HasRoom(e)
    BY <1>0, <2>1 DEF CreateReady, Counted, CreateRoom
  <2>4. envs[e].owner \in User
    BY <2>1, <2>3 DEF Owned
  <2>5. Running(e)' \subseteq Running(e) \cup {k}
    BY <1>0, <2>1 DEF Running
  <2>6. \A d \in Env : d # e => Running(d)' \subseteq Running(d)
    BY <1>0, <2>1 DEF Running
  <2>7. Cardinality(Running(e)') <= MaxContainers[role[envs[e].owner]]
    <3> DEFINE A == Running(e)
    <3>1. IsFiniteSet(A) /\ Cardinality(A) \in Nat
      BY FiniteCounts
    <3>2. Cardinality(A) < MaxContainers[role[envs[e].owner]]
          /\ MaxContainers[role[envs[e].owner]] \in Nat
      BY <1>0, <2>3, <2>4 DEF HasRoom
    <3> HIDE DEF A
    <3>3. /\ IsFiniteSet(A \cup {k})
          /\ Cardinality(A \cup {k}) = IF k \in A THEN Cardinality(A) ELSE Cardinality(A) + 1
      BY <3>1, FS_AddElement
    <3>4. Cardinality(A \cup {k}) <= Cardinality(A) + 1
      BY <3>1, <3>3
    <3>5. /\ Cardinality(Running(e)') \in Nat /\ Cardinality(A \cup {k}) \in Nat
          /\ Cardinality(Running(e)') <= Cardinality(A \cup {k})
      BY <2>5, <3>3, FewerCount DEF A
    <3> QED
      BY <3>1, <3>2, <3>4, <3>5
  <2>8. ASSUME NEW d \in Env, d # e
        PROVE Cardinality(Running(d)') <= Cardinality(Running(d))
              /\ Cardinality(Running(d)') \in Nat /\ Cardinality(Running(d)) \in Nat
    BY <2>6, <2>8, FewerCount, FiniteCounts
  <2>9. ContainerLimit'
    <3> SUFFICES ASSUME NEW d \in Env, envs[d].status # "none"
                 PROVE Cardinality(Running(d)') <= MaxContainers[role[envs[d].owner]]
      BY <2>1 DEF ContainerLimit
    <3>1. /\ MaxContainers[role[envs[d].owner]] \in Nat
          /\ Cardinality(Running(d)) <= MaxContainers[role[envs[d].owner]]
      BY <1>0 DEF Owned, Counted, ContainerLimit
    <3>2. CASE d = e
      BY <2>7, <3>2
    <3>3. CASE d # e
      BY <2>8, <3>1, <3>3
    <3> QED
      BY <3>2, <3>3
  <2>10. CreateRoom'
    <3> SUFFICES ASSUME NEW q \in Request, NEW d \in Env, Waits(q, {"create"}, d)'
                 PROVE Cardinality(Running(d)') < MaxContainers[role[envs[d].owner]]
      BY <2>1 DEF CreateRoom, HasRoom
    <3>1. q # r /\ Waits(q, {"create"}, d) /\ d # e
      BY <2>2 DEF Waits
    <3>2. envs[d].status = "ready" /\ HasRoom(d)
      BY <1>0, <3>1 DEF CreateReady, Counted, CreateRoom
    <3>3. MaxContainers[role[envs[d].owner]] \in Nat
      BY <1>0, <3>2 DEF Owned
    <3> QED
      BY <2>8, <3>1, <3>2, <3>3 DEF HasRoom
  <2>11. TerminatedIsEmpty'
    <3> SUFFICES ASSUME NEW d \in Env, envs[d].status = "terminated" PROVE Running(d)' = {}
      BY <2>1 DEF TerminatedIsEmpty
    <3>1. d # e /\ Running(d) = {}
      BY <2>3 DEF Counted, TerminatedIsEmpty
    <3> QED
      BY <2>6, <3>1
  <2> QED
    BY <2>9, <2>10, <2>11 DEF Counted
<1>13. ASSUME NEW u \in User, NEW e \in Env, ProvisionEnvironment(u, e) PROVE Counted'
  BY <1>3, <1>13 DEF ProvisionEnvironment
<1>14. ASSUME NEW e \in Env, Background(e) PROVE Counted'
  BY <1>3, <1>14, BackgroundEffect
<1>15. CASE UNCHANGED vars
  BY <1>3, <1>15 DEF vars
<1> QED
  BY <1>4, <1>5, <1>6, <1>7, <1>8, <1>9, <1>10, <1>11, <1>12, <1>13, <1>14, <1>15 DEF Next

-----------------------------------------------------------------------------
(* The theorems *)

\* EnvInv, in the parts in which it is proved.
LEMMA EnvInvParts ==
  EnvInv <=> /\ TypeOK /\ Owned /\ ContainersBelong /\ Control /\ OneRequest
             /\ EnvironmentLimit /\ Counted
<1>1. CreateStillAllowed <=> CreateReady /\ CreateRoom
  BY DEF CreateStillAllowed, CreateReady, CreateRoom
<1> QED
  BY <1>1 DEF EnvInv, Control, Counted

\* Before the first customer comes (the tables are empty).
LEMMA InitEnvInv == Init => EnvInv
<1> SUFFICES ASSUME Init PROVE EnvInv
  OBVIOUS
<1>1. TypeOK
  BY InitTypes
<1>2. /\ \A e \in Env : /\ envs[e].status = "none" /\ envs[e].owner = Nothing
                        /\ proc[e] = "idle"
      /\ \A k \in Container : conts[k].status = "none" /\ conts[k].env = Nothing
      /\ \A r \in Request : req[r].pc = "idle" /\ req[r].env = Nothing
      /\ Nothing \notin Env /\ Nothing \notin User
  BY EnvironmentAssumption DEF Init, IdleRequest
<1>3. Owned /\ ContainersBelong /\ OneRequest
  BY <1>2 DEF Owned, ContainersBelong, OneRequest
<1>4. Control
  BY <1>2 DEF Control, LaunchAlone, DeleteUnderway, CreateReady, ContainersLaunched,
              DeletedNotRunning, Waits
<1>5. EnvironmentLimit
  <2> SUFFICES ASSUME NEW u \in User PROVE Cardinality(ActiveOf(u)) <= MaxEnvironments[role[u]]
    BY DEF EnvironmentLimit
  <2>1. ActiveOf(u) = {} /\ MaxEnvironments[role[u]] \in Nat
    BY <1>1, <1>2, EnvironmentAssumption DEF ActiveOf, TypeOK
  <2> QED
    BY <2>1, FS_EmptySet
<1>6. Counted
  BY <1>2 DEF Counted, CreateRoom, ContainerLimit, TerminatedIsEmpty, Waits
<1> QED
  BY <1>1, <1>3, <1>4, <1>5, <1>6, EnvInvParts

\* Every step preserves it.
LEMMA EnvInvStep == Patient /\ EnvInv /\ [Next]_vars => EnvInv'
<1>1. Patient /\ EnvInv /\ [Next]_vars
      => /\ TypeOK' /\ Owned' /\ ContainersBelong' /\ Control' /\ OneRequest'
         /\ EnvironmentLimit' /\ Counted'
  BY EnvInvParts, TypeStep, OwnedStep, BelongStep, ControlStep, OneRequestStep,
     EnvironmentLimitStep, CountedStep
<1>2. /\ TypeOK' /\ Owned' /\ ContainersBelong' /\ Control' /\ OneRequest'
      /\ EnvironmentLimit' /\ Counted'
      => EnvInv'
  <2>1. CreateStillAllowed' <=> CreateReady' /\ CreateRoom'
    BY DEF CreateStillAllowed, CreateReady, CreateRoom
  <2> QED
    BY <2>1 DEF EnvInv, Control, Counted
<1> QED
  BY <1>1, <1>2

\* The tables, the instances, the background tasks and the requests agree with one
\* another (environments.py, containers.py, poller.py).
THEOREM EnvInvariant == ASSUME Patient PROVE Spec => []EnvInv
<1>1. Init => EnvInv
  BY InitEnvInv
<1>2. EnvInv /\ [Next]_vars => EnvInv'
  BY EnvInvStep
<1> QED
  BY <1>1, <1>2, PTL DEF Spec

\* No customer has more environments than the plan allows (check_environment_limit).
THEOREM WithinEnvironments == ASSUME Patient PROVE Spec => []EnvironmentLimit
<1>1. EnvInv => EnvironmentLimit
  BY DEF EnvInv
<1> QED
  BY <1>1, EnvInvariant, PTL

\* No environment has more containers than the plan allows (check_container_limit).
THEOREM WithinContainers == ASSUME Patient PROVE Spec => []ContainerLimit
<1>1. EnvInv => ContainerLimit
  BY DEF EnvInv
<1> QED
  BY <1>1, EnvInvariant, PTL

\* A deleted environment has no container (delete_environment).
THEOREM DeletedEmpty == ASSUME Patient PROVE Spec => []TerminatedIsEmpty
<1>1. EnvInv => TerminatedIsEmpty
  BY DEF EnvInv
<1> QED
  BY <1>1, EnvInvariant, PTL

\* The instance on record of a deleted environment is terminated, unless EC2 refuses
\* (delete_environment).
THEOREM DeletedStopped == ASSUME Patient PROVE Spec => []DeletedNotRunning
<1>1. EnvInv => DeletedNotRunning
  BY DEF EnvInv
<1> QED
  BY <1>1, EnvInvariant, PTL

\* A deleted environment stays deleted (poll_until_ready, resume_provisioning_polls).
THEOREM TerminatedForGood == ASSUME Patient PROVE Spec => TerminatedStays
<1>1. EnvInv /\ [Next]_vars
      => [\A e \in Env : envs[e].status = "terminated" => envs'[e].status = "terminated"]_vars
  <2> SUFFICES ASSUME EnvInv, [Next]_vars, NEW e \in Env, envs[e].status = "terminated"
               PROVE envs'[e].status = "terminated"
    OBVIOUS
  <2>1. TypeOK /\ Control
    BY EnvInvParts
  <2>2. ASSUME NEW u \in User, ProvisionEnvironment(u, e) PROVE FALSE
    BY <2>2 DEF ProvisionEnvironment
  <2> QED
    BY <2>1, <2>2, EnvEffect
<1> QED
  BY <1>1, EnvInvariant, PTL DEF Spec, TerminatedStays
=============================================================================
