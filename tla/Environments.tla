---------------------------- MODULE Environments ----------------------------
(***************************************************************************)
(* Customers' own environments and their containers, the older way to run  *)
(* Belleq: routers/environments.py and containers.py, the limits of        *)
(* rbac.py, services/poller.py and its resumption at startup.              *)
(*                                                                         *)
(* An environment is a row and an EC2 instance.  A background task         *)
(* launches the instance and hands over to a poller, which sets the        *)
(* status.  Rows are only marked, never deleted.  Code between two awaits  *)
(* is one step; rows and instances survive a restart, tasks do not.        *)
(***************************************************************************)
EXTENDS Integers, FiniteSets

CONSTANTS
  User, Plan,
  Env, Container,      \* bound: rows ever inserted
  Request,             \* bound: requests at an await
  MaxEnvironments,     \* PLAN_LIMITS[p]["max_environments"]
  MaxContainers,       \* PLAN_LIMITS[p]["max_containers_per_env"]
  MaxCrash,            \* bound: restarts of the backend
  Faults,              \* {"reset"}: the poller may meet an exception it does not expect
  Habits,              \* what clients do: a subset of AllHabits
  Nothing

AllHabits == {"deletes_early",  \* DELETE while the instance is launched or polled
              "overlaps"}       \* a request on an environment before the last answered

ASSUME EnvironmentAssumption ==
  /\ MaxEnvironments \in [Plan -> Nat] /\ MaxContainers \in [Plan -> Nat]
  /\ MaxCrash \in Nat /\ Faults \subseteq {"reset"} /\ Habits \subseteq AllHabits
  /\ Nothing \notin Env \cup Container \cup User
  /\ IsFiniteSet(Env) /\ IsFiniteSet(Container)

VARIABLES
  envs,     \* the environments table
  ec2,      \* ec2[e]: the instance launched for environment e
  conts,    \* the containers table
  role,     \* role[u]: the plan of user u
  proc,     \* proc[e]: the background task or poller of environment e
  req,      \* req[r]: a request at an await
  crashes,  \* restarts so far
  refused   \* history: environments whose instance EC2 would not terminate

vars == <<envs, ec2, conts, role, proc, req, crashes, refused>>

EnvRow == [status : {"none", "provisioning", "ready", "error", "terminated"},
           owner : User \cup {Nothing},
           recorded : BOOLEAN]            \* aws_instance_id and public_ip are set

ContainerRow == [status : {"none", "running", "stopped"}, env : Env \cup {Nothing}]

\* pc "marking" is the resumption of a DELETE after terminate_ec2.
RequestTask == [pc : {"idle"}, env : {Nothing}, cont : {Nothing}]
               \cup [pc : {"terminate", "marking", "create"}, env : Env, cont : {Nothing}]
               \cup [pc : {"remove"}, env : Env, cont : Container]

TypeOK == /\ envs \in [Env -> EnvRow]
          /\ ec2 \in [Env -> {"none", "running", "terminated"}]
          /\ conts \in [Container -> ContainerRow]
          /\ role \in [User -> Plan]
          /\ proc \in [Env -> {"idle", "launch", "address", "poll"}]
          /\ req \in [Request -> RequestTask]
          /\ crashes \in 0 .. MaxCrash
          /\ refused \subseteq Env

IdleRequest == [pc |-> "idle", env |-> Nothing, cont |-> Nothing]

Init == /\ envs = [e \in Env |-> [status |-> "none", owner |-> Nothing, recorded |-> FALSE]]
        /\ ec2 = [e \in Env |-> "none"]
        /\ conts = [k \in Container |-> [status |-> "none", env |-> Nothing]]
        /\ role \in [User -> Plan]
        /\ proc = [e \in Env |-> "idle"]
        /\ req = [r \in Request |-> IdleRequest]
        /\ crashes = 0 /\ refused = {}

-----------------------------------------------------------------------------
(* Launching an environment *)

\* Mutant of ActiveOf: only environments that are ready are counted.
ReadyOf(u) == {e \in Env : envs[e].owner = u /\ envs[e].status = "ready"}

\* The rows check_environment_limit counts.
ActiveOf(u) == {e \in Env : envs[e].owner = u /\ envs[e].status # "terminated"}

\* POST /environments/provision.
ProvisionEnvironment(u, e) ==
  /\ envs[e].status = "none"
  /\ Cardinality(ActiveOf(u)) < MaxEnvironments[role[u]]
  /\ envs' = [envs EXCEPT ![e] = [status |-> "provisioning", owner |-> u, recorded |-> FALSE]]
  /\ proc' = [proc EXCEPT ![e] = "launch"]
  /\ UNCHANGED <<ec2, conts, role, req, crashes, refused>>

LaunchSucceeds(e) == /\ proc[e] = "launch"
                     /\ ec2' = [ec2 EXCEPT ![e] = "running"]
                     /\ proc' = [proc EXCEPT ![e] = "address"]
                     /\ UNCHANGED <<envs, conts, role, req, crashes, refused>>

\* The except branch of _provision_background, and the poller's timeout: the
\* status is set whatever it is by now.
Fails(e) == /\ proc[e] \in {"launch", "address", "poll"}
            /\ envs' = [envs EXCEPT ![e].status = "error"]
            /\ proc' = [proc EXCEPT ![e] = "idle"]
            /\ UNCHANGED <<ec2, conts, role, req, crashes, refused>>

\* The instance has an address: both are recorded, and the poller takes over.
AddressAssigned(e) == /\ proc[e] = "address"
                      /\ envs' = [envs EXCEPT ![e].recorded = TRUE]
                      /\ proc' = [proc EXCEPT ![e] = "poll"]
                      /\ UNCHANGED <<ec2, conts, role, req, crashes, refused>>

\* poll_until_ready: the master answers.
PollSucceeds(e) == /\ proc[e] = "poll" /\ ec2[e] = "running"
                   /\ envs' = [envs EXCEPT ![e].status = "ready"]
                   /\ proc' = [proc EXCEPT ![e] = "idle"]
                   /\ UNCHANGED <<ec2, conts, role, req, crashes, refused>>

\* poll_until_ready: an exception that is not caught, as of a connection reset.
PollBreaks(e) == /\ proc[e] = "poll" /\ "reset" \in Faults
                 /\ proc' = [proc EXCEPT ![e] = "idle"]
                 /\ UNCHANGED <<envs, ec2, conts, role, req, crashes, refused>>

-----------------------------------------------------------------------------
(* Deleting an environment *)

Busy(e) == \E r \in Request : req[r].env = e

\* What the assumptions about clients allow them to ask of environment e.
MayAsk(e) == "overlaps" \in Habits \/ ~Busy(e)

\* Mutant of Marked: the containers keep their status.
MarkedAlone(e) == /\ envs' = [envs EXCEPT ![e].status = "terminated"]
                  /\ UNCHANGED conts

\* Mutant of Marked: the status that other tables use.
MarkedDeleted(e) == /\ envs' = [envs EXCEPT ![e].status = "deleted"]
                    /\ UNCHANGED conts

\* The environment and its containers are marked.
Marked(e) == /\ envs' = [envs EXCEPT ![e].status = "terminated"]
             /\ conts' = [k \in Container |-> IF conts[k].env = e
                                              THEN [conts[k] EXCEPT !.status = "stopped"]
                                              ELSE conts[k]]

\* Mutant of DeleteEnvironment: only an environment that is ready has an instance.
DeleteEnvironmentReady(r, e) ==
  /\ envs[e].status # "none" /\ req[r].pc = "idle"
  /\ MayAsk(e) /\ ("deletes_early" \in Habits \/ proc[e] = "idle")
  /\ IF envs[e].recorded /\ envs[e].status = "ready"
     THEN /\ req' = [req EXCEPT ![r] = [pc |-> "terminate", env |-> e, cont |-> Nothing]]
          /\ UNCHANGED <<envs, conts>>
     ELSE Marked(e) /\ UNCHANGED req
  /\ UNCHANGED <<ec2, role, proc, crashes, refused>>

\* DELETE /environments/{id}: without an instance on record there is no await.
DeleteEnvironment(r, e) ==
  /\ envs[e].status # "none" /\ req[r].pc = "idle"
  /\ MayAsk(e) /\ ("deletes_early" \in Habits \/ proc[e] = "idle")
  /\ IF envs[e].recorded
     THEN /\ req' = [req EXCEPT ![r] = [pc |-> "terminate", env |-> e, cont |-> Nothing]]
          /\ UNCHANGED <<envs, conts>>
     ELSE Marked(e) /\ UNCHANGED req
  /\ UNCHANGED <<ec2, role, proc, crashes, refused>>

TerminateSucceeds(r) == /\ req[r].pc = "terminate"
                        /\ ec2' = [ec2 EXCEPT ![req[r].env] = "terminated"]
                        /\ req' = [req EXCEPT ![r].pc = "marking"]
                        /\ UNCHANGED <<envs, conts, role, proc, crashes, refused>>

\* A failure is logged, and the row is marked all the same.
TerminateFails(r) == /\ req[r].pc = "terminate"
                     /\ req' = [req EXCEPT ![r].pc = "marking"]
                     /\ refused' = refused \cup {req[r].env}
                     /\ UNCHANGED <<envs, ec2, conts, role, proc, crashes>>

MarkTerminated(r) == /\ req[r].pc = "marking"
                     /\ Marked(req[r].env)
                     /\ req' = [req EXCEPT ![r] = IdleRequest]
                     /\ UNCHANGED <<ec2, role, proc, crashes, refused>>

-----------------------------------------------------------------------------
(* Containers *)

\* The rows check_container_limit counts.
Running(e) == {k \in Container : conts[k].env = e /\ conts[k].status # "stopped"}

\* Mutant of HasRoom: an off-by-one.
HasRoomForOneMore(e) == Cardinality(Running(e)) <= MaxContainers[role[envs[e].owner]]

\* check_container_limit; only the owner gets here.
HasRoom(e) == Cardinality(Running(e)) < MaxContainers[role[envs[e].owner]]

\* POST /environments/{id}/containers/provision, up to the await on the master.
CreateContainer(r, e) ==
  /\ req[r].pc = "idle"
  /\ envs[e].status = "ready" /\ HasRoom(e)
  /\ MayAsk(e)
  /\ req' = [req EXCEPT ![r] = [pc |-> "create", env |-> e, cont |-> Nothing]]
  /\ UNCHANGED <<envs, ec2, conts, role, proc, crashes, refused>>

\* The master has started the container, and its row is inserted.
ContainerCreated(r, k) ==
  /\ req[r].pc = "create" /\ ec2[req[r].env] = "running"
  /\ conts[k].status = "none"
  /\ conts' = [conts EXCEPT ![k] = [status |-> "running", env |-> req[r].env]]
  /\ req' = [req EXCEPT ![r] = IdleRequest]
  /\ UNCHANGED <<envs, ec2, role, proc, crashes, refused>>

\* The master fails or cannot be reached: nothing was recorded.
CreateFails(r) == /\ req[r].pc = "create"
                  /\ req' = [req EXCEPT ![r] = IdleRequest]
                  /\ UNCHANGED <<envs, ec2, conts, role, proc, crashes, refused>>

\* DELETE /environments/{id}/containers/{cid}, up to the await on the master.
RemoveContainer(r, k) ==
  /\ req[r].pc = "idle" /\ conts[k].status # "none"
  /\ MayAsk(conts[k].env)
  /\ req' = [req EXCEPT ![r] = [pc |-> "remove", env |-> conts[k].env, cont |-> k]]
  /\ UNCHANGED <<envs, ec2, conts, role, proc, crashes, refused>>

\* The master has removed it, or not: the row is marked in either case.
ContainerRemoved(r) ==
  /\ req[r].pc = "remove"
  /\ conts' = [conts EXCEPT ![req[r].cont].status = "stopped"]
  /\ req' = [req EXCEPT ![r] = IdleRequest]
  /\ UNCHANGED <<envs, ec2, role, proc, crashes, refused>>

-----------------------------------------------------------------------------
(* A restart *)

\* Mutant of Resumed: a poller for every instance, whatever the status.
ResumedAlways(e) == envs[e].recorded

\* resume_provisioning_polls; a poller without an address returns at once.
Resumed(e) == envs[e].status = "provisioning" /\ envs[e].recorded

\* The process dies and starts again.
Restart == /\ crashes < MaxCrash /\ crashes' = crashes + 1
           /\ proc' = [e \in Env |-> IF Resumed(e) THEN "poll" ELSE "idle"]
           /\ req' = [r \in Request |-> IdleRequest]
           /\ UNCHANGED <<envs, ec2, conts, role, refused>>

Background(e) == \/ LaunchSucceeds(e) \/ AddressAssigned(e) \/ PollSucceeds(e)
                 \/ Fails(e) \/ PollBreaks(e)

Next == \/ \E u \in User, e \in Env : ProvisionEnvironment(u, e)
        \/ \E e \in Env : Background(e)
        \/ \E r \in Request, e \in Env : DeleteEnvironment(r, e) \/ CreateContainer(r, e)
        \/ \E r \in Request : TerminateSucceeds(r) \/ TerminateFails(r) \/ MarkTerminated(r)
        \/ \E r \in Request, k \in Container : ContainerCreated(r, k) \/ RemoveContainer(r, k)
        \/ \E r \in Request : CreateFails(r) \/ ContainerRemoved(r)
        \/ Restart

Spec == Init /\ [][Next]_vars

\* Launch, address and poll end: each has a timeout.
FairSpec == Spec /\ \A e \in Env : WF_vars(Background(e))

-----------------------------------------------------------------------------
(* Safety *)

\* "Your plan allows up to N active environment(s)", over failures, deletes and
\* restarts (check_environment_limit).
EnvironmentLimit == \A u \in User : Cardinality(ActiveOf(u)) <= MaxEnvironments[role[u]]

\* "Your plan allows up to N container(s) per environment" (check_container_limit).
ContainerLimit ==
  \A e \in Env : envs[e].status # "none"
    => Cardinality(Running(e)) <= MaxContainers[role[envs[e].owner]]

\* A terminated environment is not brought back by a poller or a background
\* task, not even one that startup resumes (resume_provisioning_polls).
TerminatedStays ==
  [][\A e \in Env : envs[e].status = "terminated" => envs'[e].status = "terminated"]_vars

\* Deleting an environment stops its containers for good (delete_environment).
TerminatedIsEmpty ==
  \A e \in Env : envs[e].status = "terminated" => Running(e) = {}

\* An instance that is on record is not paid for after its environment is deleted,
\* whether this was launched well or badly, unless EC2 would not terminate it
\* (delete_environment).
DeletedNotRunning ==
  \A e \in Env \ refused :
    envs[e].status = "terminated" /\ envs[e].recorded => ec2[e] = "terminated"

-----------------------------------------------------------------------------
(* The inductive invariant, for clients that wait for their answers *)

Waits(r, pcs, e) == req[r].pc \in pcs /\ req[r].env = e

\* The background task has the environment for itself.
LaunchAlone ==
  \A e \in Env : proc[e] # "idle" => /\ envs[e].status = "provisioning"
                                    /\ \A r \in Request : req[r].env = e => req[r].pc = "remove"

\* One request of an environment at a time.
OneRequest ==
  \A r1, r2 \in Request : req[r1].env = req[r2].env /\ req[r1].env # Nothing => r1 = r2

\* What was checked before the await on the master still holds.
CreateStillAllowed ==
  \A r \in Request, e \in Env : Waits(r, {"create"}, e) => envs[e].status = "ready" /\ HasRoom(e)

\* What is being deleted was launched once; when it is about to be marked, it has
\* no instance.
DeleteUnderway ==
  \A r \in Request, e \in Env :
    /\ Waits(r, {"terminate", "marking"}, e) => envs[e].status # "none"
    /\ Waits(r, {"marking"}, e) /\ e \notin refused => ec2[e] = "terminated"

\* Whoever launched it has a plan.
Owned == \A e \in Env : envs[e].status # "none" => envs[e].owner \in User

\* A container belongs to an environment, and requests know to which.
ContainersBelong ==
  /\ \A k \in Container : conts[k].status = "none" <=> conts[k].env = Nothing
  /\ \A r \in Request : req[r].pc = "remove" => conts[req[r].cont].env = req[r].env

\* ... that was launched.
ContainersLaunched ==
  \A k \in Container : conts[k].env # Nothing => envs[conts[k].env].status # "none"

EnvInv == /\ TypeOK /\ Owned /\ ContainersBelong /\ ContainersLaunched
          /\ LaunchAlone /\ OneRequest /\ CreateStillAllowed /\ DeleteUnderway
          /\ EnvironmentLimit /\ ContainerLimit /\ TerminatedIsEmpty /\ DeletedNotRunning

-----------------------------------------------------------------------------
(* What a docstring says, and the code does not do *)

\* "Re-start pollers for any environments still stuck in 'provisioning'": no
\* environment is left in this status.
ProvisioningResolves ==
  \A e \in Env : envs[e].status = "provisioning" ~> envs[e].status # "provisioning"
=============================================================================
