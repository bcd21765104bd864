----------------------------- MODULE Placement -----------------------------
(***************************************************************************)
(* Where contexts run: routers/contexts.py and services/scheduler.py.      *)
(*                                                                         *)
(* The backend is one asyncio process and the database client blocks, so   *)
(* the code between two awaits is one atomic step; an action below is such *)
(* a step.  Rows (hosts, containers) and EC2 instances survive a restart,  *)
(* the coroutines (provisioning, rebuild, delete, sweep) do not.           *)
(*                                                                         *)
(* A context is a row of containers; provisioning it runs a background     *)
(* task that reserves a slot on a ready host, or orders a new EC2 host and *)
(* waits for it, then asks the host's master for a container and links the *)
(* row to the host.  Deleting the last context of a host terminates it,    *)
(* and so does a periodic sweep.                                           *)
(***************************************************************************)
EXTENDS Capacity, FiniteSets

CONSTANTS
  Workspace, Context, Plan,
  Hosting,         \* Hosting[p]: "shared" or "dedicated"
  MaxContexts,     \* MaxContexts[p]: contexts a workspace may have
  HostBudget,      \* HostBudget[p]: schedulable_budget of the plan's instance
  CapChoices,      \* CapChoices[p]: the per-context caps an operator may set
  PlanChoices,     \* PlanChoices[w]: the plans workspace w may select
  MaxHost,         \* bound: host rows ever inserted
  Request,         \* bound: delete requests in flight
  Rebuilder,       \* bound: rebuild tasks in flight
  Sweeper,         \* the sweep loop and the admin's sweep
  Patient,         \* the sweepers that spare young hosts (min_age_minutes > 0)
  MaxCrash,        \* bound: restarts of the backend
  Habits,          \* what clients do: a subset of AllHabits
  Nobody

Unlimited == -1

AllHabits == {"deletes_unplaced",  \* DELETE while provisioning is under way
              "deletes_twice"}     \* DELETE again before the first one answers

Offered == UNION {CapChoices[p] : p \in Plan}

Host == 1 .. MaxHost
NoHost == 0
Task == Request \cup Sweeper

ASSUME PlacementAssumption ==
  /\ Workspace # {} /\ Plan # {}
  /\ Hosting \in [Plan -> {"shared", "dedicated"}]
  /\ MaxContexts \in [Plan -> Nat \cup {Unlimited}]
  /\ HostBudget \in [Plan -> Vector]
  /\ CapChoices \in [Plan -> SUBSET Vector]
  /\ \A p \in Plan : CapChoices[p] # {}
  /\ PlanChoices \in [Workspace -> SUBSET Plan]
  /\ MaxHost \in Nat /\ MaxCrash \in Nat
  /\ Habits \subseteq AllHabits /\ Patient \subseteq Sweeper
  /\ Nobody \notin Workspace

VARIABLES
  hosts,      \* the hosts table
  ec2,        \* ec2[h]: the instance launched for host h
  ctxs,       \* the containers table
  role,       \* role[w]: the plan in the workspace's profile
  planCaps,   \* planCaps[p]: the plan's per-context caps, as plan_config has them
  prov,       \* prov[c]: the _provision_bg task of context c
  rebuild,    \* rebuild[b]: a _rebuild_bg task
  term,       \* term[t]: a delete request or sweep at an await
  crashes     \* restarts so far

vars == <<hosts, ec2, ctxs, role, planCaps, prov, rebuild, term, crashes>>

HostRow == [status : {"none", "provisioning", "ready", "error", "deleted"},
            plan : Plan,
            owner : Workspace \cup {Nobody},
            recorded : BOOLEAN,          \* ec2_instance_id is set
            old : BOOLEAN,               \* past the sweep's minimum age
            budget : Vector, used : Vector]

\* What the row says of a container that the master has made: _provision_bg and
\* _rebuild_bg write "starting" when it was not healthy yet.
Up == {"running", "starting"}

ContextRow == [status : {"none", "provisioning", "running", "starting", "error", "deleted"},
               ws : Workspace, host : Host \cup {NoHost}, caps : Vector]

ProvTask == [pc : {"idle", "start", "launch", "address", "health", "master"},
             plan : Plan, host : Host \cup {NoHost}, caps : Vector]

\* pc "master" and "ec2" are awaits; "row" is the resumption after terminate_ec2.
TermTask == [pc : {"idle", "master", "ec2", "row"},
             ctx : Context \cup {Nobody}, host : Host \cup {NoHost}]

RebuildTask == [pc : {"idle"}, ctx : {Nobody}] \cup [pc : {"master"}, ctx : Context]

TypeOK == /\ hosts \in [Host -> HostRow]
          /\ ec2 \in [Host -> {"none", "running", "terminated"}]
          /\ ctxs \in [Context -> ContextRow]
          /\ role \in [Workspace -> Plan]
          /\ planCaps \in [Plan -> Vector]
          /\ prov \in [Context -> ProvTask]
          /\ rebuild \in [Rebuilder -> RebuildTask]
          /\ term \in [Task -> TermTask]
          /\ crashes \in 0 .. MaxCrash

AnyPlan == CHOOSE p \in Plan : TRUE
AnyWorkspace == CHOOSE w \in Workspace : TRUE

NoHostRow == [status |-> "none", plan |-> AnyPlan, owner |-> Nobody,
              recorded |-> FALSE, old |-> FALSE, budget |-> Zero, used |-> Zero]
NoContextRow == [status |-> "none", ws |-> AnyWorkspace, host |-> NoHost, caps |-> Zero]
IdleProv == [pc |-> "idle", plan |-> AnyPlan, host |-> NoHost, caps |-> Zero]
IdleTerm == [pc |-> "idle", ctx |-> Nobody, host |-> NoHost]
IdleRebuild == [pc |-> "idle", ctx |-> Nobody]

Init == /\ hosts = [h \in Host |-> NoHostRow]
        /\ ec2 = [h \in Host |-> "none"]
        /\ ctxs = [c \in Context |-> NoContextRow]
        /\ role \in [Workspace -> Plan]
        /\ \A w \in Workspace : role[w] \in PlanChoices[w]
        /\ planCaps = [p \in Plan |-> CHOOSE v \in CapChoices[p] : TRUE]
        /\ prov = [c \in Context |-> IdleProv]
        /\ rebuild = [b \in Rebuilder |-> IdleRebuild]
        /\ term = [t \in Task |-> IdleTerm]
        /\ crashes = 0

-----------------------------------------------------------------------------
(* The tables *)

HostExists(h) == h \in Host /\ hosts[h].status \notin {"none", "deleted"}
ContextExists(c) == ctxs[c].status \notin {"none", "deleted"}
Linked(h) == {c \in Context : ContextExists(c) /\ ctxs[c].host = h}
ContextsOf(w) == {c \in Context : ContextExists(c) /\ ctxs[c].ws = w}

\* UPDATE containers SET status ... WHERE id = c: nothing if the row is gone.
SetContextStatus(c, s) ==
  ctxs' = IF ContextExists(c) THEN [ctxs EXCEPT ![c].status = s] ELSE ctxs

\* Mutant of SetHostStatus: an upsert, which brings a deleted row back.
UpsertHostStatus(h, s) == hosts' = [hosts EXCEPT ![h].status = s]

\* UPDATE hosts SET status ... WHERE id = h.
SetHostStatus(h, s) ==
  hosts' = IF HostExists(h) THEN [hosts EXCEPT ![h].status = s] ELSE hosts

\* DELETE FROM hosts WHERE id = h.
DeletedHostRow(h) == [hosts[h] EXCEPT !.status = "deleted", !.used = Zero]

\* Mutant of CanReserve: one dimension with room is enough.
CanReserveSomewhere(h, caps) ==
  /\ hosts[h].status = "ready"
  /\ \E r \in Resource : hosts[h].used[r] + caps[r] <= hosts[h].budget[r]

\* reserve_host_capacity: a guarded UPDATE of one row.
CanReserve(h, caps) == /\ hosts[h].status = "ready"
                       /\ Fits(hosts[h].used, caps, hosts[h].budget)
Reserved(h, caps) == [hosts EXCEPT ![h].used = Charge(@, caps)]

\* release_host_capacity: nothing if the row is gone.
Released(h, caps) ==
  IF HostExists(h) THEN [hosts EXCEPT ![h].used = Refund(@, caps)] ELSE hosts

-----------------------------------------------------------------------------
(* Creating and placing a context *)

HasQuota(w) == \/ MaxContexts[role[w]] = Unlimited
               \/ Cardinality(ContextsOf(w)) < MaxContexts[role[w]]

\* POST /provision: count, insert the row, start the background task.
CreateContext(w, c) ==
  /\ ctxs[c].status = "none"
  /\ HasQuota(w)
  /\ ctxs' = [ctxs EXCEPT ![c] = [status |-> "provisioning", ws |-> w,
                                  host |-> NoHost, caps |-> planCaps[role[w]]]]
  /\ prov' = [prov EXCEPT ![c] = [IdleProv EXCEPT !.pc = "start", !.plan = role[w]]]
  /\ UNCHANGED <<hosts, ec2, role, planCaps, rebuild, term, crashes>>

\* _workspace_home_host_id may return any of these: its query has no order.
Homes(w) == {ctxs[c].host : c \in ContextsOf(w)} \ {NoHost}

\* Mutant of Candidates: the workspace filter on dedicated hosts is missing.
CandidatesOfAnyone(p, w) ==
  {h \in Host : /\ hosts[h].status = "ready"
                /\ IF Hosting[p] = "shared"
                   THEN hosts[h].owner = Nobody /\ hosts[h].plan = p
                   ELSE hosts[h].owner # Nobody}

\* The query of find_ready_host_with_capacity; a shared host has no owner.
Candidates(p, w) ==
  {h \in Host : /\ hosts[h].status = "ready"
                /\ IF Hosting[p] = "shared"
                   THEN hosts[h].owner = Nobody /\ hosts[h].plan = p
                   ELSE hosts[h].owner = w}

\* The hosts the loop over the rows can end on: a home host with room goes
\* first, then the oldest host with room (identifiers are in creation order).
FirstFit(fitting, homes) ==
  IF homes # {} /\ homes \subseteq fitting THEN homes
  ELSE (fitting \cap homes) \cup {h \in fitting : \A g \in fitting : h <= g}

Fitting(c) == {h \in Candidates(prov[c].plan, ctxs[c].ws) :
                 CanReserve(h, planCaps[prov[c].plan])}

\* place_or_provision, fast path: no await between the query and the RPC.
PlaceOnReady(c) ==
  /\ prov[c].pc = "start"
  /\ \E h \in FirstFit(Fitting(c), Homes(ctxs[c].ws)) :
       /\ hosts' = Reserved(h, planCaps[prov[c].plan])
       /\ prov' = [prov EXCEPT ![c] = [@ EXCEPT !.pc = "master", !.host = h,
                                                !.caps = planCaps[prov[c].plan]]]
  /\ UNCHANGED <<ec2, ctxs, role, planCaps, rebuild, term, crashes>>

OrderedRow(p, w) ==
  [NoHostRow EXCEPT !.status = "provisioning", !.plan = p, !.budget = HostBudget[p],
                    !.owner = IF Hosting[p] = "dedicated" THEN w ELSE Nobody]

\* place_or_provision, slow path: insert the host row, await the launch.
ProvisionHost(c) ==
  /\ prov[c].pc = "start"
  /\ Fitting(c) = {}
  /\ \E h \in Host :
       /\ hosts[h].status = "none"
       /\ \A g \in Host : g < h => hosts[g].status # "none"
       /\ hosts' = [hosts EXCEPT ![h] = OrderedRow(prov[c].plan, ctxs[c].ws)]
       /\ prov' = [prov EXCEPT ![c] = [@ EXCEPT !.pc = "launch", !.host = h,
                                                !.caps = planCaps[prov[c].plan]]]
  /\ UNCHANGED <<ec2, ctxs, role, planCaps, rebuild, term, crashes>>

-----------------------------------------------------------------------------
(* Waiting for a new host *)

\* Mutant of Abandon: the row keeps its status when the task ends.
AbandonSilently(c) == /\ prov' = [prov EXCEPT ![c] = IdleProv]
                      /\ UNCHANGED ctxs

\* The except branch of _provision_bg when nothing has been reserved.
Abandon(c) == /\ prov' = [prov EXCEPT ![c] = IdleProv]
              /\ SetContextStatus(c, "error")

\* run_instances succeeds in its thread; the id is still only a local variable.
LaunchSucceeds(c) ==
  /\ prov[c].pc = "launch"
  /\ ec2' = [ec2 EXCEPT ![prov[c].host] = "running"]
  /\ prov' = [prov EXCEPT ![c].pc = "address"]
  /\ UNCHANGED <<hosts, ctxs, role, planCaps, rebuild, term, crashes>>

LaunchFails(c) ==
  /\ prov[c].pc = "launch"
  /\ SetHostStatus(prov[c].host, "error")
  /\ Abandon(c)
  /\ UNCHANGED <<ec2, role, planCaps, rebuild, term, crashes>>

\* The instance has a public address: provision_host records instance and address.
AddressAssigned(c) ==
  LET h == prov[c].host IN
  /\ prov[c].pc = "address"
  /\ hosts' = IF HostExists(h) THEN [hosts EXCEPT ![h].recorded = TRUE] ELSE hosts
  /\ prov' = [prov EXCEPT ![c].pc = "health"]
  /\ UNCHANGED <<ec2, ctxs, role, planCaps, rebuild, term, crashes>>

\* _wait_for_public_ip raises TimeoutError: the running instance is not recorded.
AddressTimesOut(c) ==
  /\ prov[c].pc = "address"
  /\ SetHostStatus(prov[c].host, "error")
  /\ Abandon(c)
  /\ UNCHANGED <<ec2, role, planCaps, rebuild, term, crashes>>

\* Mutant of Open: the slot of the waiting context is not reserved.
OpenWithoutReserving(h, caps) == [hosts EXCEPT ![h].status = "ready"]

\* provision_host marks the row ready, then place_or_provision reserves.
Open(h, caps) ==
  IF Fits(hosts[h].used, caps, hosts[h].budget)
  THEN [hosts EXCEPT ![h] = [hosts[h] EXCEPT !.status = "ready",
                                             !.used = Charge(hosts[h].used, caps)]]
  ELSE [hosts EXCEPT ![h].status = "ready"]

\* The master answers /health.  If the row was deleted meanwhile, reading it
\* back raises; if the slot does not fit, "had no capacity" is raised.
MasterHealthy(c) ==
  LET h == prov[c].host IN
  /\ prov[c].pc = "health"
  /\ ec2[h] = "running"
  /\ hosts' = IF HostExists(h) THEN Open(h, prov[c].caps) ELSE hosts
  /\ IF HostExists(h) /\ Fits(hosts[h].used, prov[c].caps, hosts[h].budget)
     THEN prov' = [prov EXCEPT ![c].pc = "master"] /\ UNCHANGED ctxs
     ELSE Abandon(c)
  /\ UNCHANGED <<ec2, role, planCaps, rebuild, term, crashes>>

HealthTimesOut(c) ==
  /\ prov[c].pc = "health"
  /\ SetHostStatus(prov[c].host, "error")
  /\ Abandon(c)
  /\ UNCHANGED <<ec2, role, planCaps, rebuild, term, crashes>>

-----------------------------------------------------------------------------
(* The host's master *)

\* Mutant of MasterRejects: the reserved slot is not given back.
MasterRejectsKeepingSlot(c) ==
  /\ prov[c].pc = "master"
  /\ Abandon(c)
  /\ UNCHANGED <<hosts, ec2, role, planCaps, rebuild, term, crashes>>

\* _provision_bg's call to the master fails: release the slot, mark the row.
MasterRejects(c) ==
  /\ prov[c].pc = "master"
  /\ hosts' = Released(prov[c].host, prov[c].caps)
  /\ Abandon(c)
  /\ UNCHANGED <<ec2, role, planCaps, rebuild, term, crashes>>

\* The master provisions the container and _provision_bg links the row to the
\* host.  No row is left to link after an early delete; the foreign key refuses
\* the link when the host row is gone, and the except branch runs.  The master's
\* answer says whether the container is healthy; nothing looks at it again.
MasterAccepts(c) ==
  LET h == prov[c].host IN
  /\ prov[c].pc = "master"
  /\ ec2[h] = "running"
  /\ prov' = [prov EXCEPT ![c] = IdleProv]
  /\ IF HostExists(h) /\ ContextExists(c)
     THEN \E s \in Up : ctxs' = [ctxs EXCEPT ![c] = [@ EXCEPT !.host = h, !.status = s]]
     ELSE SetContextStatus(c, "error")
  /\ UNCHANGED <<hosts, ec2, role, planCaps, rebuild, term, crashes>>

\* POST /{id}/rebuild: refused (409) until the context has a host.
RebuildContext(b, c) ==
  /\ rebuild[b].pc = "idle"
  /\ ContextExists(c) /\ ctxs[c].host # NoHost
  /\ SetContextStatus(c, "provisioning")
  /\ rebuild' = [rebuild EXCEPT ![b] = [pc |-> "master", ctx |-> c]]
  /\ UNCHANGED <<hosts, ec2, role, planCaps, prov, term, crashes>>

EndRebuild(b, outcome) ==
  /\ rebuild[b].pc = "master"
  /\ SetContextStatus(rebuild[b].ctx, outcome)
  /\ rebuild' = [rebuild EXCEPT ![b] = IdleRebuild]
  /\ UNCHANGED <<hosts, ec2, role, planCaps, prov, term, crashes>>

RebuildAccepted(b) ==
  /\ rebuild[b].pc = "master"
  /\ \E h \in Host : h = ctxs[rebuild[b].ctx].host /\ ec2[h] = "running"
  /\ \E s \in Up : EndRebuild(b, s)

RebuildFailed(b) == EndRebuild(b, "error")

-----------------------------------------------------------------------------
(* Deleting contexts and terminating empty hosts *)

\* DELETE FROM containers WHERE id = c.
WithoutContext(c) ==
  [ctxs EXCEPT ![c] = [@ EXCEPT !.status = "deleted", !.host = NoHost]]

\* DELETE of a context that has no host: the row goes in one step.
DeleteUnplaced(c) ==
  /\ ContextExists(c) /\ ctxs[c].host = NoHost
  /\ prov[c].pc = "idle" \/ "deletes_unplaced" \in Habits
  /\ ctxs' = WithoutContext(c)
  /\ UNCHANGED <<hosts, ec2, role, planCaps, prov, rebuild, term, crashes>>

\* DELETE of a linked context: read the row, await the master.
DeletePlaced(r, c) ==
  /\ term[r].pc = "idle"
  /\ ContextExists(c) /\ ctxs[c].host # NoHost
  /\ \/ "deletes_twice" \in Habits
     \/ \A t \in Request : term[t].ctx # c
  /\ term' = [term EXCEPT ![r] = [pc |-> "master", ctx |-> c, host |-> ctxs[c].host]]
  /\ UNCHANGED <<hosts, ec2, ctxs, role, planCaps, prov, rebuild, crashes>>
\* terminate_host_if_empty on the given hosts table, where the contexts of
\* linked are on host h, up to its await: an instance is terminated first, a
\* row without one is deleted at once.
TerminateIfEmpty(t, h, table, linked) ==
  IF ~HostExists(h) \/ linked # {}
  THEN hosts' = table /\ term' = [term EXCEPT ![t] = IdleTerm]
  ELSE IF hosts[h].recorded
       THEN /\ hosts' = table
            /\ term' = [term EXCEPT ![t] = [pc |-> "ec2", ctx |-> Nobody, host |-> h]]
       ELSE /\ hosts' = [table EXCEPT ![h] = DeletedHostRow(h)]
            /\ term' = [term EXCEPT ![t] = IdleTerm]

\* The master answers the delete, or not: release, delete the row, and clean up.
FinishDelete(r) ==
  LET c == term[r].ctx
      h == term[r].host IN
  /\ term[r].pc = "master"
  /\ ctxs' = WithoutContext(c)
  /\ TerminateIfEmpty(r, h, Released(h, ctxs[c].caps), Linked(h) \ {c})
  /\ UNCHANGED <<ec2, role, planCaps, prov, rebuild, crashes>>

\* Mutant of SweepHost: hosts that never became ready are passed over.
SweepReadyHost(s, h) ==
  /\ term[s].pc = "idle"
  /\ hosts[h].status = "ready" /\ Linked(h) = {}
  /\ hosts[h].old \/ s \notin Patient
  /\ TerminateIfEmpty(s, h, hosts, {})
  /\ UNCHANGED <<ec2, ctxs, role, planCaps, prov, rebuild, crashes>>

\* terminate_empty_hosts reaches host h.
SweepHost(s, h) ==
  /\ term[s].pc = "idle"
  /\ HostExists(h) /\ Linked(h) = {}
  /\ hosts[h].old \/ s \notin Patient
  /\ TerminateIfEmpty(s, h, hosts, {})
  /\ UNCHANGED <<ec2, ctxs, role, planCaps, prov, rebuild, crashes>>

TerminateSucceeds(t) ==
  /\ term[t].pc = "ec2"
  /\ ec2' = [ec2 EXCEPT ![term[t].host] = "terminated"]
  /\ term' = [term EXCEPT ![t].pc = "row"]
  /\ UNCHANGED <<hosts, ctxs, role, planCaps, prov, rebuild, crashes>>

\* Mutant of TerminateFails: the row is deleted although the call failed.
TerminateFailsDroppingRow(t) ==
  /\ term[t].pc = "ec2"
  /\ hosts' = [hosts EXCEPT ![term[t].host] = DeletedHostRow(term[t].host)]
  /\ term' = [term EXCEPT ![t] = IdleTerm]
  /\ UNCHANGED <<ec2, ctxs, role, planCaps, prov, rebuild, crashes>>

TerminateFails(t) ==
  /\ term[t].pc = "ec2"
  /\ term' = [term EXCEPT ![t] = IdleTerm]
  /\ UNCHANGED <<hosts, ec2, ctxs, role, planCaps, prov, rebuild, crashes>>

\* Mutant of RemovableRow: contexts linked during the await do not keep the row.
RemovableOnceChecked(h) == HostExists(h)

\* DELETE FROM hosts succeeds: the row is there and no foreign key refuses.
RemovableRow(h) == HostExists(h) /\ Linked(h) = {}

\* terminate_host_if_empty after its await.
RemoveHostRow(t) ==
  LET h == term[t].host IN
  /\ term[t].pc = "row"
  /\ hosts' = IF RemovableRow(h) THEN [hosts EXCEPT ![h] = DeletedHostRow(h)] ELSE hosts
  /\ term' = [term EXCEPT ![t] = IdleTerm]
  /\ UNCHANGED <<ec2, ctxs, role, planCaps, prov, rebuild, crashes>>

-----------------------------------------------------------------------------
(* The environment *)

\* created_at falls behind the sweep's cutoff.
HostAges(h) ==
  /\ HostExists(h) /\ ~hosts[h].old
  /\ hosts' = [hosts EXCEPT ![h].old = TRUE]
  /\ UNCHANGED <<ec2, ctxs, role, planCaps, prov, rebuild, term, crashes>>

\* POST /me/plan: any plan, at any time.
SelectPlan(w) ==
  /\ \E p \in PlanChoices[w] \ {role[w]} : role' = [role EXCEPT ![w] = p]
  /\ UNCHANGED <<hosts, ec2, ctxs, planCaps, prov, rebuild, term, crashes>>

\* An operator edits the plans table and the cache picks the row up; or a read of
\* the table fails, and its answer, the defaults, is kept like any other (get_plans).
EditPlan(p) ==
  /\ \E v \in CapChoices[p] \ {planCaps[p]} : planCaps' = [planCaps EXCEPT ![p] = v]
  /\ UNCHANGED <<hosts, ec2, ctxs, role, prov, rebuild, term, crashes>>

\* The process dies and starts again: its coroutines are gone, and startup
\* resumes none of them.
Restart ==
  /\ crashes < MaxCrash
  /\ crashes' = crashes + 1
  /\ prov' = [c \in Context |-> IdleProv]
  /\ rebuild' = [b \in Rebuilder |-> IdleRebuild]
  /\ term' = [t \in Task |-> IdleTerm]
  /\ UNCHANGED <<hosts, ec2, ctxs, role, planCaps>>

Provision(c) == \/ PlaceOnReady(c) \/ ProvisionHost(c)
                \/ LaunchSucceeds(c) \/ LaunchFails(c)
                \/ AddressAssigned(c) \/ AddressTimesOut(c)
                \/ MasterHealthy(c) \/ HealthTimesOut(c)
                \/ MasterAccepts(c) \/ MasterRejects(c)

Rebuild(b) == RebuildAccepted(b) \/ RebuildFailed(b)

Terminate(t) == TerminateSucceeds(t) \/ TerminateFails(t) \/ RemoveHostRow(t)

Next == \/ \E w \in Workspace, c \in Context : CreateContext(w, c)
        \/ \E c \in Context : Provision(c) \/ DeleteUnplaced(c)
        \/ \E r \in Request, c \in Context : DeletePlaced(r, c)
        \/ \E r \in Request : FinishDelete(r)
        \/ \E b \in Rebuilder, c \in Context : RebuildContext(b, c)
        \/ \E b \in Rebuilder : Rebuild(b)
        \/ \E s \in Sweeper, h \in Host : SweepHost(s, h)
        \/ \E t \in Task : Terminate(t)
        \/ \E h \in Host : HostAges(h)
        \/ \E w \in Workspace : SelectPlan(w)
        \/ \E p \in Plan : EditPlan(p)
        \/ Restart

Spec == Init /\ [][Next]_vars

\* Calls answer or time out, so a coroutine at an await goes on; the sweep
\* visits every host again and again, and EC2 does not refuse to terminate an
\* instance for ever.
Fairness ==
  /\ \A c \in Context : WF_vars(Provision(c))
  /\ \A b \in Rebuilder : WF_vars(Rebuild(b))
  /\ \A r \in Request : WF_vars(FinishDelete(r))
  /\ \A h \in Host : WF_vars(HostAges(h))
  /\ \A t \in Task : WF_vars(Terminate(t)) /\ SF_vars(TerminateSucceeds(t))
  /\ \A s \in Sweeper, h \in Host : SF_vars(SweepHost(s, h))

FairSpec == Spec /\ Fairness
-----------------------------------------------------------------------------
(* Safety *)

\* Concurrent placements, double deletes and restarts never push the recorded
\* use of a host beyond its budget in any dimension (reserve_host_capacity).
WithinBudget == \A h \in Host, r \in Resource : hosts[h].used[r] <= hosts[h].budget[r]

\* Only contexts of the owning workspace are linked to, or on their way to, a
\* dedicated host (find_ready_host_with_capacity, provision_host).
DedicatedIsolation ==
  \A c \in Context, h \in Host :
    /\ hosts[h].owner # Nobody
    /\ \/ ContextExists(c) /\ ctxs[c].host = h
       \/ prov[c].pc # "idle" /\ prov[c].host = h
    => ctxs[c].ws = hosts[h].owner

\* However deletes, sweeps and placements interleave, the host of a linked
\* context has a ready row with its instance on record, so requests to the
\* context can be routed (terminate_host_if_empty, the host_id foreign key).
LinkedHostReady ==
  \A c \in Context :
    ContextExists(c) /\ ctxs[c].host # NoHost
      => hosts[ctxs[c].host].status = "ready" /\ hosts[ctxs[c].host].recorded

\* Once an instance is on record its row is not deleted before the instance is
\* terminated ("keep the row; don't lose track of a still-running instance").
RecordedNeverLost ==
  \A h \in Host : hosts[h].status = "deleted" /\ hosts[h].recorded => ec2[h] # "running"

(* Liveness *)

Attended(c) == prov[c].pc # "idle" \/ \E b \in Rebuilder : rebuild[b].ctx = c

\* Whatever fails on the way, a placement or rebuild takes its row out of
\* 'provisioning' (to 'running', 'starting' or 'error'), unless a restart cuts it
\* short (_provision_bg, _rebuild_bg).
ProvisioningResolves ==
  \A c \in Context, n \in 0 .. MaxCrash :
    /\ ctxs[c].status = "provisioning" /\ Attended(c)
    /\ crashes = n
    ~> ctxs[c].status # "provisioning" \/ crashes > n

\* A host row without contexts is deleted or gets a context, whatever failed
\* before: the sweep catches what deletes and crashes left (poller.py).
IdleHostReclaimed ==
  \A h \in Host : HostExists(h) /\ Linked(h) = {} ~> ~HostExists(h) \/ Linked(h) # {}

-----------------------------------------------------------------------------
(* What docs and comments say, and the code does not do *)

\* contexts.py, "the dashboard polls GET /api/contexts/{id} until status flips
\* provisioning -> running | error": nothing else becomes of the row, ...
SettlesAsDocumented ==
  [][\A c \in Context :
       ctxs[c].status = "provisioning"
         => ctxs'[c].status \in {"provisioning", "running", "error", "deleted"}]_vars

\* ... and it does not stay in 'provisioning'.
NeverStuck ==
  \A c \in Context : ctxs[c].status = "provisioning" ~> ctxs[c].status # "provisioning"

\* terminate_empty_hosts: a host "whose context row isn't linked yet isn't torn
\* down mid-provision".
ReservedHostKept ==
  [][\A c \in Context, h \in Host :
       prov[c].pc = "master" /\ prov[c].host = h => hosts'[h].status # "deleted"]_vars

\* poller.py, "so we never pay for idle EC2": an instance without a row is out
\* of the sweep's sight.
RunningInstanceTracked ==
  \A h \in Host : ec2[h] = "running" => HostExists(h)

\* terminate_host_if_empty terminates a host "when it has no contexts".
LinkedInstanceRuns ==
  \A c \in Context :
    ContextExists(c) /\ ctxs[c].host # NoHost => ec2[ctxs[c].host] = "running"

\* "Pro/Team/Enterprise -> the workspace's dedicated host (provision on first
\* use)": a workspace has one such host at a time.
OneDedicatedHost ==
  \A g, h \in Host :
    /\ HostExists(g) /\ HostExists(h)
    /\ hosts[g].owner # Nobody /\ hosts[g].owner = hosts[h].owner
    => g = h

-----------------------------------------------------------------------------
(* The inductive invariant *)

\* Caps are always some plan's: the running config, a row, a task's copy.
CapsOffered ==
  /\ \A p \in Plan : planCaps[p] \in Offered
  /\ \A c \in Context :
       /\ ctxs[c].status # "none" => ctxs[c].caps \in Offered
       /\ prov[c].pc \notin {"idle", "start"} => prov[c].caps \in Offered

\* A host is charged only while it is ready, and ready only with its instance.
ReadyHosts ==
  \A h \in Host :
    /\ hosts[h].status # "ready" => hosts[h].used = Zero
    /\ hosts[h].status = "ready" => hosts[h].recorded

Ordering(c) == prov[c].pc \in {"launch", "address", "health"}

\* Each background task knows what became of its host: one that orders a host is
\* alone with it, and only the sweep may have taken the row away.
ProvPhases ==
  \A c \in Context :
    LET h == prov[c].host IN
    /\ prov[c].pc # "idle" => ctxs[c].status # "none"
    /\ prov[c].pc \in {"idle", "start"} => h = NoHost
    /\ Ordering(c) => h \in Host /\ hosts[h].status \in {"provisioning", "deleted"}
    /\ prov[c].pc = "master" => h \in Host /\ hosts[h].status \in {"ready", "deleted"}
    /\ prov[c].pc \in {"launch", "address"} => ~hosts[h].recorded
    /\ prov[c].pc = "health" /\ HostExists(h) => hosts[h].recorded
    /\ \A d \in Context : Ordering(c) /\ Ordering(d) /\ h = prov[d].host => c = d

\* The same of a delete request or sweep at an await.
TermPhases ==
  \A t \in Task :
    LET h == term[t].host IN
    /\ term[t].pc = "master" => /\ h \in Host /\ hosts[h].status \in {"ready", "deleted"}
                                /\ term[t].ctx \in Context
                                /\ ctxs[term[t].ctx].status # "none"
    /\ term[t].pc \in {"ec2", "row"} => /\ h \in Host /\ hosts[h].recorded
                                         /\ hosts[h].status # "none"
    /\ term[t].pc = "row" => ec2[h] = "terminated"

\* Together with the safety invariants above, every step preserves these.
Inductive == /\ TypeOK /\ CapsOffered /\ ReadyHosts /\ ProvPhases /\ TermPhases
             /\ WithinBudget /\ DedicatedIsolation /\ LinkedHostReady
             /\ RecordedNeverLost

-----------------------------------------------------------------------------
(* Refinement *)

\* The host rows are the pool of hosts of module HostPool.
Pool == INSTANCE HostPool WITH
          Amount <- Offered,
          Size   <- {HostBudget[p] : p \in Plan},
          phase  <- [h \in Host |-> hosts[h].status],
          limit  <- [h \in Host |-> hosts[h].budget],
          sold   <- [h \in Host |-> hosts[h].used]

\* Every step of every handler, sweep and background task is a step of the pool
\* specification or leaves every host as it was: nothing is reserved on a host
\* that is not ready, and neither status nor deletion is ever undone.
ImplementsPool == Pool!PoolSpec
=============================================================================
