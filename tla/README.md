# TLA+ models of the Belleq backend

Models of the control plane in `src/`: a FastAPI backend that keeps its state
in Supabase and runs customers' containers on EC2. Each module says which code
it models; `PROJECT.json` maps every definition to the lines it stands for.

Contents: [the system](#the-system), [modules](#modules),
[how the code becomes actions](#how-the-code-becomes-actions),
[runs](#runs), [what the code does not keep](#what-the-code-does-not-keep),
[fairness](#fairness), [proofs](#proofs), [limits](#limits), [plan](#plan).

## The system

The backend is one uvicorn process with one asyncio event loop. The Supabase
client blocks, so code between two `await`s is atomic with respect to all other
handlers and tasks; what interleaves is what happens at the awaits: calls of
EC2, of a host's *master* (the service that manages the containers of a host),
of a user container, and the starts of background tasks. Rows and EC2 instances
survive a restart; coroutines and scheduler jobs do not.

| component | state | operations | interacts with |
|---|---|---|---|
| contexts (`routers/contexts.py`) | `containers` rows, `_provision_bg` and `_rebuild_bg` tasks | provision, rebuild, rename, regenerate key, delete | host scheduler, master |
| host scheduler (`services/scheduler.py`) | `hosts` rows, EC2 instances | place or provision, terminate if empty, sweep | capacity RPC, EC2 |
| capacity RPC (`sql/ec2_packing_rpc.sql`) | `*_used` columns of `hosts` | reserve, release | - |
| plans (`plan_config.py`, `routers/auth.py`) | `plans` and `profiles` rows, a cache | select plan, edit plan | read by contexts |
| agent tasks (`routers/tasks.py`, `services/agent_runner.py`, `agent_store.py`) | `agent_tasks`, `agent_runs` rows, one coroutine per run | create, run, cancel, delete, clear, webhook, step callback, persist, recover | user container, scheduler |
| agent scheduler (`services/agent_scheduler.py`) | APScheduler jobs, in memory | register, fire, reload | tasks |
| agents (`routers/agents.py`) | `agents` rows | create, update, archive | scheduler |
| knowledge review (`routers/kb_review.py`) | `kb_review_queue` rows | enqueue, approve, reject | user container |
| environments (`routers/environments.py`, `containers.py`) | `environments`, `containers` rows | provision, delete, containers | EC2, master, poller |
| poller (`services/poller.py`, `main.py`) | tasks | poll, resume at startup, sweep loop | environments, hosts |
| connectors (`routers/connectors.py`, `services/connector_store.py`) | `workspace_connectors` rows | upsert, delete, push to a fresh master | master |
| bridges (`mcp_bridge.py`, `kb_api.py`, `proxy.py`, `workspace_proxy.py`) | none | forward | master |
| host routing (`main.py`) | none | accept or refuse by host and path | - |
| Telegram (`routers/telegram.py`, `services/telegram.py`) | the webhooks at Telegram, the settings in `agents` | register and remove a webhook, message to task, reply | agents, tasks |

What is hard in this code:

- minutes pass at the awaits of provisioning, and deletes, sweeps, edits, other
  placements and restarts happen meanwhile;
- rows are read before an await and written or released after it;
- EC2, the master and the containers fail half way: a launch without an
  address, a write whose answer is lost, a container that works on after its
  caller died;
- the start of a run is a task of its own, later than the request that asked;
- jobs live in memory and rows in the database, and a restart rebuilds one from
  the other.

What makes each component correct: a host is never sold beyond its budget and
its record is what its contexts occupy; nobody shares a dedicated host; an
instance is neither lost nor torn down under a context; a context leaves
`provisioning`; a key that was replaced is dead; a run ends, at most one per
task, a cancel sticks; a one-time task runs once; the daily limit holds, up to the
run that reaches it; a decision about shared knowledge stands and has its effect; plan limits hold; a
deleted environment stays deleted; connectors survive their host, and every
master of a workspace has the same; a bot's messages reach the agent that has
chat on with it, and make one task each. The list of hazards in `PROJECT.json` says
at which line each of these is at risk, and which property is about it.

## Modules

| module | models |
|---|---|
| `Capacity` | vectors of resources and the SQL of reserve and release |
| `HostPool` | abstract: what any user of the host scheduler may rely on |
| `Placement` | contexts, hosts, instances; provisioning, rebuild, delete, sweep, plans, restart |
| `PlacementAccounting` | the recorded use of a host against what contexts occupy |
| `ContextRegistry` | a context's key and name, on its row and on the master; which calls of the REST API are let through |
| `AgentTasks` | tasks, runs, step log, schedule, budget of one agent |
| `KbReview` | the review queue and the knowledge base behind it |
| `Environments` | environments, containers, poller, plan limits |
| `Connectors` | the connectors of a workspace: store, masters, mirrored changes, pushes; host routing |
| `AgentChat` | the settings of agents, webhooks at Telegram, messages and the tasks made of them |
| `SumTheorems` | theorems about sums over finite sets |
| `PlacementProofs`, `ContextRegistryProofs`, `KbReviewProofs`, `EnvironmentsProofs`, `AgentTasksProofs`, `ConnectorsProofs`, `AgentChatProofs` | proofs |
| `MCPlacement`, `MCContextRegistry`, `MCAgentTasks`, `MCKbReview`, `MCEnvironments`, `MCConnectors`, `MCAgentChat` | instances for TLC |

`Placement` extends `Capacity` and instantiates `HostPool` with a refinement
mapping (`Pool`, `ImplementsPool`). The other modules share no state: agents,
review items and environments meet contexts only through a master that may fail,
which each module has as failing calls. `Connectors` has the placement of
contexts as any choice of hosts that `Placement` makes with workspace affinity,
and `AgentChat` has of a run only what its reply depends on: the bot's token, read
when the run starts.

## How the code becomes actions

One action is the code from one await to the next, with every row it writes.

**Placement.** `prov[c]` is `_provision_bg` of context `c`: `start` (spawned),
`launch`, `address`, `health` (the three waits of `provision_host`), `master`
(the call of the master; a slot is held). `term[t]` is a delete request or a
sweep: `master` (the call in `delete_context`), `ec2` (`terminate_ec2`), `row`
(the instance is gone, the row is not yet). `rebuild[b]` is `_rebuild_bg`.
`planCaps` is what `plan_for_role` answers, which an operator may edit;
`role` is the plan of a workspace. A host keeps its budget, its plan and its
owner from the insert on. Time is one bit per host: `HostAges` makes it old
enough for the sweep. The RPC's columns are a vector over `Resource`. When the
master answers, the row turns `running` or, if the container was not healthy yet,
`starting`, which nothing changes afterwards but a rebuild or a delete.

**ContextRegistry.** Keys and names are version numbers; `newest` is what the
client was told last. A provisioning task and a rebuild carry the values they
captured. `edit[r]` is the call to the master that follows a regenerate or a
rename. `calls[q]` is a call of the REST API: `_context_for_key` decides on the
row, and what comes after the await is the container's answer or an error. For a
key that is on no row the docstring of `_context_for_key` promises 401; the query
it uses returns `None` without a row, as `routers/mcp_bridge.py:71` says, and the
call ends in 500. The model has both as a call that is not let through.

**AgentTasks.** `runs[t]` is the sequence of `trigger_run` coroutines ever
spawned for task `t`: `queued` (spawned, not started), `executing` (at the
call of the container), `orphan` (the coroutine is gone, the container goes
on), `ended` or `refused`. `tasks[t].token` is the attempt whose run token is on
the row; `tasks[t].today` says whether the row was created since 00:00 UTC, by
which `agent_spend_today` counts, and `NextDay` clears it. A run costs whatever its
container reports: the budget in its payload (`left`) does not bind `FinishRun`. `jobs` is the scheduler. `Restart` runs `reload_jobs` and then
`fail_orphaned_running_tasks`, in the order of the startup handlers. The date of
a one-time task is a bit, set when its job fires or at a restart after it.

**KbReview.** `req[r]` is an approve request at its await, before and after the
container wrote; `late` holds the writes nobody waits for any more.

**Environments.** `proc[e]` is the background task and then the poller of
environment `e`; `req[r]` is a delete or container request at its await.
`refused` is a history variable: the environments whose termination EC2 refused.

**Connectors.** A connector is a version number, 0 for none. `edit[r]` is a
proxied request between the resolution of the home host and the master;
`mirror` holds the calls of the masters to the backend, which arrive in any order;
`task[c]` is the part of `_provision_bg` and `_rebuild_bg` from the call of the
master to the push, with the rows that were read. The master is not in the
repository: that it mirrors each change, and that an import skips what it has a
newer copy of, is what `routers/contexts.py:72` and the connector modules say.
`Served` is `enforce_host_routing` over kinds of host names and paths.

**AgentChat.** `agent[a]` is the row of an agent, `webhook[b]` the agent to which
Telegram delivers the messages of bot `b`, `update[m]` a message at Telegram
and its handler: delivered again until it is told 200, `body` while the handler
waits for the body. `task[t]` is a task made of a message. Telegram is modelled by
how `services/telegram.py` uses it: one webhook for each bot, pending messages
dropped with `drop_pending_updates`. A handler that raises answers 500, although
`routers/telegram.py:33` says "Always 200 to Telegram": `CreateFails` is such a
step, and the message is then delivered again.

Data that no property tells apart is a model value or left out: names, payloads,
prompts, ports, regions, audit rows, logs.

### Constants that stand for assumptions

`Habits` says what clients do. A passing run with a habit left out is a property
under the assumption that clients do not do this; the instance that shows what
happens otherwise is listed below.

| module | habit | meaning |
|---|---|---|
| Placement | `deletes_unplaced` | DELETE of a context that is still being provisioned |
| | `deletes_twice` | DELETE again before the first one answered |
| ContextRegistry | `edits_early` | regenerate, rename or delete during provisioning |
| | `overlaps` | a request before the last took effect |
| AgentTasks | `reruns` | run a task again after a run |
| | `reruns_early` | ... or while a run of it is on its way |
| | `runs_together` | run several tasks at a time |
| | `cancels_queued` | cancel between the request and the start of the run |
| KbReview | `decides_twice` | decide on an item that is being approved |
| Environments | `deletes_early` | DELETE while the instance is launched or polled |
| | `overlaps` | a request on an environment before the last answered |
| Connectors | `spread` | contexts of a workspace on a second host |
| | `returns` | a context on a host that the workspace has left and others kept up |

The two of `Connectors` are about the placement, not about clients: the scheduler
does both when the home host is full, or shared. `Faults` of Environments has `reset` (the poller meets an exception it does not
catch, such as a reset connection), of ContextRegistry and Connectors `lost`
(calls that do not reach the master, or the backend) and of AgentChat `telegram`,
`database` and `answer` (a call of Telegram, the insertion of a task, or the 200
fails). Failures that the code handles are always possible.

Where an assumption is about what has happened so far, a history variable or
field records it instead, which no guard reads: `disturbed` in ContextRegistry
(a request overlapped another, or a call was lost or cut off), `together` in
AgentTasks (a run started beside another), `refused` in Environments, `lost` and
`crossed` in Connectors (a change did not arrive; two changes, or a change and a
push, overtook each other), `unsettled`, `repeated` and `overtaken` in AgentChat
(bots that two agents had, that one gave up or of which a call failed; messages
whose 200 was lost; messages whose agent was changed during the delivery). The
property then excepts them.

## Runs

Passing. Bounds are on rows ever inserted and tasks at a time; every run's
instance is chosen so that its interesting cases happen: two contexts that
compete for a host with room for one more, a second host to be ordered, a
rerun, a second webhook.

| run | shows | instance |
|---|---|---|
| `PlacementAccounts` | `ExactAccounting`, `ChargesCover` | 2 workspaces (one dedicated, one shared), 3 contexts, 2 hosts, a delete, a rebuild, the loop's sweep, a restart |
| `PlacementRough` | `Inductive` (with `TypeOK`), `LinkedHostReady`, `RecordedNeverLost`, `ImplementsPool` | 2 workspaces with dedicated hosts, 2 contexts, 2 hosts, 2 deletes at a time, early and double deletes, a restart |
| `PlacementPlans` | `WithinBudget`, `DedicatedIsolation` | a workspace that changes plan, a plan whose caps are edited, early deletes |
| `PlacementLive` | `ProvisioningResolves`, `IdleHostReclaimed` | a workspace, 2 contexts, 2 hosts, a delete, a rebuild, a restart |
| `KeyAndRegistry` | `NewestAccepted`, `KeyDecides`, `RegistryAgrees`, `DeletedIsGone` | 2 edits, 2 rebuilds, a delete, a call of the API at a time, lost calls, a restart |
| `AgentRuns` | `TypeOK`, `LogOfLastRun`, `OnceRunsOnce`, `CancelledNotStarted`, `ResultKeepsCancel` | one task, with a date, by request or by webhook, 3 runs of it that may overlap, cancels, pauses, 2 restarts |
| `AgentLive` | `OverspendByOneRun`, `StoppedWithinLimit`, `RunResolves` | 2 tasks that may run together, a recurring schedule, a webhook, pauses, archiving, a change of day, a restart, limit 2, costs 1 and 2 |
| `Review` | `ApprovedIsWritten`, `DecisionStands` | 3 items, 2 approvals at a time, of one item too, rejections of an item being approved, lost answers, 2 restarts |
| `EnvLimits` | `EnvInv` (with `TypeOK`), `EnvironmentLimit`, `ContainerLimit`, `TerminatedIsEmpty`, `DeletedNotRunning`, `TerminatedStays` | a customer of either plan, 3 environments, 3 containers, 2 requests at a time, failing calls, a restart |
| `Connectors` | `StoreIsNewest`, `MastersAgree` | 2 contexts, 2 hosts, 2 connectors, 3 changes, lost changes, a restart |
| `AgentChat` | `WebhookMatches`, `MessageOnce`, `KeyedHasKey`, `TasksWhileOn` | 2 agents, 2 bots, a message, 2 tasks, 3 edits, all faults, a restart |

Why the bounds are enough: capacity conflicts need two contexts and one host
with room for one, affinity and first fit need a second host, and a third
context meets a host that one of the others left. A further run of a task finds
a row like the second one did, and a further restart one like the first left,
except where the schedule is concerned: `AgentRuns` has two. Two mirrored changes
overtake each other, and the third may meet the push that one of them crossed; two
agents are enough to share a bot or to swap two. With a limit of 2 and costs 1 and 2
a run can start with a part of the limit left and go beyond it. `AgentLive` runs no
task again, as liveness over reruns is beyond TLC here: the theorems about its two
safety properties include reruns of every kind. Contexts,
tasks and environments are symmetric, and no action counts beyond a plan's
limit, which is 2 in the instances. The proofs below need no bounds.

No run checks for deadlock: clients and operators may stop asking, and the
bounds end every behaviour.

## What the code does not keep

Each of these properties is what a comment, a message or a document in the
repository says, and TLC finds a counterexample. The first is a run of the
project, and `PROJECT.json` quotes the line and explains the cause:

| run | property | what happens |
|---|---|---|
| `DoubleDelete` | `NeverOverCommitted` | two overlapping DELETEs release a slot twice, and the host is oversold |

The others are checked by hand (`tlc -config X.cfg M`). Where the first column has
one of the passing runs, replace the properties of its cfg by the one named here;
the others have a cfg of their own, as they need a habit or a constant that the
passing runs leave out.

| cfg | module | property | what happens | what it contradicts |
|---|---|---|---|---|
| `SlotLeak` | `MCPlacement` | `ExactAccounting` | a context deleted during provisioning leaves its slot charged | `sql/ec2_packing.sql:29`, "currently reserved by placed contexts" |
| `PlacementPlans` | `MCPlacement` | `ChargesCover` | the caps of a plan are edited before the task of a new context reads them: it reserves by the new caps, and the row, by which a slot is given back, has the old | the same |
| `PlacementLive` | `MCPlacement` | `SettlesAsDocumented` | the master answers that a new container is not healthy yet, and the row turns `starting` and stays so | `routers/contexts.py:7`, "provisioning -> running \| error" |
| `CrashStuck` | `MCPlacement` | `NeverStuck` | after a restart a context stays in `provisioning` | the same |
| `PlacementRough` | `MCPlacement` | `ReservedHostKept` | a host is retired while a context holds a slot on it | `services/scheduler.py:300`, "isn't torn down mid-provision" |
| `PlacementRough` | `MCPlacement` | `RunningInstanceTracked` | an instance without an address in time is forgotten, and runs on | `services/poller.py:22`, "so we never pay for idle EC2" |
| `PlacementRough` | `MCPlacement` | `LinkedInstanceRuns` | a host's instance is terminated after a context was linked to it | `services/scheduler.py:267`, "when it has no contexts" |
| `PlacementRough` | `MCPlacement` | `OneDedicatedHost` | two contexts created together order two dedicated hosts | `services/scheduler.py:5`, "the workspace's dedicated host" |
| `KeyRolledBack` | `MCContextRegistry` | `NewestAccepted` | a key regenerated during provisioning is replaced by the old one | `routers/contexts.py:405`, "Old key stops working immediately" |
| `AgentRuns` | `MCAgentTasks` | `CancelSticks` | the connection of a cancelled run breaks, and the task turns `failed` | `routers/tasks.py:103`, "any late result won't override the cancelled state" |
| `AgentRuns` | `MCAgentTasks` | `OneRunPerTask` | two runs of one task at a time | `routers/tasks.py:91`, "Task is already running" |
| `StuckRunning` | `MCAgentTasks` | `RunResolves` | a cancel before the start of a run leaves the task `running` | `services/agent_runner.py:142`, "can't ... leave the row stuck at running" |
| `LateStepStuck` | `MCAgentTasks` | `RunResolves` | a late step turns a rerun that died with the process into `running` | the same |
| `AgentLive` | `MCAgentTasks` | `RunAlwaysResolves` | a container never answers, the call has no read timeout, and the task stays `running` | the same |
| `AgentLive` | `MCAgentTasks` | `SpendAlwaysWithinLimit` | a run costs more than was left of the budget | `sql/agents.sql:34`, "max spend/day" |
| `BudgetRace` | `MCAgentTasks` | `OverspendByOneAlways` | tasks that run together exceed the limit by more than one run | the same |
| `BudgetForgotten` | `MCAgentTasks` | `SpendRemembered` | deleting or rerunning a task forgets its cost | the same |
| `AgentLive` | `MCAgentTasks` | `RunsCounted` | a run ends today, its task was made yesterday, and the sum of today leaves its cost out | the same |
| `AgentLive` | `MCAgentTasks` | `ClonesNotScheduled` | a restart schedules the clones of a recurring task | `services/agent_scheduler.py:7`, "leaving the template untouched" |
| `AgentLive` | `MCAgentTasks` | `TemplatesKept` | clearing the history deletes a template that was run by hand | `routers/tasks.py:140`, "recurring schedule templates are kept" |
| `AgentLive` | `MCAgentTasks` | `TemplatesScheduled` | a date during a pause ends a schedule | `routers/tasks.py:62`, "A cron trigger registers a recurring schedule" |
| `DecidedTwice` | `MCKbReview` | `DecisionFinal` | a rejection turns into an approval | `routers/kb_review.py:40`, "Item already ..." |
| `Review` | `MCKbReview` | `RejectedIsAbsent` | rejected content is in the knowledge base | `routers/kb_review.py:3`, "approves ... or rejects it" |
| `EnvStuck` | `MCEnvironments` | `ProvisioningResolves` | a restart during the launch leaves an environment in `provisioning` | `main.py:144`, "still stuck in 'provisioning'" |
| `LimitEvaded` | `MCEnvironments` | `EnvironmentLimit` | an environment deleted during its launch comes back beside its successor | `rbac.py:110`, "active environment(s)" |
| `ContainerRace` | `MCEnvironments` | `ContainerLimit` | two requests at a time exceed the container limit | `rbac.py:136`, "container(s) per environment" |
| `ContainerOutlives` | `MCEnvironments` | `TerminatedIsEmpty` | a container is created in an environment that is being deleted | `routers/containers.py:40`, "Environment is not ready" |
| `ConnectorsSpread` | `MCConnectors` | `MastersAgree` | with contexts on two hosts, only the one that was edited has the change | `routers/workspace_proxy.py:38`, "The host where this workspace's contexts live" |
| `ConnectorReturns` | `MCConnectors` | `MastersAgree` | a shared host the workspace comes back to has a connector removed meanwhile | `routers/contexts.py:74`, "is safe to call on every provision" |
| `Connectors` | `MCConnectors` | `RemovedStaysRemoved` | a push that was read before a removal brings the connector back | the same |
| `AgentChat` | `MCAgentChat` | `WebhookAlwaysMatches` | the bot an agent gives up keeps its webhook | `routers/agents.py:34`, "to match its config" |
| `AgentChat` | `MCAgentChat` | `NothingDropped` | saving the settings of a chat drops the messages that wait | nothing: `drop_pending_updates` is asked for |
| `AgentChat` | `MCAgentChat` | `RepliesFromTheBotAsked` | the bot is changed before the run starts, and another bot replies | `services/agent_runner.py:226`, the reply to the chat that asked |
| `AgentChat` | `MCAgentChat` | `ArchivedMakesNoTask` | an agent is archived while the body of a message is awaited | `routers/telegram.py:42`, the check of the status |
| `KeyOfOther` | `MCAgentChat` | `KeyOfProvider` | an agent changes from one keyed provider to another and keeps the key of the first | `routers/agents.py:202`, "must end up with a key" |

## Fairness

Liveness is checked under weak fairness of the tasks the backend runs by itself,
never of clients:

- `Placement`: a coroutine at an await goes on, as each call has a timeout
  (`_wait_for_public_ip`, `_poll_master_ready`, the httpx timeouts). A sweep
  visits every host in each round of `empty_host_sweep_loop`, hence strong
  fairness of `SweepHost`; strong fairness of `TerminateSucceeds` says that EC2
  does not refuse to terminate an instance for ever.
- `AgentTasks`: a spawned coroutine starts, and nothing more: the call of the
  container has no read timeout (`RUN_TIMEOUT`), so neither an answer nor a broken
  connection is assumed. `RunResolves` has as its hypothesis that calls end
  (`CallsEnd`) and is about what then still could leave a row in `running`: lost
  runs, late steps, restarts. Without the hypothesis it is `RunAlwaysResolves`, which
  fails.
- `Environments`: launch, address and polling have timeouts (`EnvStuck` only).

## Proofs

`tlapm` proves these for every value of the constants.

**Placement** (`PlacementProofs`). `InductiveInvariant`: every reachable state
satisfies `Inductive`. The safety properties are not inductive by themselves: a
release must not take a host below zero or charge a host that is not ready
(`ReadyHosts`), a coroutine that resumes must find the host it left, or no host
(`ProvPhases`, `TermPhases`), and what it reserves or releases must be a
vector of amounts (`CapsOffered`). Together with these, `WithinBudget`,
`DedicatedIsolation`, `LinkedHostReady` and `RecordedNeverLost` are inductive;
there is a lemma for each action. `TypeCorrect`, `BudgetHeld`,
`WorkspacesIsolated`, `LinkedHostsReady` and `RecordedInstancesKept` are what
follows. None of them assumes anything about clients: early and double
deletes and any number of restarts and sweeps are included.

**Refinement** (`PlacementProofs`). `PlacementImplementsPool`: under the
mapping `Pool`, each step of `Placement` is a step of `HostPool` or leaves all
hosts as they were. The invariant is needed to see that a host that is opened
was ordered, that a refund goes to an open host, and that a retired host
stays so.

**Accounts** (`PlacementProofs`, `SumTheorems`). `OccupiedCharged`, `AccountsExact`
and `HostsNotOverCommitted`: the use on record of a host against the sum of what
contexts take of it. No single row shows that the accounts are right, so `Accounts`
adds to them what ties a task or a request to the row it will change: a background
task reserves by the caps its row was inserted with (`CapsOfTasks`), a delete that
waits for the master still has its context, linked, and to itself (`DeletesLinked`),
and for clients that wait for a placement the context is there to be linked
(`PlacedContextsExist`). Every step then changes the record of one host and the
contexts on it by the same amount, or, after a restart has forgotten a task or when
a context went during its placement, leaves more on record than is taken. The
hypotheses are those without which TLC finds a counterexample: the caps of a plan are
not edited (`CapsFixed`; `PlacementPlans` edits them), nobody deletes a context twice
at once (`DeletesOnce`; `DoubleDelete`) and, for equality, nobody deletes one that is
being placed (`Habits = {}`; `SlotLeak`).

`SumTheorems` has what these proofs and those of the budget need of
`SumFunctionOnSet`: one element more or less adds or takes its value (`SumAdd`,
`SumRemove`), a sum depends on the values in the set (`SumSame`), is split with the
set (`SumSplit`) and grows with it (`SumMonotone`). Induction over a set is out of
reach, as a theorem of the library that takes a predicate cannot be instantiated; the
proofs take a smallest set that breaks a claim instead, which there is because the
subsets of a finite set are well founded (`SmallestSet`), and show that it does not
break it.

**Context registry** (`ContextRegistryProofs`). `KeyIsNewest`: the row has the
key and name the client was told last, if nothing is edited while provisioning
is under way. The invariant adds that the key a provisioning task holds is then
still the newest (`ProvisioningIsCurrent`). `OnlyNewestKeyTaken`: of all keys ever
given, the REST API takes that one and no other. `RegistryFollows` and
`ContainerGoesToo`: unless requests overlapped or a call was lost, row and master
agree when nothing is under way, and a deleted context has no container. Their
invariant (`SerialInv`) lists what a context can then be in: at rest, or in one of
provisioning, rebuild, edit and delete, which carries the values of the row.

**Knowledge review** (`KbReviewProofs`). `ApprovedWritten`: what is approved is
in the knowledge base, as a request that waits for an answer waits for that of a
write that was made (`AnswersFollowWrites`). `DecisionsStand`, for owners who decide
as they like: after a decision nobody can ask for another, and only an approval that
was at its await when the decision was made can change it. `DecisionsFinal`: if
nobody decides on an item that is being approved, nothing changes it, as such an item
is pending and has one approver (`DecisionInvariant`, `OneApprover`).

**Environments** (`EnvironmentsProofs`). For clients that wait for their answers
(`Patient`, no habit): `EnvInvariant` and, from it, `WithinEnvironments`,
`WithinContainers`, `DeletedEmpty`, `DeletedStopped` and `TerminatedForGood`. What
makes the limits inductive is that a request which passed a check still counts
when its await is over: the containers that run and those being created are
counted together (`ContainerLimit`, `CreateStillAllowed`), one request of an environment is under way at a time
(`OneRequest`), and a background task has its environment for itself (`LaunchAlone`).
The counting rests on the library's theorems about the cardinality of a set with
one element more or less.

**Agent tasks** (`AgentTasksProofs`). `RunInvariant` and `LogIsOfLastRun`, for
clients of any habits: while runs follow each other, the token on the row is that
of the last run, a completed row's run is over and no callback of it is accepted
any more (`TokenOfLastRun`). The history field `together` is carried along by two
conjuncts, on tasks not yet made and on runs not yet started. `CancelledStays` and
`CancelKept`, if nobody cancels between a request and the start of its run: what
is queued is then never a cancelled task's. Each request is shown to keep a short
contract (`Asked`: attempts are only added, a row changes in few ways), so that the
invariant is argued once for all of them.
`SpendKept` and `ToldKept`, for clients of any habits and whatever a run costs: the
limit is checked before a run and its cost is written after it, so the invariant is
about both (`SpendInv`): without one of its tasks what is counted is below the limit,
and what a run at work was told is left over is still left, as while runs do not
overlap only one is at work. That the payload of a run carries a natural number or no
limit is part of it, and `AgentTypes` gets it from there.
`OnceRun`, for clients of any habits: every restart registers the jobs again, or runs
what was missed at once, so what is started cannot be counted by jobs. The
invariant counts attempts (`OnceCounted`): of a one-time task there is at most one
that the user did not ask for; none while its job is there; and it did not start
while the row is `pending`, which is what `reload_jobs` goes by.

**Connectors** (`ConnectorsProofs`). `StoreSurvives`: of the changes of a
connector under way the last carries its newest version, and where none is under
way the store has it (`MirrorInv`). It holds wherever contexts are placed.
`MastersFollow`, for a workspace on one host at a time that it does not come back to
(`Habits = {}`; `ConnectorsSpread` and `ConnectorReturns` show what happens
otherwise): one host is in use (`OneHost`), changes arrive in order (`InOrder`), and
the master of that host is either untouched or settled (`UsedHost`): each connector is
there as it was edited last, or it was not edited since and nothing was pushed, and
rows that were read for a push have what the master lacks (`Settled`).

**Agent chat** (`AgentChatProofs`). `WebhooksMatch`: chat that is on has a secret
(`ChatInv`), without which saving it would remove the webhook instead.
`MessagesOnce`: a message that may still be delivered has no task
(`OpenHasNoTask`). `KeyedAlwaysHasKey`: an edit that changes the provider or the
key looks at what the agent ends up with, the others keep both. `TasksAreWanted`:
a handler waiting for the body was let in, and its agent has not been saved since
(`BodyAccepted`). All faults are included.

The assumptions are those of the modules (`PlacementAssumption`, `AccountingAssumption`,
`RegistryAssumption`, `ReviewAssumption`, `EnvironmentAssumption`,
`AgentAssumption`, `ConnectorsAssumption`, `ChatAssumption`): the shapes of the
constants, that contexts, environments and containers are finitely many, and that `Nobody`,
`Nothing` and their like are none of the values they stand beside. TLC evaluates
them in the runs. Assumptions about clients stand in the theorems that need them.

A record that changes in several fields inside a function is written
`[f EXCEPT ![x] = [f[x] EXCEPT !.a = .., !.b = ..]]` and never
`[f EXCEPT ![x].a = .., ![x].b = ..]`: tlapm 1.4.5 hands the second form to the
provers wrongly, so that what follows from it could not be trusted.

Only model-checked: liveness (`ProvisioningResolves`, `IdleHostReclaimed`,
`RunResolves`), which is out of the prover's reach, as fairness is about `ENABLED`.
Every invariant and action property of a passing run is also a theorem.

## Limits

- Single database calls do not fail. Where the code wraps a call of EC2, of a
  master or of a container, failure is an outcome; Supabase is taken to be up.
- One process. Several workers would interleave inside handlers, and the count
  checks of contexts and environments would not hold as they are.
- A restart is instant and complete: no second backend runs at the same time.
- `AgentChat` counts a task's run as one step for its reply; `AgentTasks` has the
  rest of it. Messages of one bot are independent of each other.
- `Connectors` has one workspace, as rows and masters keep workspaces apart.
- `AgentTasks` has one agent, as budgets and schedules of agents are independent. Of
  a task's date of creation it has whether it is today's. Cron dates are not computed: a
  registered job may fire at any time.
- `Environments` keeps the plan of a customer, as limits are checked when
  something is created; `Placement` lets workspaces change it.
- `ContextRegistry` has one context: contexts share no key and no name. Calls to
  a master arrive while they are waited for, or not at all.
- Notifications and audit rows change nothing the models have.

### Not modelled

- Naming (pure formatting of names and labels), encryption, configuration, the
  Supabase client and the scripts: they keep no state that changes.
- The bodies and streams that the bridges and proxies forward, and the proxy of
  environments, which reads a row and forwards. What the bridge and the proxies
  resolve is in `Connectors` and `ContextRegistry`.
- How long an answer of the plans table is kept: `EditPlan` of `Placement` lets
  the answer change between any two reads, which includes every cache.
- `POST /contexts/rebuild-master`: it asks the masters of a workspace to restart
  themselves with a newer image, keeps their data and writes no row but an audit entry.
- The validation of session tokens, a call of Supabase, and the guards on roles.

## Plan

Done: placement with accounting, refinement and proofs; context registry, review,
environments, agent tasks, connectors and chat, each with proofs.

Left, in this order:

1. An abstract task life cycle that `AgentTasks` implements when nobody cancels
   a queued run.
2. The plan cache with its TTL, composed with `Placement` through `planCaps`: how
   stale a plan can be.
