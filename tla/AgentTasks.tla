----------------------------- MODULE AgentTasks -----------------------------
(***************************************************************************)
(* The tasks of one agent, their runs and their schedule: routers/tasks.py *)
(* and agents.py, services/agent_runner.py, agent_store.py and             *)
(* agent_scheduler.py.  Agents share nothing, so one is enough.            *)
(*                                                                         *)
(* A task is a row of agent_tasks.  Every request, webhook or scheduled    *)
(* fire that is to run it starts a coroutine trigger_run of its own; an    *)
(* attempt is one such coroutine.  Code between two awaits is one step, as *)
(* the database client blocks: an attempt starts in one step up to the     *)
(* call of the container, and ends in another when the container answers.  *)
(* Rows survive a restart; attempts, jobs and half-read webhooks do not.   *)
(***************************************************************************)
EXTENDS Integers, Sequences, FiniteSets, Functions

CONSTANTS
  MaxTask,      \* bound: task rows ever inserted
  MaxAttempt,   \* bound: attempts of one task
  MaxHook,      \* bound: webhook requests whose body is being read
  MaxCrash,     \* bound: restarts of the backend
  Triggers,     \* the triggers clients use
  Limit,        \* budget_limit_usd of the agent, or Unlimited
  Costs,        \* what a run may cost
  Statuses,     \* the statuses the owner may set the agent to
  Habits        \* what clients do: a subset of AllHabits

Unlimited == -1

AllHabits == {"reruns",          \* runs a task again after an earlier run
              "reruns_early",    \* ... or while a run of it is on its way
              "runs_together",   \* runs several tasks at the same time
              "cancels_queued"}  \* cancels before the requested run started

Task == 1 .. MaxTask
Attempt == 1 .. MaxAttempt

ASSUME AgentAssumption ==
  /\ MaxTask \in Nat /\ MaxAttempt \in Nat /\ MaxHook \in Nat /\ MaxCrash \in Nat
  /\ Triggers \subseteq {"manual", "webhook", "once", "cron"}
  /\ Limit \in Nat \cup {Unlimited} /\ Costs \subseteq Nat
  /\ Statuses \subseteq {"active", "paused", "archived"}
  /\ Habits \subseteq AllHabits

VARIABLES
  tasks,    \* the agent_tasks table
  log,      \* log[t]: the attempts that have rows in agent_runs
  runs,     \* runs[t]: the attempts of task t, in the order they were spawned
  left,     \* left[t][n]: budget_remaining_usd in the payload of an executing attempt
  jobs,     \* the tasks with a job in the scheduler
  agent,    \* the status of the agent
  hooks,    \* webhook requests past the check of the agent's status
  crashes   \* restarts so far

vars == <<tasks, log, runs, left, jobs, agent, hooks, crashes>>

TaskRow == [status : {"none", "pending", "running", "completed", "failed",
                      "cancelled", "deleted"},
            trigger : {"manual", "webhook", "once", "cron"},
            cancel : BOOLEAN,              \* cancel_requested
            token : Attempt \cup {0},      \* run_token: the attempt it was made for
            cost : Nat,
            today : BOOLEAN,               \* created since 00:00 UTC
            due : BOOLEAN,                 \* the date of a one-time task has passed
            clone : BOOLEAN]               \* history: made by a recurring fire

\* pc "orphan": the coroutine is gone, the container still works on the run.
Run == [pc : {"queued", "refused", "executing", "orphan", "ended"},
        by : {"user", "schedule"},         \* history: who asked for it
        together : BOOLEAN]                \* history: started beside another run

\* The types of what is not reckoned.
RowTypes == /\ tasks \in [Task -> TaskRow]
            /\ log \in [Task -> SUBSET Attempt]
            /\ runs \in [Task -> Seq(Run)]
            /\ \A t \in Task : Len(runs[t]) <= MaxAttempt
            /\ jobs \subseteq Task
            /\ agent \in {"active", "paused", "archived"}
            /\ hooks \in 0 .. MaxHook
            /\ crashes \in 0 .. MaxCrash

TypeOK == RowTypes /\ left \in [Task -> [Attempt -> Nat \cup {Unlimited}]]

NoTask == [status |-> "none", trigger |-> "manual", cancel |-> FALSE, token |-> 0,
           cost |-> 0, today |-> FALSE, due |-> FALSE, clone |-> FALSE]

\* A row as it is inserted.
NewTask(trigger) == [NoTask EXCEPT !.status = "pending", !.trigger = trigger, !.today = TRUE]

Init == /\ tasks = [t \in Task |-> NoTask]
        /\ log = [t \in Task |-> {}]
        /\ runs = [t \in Task |-> <<>>]
        /\ left = [t \in Task |-> [n \in Attempt |-> 0]]
        /\ jobs = {}
        /\ agent = "active"
        /\ hooks = 0
        /\ crashes = 0

-----------------------------------------------------------------------------
(* The tables and the attempts *)

Exists(t) == tasks[t].status \notin {"none", "deleted"}

\* The rows are inserted in the order of their identifiers.
Fresh(t) == tasks[t].status = "none" /\ \A s \in Task : s < t => tasks[s].status # "none"

\* agent_spend_today: by the day on which a task was created, not the day of its run.
Counted == {t \in Task : Exists(t) /\ tasks[t].today}
SpentToday == SumFunctionOnSet([t \in Task |-> tasks[t].cost], Counted)

InFlight(t) == \E n \in DOMAIN runs[t] : runs[t][n].pc \in {"queued", "executing"}

\* What the assumptions about clients allow them to run.
MayRun(t) == /\ "reruns" \in Habits \/ runs[t] = <<>>
             /\ "reruns_early" \in Habits \/ ~InFlight(t)
             /\ "runs_together" \in Habits \/ \A s \in Task \ {t} : ~InFlight(s)

\* asyncio.create_task(trigger_run(t)).
Spawn(attempts, who) ==
  Append(attempts, [pc |-> "queued", by |-> who, together |-> FALSE])

HasRoom(t, n) == Len(runs[t]) + n <= MaxAttempt

\* UPDATE agent_tasks SET status ... WHERE id = t: nothing if the row is gone.
SetTask(t, row) == tasks' = IF Exists(t) THEN [tasks EXCEPT ![t] = row] ELSE tasks

EndRun(t, n, pc) ==
  /\ runs' = [runs EXCEPT ![t][n].pc = pc]
  /\ left' = [left EXCEPT ![t][n] = 0]

-----------------------------------------------------------------------------
(* Requests *)

\* POST /agents/{id}/tasks: insert, register the schedule, perhaps run now.  A
\* one-time task whose date has passed is fired at once instead of registered.
CreateTask(t, trigger, due, now) ==
  LET fired == trigger = "once" /\ due /\ agent = "active"
      attempts == IF fired THEN Spawn(<<>>, "schedule") ELSE <<>> IN
  /\ Fresh(t)
  /\ due => trigger = "once"
  /\ now => MayRun(t) /\ ("reruns_early" \in Habits \/ ~fired)
  /\ HasRoom(t, 2)
  /\ tasks' = [tasks EXCEPT ![t] = [NewTask(trigger) EXCEPT !.due = due]]
  /\ jobs' = IF trigger \in {"once", "cron"} /\ ~due THEN jobs \cup {t} ELSE jobs
  /\ runs' = [runs EXCEPT ![t] = IF now THEN Spawn(attempts, "user") ELSE attempts]
  /\ UNCHANGED <<log, left, agent, hooks, crashes>>

\* POST /tasks/{id}/run: refused (409) while the status is 'running'.
RunTask(t) ==
  /\ Exists(t) /\ tasks[t].status # "running"
  /\ MayRun(t) /\ HasRoom(t, 1)
  /\ SetTask(t, [tasks[t] EXCEPT !.status = "pending", !.cancel = FALSE])
  /\ runs' = [runs EXCEPT ![t] = Spawn(@, "user")]
  /\ UNCHANGED <<log, left, jobs, agent, hooks, crashes>>

\* POST /tasks/{id}/cancel.
CancelTask(t) ==
  /\ tasks[t].status \in {"pending", "running"}
  /\ \/ "cancels_queued" \in Habits
     \/ \A n \in DOMAIN runs[t] : runs[t][n].pc # "queued"
  /\ SetTask(t, [tasks[t] EXCEPT !.status = "cancelled", !.cancel = TRUE])
  /\ UNCHANGED <<log, runs, left, jobs, agent, hooks, crashes>>

\* The row and its step log are deleted; the scheduler is told by DELETE only.
Deleted(T) == /\ tasks' = [t \in Task |-> IF t \in T THEN [NoTask EXCEPT !.status = "deleted",
                                                                   !.trigger = tasks[t].trigger]
                                                 ELSE tasks[t]]
              /\ log' = [t \in Task |-> IF t \in T THEN {} ELSE log[t]]

\* DELETE /tasks/{id}: refused (409) while the status is 'running'.
DeleteTask(t) ==
  /\ Exists(t) /\ tasks[t].status # "running"
  /\ Deleted({t})
  /\ jobs' = jobs \ {t}
  /\ UNCHANGED <<runs, left, agent, hooks, crashes>>

Finished == {t \in Task : tasks[t].status \in {"completed", "failed", "cancelled"}}

\* DELETE /agents/{id}/tasks.
ClearFinished == /\ Finished # {}
                 /\ Deleted(Finished)
                 /\ UNCHANGED <<runs, left, jobs, agent, hooks, crashes>>

\* POST /webhooks/agents/{id}, and Telegram's: the agent is checked first ...
WebhookArrives ==
  /\ "webhook" \in Triggers
  /\ agent = "active" /\ hooks < MaxHook
  /\ hooks' = hooks + 1
  /\ UNCHANGED <<tasks, log, runs, left, jobs, agent, crashes>>

\* ... then the body is awaited, and the task is inserted and run.
WebhookRuns(t) ==
  /\ hooks > 0 /\ hooks' = hooks - 1
  /\ Fresh(t) /\ MayRun(t) /\ HasRoom(t, 1)
  /\ tasks' = [tasks EXCEPT ![t] = NewTask("webhook")]
  /\ runs' = [runs EXCEPT ![t] = Spawn(@, "user")]
  /\ UNCHANGED <<log, left, jobs, agent, crashes>>

\* PATCH /agents/{id} with a status; the scheduler is not told.
SetAgentStatus(s) ==
  /\ agent' = s /\ agent # s
  /\ UNCHANGED <<tasks, log, runs, left, jobs, hooks, crashes>>

\* DELETE /agents/{id}: archived, and the jobs of its tasks are removed.
ArchiveAgent ==
  /\ "archived" \in Statuses
  /\ agent' = "archived"
  /\ jobs' = {t \in jobs : ~Exists(t)}
  /\ UNCHANGED <<tasks, log, runs, left, hooks, crashes>>

-----------------------------------------------------------------------------
(* trigger_run *)

\* Mutant of OverLimit: the limit itself still lets a run start.
BeyondLimit == Limit # Unlimited /\ SpentToday > Limit

\* check_budget.
OverLimit == Limit # Unlimited /\ SpentToday >= Limit

\* _budget_remaining.
Remaining == IF Limit = Unlimited THEN Unlimited ELSE Limit - SpentToday

\* Another run of the agent is executing.
Accompanied == \E t \in Task : \E n \in DOMAIN runs[t] : runs[t][n].pc = "executing"

\* The run is handed to the container with a part of the budget.
Executing(t, n, budget) ==
  /\ runs' = [runs EXCEPT ![t][n] = [runs[t][n] EXCEPT !.pc = "executing",
                                                       !.together = Accompanied]]
  /\ left' = [left EXCEPT ![t][n] = budget]

\* Mutant of StartRun: every run may spend the whole limit.
StartRunWithLimit(t, n) ==
  /\ runs[t][n].pc = "queued"
  /\ Exists(t) /\ agent # "archived" /\ ~OverLimit
  /\ SetTask(t, [tasks[t] EXCEPT !.status = "running", !.token = n])
  /\ Executing(t, n, Limit)
  /\ UNCHANGED <<log, jobs, agent, hooks, crashes>>

\* From the start of trigger_run to the call of the container.
StartRun(t, n) ==
  /\ runs[t][n].pc = "queued"
  /\ Exists(t) /\ agent # "archived" /\ ~OverLimit
  /\ SetTask(t, [tasks[t] EXCEPT !.status = "running", !.token = n])
  /\ Executing(t, n, Remaining)
  /\ UNCHANGED <<log, jobs, agent, hooks, crashes>>

\* The agent is archived or over its limit, the task is gone, or the context or
\* its host cannot be used.
RefuseRun(t, n) ==
  /\ runs[t][n].pc = "queued"
  /\ SetTask(t, [tasks[t] EXCEPT !.status = "failed"])
  /\ EndRun(t, n, "refused")
  /\ UNCHANGED <<log, jobs, agent, hooks, crashes>>

\* Mutant of Stopped: the status is written whatever the user did meanwhile.
StoppedNever(t) == FALSE

\* The user stopped the run: _persist_result leaves the status alone.
Stopped(t) == tasks[t].status = "cancelled" \/ tasks[t].cancel

\* The container answers: _persist_result writes result, step log, and whatever
\* the run is said to have cost.
FinishRun(t, n) ==
  \E c \in Costs, s \in {"completed", "failed"} :
    /\ runs[t][n].pc = "executing"
    /\ SetTask(t, [tasks[t] EXCEPT !.status = IF Stopped(t) THEN @ ELSE s, !.cost = c])
    /\ log' = IF Exists(t) THEN [log EXCEPT ![t] = {n}] ELSE log
    /\ EndRun(t, n, "ended")
    /\ UNCHANGED <<jobs, agent, hooks, crashes>>

\* The container refuses or the connection breaks; it may work on all the same.
BreakRun(t, n) ==
  /\ runs[t][n].pc = "executing"
  /\ SetTask(t, [tasks[t] EXCEPT !.status = "failed"])
  /\ EndRun(t, n, "orphan")
  /\ UNCHANGED <<log, jobs, agent, hooks, crashes>>

\* Mutant of Authorized: the token of the callback is not compared.
AnyCallback(t, n) == Exists(t)

\* The callback carries the token on the row, which is that of the last start.
Authorized(t, n) == Exists(t) /\ tasks[t].token = n

\* POST /internal/agents/step: the container streams a step.
StepCallback(t, n) ==
  /\ runs[t][n].pc \in {"executing", "orphan"}
  /\ Authorized(t, n)
  /\ tasks' = IF tasks[t].status = "pending" THEN [tasks EXCEPT ![t].status = "running"]
              ELSE tasks
  /\ log' = [log EXCEPT ![t] = @ \cup {n}]
  /\ UNCHANGED <<runs, left, jobs, agent, hooks, crashes>>

-----------------------------------------------------------------------------
(* The schedule *)

\* A recurring job fires: a clone of the template is inserted and run.
FireRecurring(t) ==
  /\ t \in jobs /\ tasks[t].trigger = "cron" /\ Exists(t)
  /\ IF agent = "active"
     THEN \E s \in Task :
            /\ Fresh(s) /\ HasRoom(s, 1)
            /\ tasks' = [tasks EXCEPT ![s] = [NewTask("cron") EXCEPT !.clone = TRUE]]
            /\ runs' = [runs EXCEPT ![s] = Spawn(@, "schedule")]
            /\ UNCHANGED jobs
     ELSE jobs' = jobs \ {t} /\ UNCHANGED <<tasks, runs>>
  /\ UNCHANGED <<log, left, agent, hooks, crashes>>

\* Mutant of Fires: a task is fired whatever became of it.
FiresAnyway(t) == Exists(t) /\ agent = "active"

\* _spawn_once_run runs the task, if it still waits for its date.
Fires(t) == tasks[t].status = "pending" /\ agent = "active"

\* A one-time job fires: the job is removed in any case.
FireOnce(t) ==
  /\ t \in jobs /\ tasks[t].trigger = "once"
  /\ jobs' = jobs \ {t}
  /\ SetTask(t, [tasks[t] EXCEPT !.due = TRUE])
  /\ IF Fires(t) THEN HasRoom(t, 1) /\ runs' = [runs EXCEPT ![t] = Spawn(@, "schedule")]
     ELSE UNCHANGED runs
  /\ UNCHANGED <<log, left, agent, hooks, crashes>>

-----------------------------------------------------------------------------
(* A new day, and a restart *)

\* 00:00 UTC passes: none of the rows was created today any more.
NextDay ==
  /\ \E t \in Task : tasks[t].today
  /\ tasks' = [t \in Task |-> [tasks[t] EXCEPT !.today = FALSE]]
  /\ UNCHANGED <<log, runs, left, jobs, agent, hooks, crashes>>

\* Mutant of Waiting: what became of a one-time task is not looked at.
WaitingOrRan(t) == tasks[t].trigger = "once" /\ Exists(t) /\ agent = "active"

\* One-time tasks that reload_jobs registers, or fires if their date has passed.
Waiting(t) == tasks[t].trigger = "once" /\ tasks[t].status = "pending" /\ agent = "active"

\* What a restart leaves of an attempt.
Cut(a) == [a EXCEPT !.pc = CASE @ = "queued" -> "refused"
                             [] @ = "executing" -> "orphan"
                             [] OTHER -> @]

\* Mutant of Recovered: rows left in 'running' are not looked at.
RecoveredNot(row) == row

\* Mutant of Recovered: the status that environments use for a failure.
RecoveredAsError(row) == IF row.status = "running" THEN [row EXCEPT !.status = "error"] ELSE row

\* fail_orphaned_running_tasks.
Recovered(row) == IF row.status = "running" THEN [row EXCEPT !.status = "failed"] ELSE row

\* The process dies and starts again; the dates of the tasks in late have passed
\* meanwhile.  reload_jobs runs before the orphans are failed.
Restart ==
  \E late \in SUBSET {t \in Task : tasks[t].trigger = "once" /\ Exists(t)} :
    LET past(t) == tasks[t].due \/ t \in late IN
    /\ crashes < MaxCrash /\ crashes' = crashes + 1
    /\ \A t \in Task : Waiting(t) /\ past(t) => HasRoom(t, 1)
    /\ jobs' = {t \in Task : /\ Exists(t) /\ agent = "active"
                             /\ \/ tasks[t].trigger = "cron"
                                \/ Waiting(t) /\ ~past(t)}
    /\ tasks' = [t \in Task |-> Recovered([tasks[t] EXCEPT !.due = past(t)])]
    /\ runs' = [t \in Task |->
                  LET cut == [n \in DOMAIN runs[t] |-> Cut(runs[t][n])] IN
                  IF Waiting(t) /\ past(t) THEN Spawn(cut, "schedule") ELSE cut]
    /\ left' = [t \in Task |-> [n \in Attempt |-> 0]]
    /\ hooks' = 0
    /\ UNCHANGED <<log, agent>>

BeginRun(t, n) == StartRun(t, n) \/ RefuseRun(t, n)

RunStep(t, n) == BeginRun(t, n) \/ FinishRun(t, n) \/ BreakRun(t, n)

Next == \/ \E t \in Task, trigger \in Triggers \ {"webhook"}, due, now \in BOOLEAN :
             CreateTask(t, trigger, due, now)
        \/ \E t \in Task : RunTask(t) \/ CancelTask(t) \/ DeleteTask(t) \/ WebhookRuns(t)
        \/ ClearFinished
        \/ WebhookArrives
        \/ \E s \in Statuses : SetAgentStatus(s)
        \/ ArchiveAgent
        \/ \E t \in Task : \E n \in DOMAIN runs[t] : RunStep(t, n) \/ StepCallback(t, n)
        \/ \E t \in Task : FireRecurring(t) \/ FireOnce(t)
        \/ NextDay
        \/ Restart

Spec == Init /\ [][Next]_vars

\* A spawned coroutine starts.  Nothing makes the container answer: the call has
\* no read timeout (RUN_TIMEOUT).
FairSpec ==
  /\ Spec
  /\ \A t \in Task, n \in Attempt : WF_vars(n \in DOMAIN runs[t] /\ BeginRun(t, n))

-----------------------------------------------------------------------------
(* Safety *)

\* No two runs of the agent have ever overlapped.
OneAtATime == \A t \in Task : \A n \in DOMAIN runs[t] : ~runs[t][n].together

\* If the runs of an agent follow one another, the step log of a completed task
\* is that of the run whose token the row has, although containers of lost runs
\* go on streaming steps after a restart (agent_step_callback, replace_runs).
LogOfLastRun ==
  OneAtATime => \A t \in Task : tasks[t].status = "completed" => log[t] = {tasks[t].token}

\* "max spend/day": if the runs of an agent follow one another, what is counted today
\* goes beyond the limit by one run at most, whatever the runs cost and whatever is
\* deleted, run again or left by a restart meanwhile (check_budget).
OverspendByOneRun ==
  Limit # Unlimited /\ OneAtATime =>
    SpentToday <= Limit \/ \E t \in Counted : SpentToday - tasks[t].cost < Limit

Ends(t, n) == /\ n \in DOMAIN runs[t] /\ n \in DOMAIN runs'[t]
              /\ runs[t][n].pc = "executing" /\ runs'[t][n].pc = "ended"

\* "passed to the executor so a single long run can stop itself mid-loop": a run that
\* stops within the budget it was given leaves the day within the limit, although
\* other tasks came and went since it started (_budget_remaining).
StoppedWithinLimit ==
  [][\A t \in Task, n \in Attempt :
       Ends(t, n) /\ tasks'[t].cost <= left[t][n] /\ Limit # Unlimited /\ OneAtATime
         => SpentToday' <= Limit]_vars

Started(t) == {n \in DOMAIN runs[t] : runs[t][n].pc \in {"executing", "orphan", "ended"}}
Requested(t) == {n \in DOMAIN runs[t] : runs[t][n].by = "user"}

\* "runs a single time ... then never again": over restarts, late reloads and
\* status changes the schedule starts a one-time task at most once, on top of
\* what the user asked for (_spawn_once_run, reload_jobs).
OnceRunsOnce ==
  \A t \in Task : tasks[t].trigger = "once"
    => Cardinality(Started(t)) <= 1 + Cardinality(Requested(t))

Starts(t, n) == /\ n \in DOMAIN runs[t] /\ n \in DOMAIN runs'[t]
                /\ runs[t][n].pc = "queued" /\ runs'[t][n].pc = "executing"

\* A task cancelled before its run began is not run by its schedule any more,
\* neither at its date nor by the reload after a restart.
CancelledNotStarted ==
  [][\A t \in Task, n \in Attempt : Starts(t, n) => tasks[t].status # "cancelled"]_vars

\* "Any late result won't override the cancelled state" (cancel_task): the status of
\* a cancelled task is left alone by its runs, schedule, steps and restarts; only the
\* user changes it, or a run whose connection breaks.
ResultKeepsCancel ==
  [][\A t \in Task :
       tasks[t].status = "cancelled" =>
         \/ tasks'[t].status \in {"cancelled", "pending", "deleted"}
         \/ \E n \in DOMAIN runs[t] : /\ runs[t][n].pc = "executing"
                                      /\ runs'[t][n].pc = "orphan"]_vars

(* Liveness *)

\* Every call of a container comes to an end, if only by a broken connection.
CallsEnd ==
  \A t \in Task, n \in Attempt :
    []<>~(n \in DOMAIN runs[t] /\ runs[t][n].pc = "executing")

\* If the containers answer, no task is stuck in 'running': neither lost runs nor late
\* steps nor restarts leave a row there (trigger_run, fail_orphaned_running_tasks).
RunResolves ==
  CallsEnd => \A t \in Task : tasks[t].status = "running" ~> tasks[t].status # "running"

-----------------------------------------------------------------------------
(* What docs and comments say, and the code does not do *)

\* trigger_run: "a wedged run can't ... leave the row stuck at running".
RunAlwaysResolves ==
  \A t \in Task : tasks[t].status = "running" ~> tasks[t].status # "running"

\* cancel_task: "any late result won't override the cancelled state".
CancelSticks ==
  [][\A t \in Task :
       tasks[t].status = "cancelled" => tasks'[t].status \in {"cancelled", "pending", "deleted"}]_vars

\* run_task: "Task is already running" is an error, so runs do not overlap.
OneRunPerTask ==
  \A t \in Task :
    Cardinality({n \in DOMAIN runs[t] : runs[t][n].pc = "executing"}) <= 1

\* agents.sql, "max spend/day".
SpendAlwaysWithinLimit == Limit # Unlimited => SpentToday <= Limit

\* The same up to one run, however the runs of an agent overlap.
OverspendByOneAlways ==
  Limit # Unlimited =>
    SpentToday <= Limit \/ \E t \in Counted : SpentToday - tasks[t].cost < Limit

\* What was spent on a day stays spent for the rest of it, ...
SpendRemembered == [][SpentToday' >= SpentToday \/ NextDay]_vars

\* ... and every run is counted on the day on which it ends.
RunsCounted ==
  [][\A t \in Task, n \in Attempt :
       Ends(t, n) => SpentToday' = SpentToday + tasks'[t].cost]_vars

\* _spawn_clone_run: a fire runs "a fresh pending task cloned from the template",
\* and only templates are scheduled.
ClonesNotScheduled == \A t \in jobs : ~tasks[t].clone

\* clear_finished_tasks: "recurring schedule templates are kept".
TemplatesKept ==
  [][ClearFinished => \A t \in Task :
       tasks[t].trigger = "cron" /\ ~tasks[t].clone /\ Exists(t) => tasks'[t].status # "deleted"]_vars

\* "A cron trigger registers a recurring schedule": an active agent's template
\* has its job.
TemplatesScheduled ==
  \A t \in Task :
    tasks[t].trigger = "cron" /\ ~tasks[t].clone /\ Exists(t) /\ agent = "active" => t \in jobs
=============================================================================
