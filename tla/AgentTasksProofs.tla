-------------------------- MODULE AgentTasksProofs --------------------------
(***************************************************************************)
(* For any number of tasks, attempts, webhooks and restarts: the step log  *)
(* of a completed task is that of its last run, a task cancelled before    *)
(* its run is not started by the schedule, a late result does not undo a   *)
(* cancel, the cost of the tasks goes beyond the limit of the agent by one *)
(* run at most, and the schedule starts a one-time task once.              *)
(***************************************************************************)
EXTENDS AgentTasks, SumTheorems, TLAPS

\* Nobody cancels a run that was requested and has not started.
Patient == "cancels_queued" \notin Habits

\* A task that is not there has no attempts.
NoRunsYet == \A t \in Task : tasks[t].status = "none" => runs[t] = <<>>

\* What has not started is not beside another run.
QueuedAlone == \A t \in Task : \A n \in DOMAIN runs[t] :
                 runs[t][n].pc = "queued" => ~runs[t][n].together

\* The row has the token of the run that executes, and the run that completed it is over:
\* no callback of it is accepted any more.
TokenOfLastRun ==
  OneAtATime =>
    \A t \in Task :
      /\ \A n \in DOMAIN runs[t] : runs[t][n].pc = "executing" /\ Exists(t) => tasks[t].token = n
      /\ tasks[t].status = "completed" => /\ log[t] = {tasks[t].token}
                                          /\ tasks[t].token \in DOMAIN runs[t]
                                          /\ runs[t][tasks[t].token].pc = "ended"

RunInv == RowTypes /\ NoRunsYet /\ QueuedAlone /\ TokenOfLastRun

-----------------------------------------------------------------------------
(* Sequences of attempts *)

\* A coroutine is spawned behind the others (asyncio.create_task).
LEMMA Spawned ==
  ASSUME NEW s \in Seq(Run), NEW who \in {"user", "schedule"}
  PROVE /\ Spawn(s, who) \in Seq(Run)
        /\ Len(Spawn(s, who)) = Len(s) + 1
        /\ DOMAIN Spawn(s, who) = DOMAIN s \cup {Len(s) + 1}
        /\ \A n \in DOMAIN s : Spawn(s, who)[n] = s[n]
        /\ \A n \in DOMAIN Spawn(s, who) :
             n \in DOMAIN s \/ (Spawn(s, who)[n].pc = "queued" /\ ~Spawn(s, who)[n].together)
<1> DEFINE q == [pc |-> "queued", by |-> who, together |-> FALSE]
<1>1. q \in Run
  BY DEF Run
<1>2. q.pc = "queued" /\ ~q.together
  OBVIOUS
<1>3. Spawn(s, who) = Append(s, q)
  BY DEF Spawn
<1> HIDE DEF q
<1>4. /\ Append(s, q) \in Seq(Run) /\ Len(Append(s, q)) = Len(s) + 1
      /\ DOMAIN Append(s, q) = 1 .. Len(s) + 1 /\ DOMAIN s = 1 .. Len(s) /\ Len(s) \in Nat
      /\ \A n \in 1 .. Len(s) : Append(s, q)[n] = s[n]
      /\ Append(s, q)[Len(s) + 1] = q
  BY <1>1
<1> QED
  BY <1>2, <1>3, <1>4

\* One attempt changes, the others do not.
LEMMA Replaced ==
  ASSUME NEW s \in Seq(Run), NEW n \in DOMAIN s, NEW a \in Run
  PROVE /\ [s EXCEPT ![n] = a] \in Seq(Run)
        /\ Len([s EXCEPT ![n] = a]) = Len(s)
        /\ DOMAIN [s EXCEPT ![n] = a] = DOMAIN s
        /\ [s EXCEPT ![n] = a][n] = a
        /\ \A k \in DOMAIN s : k # n => [s EXCEPT ![n] = a][k] = s[k]
  OBVIOUS

\* A restart cuts every attempt, and forgets none.
LEMMA CutAll ==
  ASSUME NEW s \in Seq(Run)
  PROVE LET c == [n \in DOMAIN s |-> Cut(s[n])] IN
        /\ c \in Seq(Run) /\ Len(c) = Len(s) /\ DOMAIN c = DOMAIN s
        /\ \A n \in DOMAIN s : /\ c[n].together = s[n].together
                               /\ c[n].pc \notin {"queued", "executing"}
                               /\ s[n].pc = "ended" => c[n].pc = "ended"
<1>1. ASSUME NEW a \in Run
      PROVE /\ Cut(a) \in Run /\ Cut(a).together = a.together
            /\ Cut(a).pc \notin {"queued", "executing"}
            /\ a.pc = "ended" => Cut(a).pc = "ended"
  BY DEF Run, Cut
<1>2. /\ DOMAIN s = 1 .. Len(s) /\ Len(s) \in Nat
      /\ \A n \in DOMAIN s : s[n] \in Run
  OBVIOUS
<1> DEFINE c == [n \in DOMAIN s |-> Cut(s[n])]
<1>3. \A n \in DOMAIN s : c[n] = Cut(s[n]) /\ c[n] \in Run
  BY <1>1, <1>2
<1>4. c \in [1 .. Len(s) -> Run]
  BY <1>2, <1>3
<1>5. c \in Seq(Run) /\ Len(c) = Len(s) /\ DOMAIN c = DOMAIN s
  BY <1>2, <1>4
<1> QED
  BY <1>1, <1>2, <1>3, <1>5

-----------------------------------------------------------------------------
(* What requests and the schedule do *)

\* No attempt is lost or changed; new ones are queued.
Grown == \A t \in Task :
  /\ \A n \in DOMAIN runs[t] : n \in DOMAIN runs'[t] /\ runs'[t][n] = runs[t][n]
  /\ \A n \in DOMAIN runs'[t] :
       n \in DOMAIN runs[t] \/ (runs'[t][n].pc = "queued" /\ ~runs'[t][n].together)

\* What a row may become, and what its log may.
RowKept(t) ==
  /\ tasks'[t].status = "none" => tasks[t].status = "none" /\ runs'[t] = runs[t]
  /\ tasks'[t].status = "completed" => /\ tasks[t].status = "completed" /\ log'[t] = log[t]
                                       /\ tasks'[t].token = tasks[t].token
  /\ tasks'[t].status = "deleted" \/ runs[t] = <<>> \/
       (tasks'[t].token = tasks[t].token /\ (Exists(t)' => Exists(t)))
  /\ tasks[t].status = "cancelled" => tasks'[t].status \in {"cancelled", "pending", "deleted"}
  /\ Patient /\ tasks'[t].status = "cancelled"
       => /\ runs'[t] = runs[t]
          /\ tasks[t].status = "cancelled" \/ \A n \in DOMAIN runs[t] : runs[t][n].pc # "queued"

Asked == RowTypes' /\ Grown /\ \A t \in Task : RowKept(t)

\* A row that keeps its values is kept.
LEMMA SameRow ==
  ASSUME NEW t \in Task, tasks'[t].status = tasks[t].status, tasks'[t].token = tasks[t].token,
         log'[t] = log[t], runs'[t] = runs[t]
  PROVE RowKept(t)
  BY DEF RowKept, Exists

\* The rows that are inserted (create_task, agent_webhook, _spawn_clone_run), and what is
\* left of those that are deleted.
LEMMA NewRow ==
  ASSUME NEW trigger \in {"manual", "webhook", "once", "cron"}, NEW due \in BOOLEAN
  PROVE /\ [NewTask(trigger) EXCEPT !.due = due] \in TaskRow
        /\ [NewTask(trigger) EXCEPT !.due = due].status = "pending"
        /\ [NewTask(trigger) EXCEPT !.due = due].cost = 0
        /\ NewTask(trigger) \in TaskRow
        /\ NewTask(trigger).status = "pending"
        /\ NewTask(trigger).cost = 0 /\ NewTask(trigger).trigger = trigger
        /\ [NewTask(trigger) EXCEPT !.clone = TRUE] \in TaskRow
        /\ [NewTask(trigger) EXCEPT !.clone = TRUE].status = "pending"
        /\ [NewTask(trigger) EXCEPT !.clone = TRUE].cost = 0
        /\ [NewTask(trigger) EXCEPT !.clone = TRUE].trigger = trigger
        /\ [NoTask EXCEPT !.status = "deleted", !.trigger = trigger] \in TaskRow
        /\ [NoTask EXCEPT !.status = "deleted", !.trigger = trigger].status = "deleted"
  BY DEF NewTask, NoTask, TaskRow

\* One task gets new attempts, in the sense of Grown.
LEMMA GrownOne ==
  ASSUME RowTypes, NEW t \in Task, NEW s \in Seq(Run), runs' = [runs EXCEPT ![t] = s],
         Len(s) <= MaxAttempt,
         \A n \in DOMAIN runs[t] : n \in DOMAIN s /\ s[n] = runs[t][n],
         \A n \in DOMAIN s : n \in DOMAIN runs[t] \/ (s[n].pc = "queued" /\ ~s[n].together)
  PROVE /\ Grown /\ runs' \in [Task -> Seq(Run)] /\ \A u \in Task : Len(runs'[u]) <= MaxAttempt
        /\ \A u \in Task : u # t => runs'[u] = runs[u]
        /\ runs'[t] = s
<1>1. runs \in [Task -> Seq(Run)] /\ \A u \in Task : Len(runs[u]) <= MaxAttempt
  BY DEF RowTypes
<1> QED
  BY <1>1 DEF Grown

\* One more attempt of a task (POST /tasks/{id}/run, webhooks and the schedule).
LEMMA SpawnOne ==
  ASSUME RowTypes, NEW t \in Task, NEW who \in {"user", "schedule"}, HasRoom(t, 1),
         runs' = [runs EXCEPT ![t] = Spawn(@, who)]
  PROVE /\ Grown /\ runs' \in [Task -> Seq(Run)] /\ \A u \in Task : Len(runs'[u]) <= MaxAttempt
        /\ \A u \in Task : u # t => runs'[u] = runs[u]
<1>1. runs[t] \in Seq(Run) /\ Len(runs[t]) + 1 <= MaxAttempt
  BY DEF RowTypes, HasRoom
<1>2. PICK s : s = Spawn(runs[t], who)
  OBVIOUS
<1>3. /\ s \in Seq(Run) /\ Len(s) = Len(runs[t]) + 1
      /\ \A n \in DOMAIN runs[t] : n \in DOMAIN s /\ s[n] = runs[t][n]
      /\ \A n \in DOMAIN s : n \in DOMAIN runs[t] \/ (s[n].pc = "queued" /\ ~s[n].together)
  BY <1>1, <1>2, Spawned, ZenonT(40)
<1>4. runs' = [runs EXCEPT ![t] = s]
  BY <1>2
<1>5. Len(s) <= MaxAttempt
  BY <1>1, <1>3
<1> QED
  BY <1>3, <1>4, <1>5, GrownOne

\* A step that leaves the attempts alone.
LEMMA NoneGrown ==
  ASSUME RowTypes, runs' = runs
  PROVE Grown /\ runs' \in [Task -> Seq(Run)] /\ \A u \in Task : Len(runs'[u]) <= MaxAttempt
  BY DEF Grown, RowTypes

\* Creating a task (create_task, with _fire_once_now behind it).
LEMMA CreateTaskAsked ==
  ASSUME RowTypes, NoRunsYet, NEW t \in Task, NEW trigger \in Triggers \ {"webhook"},
         NEW due \in BOOLEAN, NEW now \in BOOLEAN, CreateTask(t, trigger, due, now)
  PROVE Asked
<1> DEFINE fired == trigger = "once" /\ due /\ agent = "active"
           attempts == IF fired THEN Spawn(<<>>, "schedule") ELSE <<>>
           s == IF now THEN Spawn(attempts, "user") ELSE attempts
           row == [NewTask(trigger) EXCEPT !.due = due]
<1>0. /\ tasks \in [Task -> TaskRow] /\ log \in [Task -> SUBSET Attempt] /\ jobs \subseteq Task
      /\ runs \in [Task -> Seq(Run)] /\ trigger \in {"manual", "webhook", "once", "cron"}
  BY AgentAssumption DEF RowTypes
<1>1. tasks[t].status = "none" /\ runs[t] = <<>> /\ Len(runs[t]) + 2 <= MaxAttempt
  BY DEF CreateTask, Fresh, HasRoom, NoRunsYet
<1>2. /\ <<>> \in Seq(Run) /\ Len(<<>>) = 0 /\ DOMAIN <<>> = {}
      /\ "user" \in {"user", "schedule"} /\ "schedule" \in {"user", "schedule"}
  OBVIOUS
<1>3. /\ attempts \in Seq(Run) /\ Len(attempts) <= 1
      /\ \A n \in DOMAIN attempts : attempts[n].pc = "queued" /\ ~attempts[n].together
  <2>0. PICK e \in Seq(Run) : e = <<>> /\ Len(e) = 0 /\ DOMAIN e = {}
    BY <1>2
  <2>1. PICK a : a = Spawn(e, "schedule")
    OBVIOUS
  <2>2. /\ a \in Seq(Run) /\ Len(a) = Len(e) + 1
        /\ \A n \in DOMAIN a : a[n].pc = "queued" /\ ~a[n].together
    BY <2>0, <2>1, Spawned
  <2>3. attempts = a \/ attempts = e
    BY <2>0, <2>1
  <2>4. Len(a) <= 1 /\ Len(e) <= 1
    BY <2>0, <2>2
  <2> HIDE DEF attempts
  <2> QED
    BY <2>0, <2>2, <2>3, <2>4
<1>4. /\ s \in Seq(Run) /\ Len(s) <= 2
      /\ \A n \in DOMAIN s : s[n].pc = "queued" /\ ~s[n].together
  <2>0. PICK e \in Seq(Run) : e = attempts
    BY <1>3
  <2>1. PICK a : a = Spawn(e, "user")
    OBVIOUS
  <2>2. /\ a \in Seq(Run) /\ Len(a) = Len(e) + 1
        /\ \A n \in DOMAIN e : n \in DOMAIN a /\ a[n] = e[n]
        /\ \A n \in DOMAIN a : n \in DOMAIN e \/ (a[n].pc = "queued" /\ ~a[n].together)
    BY <2>1, Spawned
  <2>3. s = a \/ s = e
    BY <2>0, <2>1
  <2>4. Len(e) <= 1 /\ \A n \in DOMAIN e : e[n].pc = "queued" /\ ~e[n].together
    BY <1>3, <2>0
  <2>5. Len(a) <= 2 /\ Len(e) <= 2
    <3>1. Len(e) \in Nat
      OBVIOUS
    <3> QED
      BY <2>2, <2>4, <3>1
  <2>6. \A n \in DOMAIN a : a[n].pc = "queued" /\ ~a[n].together
    BY <2>2, <2>4
  <2> HIDE DEF s
  <2> QED
    BY <2>2, <2>3, <2>4, <2>5, <2>6
<1>5. runs' = [runs EXCEPT ![t] = s] /\ log' = log
      /\ jobs' \in {jobs, jobs \cup {t}} /\ UNCHANGED <<agent, hooks, crashes>>
  BY DEF CreateTask
<1>6. tasks' = [tasks EXCEPT ![t] = row]
  BY DEF CreateTask
<1>7. row \in TaskRow /\ row.status = "pending"
  BY <1>0, NewRow
<1> HIDE DEF s, row
<1>8. /\ Grown /\ runs' \in [Task -> Seq(Run)] /\ \A u \in Task : Len(runs'[u]) <= MaxAttempt
      /\ \A u \in Task : u # t => runs'[u] = runs[u]
  <2>1. Len(s) <= MaxAttempt
    BY <1>1, <1>2, <1>4, AgentAssumption
  <2> QED
    BY <1>1, <1>2, <1>4, <1>5, <2>1, GrownOne
<1>9. RowTypes'
  BY <1>0, <1>5, <1>6, <1>7, <1>8 DEF RowTypes
<1>10. ASSUME NEW u \in Task PROVE RowKept(u)
  <2>1. CASE u = t
    <3>1. tasks'[u].status = "pending" /\ runs[u] = <<>> /\ tasks[u].status = "none"
      BY <1>0, <1>1, <1>6, <1>7, <2>1
    <3> QED
      BY <3>1 DEF RowKept
  <2>2. CASE u # t
    BY <1>0, <1>5, <1>6, <1>8, <2>2, SameRow
  <2> QED
    BY <2>1, <2>2
<1> QED
  BY <1>8, <1>9, <1>10 DEF Asked

\* A row changes, and the others do not (agent_store.update_task).
LEMMA RowSet ==
  ASSUME RowTypes, NEW t \in Task, NEW row \in TaskRow, SetTask(t, row)
  PROVE /\ tasks' \in [Task -> TaskRow]
        /\ \A u \in Task : u # t => tasks'[u] = tasks[u]
        /\ tasks'[t] = IF Exists(t) THEN row ELSE tasks[t]
  BY DEF SetTask, RowTypes

\* Running a task again (run_task).
LEMMA RunTaskAsked == ASSUME RowTypes, NEW t \in Task, RunTask(t) PROVE Asked
<1> DEFINE row == [tasks[t] EXCEPT !.status = "pending", !.cancel = FALSE]
<1>0. tasks \in [Task -> TaskRow] /\ Exists(t) /\ SetTask(t, row)
      /\ UNCHANGED <<log, jobs, agent, hooks, crashes>>
  BY DEF RowTypes, RunTask
<1>1. row \in TaskRow /\ row.status = "pending" /\ row.token = tasks[t].token
  BY <1>0 DEF TaskRow
<1>2. /\ Grown /\ runs' \in [Task -> Seq(Run)] /\ \A u \in Task : Len(runs'[u]) <= MaxAttempt
      /\ \A u \in Task : u # t => runs'[u] = runs[u]
  BY SpawnOne DEF RunTask
<1> HIDE DEF row
<1>3. /\ tasks' \in [Task -> TaskRow] /\ tasks'[t] = row
      /\ \A u \in Task : u # t => tasks'[u] = tasks[u]
  BY <1>0, <1>1, RowSet
<1>4. RowTypes'
  BY <1>0, <1>2, <1>3 DEF RowTypes
<1>5. RowKept(t)
  BY <1>0, <1>1, <1>3 DEF RowKept
<1>6. \A u \in Task : u # t => RowKept(u)
  BY <1>0, <1>2, <1>3, SameRow
<1> QED
  BY <1>2, <1>4, <1>5, <1>6 DEF Asked

\* Cancelling a task (cancel_task).
LEMMA CancelTaskAsked == ASSUME RowTypes, NEW t \in Task, CancelTask(t) PROVE Asked
<1> DEFINE row == [tasks[t] EXCEPT !.status = "cancelled", !.cancel = TRUE]
<1>0. tasks \in [Task -> TaskRow] /\ Exists(t) /\ SetTask(t, row)
      /\ UNCHANGED <<log, runs, jobs, agent, hooks, crashes>>
  BY DEF RowTypes, CancelTask, Exists
<1>1. row \in TaskRow /\ row.status = "cancelled" /\ row.token = tasks[t].token
  BY <1>0 DEF TaskRow
<1>2. /\ Grown /\ runs' \in [Task -> Seq(Run)] /\ \A u \in Task : Len(runs'[u]) <= MaxAttempt
  BY <1>0, NoneGrown
<1> HIDE DEF row
<1>3. /\ tasks' \in [Task -> TaskRow] /\ tasks'[t] = row
      /\ \A u \in Task : u # t => tasks'[u] = tasks[u]
  BY <1>0, <1>1, RowSet
<1>4. RowTypes'
  BY <1>0, <1>2, <1>3 DEF RowTypes
<1>5. Patient => \A n \in DOMAIN runs[t] : runs[t][n].pc # "queued"
  BY DEF CancelTask, Patient
<1>6. RowKept(t)
  BY <1>0, <1>1, <1>3, <1>5 DEF RowKept
<1>7. \A u \in Task : u # t => RowKept(u)
  BY <1>0, <1>3, SameRow
<1> QED
  BY <1>2, <1>4, <1>6, <1>7 DEF Asked

\* Deleting rows and their step logs (delete_task, delete_finished_tasks).
LEMMA DeletedAsked ==
  ASSUME RowTypes, NEW T \in SUBSET Task, Deleted(T), jobs' \subseteq jobs,
         UNCHANGED <<runs, agent, hooks, crashes>>
  PROVE Asked
<1>0. tasks \in [Task -> TaskRow] /\ log \in [Task -> SUBSET Attempt] /\ jobs \subseteq Task
  BY DEF RowTypes
<1>1. /\ Grown /\ runs' \in [Task -> Seq(Run)] /\ \A u \in Task : Len(runs'[u]) <= MaxAttempt
  BY NoneGrown
<1>2. ASSUME NEW t \in Task
      PROVE [NoTask EXCEPT !.status = "deleted", !.trigger = tasks[t].trigger] \in TaskRow
            /\ [NoTask EXCEPT !.status = "deleted", !.trigger = tasks[t].trigger].status = "deleted"
  <2>1. tasks[t].trigger \in {"manual", "webhook", "once", "cron"}
    BY <1>0 DEF TaskRow
  <2> QED
    BY <2>1, NewRow
<1>3. /\ tasks' \in [Task -> TaskRow]
      /\ \A t \in T : tasks'[t].status = "deleted"
      /\ \A t \in Task \ T : tasks'[t] = tasks[t]
  BY <1>0, <1>2 DEF Deleted
<1>4. log' \in [Task -> SUBSET Attempt] /\ \A t \in Task \ T : log'[t] = log[t]
  BY <1>0 DEF Deleted
<1>5. RowTypes'
  BY <1>0, <1>1, <1>3, <1>4 DEF RowTypes
<1>6. \A t \in T : RowKept(t)
  BY <1>3 DEF RowKept
<1>7. \A t \in Task \ T : RowKept(t)
  BY <1>3, <1>4, SameRow
<1> QED
  BY <1>1, <1>5, <1>6, <1>7 DEF Asked

\* A webhook or a recurring fire inserts a task and runs it (agent_webhook,
\* _spawn_clone_run).
LEMMA InsertAsked ==
  ASSUME RowTypes, NEW t \in Task, Fresh(t), HasRoom(t, 1), NEW who \in {"user", "schedule"},
         NEW row \in TaskRow, row.status = "pending",
         tasks' = [tasks EXCEPT ![t] = row], runs' = [runs EXCEPT ![t] = Spawn(@, who)],
         hooks' \in 0 .. MaxHook, NoRunsYet, UNCHANGED <<log, jobs, agent, crashes>>
  PROVE Asked
<1>0. tasks \in [Task -> TaskRow] /\ tasks[t].status = "none" /\ runs[t] = <<>>
  BY DEF RowTypes, Fresh, NoRunsYet
<1>1. /\ Grown /\ runs' \in [Task -> Seq(Run)] /\ \A u \in Task : Len(runs'[u]) <= MaxAttempt
      /\ \A u \in Task : u # t => runs'[u] = runs[u]
  BY SpawnOne
<1>2. /\ tasks' \in [Task -> TaskRow] /\ tasks'[t].status = "pending"
      /\ \A u \in Task : u # t => tasks'[u] = tasks[u]
  BY <1>0
<1>3. RowTypes'
  BY <1>1, <1>2 DEF RowTypes
<1>4. RowKept(t)
  BY <1>0, <1>2 DEF RowKept
<1>5. \A u \in Task : u # t => RowKept(u)
  BY <1>1, <1>2, SameRow
<1> QED
  BY <1>1, <1>3, <1>4, <1>5 DEF Asked

\* A one-time job fires (_spawn_once_run).
LEMMA FireOnceAsked == ASSUME RowTypes, NEW t \in Task, FireOnce(t) PROVE Asked
<1> DEFINE row == [tasks[t] EXCEPT !.due = TRUE]
<1>0. /\ tasks \in [Task -> TaskRow] /\ jobs' = jobs \ {t} /\ SetTask(t, row)
      /\ UNCHANGED <<log, agent, hooks, crashes>>
  BY DEF RowTypes, FireOnce
<1>1. row \in TaskRow /\ row.status = tasks[t].status /\ row.token = tasks[t].token
  BY <1>0 DEF TaskRow
<1>2. CASE Fires(t)
  <2>1. /\ Grown /\ runs' \in [Task -> Seq(Run)] /\ \A u \in Task : Len(runs'[u]) <= MaxAttempt
        /\ \A u \in Task : u # t => runs'[u] = runs[u]
    BY <1>2, SpawnOne DEF FireOnce
  <2> HIDE DEF row
  <2>2. /\ tasks' \in [Task -> TaskRow] /\ tasks'[t].status = tasks[t].status
        /\ tasks'[t].token = tasks[t].token
        /\ \A u \in Task : u # t => tasks'[u] = tasks[u]
    BY <1>0, <1>1, RowSet
  <2>3. RowTypes'
    BY <1>0, <2>1, <2>2 DEF RowTypes
  <2>4. RowKept(t)
    BY <1>0, <1>2, <2>2 DEF RowKept, Fires, Exists
  <2>5. \A u \in Task : u # t => RowKept(u)
    BY <1>0, <2>1, <2>2, SameRow
  <2> QED
    BY <2>1, <2>3, <2>4, <2>5 DEF Asked
<1>3. CASE ~Fires(t)
  <2>1. runs' = runs
    BY <1>3 DEF FireOnce
  <2>2. /\ Grown /\ runs' \in [Task -> Seq(Run)] /\ \A u \in Task : Len(runs'[u]) <= MaxAttempt
    BY <2>1, NoneGrown
  <2> HIDE DEF row
  <2>3. /\ tasks' \in [Task -> TaskRow]
        /\ \A u \in Task : /\ tasks'[u].status = tasks[u].status
                           /\ tasks'[u].token = tasks[u].token
    BY <1>0, <1>1, RowSet
  <2>4. RowTypes'
    BY <1>0, <2>2, <2>3 DEF RowTypes
  <2>5. \A u \in Task : RowKept(u)
    BY <1>0, <2>1, <2>3, SameRow
  <2> QED
    BY <2>2, <2>4, <2>5 DEF Asked
<1> QED
  BY <1>2, <1>3

\* A day begins: the rows keep everything but the day (_start_of_day_utc).
LEMMA NextDayAsked == ASSUME RowTypes, NextDay PROVE Asked
<1>0. /\ tasks \in [Task -> TaskRow]
      /\ UNCHANGED <<log, runs, jobs, agent, hooks, crashes>>
  BY DEF RowTypes, NextDay
<1>1. ASSUME NEW t \in Task
      PROVE /\ tasks'[t] \in TaskRow /\ tasks'[t].status = tasks[t].status
            /\ tasks'[t].token = tasks[t].token
  BY <1>0, ZenonT(40) DEF NextDay, TaskRow
<1>2. tasks' \in [Task -> TaskRow]
  BY <1>1 DEF NextDay
<1>3. RowTypes'
  BY <1>0, <1>2 DEF RowTypes
<1>4. \A t \in Task : RowKept(t)
  BY <1>0, <1>1, SameRow
<1> QED
  BY <1>0, <1>3, <1>4, NoneGrown DEF Asked

\* All of them.
Request ==
  \/ \E t \in Task, trigger \in Triggers \ {"webhook"}, due, now \in BOOLEAN :
       CreateTask(t, trigger, due, now)
  \/ \E t \in Task : RunTask(t) \/ CancelTask(t) \/ DeleteTask(t) \/ WebhookRuns(t)
  \/ ClearFinished \/ WebhookArrives \/ ArchiveAgent \/ NextDay
  \/ \E s \in Statuses : SetAgentStatus(s)
  \/ \E t \in Task : FireRecurring(t) \/ FireOnce(t)
  \/ UNCHANGED vars

\* Requests and the schedule start no run and lose none (tasks.py, agents.py,
\* agent_scheduler.py).
LEMMA RequestAsked == RowTypes /\ NoRunsYet /\ Request => Asked
<1> SUFFICES ASSUME RowTypes, NoRunsYet, Request PROVE Asked
  OBVIOUS
<1>0. /\ hooks \in 0 .. MaxHook /\ MaxHook \in Nat /\ jobs \subseteq Task
      /\ Statuses \subseteq {"active", "paused", "archived"}
  BY AgentAssumption DEF RowTypes
<1>1. ASSUME UNCHANGED <<tasks, log, runs, crashes>>, jobs' \subseteq jobs,
             hooks' \in 0 .. MaxHook, agent' \in {"active", "paused", "archived"}
      PROVE Asked
  <2>1. RowTypes'
    BY <1>0, <1>1 DEF RowTypes
  <2>2. \A u \in Task : RowKept(u)
    BY <1>1, SameRow
  <2> QED
    BY <1>1, <2>1, <2>2, NoneGrown DEF Asked
<1>2. CASE \E t \in Task, trigger \in Triggers \ {"webhook"}, due, now \in BOOLEAN :
             CreateTask(t, trigger, due, now)
  BY <1>2, CreateTaskAsked
<1>3. CASE \E t \in Task : RunTask(t) \/ CancelTask(t)
  BY <1>3, RunTaskAsked, CancelTaskAsked
<1>4. ASSUME NEW t \in Task, DeleteTask(t) PROVE Asked
  BY <1>4, DeletedAsked DEF DeleteTask
<1>5. CASE ClearFinished
  <2>1. Finished \in SUBSET Task
    BY DEF Finished
  <2> QED
    BY <1>5, <2>1, DeletedAsked DEF ClearFinished
<1>6. ASSUME NEW t \in Task, WebhookRuns(t) PROVE Asked
  <2> DEFINE row == NewTask("webhook")
  <2>1. row \in TaskRow /\ row.status = "pending"
    BY NewRow
  <2>2. hooks' \in 0 .. MaxHook
    BY <1>0, <1>6 DEF WebhookRuns
  <2>3. /\ Fresh(t) /\ HasRoom(t, 1) /\ tasks' = [tasks EXCEPT ![t] = row]
        /\ runs' = [runs EXCEPT ![t] = Spawn(@, "user")]
        /\ UNCHANGED <<log, jobs, agent, crashes>>
    BY <1>6 DEF WebhookRuns
  <2> HIDE DEF row
  <2> QED
    BY <2>1, <2>2, <2>3, InsertAsked
<1>7. ASSUME NEW t \in Task, FireRecurring(t), agent = "active" PROVE Asked
  <2> DEFINE row == [NewTask("cron") EXCEPT !.clone = TRUE]
  <2>1. row \in TaskRow /\ row.status = "pending"
    BY NewRow
  <2>2. PICK s \in Task :
          /\ Fresh(s) /\ HasRoom(s, 1) /\ tasks' = [tasks EXCEPT ![s] = row]
          /\ runs' = [runs EXCEPT ![s] = Spawn(@, "schedule")] /\ UNCHANGED jobs
    BY <1>7 DEF FireRecurring
  <2>3. UNCHANGED <<log, agent, hooks, crashes>>
    BY <1>7 DEF FireRecurring
  <2> HIDE DEF row
  <2> QED
    BY <1>0, <2>1, <2>2, <2>3, InsertAsked
<1>8. ASSUME NEW t \in Task, FireRecurring(t), agent # "active" PROVE Asked
  BY <1>0, <1>1, <1>8 DEF FireRecurring, RowTypes
<1>9. CASE \E t \in Task : FireOnce(t)
  BY <1>9, FireOnceAsked
<1>10. CASE WebhookArrives
  BY <1>0, <1>1, <1>10 DEF WebhookArrives, RowTypes
<1>11. CASE ArchiveAgent
  BY <1>0, <1>1, <1>11 DEF ArchiveAgent
<1>12. CASE \E s \in Statuses : SetAgentStatus(s)
  BY <1>0, <1>1, <1>12 DEF SetAgentStatus
<1>13. CASE UNCHANGED vars
  BY <1>0, <1>1, <1>13 DEF vars, RowTypes
<1>14. CASE NextDay
  BY <1>14, NextDayAsked
<1> QED
  BY <1>2, <1>3, <1>4, <1>5, <1>6, <1>7, <1>8, <1>9, <1>10, <1>11, <1>12, <1>13, <1>14
     DEF Request

\* ... and preserve the invariant.
LEMMA AskedInv == RunInv /\ Asked => RunInv'
<1> SUFFICES ASSUME RunInv, Asked PROVE RunInv'
  OBVIOUS
<1>1. RowTypes' /\ Grown /\ \A t \in Task : RowKept(t)
  BY DEF Asked
<1>2. NoRunsYet'
  BY <1>1 DEF RunInv, NoRunsYet, RowKept
<1>3. QueuedAlone'
  BY <1>1 DEF RunInv, QueuedAlone, Grown
<1>4. OneAtATime' => OneAtATime
  BY <1>1 DEF OneAtATime, Grown
<1>5. ASSUME OneAtATime', NEW t \in Task, NEW n \in DOMAIN runs'[t],
             runs'[t][n].pc = "executing", Exists(t)'
      PROVE tasks'[t].token = n
  <2>1. n \in DOMAIN runs[t] /\ runs[t][n].pc = "executing" /\ runs[t] # <<>>
    BY <1>1, <1>5 DEF Grown
  <2>2. tasks'[t].token = tasks[t].token /\ Exists(t)
    BY <1>1, <1>5, <2>1 DEF RowKept, Exists
  <2> QED
    BY <1>4, <1>5, <2>1, <2>2 DEF RunInv, TokenOfLastRun
<1>6. ASSUME OneAtATime', NEW t \in Task, tasks'[t].status = "completed"
      PROVE /\ log'[t] = {tasks'[t].token} /\ tasks'[t].token \in DOMAIN runs'[t]
            /\ runs'[t][tasks'[t].token].pc = "ended"
  <2>1. /\ tasks[t].status = "completed" /\ log'[t] = log[t]
        /\ tasks'[t].token = tasks[t].token
    BY <1>1, <1>6 DEF RowKept
  <2>2. /\ log[t] = {tasks[t].token} /\ tasks[t].token \in DOMAIN runs[t]
        /\ runs[t][tasks[t].token].pc = "ended"
    BY <1>4, <1>6, <2>1 DEF RunInv, TokenOfLastRun
  <2> QED
    BY <1>1, <2>1, <2>2 DEF Grown
<1>7. TokenOfLastRun'
  BY <1>5, <1>6 DEF TokenOfLastRun
<1> QED
  BY <1>1, <1>2, <1>3, <1>7 DEF RunInv

-----------------------------------------------------------------------------
(* What the runs do *)

\* Attempt n of task t moves on, and nothing else but the row of t.
Moved(t, n) == /\ \A u \in Task : DOMAIN runs'[u] = DOMAIN runs[u]
               /\ \A u \in Task : u # t => runs'[u] = runs[u] /\ tasks'[u] = tasks[u]
               /\ \A k \in DOMAIN runs[t] : k # n => runs'[t][k] = runs[t][k]

\* One attempt moves on, the others do not; a row that exists changes.
LEMMA OneMoves ==
  ASSUME RowTypes, NEW t \in Task, NEW n \in DOMAIN runs[t], NEW a \in Run,
         runs' = [runs EXCEPT ![t] = [runs[t] EXCEPT ![n] = a]],
         NEW row \in TaskRow, SetTask(t, row), log' \in [Task -> SUBSET Attempt],
         UNCHANGED <<jobs, agent, hooks, crashes>>
  PROVE /\ RowTypes' /\ runs'[t][n] = a
        /\ \A u \in Task : DOMAIN runs'[u] = DOMAIN runs[u]
        /\ \A u \in Task : u # t => runs'[u] = runs[u]
        /\ \A k \in DOMAIN runs[t] : k # n => runs'[t][k] = runs[t][k]
        /\ \A u \in Task : u # t => tasks'[u] = tasks[u]
        /\ tasks'[t] = IF Exists(t) THEN row ELSE tasks[t]
<1>1. /\ runs \in [Task -> Seq(Run)] /\ runs[t] \in Seq(Run)
      /\ \A u \in Task : Len(runs[u]) <= MaxAttempt
  BY DEF RowTypes
<1>2. PICK s : s = [runs[t] EXCEPT ![n] = a]
  OBVIOUS
<1>3. /\ s \in Seq(Run) /\ Len(s) = Len(runs[t]) /\ DOMAIN s = DOMAIN runs[t] /\ s[n] = a
      /\ \A k \in DOMAIN runs[t] : k # n => s[k] = runs[t][k]
  BY <1>1, <1>2, Replaced
<1>4. runs' = [runs EXCEPT ![t] = s]
  BY <1>2
<1>5. /\ runs'[t] = s /\ \A u \in Task : u # t => runs'[u] = runs[u]
      /\ runs' \in [Task -> Seq(Run)] /\ \A u \in Task : Len(runs'[u]) <= MaxAttempt
  BY <1>1, <1>3, <1>4
<1>6. /\ tasks' \in [Task -> TaskRow]
      /\ \A u \in Task : u # t => tasks'[u] = tasks[u]
      /\ tasks'[t] = IF Exists(t) THEN row ELSE tasks[t]
  BY RowSet
<1>7. RowTypes'
  BY <1>5, <1>6 DEF RowTypes
<1> QED
  BY <1>3, <1>5, <1>6, <1>7

\* A run starts: its token is on the row (trigger_run).
LEMMA StartRunInv ==
  ASSUME RunInv, NEW t \in Task, NEW n \in DOMAIN runs[t], StartRun(t, n)
  PROVE /\ RunInv' /\ Moved(t, n) /\ tasks'[t].status = "running"
        /\ runs'[t][n].pc = "executing" /\ runs'[t][n].together = Accompanied
<1>10. PICK beside \in BOOLEAN : beside = Accompanied
  BY DEF Accompanied
<1> DEFINE a == [runs[t][n] EXCEPT !.pc = "executing", !.together = beside]
           row == [tasks[t] EXCEPT !.status = "running", !.token = n]
<1>0. /\ RowTypes /\ tasks \in [Task -> TaskRow] /\ log \in [Task -> SUBSET Attempt]
      /\ runs[t] \in Seq(Run) /\ Len(runs[t]) <= MaxAttempt
      /\ runs[t][n].pc = "queued" /\ Exists(t)
  BY DEF RunInv, RowTypes, StartRun
<1>1. runs[t][n] \in Run
  BY <1>0
<1>2. a \in Run /\ a.pc = "executing" /\ a.together = beside
  BY <1>1 DEF Run
<1>3. n \in Attempt
  BY <1>0, AgentAssumption DEF Attempt
<1>4. row \in TaskRow /\ row.status = "running" /\ row.token = n
  BY <1>0, <1>3 DEF TaskRow
<1>5. /\ runs' = [runs EXCEPT ![t] = [runs[t] EXCEPT ![n] = a]]
      /\ SetTask(t, row) /\ log' = log /\ UNCHANGED <<jobs, agent, hooks, crashes>>
  BY <1>0, <1>10 DEF StartRun, Executing
<1>12. RowTypes /\ a \in Run /\ row \in TaskRow /\ log' \in [Task -> SUBSET Attempt]
  BY <1>0, <1>2, <1>4, <1>5
<1> HIDE DEF a, row
<1>6. /\ RowTypes' /\ runs'[t][n] = a
      /\ \A u \in Task : DOMAIN runs'[u] = DOMAIN runs[u]
      /\ \A u \in Task : u # t => runs'[u] = runs[u]
      /\ \A k \in DOMAIN runs[t] : k # n => runs'[t][k] = runs[t][k]
      /\ \A u \in Task : u # t => tasks'[u] = tasks[u]
      /\ tasks'[t] = IF Exists(t) THEN row ELSE tasks[t]
  BY <1>5, <1>12, OneMoves
<1>11. tasks'[t] = row
  BY <1>0, <1>6
<1>7. NoRunsYet'
  BY <1>0, <1>4, <1>6, <1>11 DEF RunInv, NoRunsYet
<1>8. QueuedAlone'
  BY <1>2, <1>6 DEF RunInv, QueuedAlone
<1>9. TokenOfLastRun'
  <2> SUFFICES ASSUME OneAtATime' PROVE TokenOfLastRun'
    BY DEF TokenOfLastRun
  <2>1. ~Accompanied
    BY <1>2, <1>6, <1>10 DEF OneAtATime
  <2>2. \A u \in Task : \A k \in DOMAIN runs[u] : runs[u][k].pc # "executing"
    BY <2>1 DEF Accompanied
  <2>3. OneAtATime
    <3> SUFFICES ASSUME NEW u \in Task, NEW k \in DOMAIN runs[u] PROVE ~runs[u][k].together
      BY DEF OneAtATime
    <3>1. CASE u = t /\ k = n
      BY <1>0, <3>1 DEF RunInv, QueuedAlone
    <3>2. CASE u # t
      BY <1>6, <3>2 DEF OneAtATime
    <3>3. CASE u = t /\ k # n
      BY <1>6, <3>3 DEF OneAtATime
    <3> QED
      BY <3>1, <3>2, <3>3
  <2>4. ASSUME NEW u \in Task, NEW k \in DOMAIN runs'[u], runs'[u][k].pc = "executing"
        PROVE tasks'[u].token = k
    <3>1. u = t /\ k = n
      BY <1>6, <2>2, <2>4
    <3> QED
      BY <1>4, <1>11, <3>1
  <2>5. ASSUME NEW u \in Task, tasks'[u].status = "completed"
        PROVE /\ log'[u] = {tasks'[u].token} /\ tasks'[u].token \in DOMAIN runs'[u]
              /\ runs'[u][tasks'[u].token].pc = "ended"
    <3>1. u # t
      BY <1>4, <1>11, <2>5
    <3> QED
      BY <1>5, <1>6, <2>3, <2>5, <3>1 DEF RunInv, TokenOfLastRun
  <2> QED
    BY <2>4, <2>5 DEF TokenOfLastRun
<1>13. RunInv'
  BY <1>6, <1>7, <1>8, <1>9 DEF RunInv
<1>14. Moved(t, n)
  BY <1>6 DEF Moved
<1> QED
  BY <1>2, <1>4, <1>6, <1>10, <1>11, <1>13, <1>14

\* A run is refused, or its connection breaks (trigger_run).
LEMMA EndRunInv ==
  ASSUME RunInv, NEW t \in Task, NEW n \in DOMAIN runs[t], NEW pc \in {"refused", "orphan"},
         runs[t][n].pc \in {"queued", "executing"},
         SetTask(t, [tasks[t] EXCEPT !.status = "failed"]), EndRun(t, n, pc),
         UNCHANGED <<log, jobs, agent, hooks, crashes>>
  PROVE /\ RunInv' /\ Moved(t, n)
        /\ runs'[t][n].pc = pc /\ runs'[t][n].together = runs[t][n].together
        /\ tasks'[t].status \in {tasks[t].status, "failed"}
<1> DEFINE a == [runs[t][n] EXCEPT !.pc = pc]
           row == [tasks[t] EXCEPT !.status = "failed"]
<1>0. /\ RowTypes /\ tasks \in [Task -> TaskRow] /\ log \in [Task -> SUBSET Attempt]
      /\ runs \in [Task -> Seq(Run)] /\ runs[t] \in Seq(Run) /\ runs[t][n] \in Run
  BY DEF RunInv, RowTypes
<1>1. a \in Run /\ a.pc = pc /\ a.together = runs[t][n].together
  BY <1>0 DEF Run
<1>2. row \in TaskRow /\ row.status = "failed" /\ row.token = tasks[t].token
  BY <1>0, ZenonT(40) DEF TaskRow
<1>3. runs' = [runs EXCEPT ![t] = [runs[t] EXCEPT ![n] = a]] /\ SetTask(t, row)
  BY DEF EndRun
<1> HIDE DEF a, row
<1>4. /\ RowTypes' /\ runs'[t][n] = a
      /\ \A u \in Task : DOMAIN runs'[u] = DOMAIN runs[u]
      /\ \A u \in Task : u # t => runs'[u] = runs[u]
      /\ \A k \in DOMAIN runs[t] : k # n => runs'[t][k] = runs[t][k]
      /\ \A u \in Task : u # t => tasks'[u] = tasks[u]
      /\ tasks'[t] = IF Exists(t) THEN row ELSE tasks[t]
  BY <1>0, <1>1, <1>2, <1>3, OneMoves
<1>5. NoRunsYet'
  <2> SUFFICES ASSUME NEW u \in Task, tasks'[u].status = "none" PROVE runs'[u] = <<>>
    BY DEF NoRunsYet
  <2>1. u # t
    <3>1. tasks[t].status # "none"
      BY DEF RunInv, NoRunsYet
    <3> QED
      BY <1>2, <1>4, <3>1
  <2> QED
    BY <1>4, <2>1 DEF RunInv, NoRunsYet
<1>6. QueuedAlone'
  BY <1>1, <1>4 DEF RunInv, QueuedAlone
<1>7. TokenOfLastRun'
  <2> SUFFICES ASSUME OneAtATime' PROVE TokenOfLastRun'
    BY DEF TokenOfLastRun
  <2>1. OneAtATime
    <3> SUFFICES ASSUME NEW u \in Task, NEW k \in DOMAIN runs[u] PROVE ~runs[u][k].together
      BY DEF OneAtATime
    <3>1. ~runs'[u][k].together /\ k \in DOMAIN runs'[u]
      BY <1>4 DEF OneAtATime
    <3>2. CASE u = t /\ k = n
      BY <1>1, <1>4, <3>1, <3>2
    <3>3. CASE u # t \/ k # n
      BY <1>4, <3>1, <3>3
    <3> QED
      BY <3>2, <3>3
  <2>2. ASSUME NEW u \in Task, NEW k \in DOMAIN runs'[u], runs'[u][k].pc = "executing", Exists(u)'
        PROVE tasks'[u].token = k
    <3>1. k \in DOMAIN runs[u] /\ runs[u][k].pc = "executing"
      BY <1>1, <1>4, <2>2
    <3>2. Exists(u) /\ tasks'[u].token = tasks[u].token
      BY <1>2, <1>4, <2>2 DEF Exists
    <3> QED
      BY <2>1, <3>1, <3>2 DEF RunInv, TokenOfLastRun
  <2>3. ASSUME NEW u \in Task, tasks'[u].status = "completed"
        PROVE /\ log'[u] = {tasks'[u].token} /\ tasks'[u].token \in DOMAIN runs'[u]
              /\ runs'[u][tasks'[u].token].pc = "ended"
    <3>1. u # t
      BY <1>2, <1>4, <2>3 DEF Exists
    <3> QED
      BY <1>4, <2>1, <2>3, <3>1 DEF RunInv, TokenOfLastRun
  <2> QED
    BY <2>2, <2>3 DEF TokenOfLastRun
<1>8. RunInv'
  BY <1>4, <1>5, <1>6, <1>7 DEF RunInv
<1>9. Moved(t, n)
  BY <1>4 DEF Moved
<1> QED
  BY <1>1, <1>2, <1>4, <1>8, <1>9

\* A run is over: its step log replaces what was streamed (_persist_result).
LEMMA FinishRunInv ==
  ASSUME RunInv, NEW t \in Task, NEW n \in DOMAIN runs[t], FinishRun(t, n)
  PROVE /\ RunInv' /\ Moved(t, n)
        /\ runs'[t][n].pc = "ended" /\ runs'[t][n].together = runs[t][n].together
        /\ tasks'[t].status \in {tasks[t].status, "completed", "failed"}
        /\ tasks[t].status = "cancelled" => tasks'[t].status = "cancelled"
<1>0. /\ RowTypes /\ tasks \in [Task -> TaskRow] /\ log \in [Task -> SUBSET Attempt]
      /\ runs \in [Task -> Seq(Run)] /\ runs[t] \in Seq(Run) /\ runs[t][n] \in Run
      /\ runs[t][n].pc = "executing" /\ Len(runs[t]) <= MaxAttempt
  BY DEF RunInv, RowTypes, FinishRun
<1>1. PICK c \in Costs, s \in {"completed", "failed"} :
        /\ SetTask(t, [tasks[t] EXCEPT !.status = IF Stopped(t) THEN @ ELSE s, !.cost = c])
        /\ log' = IF Exists(t) THEN [log EXCEPT ![t] = {n}] ELSE log
        /\ EndRun(t, n, "ended")
        /\ UNCHANGED <<jobs, agent, hooks, crashes>>
  BY DEF FinishRun
<1>2. PICK st : st = IF Stopped(t) THEN tasks[t].status ELSE s
  OBVIOUS
<1>3. /\ st \in {tasks[t].status, "completed", "failed"}
      /\ tasks[t].status = "cancelled" => st = "cancelled"
  BY <1>2 DEF Stopped
<1> DEFINE a == [runs[t][n] EXCEPT !.pc = "ended"]
           row == [tasks[t] EXCEPT !.status = st, !.cost = c]
<1>4. c \in Nat
  BY <1>1, AgentAssumption
<1>5. a \in Run /\ a.pc = "ended" /\ a.together = runs[t][n].together
  BY <1>0 DEF Run
<1>6. row \in TaskRow /\ row.status = st /\ row.token = tasks[t].token
  BY <1>0, <1>3, <1>4, ZenonT(40) DEF TaskRow
<1>7. SetTask(t, row)
  BY <1>1, <1>2
<1>8. runs' = [runs EXCEPT ![t] = [runs[t] EXCEPT ![n] = a]]
      /\ UNCHANGED <<jobs, agent, hooks, crashes>>
  BY <1>1 DEF EndRun
<1>9. n \in Attempt
  BY <1>0, AgentAssumption DEF Attempt
<1>10. RowTypes /\ a \in Run /\ row \in TaskRow /\ log' \in [Task -> SUBSET Attempt]
  BY <1>0, <1>1, <1>5, <1>6, <1>9
<1> HIDE DEF a, row
<1>11. /\ RowTypes' /\ runs'[t][n] = a
       /\ \A u \in Task : DOMAIN runs'[u] = DOMAIN runs[u]
       /\ \A u \in Task : u # t => runs'[u] = runs[u]
       /\ \A k \in DOMAIN runs[t] : k # n => runs'[t][k] = runs[t][k]
       /\ \A u \in Task : u # t => tasks'[u] = tasks[u]
       /\ tasks'[t] = IF Exists(t) THEN row ELSE tasks[t]
  BY <1>7, <1>8, <1>10, OneMoves
<1>12. tasks'[t].status \in {tasks[t].status, st} /\ tasks'[t].token = tasks[t].token
       /\ (Exists(t)' => Exists(t))
  BY <1>6, <1>11 DEF Exists
<1>13. NoRunsYet'
  <2> SUFFICES ASSUME NEW u \in Task, tasks'[u].status = "none" PROVE runs'[u] = <<>>
    BY DEF NoRunsYet
  <2>1. u # t
    <3>1. tasks[t].status # "none"
      BY DEF RunInv, NoRunsYet
    <3> QED
      BY <1>3, <1>12, <3>1
  <2> QED
    BY <1>11, <2>1 DEF RunInv, NoRunsYet
<1>14. QueuedAlone'
  BY <1>5, <1>11 DEF RunInv, QueuedAlone
<1>15. TokenOfLastRun'
  <2> SUFFICES ASSUME OneAtATime' PROVE TokenOfLastRun'
    BY DEF TokenOfLastRun
  <2>1. OneAtATime
    <3> SUFFICES ASSUME NEW u \in Task, NEW k \in DOMAIN runs[u] PROVE ~runs[u][k].together
      BY DEF OneAtATime
    <3>1. ~runs'[u][k].together /\ k \in DOMAIN runs'[u]
      BY <1>11 DEF OneAtATime
    <3>2. CASE u = t /\ k = n
      BY <1>5, <1>11, <3>1, <3>2
    <3>3. CASE u # t \/ k # n
      BY <1>11, <3>1, <3>3
    <3> QED
      BY <3>2, <3>3
  <2>2. ASSUME NEW u \in Task, NEW k \in DOMAIN runs'[u], runs'[u][k].pc = "executing", Exists(u)'
        PROVE tasks'[u].token = k
    <3>1. k \in DOMAIN runs[u] /\ runs[u][k].pc = "executing"
      BY <1>5, <1>11, <2>2
    <3>2. Exists(u) /\ tasks'[u].token = tasks[u].token
      BY <1>11, <1>12, <2>2 DEF Exists
    <3> QED
      BY <2>1, <3>1, <3>2 DEF RunInv, TokenOfLastRun
  <2>3. ASSUME NEW u \in Task, tasks'[u].status = "completed"
        PROVE /\ log'[u] = {tasks'[u].token} /\ tasks'[u].token \in DOMAIN runs'[u]
              /\ runs'[u][tasks'[u].token].pc = "ended"
    <3>1. CASE u # t
      <4>1. log'[u] = log[u] /\ runs'[u] = runs[u] /\ tasks'[u] = tasks[u]
        BY <1>0, <1>1, <1>11, <3>1
      <4> QED
        BY <2>1, <2>3, <4>1 DEF RunInv, TokenOfLastRun
    <3>2. CASE u = t
      <4>1. Exists(t)
        BY <1>12, <2>3, <3>2 DEF Exists
      <4>2. tasks'[t].token = n
        BY <1>0, <1>12, <2>1, <4>1 DEF RunInv, TokenOfLastRun
      <4>3. log'[t] = {n}
        BY <1>0, <1>1, <4>1
      <4> QED
        BY <1>5, <1>11, <3>2, <4>2, <4>3
    <3> QED
      BY <3>1, <3>2
  <2> QED
    BY <2>2, <2>3 DEF TokenOfLastRun
<1>16. RunInv'
  BY <1>11, <1>13, <1>14, <1>15 DEF RunInv
<1>17. Moved(t, n)
  BY <1>11 DEF Moved
<1> QED
  BY <1>3, <1>5, <1>11, <1>12, <1>16, <1>17

\* A container streams a step: not for a task that its run has completed
\* (agent_step_callback).
LEMMA StepCallbackInv ==
  ASSUME RunInv, NEW t \in Task, NEW n \in DOMAIN runs[t], StepCallback(t, n)
  PROVE /\ RunInv' /\ runs' = runs
        /\ \A u \in Task : \/ tasks'[u].status = tasks[u].status
                           \/ tasks[u].status = "pending" /\ tasks'[u].status = "running"
<1> DEFINE row == [tasks[t] EXCEPT !.status = "running"]
<1>0. /\ RowTypes /\ tasks \in [Task -> TaskRow] /\ log \in [Task -> SUBSET Attempt]
      /\ runs \in [Task -> Seq(Run)] /\ runs[t] \in Seq(Run) /\ Len(runs[t]) <= MaxAttempt
  BY DEF RunInv, RowTypes
<1>1. /\ runs[t][n].pc \in {"executing", "orphan"} /\ Exists(t) /\ tasks[t].token = n
      /\ log' = [log EXCEPT ![t] = log[t] \cup {n}]
      /\ tasks' = IF tasks[t].status = "pending" THEN [tasks EXCEPT ![t] = row] ELSE tasks
      /\ UNCHANGED <<runs, jobs, agent, hooks, crashes>>
  BY <1>0 DEF StepCallback, Authorized
<1>2. row \in TaskRow /\ row.status = "running" /\ row.token = tasks[t].token
  BY <1>0, ZenonT(40) DEF TaskRow
<1>3. n \in Attempt
  BY <1>0, AgentAssumption DEF Attempt
<1> HIDE DEF row
<1>4. /\ tasks' \in [Task -> TaskRow]
      /\ \A u \in Task : /\ tasks'[u].token = tasks[u].token
                         /\ \/ tasks'[u].status = tasks[u].status
                            \/ tasks[u].status = "pending" /\ tasks'[u].status = "running"
  BY <1>0, <1>1, <1>2
<1>5. /\ log' \in [Task -> SUBSET Attempt]
      /\ \A u \in Task : u # t => log'[u] = log[u]
  BY <1>0, <1>1, <1>3
<1>6. RowTypes'
  BY <1>0, <1>1, <1>4, <1>5 DEF RowTypes
<1>7. NoRunsYet'
  BY <1>1, <1>4 DEF RunInv, NoRunsYet
<1>8. QueuedAlone'
  BY <1>1 DEF RunInv, QueuedAlone
<1>9. TokenOfLastRun'
  <2> SUFFICES ASSUME OneAtATime' PROVE TokenOfLastRun'
    BY DEF TokenOfLastRun
  <2>1. OneAtATime
    BY <1>1 DEF OneAtATime
  <2>2. ASSUME NEW u \in Task, NEW k \in DOMAIN runs'[u], runs'[u][k].pc = "executing", Exists(u)'
        PROVE tasks'[u].token = k
    <3>1. Exists(u) /\ tasks'[u].token = tasks[u].token
      BY <1>4, <2>2 DEF Exists
    <3> QED
      BY <1>1, <2>1, <2>2, <3>1 DEF RunInv, TokenOfLastRun
  <2>3. ASSUME NEW u \in Task, tasks'[u].status = "completed"
        PROVE /\ log'[u] = {tasks'[u].token} /\ tasks'[u].token \in DOMAIN runs'[u]
              /\ runs'[u][tasks'[u].token].pc = "ended"
    <3>1. tasks[u].status = "completed"
      BY <1>4, <2>3
    <3>2. /\ log[u] = {tasks[u].token} /\ tasks[u].token \in DOMAIN runs[u]
          /\ runs[u][tasks[u].token].pc = "ended"
      BY <2>1, <3>1 DEF RunInv, TokenOfLastRun
    <3>3. u # t
      BY <1>1, <3>2
    <3> QED
      BY <1>1, <1>4, <1>5, <3>2, <3>3
  <2> QED
    BY <2>2, <2>3 DEF TokenOfLastRun
<1>10. RunInv'
  BY <1>6, <1>7, <1>8, <1>9 DEF RunInv
<1>11. runs' = runs
  BY <1>1
<1>12. \A u \in Task : \/ tasks'[u].status = tasks[u].status
                       \/ tasks[u].status = "pending" /\ tasks'[u].status = "running"
  BY <1>4
<1> QED
  BY <1>10, <1>11, <1>12

\* A restart cuts the runs and fails the rows they leave in 'running'
\* (recover_orphaned_agent_runs, reload_jobs).
LEMMA RestartInv ==
  ASSUME RunInv, Restart
  PROVE /\ RunInv'
        /\ \A t \in Task : tasks'[t].status \in {tasks[t].status, "failed"}
        /\ \A t \in Task : tasks'[t].status # tasks[t].status => tasks[t].status = "running"
        /\ \A t \in Task : \A n \in DOMAIN runs'[t] :
             runs'[t][n].pc = "queued" => tasks'[t].status = "pending"
        /\ \A t \in Task : \A n \in DOMAIN runs'[t] : runs'[t][n].pc # "executing"
        /\ OneAtATime' => OneAtATime
<1> DEFINE cut(t) == [n \in DOMAIN runs[t] |-> Cut(runs[t][n])]
<1>0. /\ tasks \in [Task -> TaskRow] /\ log \in [Task -> SUBSET Attempt] /\ log' = log
      /\ runs \in [Task -> Seq(Run)] /\ \A t \in Task : Len(runs[t]) <= MaxAttempt
      /\ crashes \in 0 .. MaxCrash /\ MaxCrash \in Nat
  BY AgentAssumption DEF RunInv, RowTypes, Restart
<1>1. PICK late \in SUBSET Task :
        /\ \A t \in Task : Waiting(t) /\ (tasks[t].due \/ t \in late) => HasRoom(t, 1)
        /\ tasks' = [t \in Task |-> Recovered([tasks[t] EXCEPT !.due = tasks[t].due \/ t \in late])]
        /\ runs' = [t \in Task |-> IF Waiting(t) /\ (tasks[t].due \/ t \in late)
                                   THEN Spawn(cut(t), "schedule") ELSE cut(t)]
  BY DEF Restart
<1>2. /\ crashes' = crashes + 1 /\ crashes < MaxCrash /\ jobs' \subseteq Task
      /\ hooks' = 0 /\ agent' = agent
  BY DEF Restart
<1>3. ASSUME NEW t \in Task
      PROVE /\ tasks'[t] \in TaskRow /\ tasks'[t].token = tasks[t].token
            /\ tasks[t].status # "running" => tasks'[t].status = tasks[t].status
            /\ tasks[t].status = "running" => tasks'[t].status = "failed"
  <2>1. PICK due \in BOOLEAN : due = (tasks[t].due \/ t \in late)
    OBVIOUS
  <2> DEFINE row == [tasks[t] EXCEPT !.due = due]
  <2>2. row \in TaskRow /\ row.status = tasks[t].status /\ row.token = tasks[t].token
    BY <1>0, ZenonT(40) DEF TaskRow
  <2>3. tasks'[t] = Recovered(row)
    BY <1>1, <2>1
  <2> HIDE DEF row
  <2>4. [row EXCEPT !.status = "failed"] \in TaskRow
        /\ [row EXCEPT !.status = "failed"].status = "failed"
        /\ [row EXCEPT !.status = "failed"].token = row.token
    BY <2>2 DEF TaskRow
  <2> QED
    BY <2>2, <2>3, <2>4 DEF Recovered
<1>4. tasks' \in [Task -> TaskRow]
  BY <1>1, <1>3
<1>5. ASSUME NEW t \in Task
      PROVE /\ cut(t) \in Seq(Run) /\ Len(cut(t)) = Len(runs[t]) /\ DOMAIN cut(t) = DOMAIN runs[t]
            /\ \A n \in DOMAIN runs[t] : /\ cut(t)[n].together = runs[t][n].together
                                         /\ cut(t)[n].pc \notin {"queued", "executing"}
                                         /\ runs[t][n].pc = "ended" => cut(t)[n].pc = "ended"
  <2>1. runs[t] \in Seq(Run)
    BY <1>0
  <2> QED
    BY <2>1, CutAll
<1>6. ASSUME NEW t \in Task
      PROVE /\ runs'[t] \in Seq(Run) /\ Len(runs'[t]) <= MaxAttempt
            /\ \A n \in DOMAIN runs[t] : n \in DOMAIN runs'[t] /\ runs'[t][n] = cut(t)[n]
            /\ \A n \in DOMAIN runs'[t] :
                 n \in DOMAIN runs[t] \/ (runs'[t][n].pc = "queued" /\ ~runs'[t][n].together
                                          /\ tasks[t].status = "pending")
            /\ tasks[t].status # "pending" => runs'[t] = cut(t)
  <2>1. PICK s \in Seq(Run) : s = cut(t)
    BY <1>5
  <2>2. PICK q : q = Spawn(s, "schedule")
    OBVIOUS
  <2>3. /\ q \in Seq(Run) /\ Len(q) = Len(s) + 1
        /\ \A n \in DOMAIN s : n \in DOMAIN q /\ q[n] = s[n]
        /\ \A n \in DOMAIN q : n \in DOMAIN s \/ (q[n].pc = "queued" /\ ~q[n].together)
    BY <2>2, Spawned
  <2>4. Len(s) = Len(runs[t]) /\ DOMAIN s = DOMAIN runs[t]
    BY <1>5, <2>1
  <2>5. CASE Waiting(t) /\ (tasks[t].due \/ t \in late)
    <3>1. runs'[t] = q /\ HasRoom(t, 1) /\ tasks[t].status = "pending"
      BY <1>1, <2>1, <2>2, <2>5 DEF Waiting
    <3>2. Len(runs'[t]) <= MaxAttempt
      BY <2>3, <2>4, <3>1 DEF HasRoom
    <3> HIDE DEF cut
    <3> QED
      BY <2>1, <2>3, <2>4, <3>1, <3>2
  <2>6. CASE ~(Waiting(t) /\ (tasks[t].due \/ t \in late))
    <3>1. runs'[t] = s
      BY <1>1, <2>1, <2>6
    <3> HIDE DEF cut
    <3> QED
      BY <1>0, <2>1, <2>4, <3>1
  <2> QED
    BY <2>5, <2>6
<1>7. runs' \in [Task -> Seq(Run)]
  <2>1. runs' = [t \in Task |-> runs'[t]]
    BY <1>1
  <2> QED
    BY <1>6, <2>1
<1> HIDE DEF cut
<1>8. RowTypes'
  BY <1>0, <1>2, <1>4, <1>6, <1>7, AgentAssumption DEF RowTypes, RunInv
<1>9. NoRunsYet'
  <2> SUFFICES ASSUME NEW t \in Task, tasks'[t].status = "none" PROVE runs'[t] = <<>>
    BY DEF NoRunsYet
  <2>1. tasks[t].status = "none" /\ runs[t] = <<>>
    BY <1>3 DEF RunInv, NoRunsYet
  <2>2. runs'[t] = cut(t) /\ cut(t) \in Seq(Run) /\ Len(cut(t)) = 0
    BY <1>5, <1>6, <2>1
  <2> QED
    BY <2>2
<1>10. QueuedAlone'
  BY <1>5, <1>6 DEF QueuedAlone
<1>11. OneAtATime' => OneAtATime
  BY <1>5, <1>6 DEF OneAtATime
<1>12. ASSUME NEW t \in Task, NEW n \in DOMAIN runs'[t] PROVE runs'[t][n].pc # "executing"
  BY <1>5, <1>6
<1>13. ASSUME OneAtATime', NEW t \in Task, tasks'[t].status = "completed"
       PROVE /\ log'[t] = {tasks'[t].token} /\ tasks'[t].token \in DOMAIN runs'[t]
             /\ runs'[t][tasks'[t].token].pc = "ended"
  <2>1. tasks[t].status = "completed" /\ tasks'[t].token = tasks[t].token
    BY <1>3, <1>13
  <2>2. /\ log[t] = {tasks[t].token} /\ tasks[t].token \in DOMAIN runs[t]
        /\ runs[t][tasks[t].token].pc = "ended"
    BY <1>11, <1>13, <2>1 DEF RunInv, TokenOfLastRun
  <2> QED
    BY <1>0, <1>5, <1>6, <2>1, <2>2
<1>14. TokenOfLastRun'
  BY <1>12, <1>13 DEF TokenOfLastRun
<1>15. RunInv'
  BY <1>8, <1>9, <1>10, <1>14 DEF RunInv
<1>16. \A t \in Task : \A n \in DOMAIN runs'[t] :
         runs'[t][n].pc = "queued" => tasks'[t].status = "pending"
  BY <1>3, <1>5, <1>6
<1> QED
  BY <1>3, <1>11, <1>12, <1>15, <1>16

\* A run that a restart cuts does not end with a result.
LEMMA RestartCuts ==
  ASSUME RunInv, Restart, NEW t \in Task, NEW n \in DOMAIN runs[t], runs[t][n].pc = "executing"
  PROVE  runs'[t][n].pc = "orphan"
<1>1. PICK c : c = [k \in DOMAIN runs[t] |-> Cut(runs[t][k])]
  OBVIOUS
<1>2. runs[t] \in Seq(Run) /\ runs[t][n] \in Run
  BY DEF RunInv, RowTypes
<1>3. c \in Seq(Run) /\ DOMAIN c = DOMAIN runs[t]
  BY <1>1, <1>2, CutAll
<1>4. c[n].pc = "orphan"
  BY <1>1, <1>2, ZenonT(40) DEF Cut, Run
<1>5. runs'[t] = c \/ runs'[t] = Spawn(c, "schedule")
  BY <1>1 DEF Restart
<1>6. Spawn(c, "schedule")[n] = c[n]
  BY <1>3, Spawned
<1> QED
  BY <1>4, <1>5, <1>6

-----------------------------------------------------------------------------
(* The theorems *)

\* A step of the system is a request, a run's, a callback's or a restart.
LEMMA StepKinds ==
  [Next]_vars <=> \/ Request
                  \/ \E t \in Task : \E n \in DOMAIN runs[t] : RunStep(t, n) \/ StepCallback(t, n)
                  \/ Restart
  BY DEF Next, Request

\* A run that is refused, or whose connection breaks (trigger_run).
LEMMA RefusedOrBroken ==
  ASSUME RunInv, NEW t \in Task, NEW n \in DOMAIN runs[t], RefuseRun(t, n) \/ BreakRun(t, n)
  PROVE /\ RunInv'
        /\ RefuseRun(t, n) => runs'[t][n].pc = "refused"
        /\ BreakRun(t, n) => runs'[t][n].pc = "orphan"
        /\ Moved(t, n) /\ runs'[t][n].together = runs[t][n].together
        /\ tasks'[t].status \in {tasks[t].status, "failed"}
<1>1. CASE RefuseRun(t, n)
  BY <1>1, EndRunInv DEF RefuseRun, BreakRun
<1>2. CASE BreakRun(t, n)
  BY <1>2, EndRunInv DEF RefuseRun, BreakRun
<1> QED
  BY <1>1, <1>2

\* The invariant is preserved.
LEMMA RunInvStep == RunInv /\ [Next]_vars => RunInv'
<1> SUFFICES ASSUME RunInv, [Next]_vars PROVE RunInv'
  OBVIOUS
<1>1. CASE Request
  BY <1>1, RequestAsked, AskedInv DEF RunInv
<1>2. ASSUME NEW t \in Task, NEW n \in DOMAIN runs[t], RunStep(t, n) PROVE RunInv'
  BY <1>2, StartRunInv, RefusedOrBroken, FinishRunInv DEF RunStep, BeginRun
<1>3. ASSUME NEW t \in Task, NEW n \in DOMAIN runs[t], StepCallback(t, n) PROVE RunInv'
  BY <1>3, StepCallbackInv
<1>4. CASE Restart
  BY <1>4, RestartInv
<1> QED
  BY <1>1, <1>2, <1>3, <1>4, StepKinds

\* The tables are empty at first (sql/agents.sql).
LEMMA InitRunInv == Init => RunInv
<1> SUFFICES ASSUME Init PROVE RunInv
  OBVIOUS
<1>1. NoTask \in TaskRow /\ NoTask.status = "none"
  BY DEF NoTask, TaskRow
<1>2. /\ \A t \in Task : tasks[t] = NoTask /\ runs[t] = <<>> /\ log[t] = {}
      /\ DOMAIN <<>> = {} /\ <<>> \in Seq(Run) /\ Len(<<>>) = 0
  BY DEF Init
<1>3. RowTypes
  BY <1>1, AgentAssumption DEF Init, RowTypes
<1>4. NoRunsYet /\ QueuedAlone
  BY <1>2 DEF NoRunsYet, QueuedAlone
<1>5. TokenOfLastRun
  BY <1>1, <1>2 DEF TokenOfLastRun
<1> QED
  BY <1>3, <1>4, <1>5 DEF RunInv

\* The tasks, their step logs and their runs agree with one another, whatever clients,
\* containers and the schedule do (tasks.py, agent_runner.py, agent_scheduler.py).
THEOREM RunInvariant == Spec => []RunInv
  BY InitRunInv, RunInvStep, PTL DEF Spec

\* The step log of a completed task is that of its last run, if runs of the agent do not
\* overlap (replace_runs, agent_step_callback).
THEOREM LogIsOfLastRun == Spec => []LogOfLastRun
<1>1. RunInv => LogOfLastRun
  BY DEF RunInv, TokenOfLastRun, LogOfLastRun
<1> QED
  BY <1>1, RunInvariant, PTL

\* What is queued was not cancelled.
QueuedWanted == \A t \in Task : \A n \in DOMAIN runs[t] :
                  runs[t][n].pc = "queued" => tasks[t].status # "cancelled"

\* Cancelling comes after the start (cancel_task).
LEMMA QueuedWantedStep ==
  ASSUME Patient, RunInv, QueuedWanted, [Next]_vars PROVE QueuedWanted'
<1> SUFFICES ASSUME NEW t \in Task, NEW n \in DOMAIN runs'[t], runs'[t][n].pc = "queued",
                    tasks'[t].status = "cancelled"
             PROVE FALSE
  BY DEF QueuedWanted
<1>1. CASE Request
  <2>1. RowKept(t)
    BY <1>1, RequestAsked DEF RunInv, Asked
  <2> QED
    BY <2>1 DEF RowKept, QueuedWanted
<1>2. ASSUME NEW u \in Task, NEW k \in DOMAIN runs[u], RunStep(u, k) PROVE FALSE
  <2>1. Moved(u, k) /\ runs'[u][k].pc # "queued"
        /\ tasks'[u].status \in {tasks[u].status, "running", "completed", "failed"}
    BY <1>2, StartRunInv, RefusedOrBroken, FinishRunInv DEF RunStep, BeginRun
  <2>2. n \in DOMAIN runs[t] /\ runs[t][n].pc = "queued" /\ tasks[t].status = "cancelled"
    BY <2>1 DEF Moved
  <2> QED
    BY <2>2 DEF QueuedWanted
<1>3. ASSUME NEW u \in Task, NEW k \in DOMAIN runs[u], StepCallback(u, k) PROVE FALSE
  BY <1>3, StepCallbackInv DEF QueuedWanted
<1>4. CASE Restart
  BY <1>4, RestartInv
<1> QED
  BY <1>1, <1>2, <1>3, <1>4, StepKinds

\* A task that was cancelled is not started (cancel_task, _spawn_once_run, reload_jobs).
THEOREM CancelledStays == ASSUME Patient PROVE Spec => CancelledNotStarted
<1>1. Init => QueuedWanted
  BY DEF Init, QueuedWanted
<1>2. RunInv /\ QueuedWanted /\ [Next]_vars => QueuedWanted'
  BY QueuedWantedStep
<1>3. QueuedWanted =>
        [\A t \in Task, n \in Attempt : Starts(t, n) => tasks[t].status # "cancelled"]_vars
  BY DEF QueuedWanted, Starts
<1> QED
  BY <1>1, <1>2, <1>3, RunInvariant, PTL DEF Spec, CancelledNotStarted

\* A late result does not undo a cancel (cancel_task, _persist_result).
THEOREM CancelKept == ASSUME Patient PROVE Spec => ResultKeepsCancel
<1> DEFINE Kept == \A t \in Task :
                     tasks[t].status = "cancelled" =>
                       \/ tasks'[t].status \in {"cancelled", "pending", "deleted"}
                       \/ \E n \in DOMAIN runs[t] : /\ runs[t][n].pc = "executing"
                                                    /\ runs'[t][n].pc = "orphan"
<1>1. Init => QueuedWanted
  BY DEF Init, QueuedWanted
<1>2. RunInv /\ QueuedWanted /\ [Next]_vars => QueuedWanted'
  BY QueuedWantedStep
<1>3. ASSUME RunInv, QueuedWanted, [Next]_vars, NEW t \in Task, tasks[t].status = "cancelled"
      PROVE \/ tasks'[t].status \in {"cancelled", "pending", "deleted"}
            \/ \E n \in DOMAIN runs[t] : /\ runs[t][n].pc = "executing"
                                         /\ runs'[t][n].pc = "orphan"
  <2>1. CASE Request
    <3>1. RowKept(t)
      BY <1>3, <2>1, RequestAsked DEF RunInv, Asked
    <3> QED
      BY <1>3, <3>1 DEF RowKept
  <2>2. ASSUME NEW u \in Task, NEW n \in DOMAIN runs[u], StartRun(u, n) \/ RefuseRun(u, n)
        PROVE tasks'[t].status = "cancelled"
    <3>1. runs[u][n].pc = "queued" /\ Moved(u, n)
      BY <1>3, <2>2, StartRunInv, RefusedOrBroken DEF StartRun, RefuseRun
    <3>2. u # t
      BY <1>3, <3>1 DEF QueuedWanted
    <3> QED
      BY <1>3, <3>1, <3>2 DEF Moved
  <2>3. ASSUME NEW u \in Task, NEW n \in DOMAIN runs[u], FinishRun(u, n)
        PROVE tasks'[t].status = "cancelled"
    BY <1>3, <2>3, FinishRunInv DEF Moved
  <2>4. ASSUME NEW u \in Task, NEW n \in DOMAIN runs[u], BreakRun(u, n)
        PROVE \/ tasks'[t].status = "cancelled"
              \/ u = t /\ runs[u][n].pc = "executing" /\ runs'[u][n].pc = "orphan"
    BY <1>3, <2>4, RefusedOrBroken DEF Moved, BreakRun
  <2>5. ASSUME NEW u \in Task, NEW n \in DOMAIN runs[u], StepCallback(u, n)
        PROVE tasks'[t].status = "cancelled"
    BY <1>3, <2>5, StepCallbackInv
  <2>6. CASE Restart
    BY <1>3, <2>6, RestartInv
  <2> QED
    BY <1>3, <2>1, <2>2, <2>3, <2>4, <2>5, <2>6, StepKinds DEF RunStep, BeginRun
<1>4. RunInv /\ QueuedWanted /\ [Next]_vars => [Kept]_vars
  BY <1>3
<1> QED
  BY <1>1, <1>2, <1>4, RunInvariant, PTL DEF Spec, ResultKeepsCancel
-----------------------------------------------------------------------------
(* Costs and the budget *)

\* The payload of an attempt has a part of the limit, or none.
LeftTyped == left \in [Task -> [Attempt -> Nat \cup {Unlimited}]]

\* While runs follow each other, one executes at a time.
OneExecutes ==
  OneAtATime =>
    \A t, u \in Task : \A n \in DOMAIN runs[t], m \in DOMAIN runs[u] :
      runs[t][n].pc = "executing" /\ runs[u][m].pc = "executing" => t = u /\ n = m

\* What is counted today without task t.
Without(t) == SumFunctionOnSet([u \in Task |-> tasks[u].cost], Counted \ {t})

\* What was spent is within the limit or was below it before one of the runs; the run at
\* work has a part that is left.
Budgeted ==
  Limit # Unlimited /\ OneAtATime =>
    /\ SpentToday <= Limit \/ \E t \in Task : Without(t) < Limit
    /\ \A t \in Task : \A n \in DOMAIN runs[t] :
         runs[t][n].pc = "executing"
           => left[t][n] \in Nat \ {0} /\ SpentToday + left[t][n] <= Limit

SpendInv == LeftTyped /\ OneExecutes /\ Budgeted

\* What the rows cost.
Cost == [t \in Task |-> tasks[t].cost]

LEMMA TaskFinite == IsFiniteSet(Task)
BY AgentAssumption, FS_Interval DEF Task

LEMMA CountedFinite ==
  ASSUME RowTypes
  PROVE  /\ Counted \in SUBSET Task /\ IsFiniteSet(Counted) /\ \A t \in Counted : Cost[t] \in Nat
         /\ SpentToday = SumFunctionOnSet(Cost, Counted) /\ SpentToday \in Nat
<1>1. Counted \in SUBSET Task /\ IsFiniteSet(Counted)
  <2>1. Counted \in SUBSET Task
    BY DEF Counted
  <2> QED
    BY <2>1, TaskFinite, FS_Subset
<1>2. \A t \in Counted : Cost[t] \in Nat
  BY <1>1 DEF Cost, RowTypes, TaskRow
<1>3. SpentToday = SumFunctionOnSet(Cost, Counted)
  BY DEF SpentToday, Cost
<1>4. SumFunctionOnSet(Cost, Counted) \in Nat
  BY <1>1, <1>2, SumNat
<1> QED
  BY <1>1, <1>2, <1>3, <1>4

\* The same after a step.
LEMMA CountedNext ==
  ASSUME RowTypes'
  PROVE  /\ Counted' \in SUBSET Task /\ IsFiniteSet(Counted') /\ \A t \in Counted' : Cost'[t] \in Nat
         /\ SpentToday' = SumFunctionOnSet(Cost', Counted') /\ SpentToday' \in Nat
<1>1. Counted' \in SUBSET Task /\ IsFiniteSet(Counted')
  <2>1. Counted' \in SUBSET Task
    BY DEF Counted
  <2> QED
    BY <2>1, TaskFinite, FS_Subset
<1>2. \A t \in Counted' : Cost'[t] \in Nat
  BY <1>1 DEF Cost, RowTypes, TaskRow
<1>3. SpentToday' = SumFunctionOnSet(Cost', Counted')
  BY DEF SpentToday, Cost
<1>4. SumFunctionOnSet(Cost', Counted') \in Nat
  BY <1>1, <1>2, SumNat
<1> QED
  BY <1>1, <1>2, <1>3, <1>4

\* Task t costs what it did, or nothing, or does not count any more.
CostKept(t) ==
  t \in Counted' => tasks'[t].cost = 0 \/ (t \in Counted /\ tasks'[t].cost = tasks[t].cost)

\* What some of the rows cost.
LEMMA PartFinite ==
  ASSUME RowTypes, NEW W
  PROVE  IsFiniteSet(Counted \ W) /\ \A t \in Counted \ W : Cost[t] \in Nat
<1>1. Counted \ W \in SUBSET Counted
  OBVIOUS
<1> QED
  BY <1>1, CountedFinite, FS_Subset

LEMMA PartNext ==
  ASSUME RowTypes', NEW W
  PROVE  IsFiniteSet(Counted' \ W) /\ \A t \in Counted' \ W : Cost'[t] \in Nat
<1>1. Counted' \ W \in SUBSET Counted'
  OBVIOUS
<1> QED
  BY <1>1, CountedNext, FS_Subset

LEMMA PartFalls ==
  ASSUME RowTypes, RowTypes', \A t \in Task : CostKept(t), NEW W
  PROVE  SumFunctionOnSet(Cost', Counted' \ W) <= SumFunctionOnSet(Cost, Counted \ W)
<1>1. PICK f, S : f = Cost' /\ S = Counted' \ W
  OBVIOUS
<1>2. PICK g, T : g = Cost /\ T = Counted \ W
  OBVIOUS
<1>3. /\ IsFiniteSet(S) /\ \A t \in S : f[t] \in Nat
      /\ IsFiniteSet(T) /\ \A t \in T : g[t] \in Nat
  BY <1>1, <1>2, PartFinite, PartNext
<1>4. ASSUME NEW t \in S PROVE Part(f, S, t) <= Part(g, T, t)
  <2>1. t \in Task /\ t \in Counted' /\ t \notin W /\ Part(f, S, t) = tasks'[t].cost
    BY <1>1, <1>4 DEF Counted, Cost, Part
  <2>2. Part(g, T, t) \in Nat
    BY <1>3, SumSplit
  <2>3. CASE tasks'[t].cost = 0
    BY <2>1, <2>2, <2>3
  <2>4. CASE t \in Counted /\ tasks'[t].cost = tasks[t].cost
    <3>1. Part(g, T, t) = tasks'[t].cost
      BY <1>2, <2>1, <2>4 DEF Cost, Part
    <3> QED
      BY <2>1, <2>2, <3>1
  <2> QED
    BY <2>1, <2>3, <2>4 DEF CostKept
<1>5. SumFunctionOnSet(f, S) <= SumFunctionOnSet(g, T)
  BY <1>3, <1>4, SumMonotone
<1> QED
  BY <1>1, <1>2, <1>5

\* Without a task, and with all.
LEMMA WithoutTyped ==
  ASSUME RowTypes, NEW t \in Task
  PROVE  /\ Without(t) \in Nat /\ Without(t) = SumFunctionOnSet(Cost, Counted \ {t})
         /\ SpentToday = Part(Cost, Counted, t) + Without(t) /\ Part(Cost, Counted, t) \in Nat
<1>1. Without(t) = SumFunctionOnSet(Cost, Counted \ {t})
  BY DEF Without, Cost
<1>2. /\ SumFunctionOnSet(Cost, Counted \ {t}) \in Nat /\ Part(Cost, Counted, t) \in Nat
      /\ SumFunctionOnSet(Cost, Counted)
           = Part(Cost, Counted, t) + SumFunctionOnSet(Cost, Counted \ {t})
  BY CountedFinite, SumSplit
<1> QED
  BY <1>1, <1>2, CountedFinite

LEMMA WithoutNext ==
  ASSUME RowTypes', NEW t \in Task
  PROVE  /\ Without(t)' \in Nat /\ Without(t)' = SumFunctionOnSet(Cost', Counted' \ {t})
<1>1. Without(t)' = SumFunctionOnSet(Cost', Counted' \ {t})
  BY DEF Without, Cost
<1>2. PICK f, S : f = Cost' /\ S = Counted' \ {t}
  OBVIOUS
<1>3. SumFunctionOnSet(f, S) \in Nat
  BY <1>2, PartNext, SumNat
<1> QED
  BY <1>1, <1>2, <1>3

LEMMA SpentFalls ==
  ASSUME RowTypes, RowTypes', \A t \in Task : CostKept(t)
  PROVE  SpentToday' <= SpentToday /\ \A w \in Task : Without(w)' <= Without(w)
<1>1. SumFunctionOnSet(Cost', Counted' \ {}) <= SumFunctionOnSet(Cost, Counted \ {})
  BY PartFalls
<1>2. Counted' \ {} = Counted' /\ Counted \ {} = Counted
  OBVIOUS
<1>3. SpentToday' <= SpentToday
  BY <1>1, <1>2, CountedFinite, CountedNext
<1>4. ASSUME NEW w \in Task PROVE Without(w)' <= Without(w)
  BY PartFalls, WithoutTyped, WithoutNext
<1> QED
  BY <1>3, <1>4

\* The row of task t gets the cost c, and no other row changes.
LEMMA SpentGrows ==
  ASSUME RowTypes, RowTypes', NEW t \in Task, NEW c \in Nat,
         t \in Counted' => t \in Counted /\ tasks'[t].cost = c,
         \A u \in Task \ {t} : tasks'[u] = tasks[u]
  PROVE  SpentToday' <= SpentToday + c /\ Without(t)' <= SpentToday
<1>1. PICK f, S : f = Cost' /\ S = Counted'
  OBVIOUS
<1>2. S \ {t} = Counted \ {t} /\ \A u \in S \ {t} : f[u] = Cost[u]
  BY <1>1 DEF Counted, Cost, Exists
<1>3. IsFiniteSet(S \ {t})
  BY <1>1, CountedNext, FS_Subset
<1>4. SumFunctionOnSet(f, S \ {t}) = SumFunctionOnSet(Cost, S \ {t})
  BY <1>2, <1>3, SumSame
<1>5. SumFunctionOnSet(f, S \ {t}) = SumFunctionOnSet(Cost, Counted \ {t})
  BY <1>2, <1>4, Zenon
<1>6. Part(f, S, t) <= c
  BY <1>1 DEF Part, Counted, Cost
<1>7. PICK i \in Nat, j \in Nat, k \in Nat :
        /\ i = Part(f, S, t) /\ j = Part(Cost, Counted, t)
        /\ k = SumFunctionOnSet(Cost, Counted \ {t})
  <2>1. /\ Part(f, S, t) \in Nat /\ Part(Cost, Counted, t) \in Nat
        /\ SumFunctionOnSet(Cost, Counted \ {t}) \in Nat
    BY <1>1, CountedFinite, CountedNext, SumSplit
  <2> QED
    BY <2>1, Zenon
<1>8. SpentToday = j + k
  BY <1>7, CountedFinite, SumSplit
<1>9. SpentToday' = i + k
  <2>1. SpentToday' = SumFunctionOnSet(f, S)
    BY <1>1, CountedNext
  <2>2. SumFunctionOnSet(f, S) = Part(f, S, t) + SumFunctionOnSet(f, S \ {t})
    BY <1>1, CountedNext, SumSplit
  <2> QED
    BY <1>5, <1>7, <2>1, <2>2
<1>10. Without(t)' = k
  BY <1>1, <1>5, <1>7, WithoutNext
<1> QED
  BY <1>6, <1>7, <1>8, <1>9, <1>10

\* A run that was started beside another stays marked.
LEMMA TogetherStays == ASSUME RunInv, [Next]_vars, OneAtATime' PROVE OneAtATime
<1>1. CASE Request
  BY <1>1, RequestAsked DEF RunInv, Asked, Grown, OneAtATime
<1>2. ASSUME NEW t \in Task, NEW n \in DOMAIN runs[t], RunStep(t, n) PROVE OneAtATime
  <2>1. Moved(t, n) /\ (runs'[t][n].together = runs[t][n].together \/ runs[t][n].pc = "queued")
    BY <1>2, StartRunInv, RefusedOrBroken, FinishRunInv DEF RunStep, BeginRun, StartRun
  <2>2. ~runs[t][n].together
    <3>1. ~runs'[t][n].together
      BY <2>1 DEF Moved, OneAtATime
    <3> QED
      BY <2>1, <3>1 DEF RunInv, QueuedAlone
  <2>3. ASSUME NEW u \in Task, NEW m \in DOMAIN runs[u] PROVE ~runs[u][m].together
    <3>1. CASE u = t /\ m = n
      BY <2>2, <3>1
    <3>2. CASE ~ (u = t /\ m = n)
      <4>1. m \in DOMAIN runs'[u] /\ runs'[u][m] = runs[u][m]
        BY <2>1, <3>2 DEF Moved
      <4> QED
        BY <4>1 DEF OneAtATime
    <3> QED
      BY <3>1, <3>2
  <2> QED
    BY <2>3 DEF OneAtATime
<1>3. ASSUME NEW t \in Task, NEW n \in DOMAIN runs[t], StepCallback(t, n) PROVE OneAtATime
  BY <1>3, StepCallbackInv DEF OneAtATime
<1>4. CASE Restart
  BY <1>4, RestartInv
<1> QED
  BY <1>1, <1>2, <1>3, <1>4, StepKinds

-----------------------------------------------------------------------------
(* What each step does to the costs *)

LEMMA SameCosts == ASSUME tasks' = tasks, NEW t \in Task PROVE CostKept(t)
BY DEF CostKept, Counted, Exists

\* A row changes, and not its cost or its day (agent_store.update_task).
LEMMA RowCosts ==
  ASSUME RowTypes, NEW u \in Task, NEW row \in TaskRow, SetTask(u, row),
         row.cost = tasks[u].cost, row.today = tasks[u].today, NEW t \in Task
  PROVE  CostKept(t)
<1>1. /\ \A v \in Task : v # u => tasks'[v] = tasks[v]
      /\ tasks'[u] = IF Exists(u) THEN row ELSE tasks[u]
  BY RowSet
<1>2. CASE t = u
  BY <1>1, <1>2 DEF CostKept, Counted, Exists
<1>3. CASE t # u
  BY <1>1, <1>3 DEF CostKept, Counted, Exists
<1> QED
  BY <1>2, <1>3

\* A row is inserted: it has cost nothing.
LEMMA NewCosts ==
  ASSUME RowTypes, NEW u \in Task, NEW row, tasks' = [tasks EXCEPT ![u] = row],
         row.cost = 0, NEW t \in Task
  PROVE  CostKept(t)
BY DEF RowTypes, CostKept, Counted, Exists

LEMMA RequestCosts == ASSUME RowTypes, Request, NEW u \in Task PROVE CostKept(u)
<1>0. tasks \in [Task -> TaskRow]
  BY DEF RowTypes
<1>1. ASSUME NEW t \in Task, NEW trigger \in Triggers \ {"webhook"}, NEW due \in BOOLEAN,
             NEW now \in BOOLEAN, CreateTask(t, trigger, due, now)
      PROVE  CostKept(u)
  <2>1. PICK row : row = [NewTask(trigger) EXCEPT !.due = due]
    OBVIOUS
  <2>2. row.cost = 0
    BY <2>1, NewRow, AgentAssumption
  <2>3. tasks' = [tasks EXCEPT ![t] = row]
    BY <1>1, <2>1 DEF CreateTask
  <2> QED
    BY <2>2, <2>3, NewCosts
<1>2. ASSUME NEW t \in Task, RunTask(t) PROVE CostKept(u)
  <2>1. [tasks[t] EXCEPT !.status = "pending", !.cancel = FALSE] \in TaskRow
    BY <1>0, ZenonT(40) DEF TaskRow
  <2>2. /\ [tasks[t] EXCEPT !.status = "pending", !.cancel = FALSE].cost = tasks[t].cost
        /\ [tasks[t] EXCEPT !.status = "pending", !.cancel = FALSE].today = tasks[t].today
    BY <1>0 DEF TaskRow
  <2> QED
    BY <1>2, <2>1, <2>2, RowCosts DEF RunTask
<1>3. ASSUME NEW t \in Task, CancelTask(t) PROVE CostKept(u)
  <2>1. [tasks[t] EXCEPT !.status = "cancelled", !.cancel = TRUE] \in TaskRow
    BY <1>0 DEF TaskRow
  <2>2. /\ [tasks[t] EXCEPT !.status = "cancelled", !.cancel = TRUE].cost = tasks[t].cost
        /\ [tasks[t] EXCEPT !.status = "cancelled", !.cancel = TRUE].today = tasks[t].today
    BY <1>0 DEF TaskRow
  <2> QED
    BY <1>3, <2>1, <2>2, RowCosts DEF CancelTask
<1>4. ASSUME NEW T, Deleted(T) PROVE CostKept(u)
  <2>1. CASE u \in T
    BY <1>4, <2>1 DEF Deleted, CostKept, Counted, Exists, NoTask
  <2>2. CASE u \notin T
    <3>1. tasks'[u] = tasks[u]
      BY <1>4, <2>2 DEF Deleted
    <3> QED
      BY <3>1 DEF CostKept, Counted, Exists
  <2> QED
    BY <2>1, <2>2
<1>5. ASSUME NEW t \in Task, WebhookRuns(t) PROVE CostKept(u)
  <2>1. PICK row : row = NewTask("webhook")
    OBVIOUS
  <2>2. row.cost = 0
    BY <2>1, NewRow, AgentAssumption
  <2>3. tasks' = [tasks EXCEPT ![t] = row]
    BY <1>5, <2>1 DEF WebhookRuns
  <2> QED
    BY <2>2, <2>3, NewCosts
<1>6. ASSUME NEW t \in Task, FireRecurring(t) PROVE CostKept(u)
  <2>1. PICK row : row = [NewTask("cron") EXCEPT !.clone = TRUE]
    OBVIOUS
  <2>2. row.cost = 0
    BY <2>1, NewRow, AgentAssumption
  <2>3. tasks' = tasks \/ \E s \in Task : tasks' = [tasks EXCEPT ![s] = row]
    BY <1>6, <2>1 DEF FireRecurring
  <2> QED
    BY <2>2, <2>3, NewCosts, SameCosts
<1>7. ASSUME NEW t \in Task, FireOnce(t) PROVE CostKept(u)
  <2>1. [tasks[t] EXCEPT !.due = TRUE] \in TaskRow
    BY <1>0 DEF TaskRow
  <2>2. /\ [tasks[t] EXCEPT !.due = TRUE].cost = tasks[t].cost
        /\ [tasks[t] EXCEPT !.due = TRUE].today = tasks[t].today
    BY <1>0 DEF TaskRow
  <2> QED
    BY <1>7, <2>1, <2>2, RowCosts DEF FireOnce
<1>8. CASE tasks' = tasks
  BY <1>8, SameCosts
<1>9. CASE NextDay
  BY <1>0, <1>9 DEF NextDay, CostKept, Counted, TaskRow
<1> QED
  BY <1>1, <1>2, <1>3, <1>4, <1>5, <1>6, <1>7, <1>8, <1>9
     DEF Request, DeleteTask, ClearFinished, WebhookArrives, ArchiveAgent, SetAgentStatus, vars

\* The row of a run that starts.
LEMMA StartedRow ==
  ASSUME NEW r \in TaskRow, NEW n \in Attempt
  PROVE  LET row == [r EXCEPT !.status = "running", !.token = n]
         IN row \in TaskRow /\ row.cost = r.cost /\ row.today = r.today
BY DEF TaskRow

\* Starts, refusals, broken connections and callbacks: the cost on the row stays.
LEMMA RunCosts ==
  ASSUME RowTypes, NEW t \in Task, NEW n \in DOMAIN runs[t],
         StartRun(t, n) \/ RefuseRun(t, n) \/ BreakRun(t, n) \/ StepCallback(t, n), NEW u \in Task
  PROVE  CostKept(u)
<1>0. tasks \in [Task -> TaskRow] /\ runs[t] \in Seq(Run) /\ Len(runs[t]) <= MaxAttempt
  BY DEF RowTypes
<1>1. n \in Attempt
  BY <1>0, AgentAssumption DEF Attempt
<1>2. CASE StartRun(t, n)
  <2>1. tasks[t] \in TaskRow
    BY <1>0
  <2>2. PICK row \in TaskRow : /\ row = [tasks[t] EXCEPT !.status = "running", !.token = n]
                               /\ row.cost = tasks[t].cost /\ row.today = tasks[t].today
    BY <1>1, <2>1, StartedRow
  <2>3. SetTask(t, row)
    BY <1>2, <2>2 DEF StartRun
  <2> QED
    BY <2>2, <2>3, RowCosts
<1>3. CASE RefuseRun(t, n) \/ BreakRun(t, n)
  <2>1. [tasks[t] EXCEPT !.status = "failed"] \in TaskRow
    BY <1>0 DEF TaskRow
  <2>2. /\ [tasks[t] EXCEPT !.status = "failed"].cost = tasks[t].cost
        /\ [tasks[t] EXCEPT !.status = "failed"].today = tasks[t].today
    BY <1>0 DEF TaskRow
  <2> QED
    BY <1>3, <2>1, <2>2, RowCosts DEF RefuseRun, BreakRun
<1>4. CASE StepCallback(t, n)
  <2>1. /\ [tasks[t] EXCEPT !.status = "running"].cost = tasks[t].cost
        /\ [tasks[t] EXCEPT !.status = "running"].today = tasks[t].today
    BY <1>0 DEF TaskRow
  <2>2. Exists(t) /\ (tasks' = tasks \/ tasks' = [tasks EXCEPT ![t].status = "running"])
    BY <1>4 DEF StepCallback, Authorized
  <2> QED
    BY <1>0, <2>1, <2>2, SameCosts DEF CostKept, Counted, Exists
<1> QED
  BY <1>2, <1>3, <1>4

LEMMA RestartCosts == ASSUME RowTypes, Restart, NEW u \in Task PROVE CostKept(u)
<1>0. tasks[u] \in TaskRow
  BY DEF RowTypes
<1>a. PICK late : tasks' = [t \in Task |-> Recovered([tasks[t] EXCEPT !.due = tasks[t].due \/ t \in late])]
  BY DEF Restart
<1>1. PICK due : tasks'[u] = Recovered([tasks[u] EXCEPT !.due = due])
  BY <1>a
<1>2. /\ tasks'[u].cost = tasks[u].cost /\ tasks'[u].today = tasks[u].today
      /\ Exists(u)' => Exists(u)
  BY <1>0, <1>1 DEF Recovered, Exists, TaskRow
<1> QED
  BY <1>2 DEF CostKept, Counted

-----------------------------------------------------------------------------
(* What was spent and what may be spent *)

LEMMA LeftSet ==
  ASSUME LeftTyped, NEW t \in Task, NEW n \in Attempt, NEW v \in Nat \cup {Unlimited},
         left' = [left EXCEPT ![t][n] = v]
  PROVE  /\ LeftTyped' /\ left'[t][n] = v
         /\ \A u \in Task, m \in Attempt : u # t \/ m # n => left'[u][m] = left[u][m]
<1>1. left[t] \in [Attempt -> Nat \cup {Unlimited}]
  BY DEF LeftTyped
<1>2. PICK part : part = [left[t] EXCEPT ![n] = v]
  OBVIOUS
<1>3. /\ part \in [Attempt -> Nat \cup {Unlimited}] /\ part[n] = v
      /\ \A m \in Attempt : m # n => part[m] = left[t][m]
  BY <1>1, <1>2
<1>4. left' = [left EXCEPT ![t] = part]
  BY <1>2
<1> QED
  BY <1>3, <1>4 DEF LeftTyped

\* Nothing starts, and nothing gets dearer.
LEMMA NothingStarts ==
  ASSUME RunInv, RunInv', SpendInv, LeftTyped', [Next]_vars,
         \A t \in Task : CostKept(t),
         \A t \in Task : \A n \in DOMAIN runs'[t] :
           runs'[t][n].pc = "executing" => /\ n \in DOMAIN runs[t] /\ runs[t][n].pc = "executing"
                                           /\ left'[t][n] = left[t][n]
  PROVE  SpendInv'
<1>1. OneExecutes'
  BY TogetherStays DEF SpendInv, OneExecutes
<1>2. /\ SpentToday' <= SpentToday /\ SpentToday \in Nat /\ SpentToday' \in Nat
      /\ \A w \in Task : /\ Without(w)' <= Without(w)
                          /\ Without(w) \in Nat /\ Without(w)' \in Nat
  BY SpentFalls, CountedFinite, CountedNext, WithoutTyped, WithoutNext DEF RunInv
<1>3. ASSUME Limit # Unlimited, OneAtATime'
      PROVE  SpentToday' <= Limit \/ \E w \in Task : Without(w)' < Limit
  <2>1. Limit \in Nat /\ (SpentToday <= Limit \/ \E w \in Task : Without(w) < Limit)
    BY <1>3, TogetherStays, AgentAssumption DEF SpendInv, Budgeted
  <2>2. CASE SpentToday <= Limit
    BY <1>2, <2>1, <2>2
  <2>3. ASSUME NEW w \in Task, Without(w) < Limit PROVE Without(w)' < Limit
    <3>1. Without(w)' <= Without(w) /\ Without(w) \in Nat /\ Without(w)' \in Nat
      BY <1>2
    <3>2. PICK i \in Nat, j \in Nat : i = Without(w)' /\ j = Without(w)
      BY <3>1, Zenon
    <3>3. i < Limit
      BY <2>1, <2>3, <3>1, <3>2
    <3> QED
      BY <3>2, <3>3
  <2> QED
    BY <2>1, <2>2, <2>3
<1>4. ASSUME Limit # Unlimited, OneAtATime', NEW t \in Task, NEW n \in DOMAIN runs'[t],
             runs'[t][n].pc = "executing"
      PROVE  left'[t][n] \in Nat \ {0} /\ SpentToday' + left'[t][n] <= Limit
  <2>1. PICK l \in Nat \ {0} : l = left'[t][n] /\ SpentToday + l <= Limit /\ Limit \in Nat
    BY <1>4, TogetherStays, AgentAssumption DEF SpendInv, Budgeted
  <2> QED
    BY <1>2, <2>1
<1>5. Budgeted'
  BY <1>3, <1>4 DEF Budgeted
<1> QED
  BY <1>1, <1>5 DEF SpendInv

LEMMA AttemptNumber ==
  ASSUME RowTypes, NEW t \in Task, NEW n \in DOMAIN runs[t] PROVE n \in Attempt
<1>1. runs[t] \in Seq(Run) /\ Len(runs[t]) <= MaxAttempt
  BY DEF RowTypes
<1> QED
  BY <1>1, AgentAssumption DEF Attempt

LEMMA RequestSpends == ASSUME RunInv, RunInv', SpendInv, Request PROVE SpendInv'
<1>1. left' = left /\ [Next]_vars
  BY StepKinds DEF Request, CreateTask, RunTask, CancelTask, DeleteTask, ClearFinished, WebhookArrives,
         WebhookRuns, SetAgentStatus, ArchiveAgent, FireRecurring, FireOnce, NextDay, vars
<1>2. Grown /\ \A t \in Task : CostKept(t)
  BY RequestAsked, RequestCosts DEF RunInv, Asked
<1> QED
  BY <1>1, <1>2, NothingStarts DEF Grown, SpendInv, LeftTyped

\* A run gets what is left of the limit (_budget_remaining).
LEMMA StartSpends ==
  ASSUME RunInv, RunInv', SpendInv, NEW t \in Task, NEW n \in DOMAIN runs[t], StartRun(t, n)
  PROVE  SpendInv'
<1>0. n \in Attempt /\ Limit \in Nat \cup {Unlimited} /\ [Next]_vars
  BY AttemptNumber, AgentAssumption, StepKinds DEF RunInv, RunStep, BeginRun
<1>1. SpentToday \in Nat /\ ~OverLimit
  BY CountedFinite DEF RunInv, StartRun
<1>2. PICK v \in Nat \cup {Unlimited} :
        v = Remaining /\ (Limit # Unlimited => v \in Nat \ {0} /\ SpentToday + v = Limit)
  <2>1. CASE Limit = Unlimited
    BY <2>1 DEF Remaining
  <2>2. CASE Limit # Unlimited
    <3>1. Limit \in Nat /\ Limit - SpentToday \in Nat \ {0}
      BY <1>0, <1>1, <2>2 DEF OverLimit
    <3> QED
      BY <1>1, <2>2, <3>1 DEF Remaining
  <2> QED
    BY <2>1, <2>2
<1>3. LeftTyped' /\ left'[t][n] = v
  <2>1. left' = [left EXCEPT ![t][n] = v]
    BY <1>2 DEF StartRun, Executing
  <2>2. LeftTyped
    BY DEF SpendInv
  <2> QED
    <3>1. n \in Attempt /\ v \in Nat \cup {Unlimited}
      BY <1>0
    <3>2. LeftTyped'
      BY <3>1, <2>1, <2>2, LeftSet
    <3>3. left'[t][n] = v
      BY <3>1, <2>1, <2>2 DEF LeftTyped
    <3> QED
      BY <3>2, <3>3
<1>4. Moved(t, n) /\ runs'[t][n].together = Accompanied
  BY StartRunInv
<1>5. ASSUME OneAtATime', NEW u \in Task, NEW m \in DOMAIN runs'[u], runs'[u][m].pc = "executing"
      PROVE  u = t /\ m = n
  <2>1. ~Accompanied
    BY <1>4, <1>5 DEF OneAtATime, Moved
  <2> QED
    BY <1>4, <1>5, <2>1 DEF Moved, Accompanied
<1>6. OneExecutes'
  BY <1>5 DEF OneExecutes
<1>7. SpentToday' <= SpentToday /\ SpentToday' \in Nat
  BY RunCosts, SpentFalls, CountedNext DEF RunInv
<1>8. ASSUME Limit # Unlimited
      PROVE  SpentToday' <= Limit /\ v \in Nat \ {0} /\ SpentToday' + v <= Limit
  <2>1. PICK i \in Nat, j \in Nat, k \in Nat, l \in Nat :
          i = SpentToday /\ j = SpentToday' /\ k = v /\ l = Limit
    BY <1>0, <1>1, <1>2, <1>7, <1>8, Zenon
  <2>2. j <= i /\ i + k = l
    BY <1>2, <1>7, <1>8, <2>1
  <2>3. j <= l /\ j + k <= l
    BY <2>2
  <2> QED
    BY <1>2, <1>8, <2>1, <2>3
<1>9. Budgeted'
  BY <1>3, <1>5, <1>8 DEF Budgeted
<1> QED
  BY <1>3, <1>6, <1>9 DEF SpendInv

\* A run that is refused or broken (trigger_run).
LEMMA EndSpends ==
  ASSUME RunInv, RunInv', SpendInv, NEW t \in Task, NEW n \in DOMAIN runs[t],
         RefuseRun(t, n) \/ BreakRun(t, n)
  PROVE  SpendInv'
<1>0. n \in Attempt /\ [Next]_vars
  BY AttemptNumber, StepKinds DEF RunInv, RunStep, BeginRun
<1>1. /\ LeftTyped'
      /\ \A u \in Task, m \in Attempt : u # t \/ m # n => left'[u][m] = left[u][m]
  BY <1>0, LeftSet DEF SpendInv, RefuseRun, BreakRun, EndRun
<1>2. Moved(t, n) /\ runs'[t][n].pc \in {"refused", "orphan"}
  BY RefusedOrBroken
<1>3. \A u \in Task : CostKept(u)
  BY RunCosts DEF RunInv
<1>4. ASSUME NEW u \in Task, NEW m \in DOMAIN runs'[u], runs'[u][m].pc = "executing"
      PROVE  /\ m \in DOMAIN runs[u] /\ runs[u][m].pc = "executing" /\ left'[u][m] = left[u][m]
  <2>1. (u # t \/ m # n) /\ m \in DOMAIN runs[u]
    BY <1>2, <1>4 DEF Moved
  <2>2. runs'[u][m] = runs[u][m] /\ m \in Attempt
    BY <1>2, <2>1, AttemptNumber DEF Moved, RunInv
  <2> QED
    BY <1>1, <1>4, <2>1, <2>2
<1> QED
  BY <1>0, <1>1, <1>3, <1>4, NothingStarts

\* A run may cost anything, but it started below the limit, and nothing else executes
\* (_persist_result).
LEMMA FinishSpends ==
  ASSUME RunInv, RunInv', SpendInv, NEW t \in Task, NEW n \in DOMAIN runs[t], FinishRun(t, n)
  PROVE  SpendInv'
<1>0. n \in Attempt /\ [Next]_vars /\ RowTypes /\ RowTypes'
  BY AttemptNumber, StepKinds DEF RunInv, RunStep, BeginRun
<1>1. PICK c \in Nat, s \in {"completed", "failed"} :
        /\ SetTask(t, [tasks[t] EXCEPT !.status = IF Stopped(t) THEN @ ELSE s, !.cost = c])
        /\ left' = [left EXCEPT ![t][n] = 0] /\ runs[t][n].pc = "executing"
  BY AgentAssumption DEF FinishRun, EndRun
<1>2. LeftTyped'
  BY <1>0, <1>1, LeftSet DEF SpendInv
<1>3. Moved(t, n) /\ runs'[t][n].pc = "ended"
  BY FinishRunInv
<1>4. Without(t)' <= SpentToday /\ SpentToday \in Nat /\ Without(t)' \in Nat
  <2>1. /\ \A u \in Task \ {t} : tasks'[u] = tasks[u]
        /\ t \in Counted' => t \in Counted /\ tasks'[t].cost = c
    BY <1>0, <1>1, <1>3 DEF SetTask, RowTypes, TaskRow, Moved, Counted, Exists
  <2> QED
    BY <1>0, <2>1, SpentGrows, CountedFinite, WithoutNext
<1>5. ASSUME OneAtATime', NEW u \in Task, NEW m \in DOMAIN runs'[u], runs'[u][m].pc = "executing"
      PROVE  FALSE
  <2>1. (u # t \/ m # n) /\ m \in DOMAIN runs[u]
    BY <1>3, <1>5 DEF Moved
  <2>2. runs'[u][m] = runs[u][m]
    BY <1>3, <2>1 DEF Moved
  <2> QED
    BY <1>0, <1>1, <1>5, <2>1, <2>2, TogetherStays DEF SpendInv, OneExecutes
<1>6. OneExecutes'
  BY <1>5 DEF OneExecutes
<1>7. ASSUME Limit # Unlimited, OneAtATime' PROVE Without(t)' < Limit
  <2>1. /\ left[t][n] \in Nat \ {0} /\ SpentToday + left[t][n] <= Limit /\ Limit \in Nat
    BY <1>0, <1>1, <1>7, TogetherStays, AgentAssumption DEF SpendInv, Budgeted
  <2>2. PICK i \in Nat, j \in Nat : i = Without(t)' /\ j = SpentToday
    BY <1>4, Zenon
  <2>3. i < Limit
    BY <1>4, <2>1, <2>2
  <2> QED
    BY <2>2, <2>3
<1>8. Budgeted'
  BY <1>5, <1>7 DEF Budgeted
<1> QED
  BY <1>2, <1>6, <1>8 DEF SpendInv

LEMMA SpendStep == ASSUME RunInv, SpendInv, [Next]_vars PROVE SpendInv'
<1>0. RunInv'
  BY RunInvStep
<1>1. CASE Request
  BY <1>0, <1>1, RequestSpends
<1>2. ASSUME NEW t \in Task, NEW n \in DOMAIN runs[t], RunStep(t, n) PROVE SpendInv'
  BY <1>0, <1>2, StartSpends, EndSpends, FinishSpends DEF RunStep, BeginRun
<1>3. ASSUME NEW t \in Task, NEW n \in DOMAIN runs[t], StepCallback(t, n) PROVE SpendInv'
  <2>1. runs' = runs /\ left' = left
    BY <1>3 DEF StepCallback
  <2>2. \A u \in Task : CostKept(u)
    BY <1>3, RunCosts DEF RunInv
  <2> QED
    BY <1>0, <2>1, <2>2, NothingStarts DEF SpendInv, LeftTyped
<1>4. CASE Restart
  <2>1. left' = [t \in Task |-> [n \in Attempt |-> 0]]
    BY <1>4 DEF Restart
  <2>2. LeftTyped'
    BY <2>1 DEF LeftTyped
  <2>3. \A t \in Task : CostKept(t)
    BY <1>4, RestartCosts DEF RunInv
  <2> QED
    BY <1>0, <1>4, <2>2, <2>3, RestartInv, NothingStarts
<1> QED
  BY <1>1, <1>2, <1>3, <1>4, StepKinds

LEMMA InitSpend == ASSUME Init PROVE SpendInv
<1>0. RowTypes
  BY InitRunInv DEF RunInv
<1>1. LeftTyped
  BY DEF Init, LeftTyped
<1>2. \A t \in Task : DOMAIN runs[t] = {} /\ ~Exists(t)
  BY DEF Init, Exists, NoTask
<1>3. SpentToday = 0
  <2>1. Counted = {}
    BY <1>2 DEF Counted
  <2> QED
    BY <1>0, <2>1, CountedFinite, FS_EmptySet, SumRecursion
<1> QED
  BY <1>1, <1>2, <1>3, AgentAssumption DEF SpendInv, OneExecutes, Budgeted

LEMMA SpendInvariant == Spec => []SpendInv
<1>1. RunInv /\ SpendInv /\ [Next]_vars => SpendInv'
  BY SpendStep
<1> QED
  BY <1>1, InitSpend, RunInvariant, PTL DEF Spec

\* All rows, attempts and budgets have their types, whatever clients, containers and
\* restarts do.
THEOREM AgentTypes == Spec => []TypeOK
<1>1. RunInv /\ SpendInv => TypeOK
  BY DEF RunInv, SpendInv, LeftTyped, TypeOK
<1> QED
  BY <1>1, RunInvariant, SpendInvariant, PTL

\* "max spend/day" is exceeded by one run at most while the runs of an agent follow one
\* another, whatever each of them costs: it starts below the limit, and until it ends
\* nothing else is spent (check_budget).
THEOREM SpendKept == Spec => []OverspendByOneRun
<1>1. ASSUME RunInv, SpendInv PROVE OverspendByOneRun
  <2> SUFFICES ASSUME Limit # Unlimited, OneAtATime, NEW t \in Task, Without(t) < Limit
      PROVE  SpentToday <= Limit \/ \E u \in Counted : SpentToday - tasks[u].cost < Limit
    BY <1>1 DEF SpendInv, Budgeted, OverspendByOneRun
  <2>1. /\ SpentToday = Part(Cost, Counted, t) + Without(t)
        /\ Part(Cost, Counted, t) \in Nat /\ Without(t) \in Nat /\ Limit \in Nat
    BY <1>1, WithoutTyped, AgentAssumption DEF RunInv
  <2>2. CASE t \in Counted
    <3>1. Part(Cost, Counted, t) = tasks[t].cost
      BY <2>2 DEF Part, Cost
    <3>2. SpentToday - tasks[t].cost < Limit
      BY <2>1, <3>1
    <3> QED
      BY <2>2, <3>2
  <2>3. CASE t \notin Counted
    <3>1. Part(Cost, Counted, t) = 0
      BY <2>3 DEF Part
    <3> QED
      BY <2>1, <3>1
  <2> QED
    BY <2>2, <2>3
<1> QED
  BY <1>1, RunInvariant, SpendInvariant, PTL

\* A run that ends is one whose container answered: its cost is the row's now.
LEMMA EndsByResult ==
  ASSUME RunInv, [Next]_vars, NEW t \in Task, NEW n \in Attempt, Ends(t, n)
  PROVE  FinishRun(t, n)
<1>0. /\ n \in DOMAIN runs[t] /\ n \in DOMAIN runs'[t]
      /\ runs[t][n].pc = "executing" /\ runs'[t][n].pc = "ended"
  BY DEF Ends
<1>1. ASSUME Request PROVE FALSE
  BY <1>0, <1>1, RequestAsked DEF RunInv, Asked, Grown
<1>2. ASSUME NEW u \in Task, NEW m \in DOMAIN runs[u], StartRun(u, m) \/ RefuseRun(u, m) \/ BreakRun(u, m)
      PROVE  FALSE
  <2>1. Moved(u, m) /\ runs'[u][m].pc \in {"executing", "refused", "orphan"}
    BY <1>2, StartRunInv, RefusedOrBroken
  <2>2. u = t /\ m = n
    BY <1>0, <2>1 DEF Moved
  <2> QED
    BY <1>0, <2>1, <2>2
<1>3. ASSUME NEW u \in Task, NEW m \in DOMAIN runs[u], FinishRun(u, m) PROVE u = t /\ m = n
  BY <1>0, <1>3, FinishRunInv DEF Moved
<1>4. ASSUME NEW u \in Task, NEW m \in DOMAIN runs[u], StepCallback(u, m) PROVE FALSE
  BY <1>0, <1>4, StepCallbackInv
<1>5. ASSUME Restart PROVE FALSE
  <2>1. runs[t] \in Seq(Run)
    BY DEF RunInv, RowTypes
  <2> QED
    BY <1>0, <1>5, <2>1, RestartCuts
<1> QED
  BY <1>1, <1>2, <1>3, <1>4, <1>5, StepKinds DEF RunStep, BeginRun

\* A run that stops within the budget it was given leaves the day within the limit: what it
\* was given was left at its start, and nothing was spent since (_budget_remaining).
THEOREM ToldKept == Spec => StoppedWithinLimit
<1>1. ASSUME RunInv, RunInv', SpendInv, [Next]_vars, NEW t \in Task, NEW n \in Attempt, Ends(t, n),
             tasks'[t].cost <= left[t][n], Limit # Unlimited, OneAtATime
      PROVE  SpentToday' <= Limit
  <2>0. /\ n \in DOMAIN runs[t] /\ runs[t][n].pc = "executing" /\ FinishRun(t, n)
        /\ RowTypes /\ RowTypes'
    BY <1>1, EndsByResult DEF Ends, RunInv
  <2>1. PICK l \in Nat : l = left[t][n] /\ SpentToday + l <= Limit /\ Limit \in Nat
    BY <1>1, <2>0, AgentAssumption DEF SpendInv, Budgeted
  <2>2. PICK c \in Nat : c = tasks'[t].cost
    BY <2>0 DEF RowTypes, TaskRow
  <2>3. /\ \A u \in Task \ {t} : tasks'[u] = tasks[u]
        /\ t \in Counted' => t \in Counted
    <3>1. Moved(t, n)
      BY <1>1, <2>0, FinishRunInv
    <3> QED
      BY <2>0, <3>1 DEF Moved, FinishRun, SetTask, Counted, Exists, RowTypes, TaskRow
  <2>4. SpentToday' <= SpentToday + c /\ SpentToday \in Nat /\ SpentToday' \in Nat
    BY <2>0, <2>2, <2>3, SpentGrows, CountedFinite, CountedNext
  <2> QED
    BY <1>1, <2>1, <2>2, <2>4
<1>2. RunInv /\ RunInv' /\ SpendInv /\ [Next]_vars =>
        [\A t \in Task, n \in Attempt :
           Ends(t, n) /\ tasks'[t].cost <= left[t][n] /\ Limit # Unlimited /\ OneAtATime
             => SpentToday' <= Limit]_vars
  BY <1>1
<1> QED
  BY <1>2, RunInvariant, SpendInvariant, PTL DEF Spec, StoppedWithinLimit
-----------------------------------------------------------------------------
(* How often a one-time task is run *)

\* The attempts of a sequence that were not refused, that started, and that the user
\* asked for.
AliveOf(s) == {n \in DOMAIN s : s[n].pc # "refused"}
StartedOf(s) == {n \in DOMAIN s : s[n].pc \in {"executing", "orphan", "ended"}}
AskedOf(s) == {n \in DOMAIN s : s[n].by = "user"}

NAlive(s) == Cardinality(AliveOf(s))
NStarted(s) == Cardinality(StartedOf(s))
NAsked(s) == Cardinality(AskedOf(s))

\* A job is that of a task.
JobsMade == \A t \in jobs : tasks[t].status # "none"

\* The attempts of a one-time task are those the user asked for and one more; that one
\* is still to come while the job is there, and did not start while the task is pending.
OnceCounted(t) ==
  tasks[t].trigger = "once" =>
    /\ NAlive(runs[t]) <= 1 + NAsked(runs[t])
    /\ t \in jobs => NAlive(runs[t]) <= NAsked(runs[t])
    /\ tasks[t].status = "pending" => NStarted(runs[t]) <= NAsked(runs[t])

OnceInv == JobsMade /\ \A t \in Task : OnceCounted(t)

LEMMA CountsTyped ==
  ASSUME NEW s \in Seq(Run)
  PROVE  /\ IsFiniteSet(AliveOf(s)) /\ IsFiniteSet(StartedOf(s)) /\ IsFiniteSet(AskedOf(s))
         /\ NAlive(s) \in Nat /\ NStarted(s) \in Nat /\ NAsked(s) \in Nat
         /\ NStarted(s) <= NAlive(s)
<1>1. DOMAIN s = 1 .. Len(s) /\ Len(s) \in Nat
  OBVIOUS
<1>2. IsFiniteSet(DOMAIN s)
  BY <1>1, FS_Interval
<1>3. /\ AliveOf(s) \in SUBSET DOMAIN s /\ AskedOf(s) \in SUBSET DOMAIN s
      /\ StartedOf(s) \in SUBSET AliveOf(s)
  BY DEF AliveOf, StartedOf, AskedOf
<1>4. IsFiniteSet(AliveOf(s)) /\ IsFiniteSet(AskedOf(s))
  BY <1>2, <1>3, FS_Subset
<1>5. IsFiniteSet(StartedOf(s)) /\ NStarted(s) <= NAlive(s)
  BY <1>3, <1>4, FS_Subset DEF NStarted, NAlive
<1> QED
  BY <1>4, <1>5, FS_CardinalityType DEF NAlive, NStarted, NAsked

LEMMA NoneCounted == NAlive(<<>>) = 0 /\ NStarted(<<>>) = 0 /\ NAsked(<<>>) = 0
<1>1. AliveOf(<<>>) = {} /\ StartedOf(<<>>) = {} /\ AskedOf(<<>>) = {}
  BY DEF AliveOf, StartedOf, AskedOf
<1> QED
  BY <1>1, FS_EmptySet DEF NAlive, NStarted, NAsked

\* One attempt more.
LEMMA SpawnCounts ==
  ASSUME NEW s \in Seq(Run), NEW who \in {"user", "schedule"}, NEW a, a = Spawn(s, who)
  PROVE  /\ a \in Seq(Run)
         /\ NAlive(a) = NAlive(s) + 1
         /\ NStarted(a) = NStarted(s)
         /\ NAsked(a) = IF who = "user" THEN NAsked(s) + 1 ELSE NAsked(s)
<1>1. PICK k \in Nat : k = Len(s) + 1 /\ k \notin DOMAIN s
  OBVIOUS
<1>2. /\ a \in Seq(Run) /\ DOMAIN a = DOMAIN s \cup {k} /\ \A n \in DOMAIN s : a[n] = s[n]
  BY <1>1, Spawned
<1>3. a[k].pc = "queued" /\ a[k].by = who
  BY <1>1 DEF Spawn
<1>4. /\ AliveOf(a) = AliveOf(s) \cup {k} /\ StartedOf(a) = StartedOf(s)
      /\ who = "user" => AskedOf(a) = AskedOf(s) \cup {k}
      /\ who # "user" => AskedOf(a) = AskedOf(s)
  BY <1>1, <1>2, <1>3 DEF AliveOf, StartedOf, AskedOf
<1>5. k \notin AliveOf(s) /\ k \notin AskedOf(s)
  BY <1>1 DEF AliveOf, AskedOf
<1>6. IsFiniteSet(AliveOf(s)) /\ IsFiniteSet(AskedOf(s))
  BY CountsTyped
<1>7. NAlive(a) = NAlive(s) + 1
  BY <1>4, <1>5, <1>6, FS_AddElement DEF NAlive
<1>8. who = "user" => NAsked(a) = NAsked(s) + 1
  BY <1>4, <1>5, <1>6, FS_AddElement DEF NAsked
<1> QED
  BY <1>2, <1>4, <1>7, <1>8 DEF NStarted, NAsked

\* Attempts that move on: nothing refused comes back.
LEMMA MoveCounts ==
  ASSUME NEW s \in Seq(Run), NEW a \in Seq(Run), DOMAIN a = DOMAIN s,
         \A n \in DOMAIN s : a[n].by = s[n].by /\ (s[n].pc = "refused" => a[n].pc = "refused")
  PROVE  /\ NAlive(a) <= NAlive(s) /\ NAsked(a) = NAsked(s)
         /\ (\A n \in DOMAIN s : s[n].pc = "queued" => a[n].pc \in {"queued", "refused"})
              => NStarted(a) <= NStarted(s)
<1>1. AliveOf(a) \in SUBSET AliveOf(s) /\ AskedOf(a) = AskedOf(s)
  BY DEF AliveOf, AskedOf
<1>2. NAlive(a) <= NAlive(s) /\ NAsked(a) = NAsked(s)
  BY <1>1, CountsTyped, FS_Subset DEF NAlive, NAsked
<1>3. ASSUME \A n \in DOMAIN s : s[n].pc = "queued" => a[n].pc \in {"queued", "refused"}
      PROVE  NStarted(a) <= NStarted(s)
  <2>1. \A n \in DOMAIN s : s[n].pc \in {"queued", "refused", "executing", "orphan", "ended"}
    <3>1. \A n \in DOMAIN s : s[n] \in Run
      OBVIOUS
    <3> QED
      BY <3>1 DEF Run
  <2>2. StartedOf(a) \in SUBSET StartedOf(s)
    BY <1>3, <2>1 DEF StartedOf
  <2> QED
    BY <2>2, CountsTyped, FS_Subset DEF NStarted
<1> QED
  BY <1>2, <1>3

\* What a restart leaves: what had started.
LEMMA CutCounts ==
  ASSUME NEW s \in Seq(Run), NEW c, c = [n \in DOMAIN s |-> Cut(s[n])]
  PROVE  /\ c \in Seq(Run)
         /\ NAlive(c) = NStarted(s) /\ NStarted(c) = NStarted(s) /\ NAsked(c) = NAsked(s)
<1>1. ASSUME NEW a \in Run
      PROVE  /\ Cut(a).by = a.by
             /\ Cut(a).pc # "refused" <=> a.pc \in {"executing", "orphan", "ended"}
             /\ Cut(a).pc \in {"executing", "orphan", "ended"}
                  <=> a.pc \in {"executing", "orphan", "ended"}
  BY DEF Run, Cut
<1>2. c \in Seq(Run) /\ DOMAIN c = DOMAIN s
  BY CutAll
<1>3. \A n \in DOMAIN s : s[n] \in Run /\ c[n] = Cut(s[n])
  OBVIOUS
<1>4. AliveOf(c) = StartedOf(s) /\ StartedOf(c) = StartedOf(s) /\ AskedOf(c) = AskedOf(s)
  BY <1>1, <1>2, <1>3 DEF AliveOf, StartedOf, AskedOf
<1> QED
  BY <1>2, <1>4 DEF NAlive, NStarted, NAsked

\* A task whose attempts stay the same, and that is not made to wait again.
LEMMA OnceSame ==
  ASSUME NEW t \in Task, OnceCounted(t), runs'[t] = runs[t], t \in jobs' => t \in jobs,
         tasks'[t].trigger = "once" => tasks[t].trigger = "once",
         tasks'[t].status = "pending" => tasks[t].status = "pending"
  PROVE  OnceCounted(t)'
  BY DEF OnceCounted

\* Jobs that are left, of tasks that are left.
LEMMA JobsLeft ==
  ASSUME JobsMade, Asked, jobs \subseteq Task, jobs' \subseteq jobs PROVE JobsMade'
<1>1. \A t \in Task : tasks'[t].status = "none" => tasks[t].status = "none"
  BY DEF Asked, RowKept
<1> QED
  BY <1>1 DEF JobsMade

\* A run the user asks for, now or with the task (run_task).
LEMMA RunTaskOnce ==
  ASSUME RowTypes, OnceInv, NEW t \in Task, RunTask(t) PROVE \A u \in Task : OnceCounted(u)'
<1> DEFINE row == [tasks[t] EXCEPT !.status = "pending", !.cancel = FALSE]
<1>0. /\ Exists(t) /\ SetTask(t, row) /\ jobs' = jobs /\ runs[t] \in Seq(Run)
      /\ runs \in [Task -> Seq(Run)] /\ runs' = [runs EXCEPT ![t] = Spawn(runs[t], "user")]
      /\ tasks[t] \in TaskRow
  BY DEF RowTypes, RunTask
<1>1. row \in TaskRow /\ row.trigger = tasks[t].trigger
  BY <1>0 DEF TaskRow
<1> HIDE DEF row
<1>2. tasks'[t] = row /\ \A u \in Task : u # t => tasks'[u] = tasks[u]
  BY <1>0, <1>1, RowSet
<1>3. PICK s : s = Spawn(runs[t], "user")
  OBVIOUS
<1>4. runs'[t] = s /\ \A u \in Task : u # t => runs'[u] = runs[u]
  BY <1>0, <1>3
<1>5. /\ NAlive(s) = NAlive(runs[t]) + 1 /\ NStarted(s) = NStarted(runs[t])
      /\ NAsked(s) = NAsked(runs[t]) + 1
      /\ NAlive(runs[t]) \in Nat /\ NStarted(runs[t]) \in Nat /\ NAsked(runs[t]) \in Nat
      /\ NStarted(runs[t]) <= NAlive(runs[t])
  BY <1>0, <1>3, SpawnCounts, CountsTyped
<1>6. OnceCounted(t)'
  <2> SUFFICES ASSUME tasks'[t].trigger = "once"
      PROVE  /\ NAlive(s) <= 1 + NAsked(s)
             /\ t \in jobs => NAlive(s) <= NAsked(s)
             /\ NStarted(s) <= NAsked(s)
    BY <1>0, <1>4 DEF OnceCounted
  <2>1. /\ NAlive(runs[t]) <= 1 + NAsked(runs[t])
        /\ t \in jobs => NAlive(runs[t]) <= NAsked(runs[t])
    BY <1>1, <1>2 DEF OnceInv, OnceCounted
  <2> QED
    BY <1>5, <2>1
<1>7. \A u \in Task : u # t => OnceCounted(u)'
  BY <1>0, <1>2, <1>4, OnceSame DEF OnceInv
<1> QED
  BY <1>6, <1>7

\* The date comes: the job goes, and its run is added (_spawn_once_run).
LEMMA FireOnceOnce ==
  ASSUME RowTypes, OnceInv, NEW t \in Task, FireOnce(t) PROVE \A u \in Task : OnceCounted(u)'
<1> DEFINE row == [tasks[t] EXCEPT !.due = TRUE]
<1>0. /\ t \in jobs /\ jobs' = jobs \ {t} /\ SetTask(t, row) /\ runs[t] \in Seq(Run)
      /\ runs \in [Task -> Seq(Run)] /\ tasks[t] \in TaskRow /\ tasks[t].trigger = "once"
      /\ runs' = runs \/ runs' = [runs EXCEPT ![t] = Spawn(runs[t], "schedule")]
  BY DEF RowTypes, FireOnce
<1>1. row \in TaskRow /\ row.trigger = tasks[t].trigger /\ row.status = tasks[t].status
  BY <1>0 DEF TaskRow
<1> HIDE DEF row
<1>2. \A u \in Task : tasks'[u].trigger = tasks[u].trigger /\ tasks'[u].status = tasks[u].status
  BY <1>0, <1>1, RowSet
<1>3. CASE runs' = runs
  BY <1>0, <1>2, <1>3, OnceSame DEF OnceInv
<1>4. CASE runs' = [runs EXCEPT ![t] = Spawn(runs[t], "schedule")]
  <2>1. PICK s : s = Spawn(runs[t], "schedule")
    OBVIOUS
  <2>2. runs'[t] = s /\ \A u \in Task : u # t => runs'[u] = runs[u]
    BY <1>0, <1>4, <2>1
  <2>3. /\ NAlive(s) = NAlive(runs[t]) + 1 /\ NStarted(s) = NStarted(runs[t])
        /\ NAsked(s) = NAsked(runs[t])
        /\ NAlive(runs[t]) \in Nat /\ NAsked(runs[t]) \in Nat
    BY <1>0, <2>1, SpawnCounts, CountsTyped
  <2>4. /\ NAlive(runs[t]) <= NAsked(runs[t])
        /\ tasks[t].status = "pending" => NStarted(runs[t]) <= NAsked(runs[t])
    BY <1>0 DEF OnceInv, OnceCounted
  <2>5. NAlive(s) <= 1 + NAsked(s)
    BY <2>3, <2>4
  <2>6. OnceCounted(t)'
    BY <1>0, <1>2, <2>2, <2>3, <2>4, <2>5 DEF OnceCounted
  <2>7. \A u \in Task : u # t => OnceCounted(u)'
    BY <1>0, <1>2, <2>2, OnceSame DEF OnceInv
  <2> QED
    BY <2>6, <2>7
<1> QED
  BY <1>0, <1>3, <1>4
\* A task is made: a job waits for its date, or its run is added at once; the user may ask
\* for a run too (create_task, _fire_once_now).
LEMMA CreateOnce ==
  ASSUME RowTypes, NoRunsYet, OnceInv, NEW t \in Task, NEW trigger \in Triggers \ {"webhook"},
         NEW due \in BOOLEAN, NEW now \in BOOLEAN, CreateTask(t, trigger, due, now), Asked
  PROVE  JobsMade' /\ \A u \in Task : OnceCounted(u)'
<1> DEFINE fired == trigger = "once" /\ due /\ agent = "active"
           attempts == IF fired THEN Spawn(<<>>, "schedule") ELSE <<>>
           row == [NewTask(trigger) EXCEPT !.due = due]
<1>0. /\ tasks \in [Task -> TaskRow] /\ runs \in [Task -> Seq(Run)] /\ jobs \subseteq Task
      /\ tasks[t].status = "none"
      /\ trigger \in {"manual", "webhook", "once", "cron"}
  BY AgentAssumption DEF RowTypes, CreateTask, Fresh
<1>1. t \notin jobs
  BY <1>0 DEF OnceInv, JobsMade
<1>2. /\ tasks' = [tasks EXCEPT ![t] = row]
      /\ jobs' = IF trigger \in {"once", "cron"} /\ ~due THEN jobs \cup {t} ELSE jobs
      /\ runs' = [runs EXCEPT ![t] = IF now THEN Spawn(attempts, "user") ELSE attempts]
  BY DEF CreateTask
<1>3. row \in TaskRow /\ row.status = "pending"
  BY <1>0, NewRow
<1>4. PICK e \in Seq(Run) : e = <<>> /\ NAlive(e) = 0 /\ NStarted(e) = 0 /\ NAsked(e) = 0
  <2>1. <<>> \in Seq(Run)
    OBVIOUS
  <2> QED
    BY <2>1, NoneCounted
<1>5. PICK f \in Seq(Run) :
        /\ f = attempts /\ NStarted(f) = 0 /\ NAsked(f) = 0
        /\ NAlive(f) = IF fired THEN 1 ELSE 0
  <2>1. CASE fired
    <3>1. PICK a : a = Spawn(e, "schedule")
      OBVIOUS
    <3>2. a \in Seq(Run) /\ NAlive(a) = 0 + 1 /\ NStarted(a) = 0 /\ NAsked(a) = 0
      BY <1>4, <3>1, SpawnCounts
    <3>3. a = attempts
      BY <1>4, <2>1, <3>1
    <3> HIDE DEF attempts
    <3> QED
      BY <2>1, <3>2, <3>3
  <2>2. CASE ~fired
    BY <1>4, <2>2
  <2> QED
    BY <2>1, <2>2
<1>6. PICK s : s = IF now THEN Spawn(f, "user") ELSE f
  OBVIOUS
<1>7. /\ NStarted(s) = 0 /\ NAsked(s) = IF now THEN 1 ELSE 0
      /\ NAlive(s) = (IF fired THEN 1 ELSE 0) + (IF now THEN 1 ELSE 0)
  <2>1. CASE now
    <3>1. s = Spawn(f, "user")
      BY <1>6, <2>1
    <3>2. /\ NAlive(s) = NAlive(f) + 1 /\ NStarted(s) = NStarted(f) /\ NAsked(s) = NAsked(f) + 1
      BY <3>1, SpawnCounts
    <3> HIDE DEF fired
    <3> QED
      BY <1>5, <2>1, <3>2
  <2>2. CASE ~now
    <3> HIDE DEF fired
    <3> QED
      BY <1>5, <1>6, <2>2
  <2> QED
    BY <2>1, <2>2
<1>8. runs' = [runs EXCEPT ![t] = s]
  BY <1>2, <1>5, <1>6
<1>9. runs'[t] = s /\ \A u \in Task : u # t => runs'[u] = runs[u]
  BY <1>0, <1>8
<1> HIDE DEF attempts, row
<1>10. tasks'[t].status = "pending" /\ \A u \in Task : u # t => tasks'[u] = tasks[u]
  BY <1>0, <1>2, <1>3
<1>11. fired => t \notin jobs'
  BY <1>1, <1>2
<1>12. jobs' \subseteq jobs \cup {t}
  BY <1>2
<1> HIDE DEF fired
<1>13. JobsMade'
  BY <1>0, <1>10, <1>12 DEF OnceInv, JobsMade
<1>14. OnceCounted(t)'
  BY <1>7, <1>9, <1>11 DEF OnceCounted
<1>15. \A u \in Task : u # t => OnceCounted(u)'
  BY <1>9, <1>10, <1>12, OnceSame DEF OnceInv
<1> QED
  BY <1>13, <1>14, <1>15
\* A task that is not a one-time task is inserted and run.
LEMMA InsertOnce ==
  ASSUME RowTypes, OnceInv, NEW t \in Task, NEW row \in TaskRow, row.trigger # "once",
         tasks' = [tasks EXCEPT ![t] = row], NEW s, runs' = [runs EXCEPT ![t] = s],
         jobs' = jobs
  PROVE  \A u \in Task : OnceCounted(u)'
<1>0. tasks \in [Task -> TaskRow] /\ runs \in [Task -> Seq(Run)]
  BY DEF RowTypes
<1>1. tasks'[t].trigger # "once"
  BY <1>0
<1>2. \A u \in Task : u # t => tasks'[u] = tasks[u] /\ runs'[u] = runs[u]
  BY <1>0
<1>3. OnceCounted(t)'
  BY <1>1 DEF OnceCounted
<1>4. \A u \in Task : u # t => OnceCounted(u)'
  BY <1>2, OnceSame DEF OnceInv
<1> QED
  BY <1>3, <1>4

\* Tasks that are deleted (delete_task, clear_finished_tasks).
LEMMA DeleteOnce ==
  ASSUME RowTypes, OnceInv, NEW T \in SUBSET Task, Deleted(T), runs' = runs, jobs' \subseteq jobs
  PROVE  \A u \in Task : OnceCounted(u)'
<1>1. ASSUME NEW u \in T PROVE tasks'[u].status = "deleted"
  BY DEF Deleted, NoTask
<1>2. ASSUME NEW u \in T PROVE OnceCounted(u)'
  <2>1. tasks'[u].trigger = tasks[u].trigger
    BY DEF Deleted, NoTask
  <2> QED
    BY <1>1, <2>1, OnceSame DEF OnceInv
<1>3. ASSUME NEW u \in Task \ T PROVE OnceCounted(u)'
  <2>1. tasks'[u] = tasks[u]
    BY DEF Deleted
  <2> QED
    BY <2>1, OnceSame DEF OnceInv
<1> QED
  BY <1>2, <1>3

LEMMA RequestOnce == ASSUME RunInv, OnceInv, Request PROVE OnceInv'
<1>0. RowTypes /\ NoRunsYet /\ Asked /\ jobs \subseteq Task /\ tasks \in [Task -> TaskRow]
  BY RequestAsked DEF RunInv, RowTypes
<1>1. ASSUME NEW t \in Task, NEW trigger \in Triggers \ {"webhook"}, NEW due \in BOOLEAN,
             NEW now \in BOOLEAN, CreateTask(t, trigger, due, now)
      PROVE  OnceInv'
  BY <1>0, <1>1, CreateOnce DEF OnceInv
<1>2. ASSUME jobs' \subseteq jobs, \A u \in Task : OnceCounted(u)' PROVE OnceInv'
  BY <1>0, <1>2, JobsLeft DEF OnceInv
<1>3. ASSUME NEW t \in Task, RunTask(t) PROVE OnceInv'
  <2>1. jobs' \subseteq jobs
    BY <1>3 DEF RunTask
  <2> QED
    BY <1>0, <1>2, <1>3, <2>1, RunTaskOnce
<1>4. ASSUME NEW t \in Task, CancelTask(t) PROVE OnceInv'
  <2> DEFINE row == [tasks[t] EXCEPT !.status = "cancelled", !.cancel = TRUE]
  <2>1. row \in TaskRow /\ row.trigger = tasks[t].trigger /\ row.status = "cancelled"
    BY <1>0 DEF TaskRow
  <2>2. SetTask(t, row) /\ runs' = runs /\ jobs' = jobs
    BY <1>4 DEF CancelTask
  <2> HIDE DEF row
  <2>3. \A u \in Task : /\ tasks'[u].trigger = tasks[u].trigger
                        /\ tasks'[u].status \in {"cancelled", tasks[u].status}
    BY <1>0, <2>1, <2>2, RowSet
  <2>4. \A u \in Task : OnceCounted(u)'
    BY <2>2, <2>3, OnceSame DEF OnceInv
  <2> QED
    BY <1>2, <2>2, <2>4
<1>5. ASSUME NEW t \in Task, DeleteTask(t) PROVE OnceInv'
  <2>1. Deleted({t}) /\ runs' = runs /\ jobs' \subseteq jobs /\ {t} \in SUBSET Task
    BY <1>5 DEF DeleteTask
  <2>2. \A u \in Task : OnceCounted(u)'
    BY <1>0, <2>1, DeleteOnce
  <2> QED
    BY <1>2, <2>1, <2>2
<1>6. CASE ClearFinished
  <2>1. Deleted(Finished) /\ runs' = runs /\ jobs' \subseteq jobs /\ Finished \in SUBSET Task
    BY <1>6 DEF ClearFinished, Finished
  <2>2. \A u \in Task : OnceCounted(u)'
    BY <1>0, <2>1, DeleteOnce
  <2> QED
    BY <1>2, <2>1, <2>2
<1>7. ASSUME NEW t \in Task, WebhookRuns(t) PROVE OnceInv'
  <2> DEFINE row == NewTask("webhook")
  <2>1. row \in TaskRow /\ row.trigger # "once"
    BY NewRow
  <2>2. /\ tasks' = [tasks EXCEPT ![t] = row] /\ jobs' = jobs
        /\ runs' = [runs EXCEPT ![t] = Spawn(runs[t], "user")]
    BY <1>7 DEF WebhookRuns
  <2> HIDE DEF row
  <2>3. \A u \in Task : OnceCounted(u)'
    BY <1>0, <2>1, <2>2, InsertOnce
  <2> QED
    BY <1>2, <2>2, <2>3
<1>8. CASE WebhookArrives \/ ArchiveAgent \/ (\E s \in Statuses : SetAgentStatus(s)) \/ UNCHANGED vars
  <2>1. tasks' = tasks /\ runs' = runs /\ jobs' \subseteq jobs
    BY <1>8 DEF WebhookArrives, ArchiveAgent, SetAgentStatus, vars
  <2>2. \A u \in Task : OnceCounted(u)'
    BY <2>1, OnceSame DEF OnceInv
  <2> QED
    BY <1>2, <2>1, <2>2
<1>9. ASSUME NEW t \in Task, FireRecurring(t) PROVE OnceInv'
  <2>1. CASE agent = "active"
    <3>1. PICK s \in Task :
            /\ tasks' = [tasks EXCEPT ![s] = [NewTask("cron") EXCEPT !.clone = TRUE]]
            /\ runs' = [runs EXCEPT ![s] = Spawn(@, "schedule")] /\ jobs' = jobs
      BY <1>9, <2>1 DEF FireRecurring
    <3> DEFINE row == [NewTask("cron") EXCEPT !.clone = TRUE]
    <3>2. row \in TaskRow /\ row.trigger # "once"
      BY NewRow
    <3>3. /\ tasks' = [tasks EXCEPT ![s] = row]
          /\ runs' = [runs EXCEPT ![s] = Spawn(runs[s], "schedule")]
      BY <3>1
    <3> HIDE DEF row
    <3>4. \A u \in Task : OnceCounted(u)'
      BY <1>0, <3>1, <3>2, <3>3, InsertOnce
    <3> QED
      BY <1>2, <3>1, <3>4
  <2>2. CASE agent # "active"
    <3>1. tasks' = tasks /\ runs' = runs /\ jobs' \subseteq jobs
      BY <1>9, <2>2 DEF FireRecurring
    <3>2. \A u \in Task : OnceCounted(u)'
      BY <3>1, OnceSame DEF OnceInv
    <3> QED
      BY <1>2, <3>1, <3>2
  <2> QED
    BY <2>1, <2>2
<1>10. ASSUME NEW t \in Task, FireOnce(t) PROVE OnceInv'
  <2>1. jobs' \subseteq jobs
    BY <1>10 DEF FireOnce
  <2> QED
    BY <1>0, <1>2, <1>10, <2>1, FireOnceOnce
<1>11. CASE NextDay
  <2>1. runs' = runs /\ jobs' = jobs
    BY <1>11 DEF NextDay
  <2>2. \A u \in Task : /\ tasks'[u].trigger = tasks[u].trigger
                        /\ tasks'[u].status = tasks[u].status
    BY <1>0, <1>11 DEF NextDay, TaskRow
  <2>3. \A u \in Task : OnceCounted(u)'
    BY <2>1, <2>2, OnceSame DEF OnceInv
  <2> QED
    BY <1>2, <2>1, <2>3
<1> QED
  BY <1>1, <1>3, <1>4, <1>5, <1>6, <1>7, <1>8, <1>9, <1>10, <1>11 DEF Request
\* An attempt moves on: it was counted before, and a task is not pending once its run has
\* started (trigger_run, _persist_result).
LEMMA MoveOnce ==
  ASSUME RowTypes, OnceInv, NEW t \in Task, NEW n \in DOMAIN runs[t],
         NEW a \in Run, a.by = runs[t][n].by, runs[t][n].pc # "refused",
         runs' = [runs EXCEPT ![t] = [runs[t] EXCEPT ![n] = a]],
         NEW row \in TaskRow, row.trigger = tasks[t].trigger, SetTask(t, row), jobs' = jobs,
         row.status = "none" => tasks[t].status = "none",
         row.status = "pending" => /\ tasks[t].status = "pending"
                                   /\ runs[t][n].pc = "queued" => a.pc = "refused"
  PROVE  OnceInv'
<1>0. /\ runs \in [Task -> Seq(Run)] /\ runs[t] \in Seq(Run) /\ tasks \in [Task -> TaskRow]
      /\ jobs \subseteq Task
  BY DEF RowTypes
<1>1. PICK s : s = [runs[t] EXCEPT ![n] = a]
  OBVIOUS
<1>2. /\ s \in Seq(Run) /\ DOMAIN s = DOMAIN runs[t] /\ s[n] = a
      /\ \A k \in DOMAIN runs[t] : k # n => s[k] = runs[t][k]
  BY <1>0, <1>1, Replaced
<1>3. runs'[t] = s /\ \A u \in Task : u # t => runs'[u] = runs[u]
  BY <1>0, <1>1
<1>4. /\ \A u \in Task : u # t => tasks'[u] = tasks[u]
      /\ tasks'[t] = IF Exists(t) THEN row ELSE tasks[t]
  BY RowSet
<1>5. /\ NAlive(s) <= NAlive(runs[t]) /\ NAsked(s) = NAsked(runs[t])
      /\ NAlive(s) \in Nat /\ NAlive(runs[t]) \in Nat /\ NAsked(runs[t]) \in Nat
      /\ NStarted(s) \in Nat /\ NStarted(runs[t]) \in Nat
  <2>1. \A k \in DOMAIN runs[t] : /\ s[k].by = runs[t][k].by
                                  /\ runs[t][k].pc = "refused" => s[k].pc = "refused"
    BY <1>2
  <2> QED
    BY <1>0, <1>2, <2>1, MoveCounts, CountsTyped
<1>6. ASSUME tasks'[t].status = "pending"
      PROVE  tasks[t].status = "pending" /\ NStarted(s) <= NStarted(runs[t])
  <2>1. /\ tasks[t].status = "pending"
        /\ runs[t][n].pc = "queued" => a.pc = "refused"
    BY <1>4, <1>6 DEF Exists
  <2>2. \A k \in DOMAIN runs[t] : /\ s[k].by = runs[t][k].by
                                  /\ runs[t][k].pc = "refused" => s[k].pc = "refused"
                                  /\ runs[t][k].pc = "queued" => s[k].pc \in {"queued", "refused"}
    BY <1>2, <2>1
  <2> QED
    BY <1>0, <1>2, <2>1, <2>2, MoveCounts
<1>7. OnceCounted(t)'
  <2> SUFFICES ASSUME tasks'[t].trigger = "once"
      PROVE  /\ NAlive(s) <= 1 + NAsked(s)
             /\ t \in jobs => NAlive(s) <= NAsked(s)
             /\ tasks'[t].status = "pending" => NStarted(s) <= NAsked(s)
    BY <1>3 DEF OnceCounted
  <2>1. /\ NAlive(runs[t]) <= 1 + NAsked(runs[t])
        /\ t \in jobs => NAlive(runs[t]) <= NAsked(runs[t])
        /\ tasks[t].status = "pending" => NStarted(runs[t]) <= NAsked(runs[t])
    BY <1>4 DEF OnceInv, OnceCounted
  <2> QED
    BY <1>5, <1>6, <2>1
<1>8. \A u \in Task : u # t => OnceCounted(u)'
  BY <1>3, <1>4, OnceSame DEF OnceInv
<1>9. JobsMade'
  BY <1>0, <1>4 DEF OnceInv, JobsMade
<1> QED
  BY <1>7, <1>8, <1>9 DEF OnceInv

LEMMA RunStepOnce ==
  ASSUME RunInv, OnceInv, NEW t \in Task, NEW n \in DOMAIN runs[t], RunStep(t, n) PROVE OnceInv'
<1>0. /\ RowTypes /\ tasks[t] \in TaskRow /\ runs[t][n] \in Run /\ n \in Attempt
      /\ runs \in [Task -> Seq(Run)]
  <2>1. RowTypes /\ runs[t] \in Seq(Run)
    BY DEF RunInv, RowTypes
  <2> QED
    BY <2>1, AttemptNumber DEF RowTypes
<1>1. CASE StartRun(t, n)
  <2>1. PICK beside \in BOOLEAN : beside = Accompanied
    BY DEF Accompanied
  <2> DEFINE a == [runs[t][n] EXCEPT !.pc = "executing", !.together = beside]
             row == [tasks[t] EXCEPT !.status = "running", !.token = n]
  <2>2. a \in Run /\ a.by = runs[t][n].by /\ runs[t][n].pc = "queued"
    BY <1>0, <1>1 DEF Run, StartRun
  <2>3. row \in TaskRow /\ row.trigger = tasks[t].trigger /\ row.status = "running"
    BY <1>0 DEF TaskRow
  <2>4. /\ runs' = [runs EXCEPT ![t] = [runs[t] EXCEPT ![n] = a]] /\ SetTask(t, row)
        /\ jobs' = jobs
    BY <1>0, <1>1, <2>1 DEF StartRun, Executing
  <2> HIDE DEF a, row
  <2> QED
    BY <1>0, <2>2, <2>3, <2>4, MoveOnce
<1>2. CASE RefuseRun(t, n)
  <2> DEFINE a == [runs[t][n] EXCEPT !.pc = "refused"]
             row == [tasks[t] EXCEPT !.status = "failed"]
  <2>2. a \in Run /\ a.by = runs[t][n].by /\ runs[t][n].pc = "queued"
    BY <1>0, <1>2 DEF Run, RefuseRun
  <2>3. row \in TaskRow /\ row.trigger = tasks[t].trigger /\ row.status = "failed"
    BY <1>0 DEF TaskRow
  <2>4. /\ runs' = [runs EXCEPT ![t] = [runs[t] EXCEPT ![n] = a]] /\ SetTask(t, row)
        /\ jobs' = jobs
    BY <1>0, <1>2 DEF RefuseRun, EndRun
  <2> HIDE DEF a, row
  <2> QED
    BY <1>0, <2>2, <2>3, <2>4, MoveOnce
<1>3. CASE BreakRun(t, n)
  <2> DEFINE a == [runs[t][n] EXCEPT !.pc = "orphan"]
             row == [tasks[t] EXCEPT !.status = "failed"]
  <2>2. a \in Run /\ a.by = runs[t][n].by /\ runs[t][n].pc = "executing"
    BY <1>0, <1>3 DEF Run, BreakRun
  <2>3. row \in TaskRow /\ row.trigger = tasks[t].trigger /\ row.status = "failed"
    BY <1>0 DEF TaskRow
  <2>4. /\ runs' = [runs EXCEPT ![t] = [runs[t] EXCEPT ![n] = a]] /\ SetTask(t, row)
        /\ jobs' = jobs
    BY <1>0, <1>3 DEF BreakRun, EndRun
  <2> HIDE DEF a, row
  <2> QED
    BY <1>0, <2>2, <2>3, <2>4, MoveOnce
<1>4. CASE FinishRun(t, n)
  <2>1. PICK c \in Nat, st \in {tasks[t].status, "completed", "failed"} :
          /\ SetTask(t, [tasks[t] EXCEPT !.status = st, !.cost = c])
          /\ EndRun(t, n, "ended") /\ jobs' = jobs
    <3>1. PICK c \in Nat, s \in {"completed", "failed"} :
            /\ SetTask(t, [tasks[t] EXCEPT !.status = IF Stopped(t) THEN @ ELSE s, !.cost = c])
            /\ EndRun(t, n, "ended") /\ jobs' = jobs
      BY <1>4, AgentAssumption DEF FinishRun
    <3>2. [tasks[t] EXCEPT !.status = IF Stopped(t) THEN @ ELSE s, !.cost = c]
            = [tasks[t] EXCEPT !.status = IF Stopped(t) THEN tasks[t].status ELSE s, !.cost = c]
      BY <1>0 DEF TaskRow
    <3> QED
      BY <3>1, <3>2
  <2> DEFINE a == [runs[t][n] EXCEPT !.pc = "ended"]
             row == [tasks[t] EXCEPT !.status = st, !.cost = c]
  <2>2. a \in Run /\ a.by = runs[t][n].by /\ runs[t][n].pc = "executing"
    BY <1>0, <1>4 DEF Run, FinishRun
  <2>3. /\ row \in TaskRow /\ row.trigger = tasks[t].trigger
        /\ row.status \in {tasks[t].status, "completed", "failed"}
    BY <1>0 DEF TaskRow
  <2>4. /\ runs' = [runs EXCEPT ![t] = [runs[t] EXCEPT ![n] = a]] /\ SetTask(t, row)
        /\ jobs' = jobs
    BY <1>0, <2>1 DEF EndRun
  <2> HIDE DEF a, row
  <2> QED
    BY <1>0, <2>2, <2>3, <2>4, MoveOnce
<1> QED
  BY <1>1, <1>2, <1>3, <1>4 DEF RunStep, BeginRun

LEMMA CallbackOnce ==
  ASSUME RunInv, OnceInv, NEW t \in Task, NEW n \in DOMAIN runs[t], StepCallback(t, n)
  PROVE  OnceInv'
<1> DEFINE row == [tasks[t] EXCEPT !.status = "running"]
<1>0. RowTypes /\ tasks \in [Task -> TaskRow] /\ jobs \subseteq Task
  BY DEF RunInv, RowTypes
<1>1. row.trigger = tasks[t].trigger /\ row.status = "running"
  BY <1>0 DEF TaskRow
<1>2. /\ tasks' = IF tasks[t].status = "pending" THEN [tasks EXCEPT ![t] = row] ELSE tasks
      /\ runs' = runs /\ jobs' = jobs
  BY DEF StepCallback
<1> HIDE DEF row
<1>3. \A u \in Task : /\ tasks'[u].trigger = tasks[u].trigger
                      /\ tasks'[u].status \in {"running", tasks[u].status}
  BY <1>0, <1>1, <1>2
<1>4. \A u \in Task : OnceCounted(u)'
  BY <1>2, <1>3, OnceSame DEF OnceInv
<1> QED
  BY <1>0, <1>2, <1>3, <1>4 DEF OnceInv, JobsMade

\* What had not started is gone; a task that is still pending waits for its date or is
\* fired (reload_jobs).
LEMMA RestartOnce == ASSUME RunInv, OnceInv, Restart PROVE OnceInv'
<1>0. /\ tasks \in [Task -> TaskRow] /\ runs \in [Task -> Seq(Run)]
  BY DEF RunInv, RowTypes
<1>1. PICK late \in SUBSET Task :
        /\ jobs' = {t \in Task : /\ Exists(t) /\ agent = "active"
                                 /\ \/ tasks[t].trigger = "cron"
                                    \/ Waiting(t) /\ ~(tasks[t].due \/ t \in late)}
        /\ tasks' = [t \in Task |-> Recovered([tasks[t] EXCEPT !.due = tasks[t].due \/ t \in late])]
        /\ runs' = [t \in Task |-> LET cut == [n \in DOMAIN runs[t] |-> Cut(runs[t][n])] IN
                                   IF Waiting(t) /\ (tasks[t].due \/ t \in late)
                                   THEN Spawn(cut, "schedule") ELSE cut]
  BY DEF Restart
<1>2. ASSUME NEW t \in Task
      PROVE  /\ tasks'[t].trigger = tasks[t].trigger
             /\ tasks'[t].status \in {tasks[t].status, "failed"}
  <2>1. PICK due \in BOOLEAN : due = (tasks[t].due \/ t \in late)
    OBVIOUS
  <2>2. PICK row : row = [tasks[t] EXCEPT !.due = due]
    OBVIOUS
  <2>3. row \in TaskRow /\ row.trigger = tasks[t].trigger /\ row.status = tasks[t].status
    BY <1>0, <2>2 DEF TaskRow
  <2>4. tasks'[t] = Recovered(row)
    BY <1>1, <2>1, <2>2
  <2>5. [row EXCEPT !.status = "failed"].status = "failed"
        /\ [row EXCEPT !.status = "failed"].trigger = row.trigger
    BY <2>3 DEF TaskRow
  <2> QED
    BY <2>3, <2>4, <2>5 DEF Recovered
<1>3. ASSUME NEW t \in Task PROVE OnceCounted(t)'
  <2>1. PICK c : c = [n \in DOMAIN runs[t] |-> Cut(runs[t][n])]
    OBVIOUS
  <2>2. PICK s : s = Spawn(c, "schedule")
    OBVIOUS
  <2>3. /\ c \in Seq(Run) /\ NAlive(c) = NStarted(runs[t]) /\ NStarted(c) = NStarted(runs[t])
        /\ NAsked(c) = NAsked(runs[t])
    BY <1>0, <2>1, CutCounts
  <2>4. NAlive(s) = NAlive(c) + 1 /\ NStarted(s) = NStarted(c) /\ NAsked(s) = NAsked(c)
    BY <2>2, <2>3, SpawnCounts
  <2>5. /\ NAlive(runs[t]) \in Nat /\ NStarted(runs[t]) \in Nat /\ NAsked(runs[t]) \in Nat
        /\ NStarted(runs[t]) <= NAlive(runs[t])
    BY <1>0, CountsTyped
  <2>6. runs'[t] = IF Waiting(t) /\ (tasks[t].due \/ t \in late) THEN s ELSE c
    BY <1>1, <2>1, <2>2
  <2>7. t \in jobs' /\ tasks[t].trigger = "once"
          => Waiting(t) /\ ~(tasks[t].due \/ t \in late)
    BY <1>1
  <2> SUFFICES ASSUME tasks[t].trigger = "once"
      PROVE  /\ NAlive(runs'[t]) <= 1 + NAsked(runs'[t])
             /\ t \in jobs' => NAlive(runs'[t]) <= NAsked(runs'[t])
             /\ tasks'[t].status = "pending" => NStarted(runs'[t]) <= NAsked(runs'[t])
    BY <1>2 DEF OnceCounted
  <2>8. /\ NAlive(runs[t]) <= 1 + NAsked(runs[t])
        /\ tasks[t].status = "pending" => NStarted(runs[t]) <= NAsked(runs[t])
    BY DEF OnceInv, OnceCounted
  <2>9. Waiting(t) => NStarted(runs[t]) <= NAsked(runs[t])
    BY <2>8 DEF Waiting
  <2>10. CASE Waiting(t) /\ (tasks[t].due \/ t \in late)
    BY <2>3, <2>4, <2>5, <2>6, <2>7, <2>9, <2>10
  <2>11. CASE ~(Waiting(t) /\ (tasks[t].due \/ t \in late))
    <3>1. runs'[t] = c
      BY <2>6, <2>11
    <3>2. tasks'[t].status = "pending" => tasks[t].status = "pending"
      BY <1>2
    <3> QED
      BY <2>3, <2>5, <2>7, <2>8, <2>9, <3>1, <3>2
  <2> QED
    BY <2>10, <2>11
<1>4. JobsMade'
  BY <1>1, <1>2 DEF JobsMade, Exists
<1> QED
  BY <1>3, <1>4 DEF OnceInv

LEMMA InitOnce == ASSUME Init PROVE OnceInv
<1>1. jobs = {} /\ \A t \in Task : tasks[t].trigger = "manual"
  BY DEF Init, NoTask
<1> QED
  BY <1>1 DEF OnceInv, OnceCounted, JobsMade

LEMMA OnceInvariant == Spec => []OnceInv
<1>1. RunInv /\ OnceInv /\ [Next]_vars => OnceInv'
  BY RequestOnce, RunStepOnce, CallbackOnce, RestartOnce, StepKinds
<1> QED
  BY <1>1, InitOnce, RunInvariant, PTL DEF Spec

\* "Runs a single time": whatever clients do, over restarts, late reloads and changes of
\* the agent's status, the schedule adds at most one start to those the user asked for.
THEOREM OnceRun == Spec => []OnceRunsOnce
<1>1. ASSUME RunInv, OnceInv PROVE OnceRunsOnce
  <2> SUFFICES ASSUME NEW t \in Task, tasks[t].trigger = "once"
      PROVE  Cardinality(Started(t)) <= 1 + Cardinality(Requested(t))
    BY DEF OnceRunsOnce
  <2>1. runs[t] \in Seq(Run)
    BY <1>1 DEF RunInv, RowTypes
  <2>2. NAlive(runs[t]) <= 1 + NAsked(runs[t])
    BY <1>1 DEF OnceInv, OnceCounted
  <2>3. NStarted(runs[t]) <= 1 + NAsked(runs[t])
    BY <2>1, <2>2, CountsTyped
  <2> QED
    BY <2>3 DEF NStarted, NAsked, StartedOf, AskedOf, Started, Requested
<1> QED
  BY <1>1, RunInvariant, OnceInvariant, PTL
=============================================================================
