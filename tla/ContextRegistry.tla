-------------------------- MODULE ContextRegistry --------------------------
(***************************************************************************)
(* A context's API key and name, on its row and in the registry of its     *)
(* host's master: routers/contexts.py, routers/kb_api.py, and the          *)
(* resolution of a context in routers/mcp_bridge.py.                       *)
(*                                                                         *)
(* The row is what the REST API authenticates a call against before it     *)
(* waits for the container.  Creating a context                            *)
(* captures key and name, and a background task hands them to the master;  *)
(* rebuilding captures them again.  Regenerating the key and renaming      *)
(* write the row and then ask the master to follow.  Contexts share        *)
(* nothing of this, so the module has one.                                 *)
(***************************************************************************)
EXTENDS Naturals

CONSTANTS
  Editor,      \* bound: regenerate and rename requests in flight
  Rebuilder,   \* bound: rebuild tasks in flight
  Caller,      \* bound: calls of the REST API in flight
  MaxChange,   \* bound: versions of the key, and of the name
  MaxCrash,    \* bound: restarts of the backend
  Faults,      \* {"lost"}: edits and deletes may not reach the master, and
               \*   provisioning may fail
  Habits       \* what clients do: a subset of AllHabits

AllHabits == {"edits_early",  \* a request while the context is provisioned
              "overlaps"}     \* a request before the last has taken effect

ASSUME RegistryAssumption == /\ MaxChange \in Nat /\ MaxCrash \in Nat
                             /\ Faults \subseteq {"lost"} /\ Habits \subseteq AllHabits

VARIABLES
  row,        \* the row of containers: its state, and whether host_id is set
  values,     \* its api_key and name, as versions of them
  registry,   \* the master: whether it has the container, and the values it has
  newest,     \* the versions the client was told last
  prov,       \* the provisioning task, with the values it captured
  reb,        \* reb[b]: a rebuild task, likewise
  edit,       \* edit[r]: a regenerate or rename at its await
  del,        \* the delete request
  calls,      \* calls[q]: a call of the REST API, the key it came with, and what became of it
  crashes,    \* restarts so far
  disturbed   \* history: a call was lost or cut off, or requests overlapped

vars == <<row, values, registry, newest, prov, reb, edit, del, calls, crashes, disturbed>>

Field == {"api_key", "name"}
Values == [Field -> 0 .. MaxChange]

KbCall == [pc : {"idle", "master", "no_key", "no_host"}, key : 0 .. MaxChange]

CallTask == [pc : {"idle", "master", "answer"}, captured : Values]

TypeOK == /\ row \in [state : {"none", "live", "deleted"}, hosted : BOOLEAN]
          /\ values \in Values /\ newest \in Values
          /\ registry \in [present : BOOLEAN, values : Values]
          /\ prov \in CallTask /\ reb \in [Rebuilder -> CallTask]
          /\ edit \in [Editor -> [pc : {"idle", "master"}, field : Field,
                                   version : 0 .. MaxChange]]
          /\ del \in {"idle", "master", "row"}
          /\ calls \in [Caller -> KbCall]
          /\ crashes \in 0 .. MaxCrash
          /\ disturbed \in BOOLEAN

First == [f \in Field |-> 0]
IdleCall == [pc |-> "idle", captured |-> First]
IdleEdit == [pc |-> "idle", field |-> "name", version |-> 0]
NoCall == [pc |-> "idle", key |-> 0]

Init == /\ row = [state |-> "none", hosted |-> FALSE]
        /\ values = First /\ newest = First
        /\ registry = [present |-> FALSE, values |-> First]
        /\ prov = IdleCall /\ reb = [b \in Rebuilder |-> IdleCall]
        /\ edit = [r \in Editor |-> IdleEdit]
        /\ del = "idle" /\ crashes = 0
        /\ calls = [q \in Caller |-> NoCall]
        /\ disturbed = FALSE

Quiet == /\ prov.pc = "idle" /\ del = "idle"
         /\ \A b \in Rebuilder : reb[b].pc = "idle"
         /\ \A r \in Editor : edit[r].pc = "idle"

\* What the assumptions about clients allow them to ask now.
MayAsk == \/ Quiet
          \/ prov.pc # "idle" /\ "edits_early" \in Habits
          \/ prov.pc = "idle" /\ "overlaps" \in Habits

\* A request is taken now.
Asked == MayAsk /\ disturbed' = (disturbed \/ ~Quiet)

\* A call does not do what it was made for.
Disturbs == disturbed' = TRUE

-----------------------------------------------------------------------------
(* Provisioning and rebuilding *)

\* POST /contexts/provision.
CreateContext == /\ row.state = "none"
                 /\ row' = [row EXCEPT !.state = "live"]
                 /\ prov' = [pc |-> "master", captured |-> values]
                 /\ UNCHANGED <<values, registry, newest, reb, edit, del, calls, crashes, disturbed>>

\* The master starts a container for the values of the call.
Started(call) == registry' = [present |-> TRUE, values |-> call.captured]

ProvisionTaken == /\ prov.pc = "master"
                  /\ Started(prov)
                  /\ prov' = [prov EXCEPT !.pc = "answer"]
                  /\ UNCHANGED <<row, values, newest, reb, edit, del, calls, crashes, disturbed>>

\* _provision_bg links the row and writes the key it captured; a row that has
\* been deleted is not updated.
Provisioned == /\ prov.pc = "answer"
               /\ prov' = IdleCall
               /\ IF row.state = "live"
                  THEN /\ row' = [row EXCEPT !.hosted = TRUE]
                       /\ values' = [values EXCEPT !["api_key"] = prov.captured["api_key"]]
                  ELSE UNCHANGED <<row, values>>
               /\ UNCHANGED <<registry, newest, reb, edit, del, calls, crashes, disturbed>>

\* The row gets an error status and no host.
ProvisionFails == /\ prov.pc # "idle" /\ "lost" \in Faults /\ Disturbs
                  /\ prov' = IdleCall
                  /\ UNCHANGED <<row, values, registry, newest, reb, edit, del, calls, crashes>>

\* POST /contexts/{id}/rebuild.
RebuildContext(b) == /\ row.state = "live" /\ row.hosted /\ Asked
                     /\ reb[b].pc = "idle"
                     /\ reb' = [reb EXCEPT ![b] = [pc |-> "master", captured |-> values]]
                     /\ UNCHANGED <<row, values, registry, newest, prov, edit, del, calls, crashes>>

RebuildTaken(b) == /\ reb[b].pc = "master"
                   /\ Started(reb[b])
                   /\ reb' = [reb EXCEPT ![b].pc = "answer"]
                   /\ UNCHANGED <<row, values, newest, prov, edit, del, calls, crashes, disturbed>>

\* Mutant of Rebuilt: the row is completed as after provisioning.
RebuiltLikeProvisioned(b) ==
  /\ reb[b].pc = "answer"
  /\ reb' = [reb EXCEPT ![b] = IdleCall]
  /\ values' = [values EXCEPT !["api_key"] = reb[b].captured["api_key"]]
  /\ UNCHANGED <<row, registry, newest, prov, edit, del, calls, crashes, disturbed>>

\* Only the status is written.
Rebuilt(b) == /\ reb[b].pc = "answer"
              /\ reb' = [reb EXCEPT ![b] = IdleCall]
              /\ UNCHANGED <<row, values, registry, newest, prov, edit, del, calls, crashes, disturbed>>

\* The master refuses, before or after it has started the container.
RebuildFails(b) == /\ reb[b].pc # "idle"
                   /\ reb' = [reb EXCEPT ![b] = IdleCall]
                   /\ UNCHANGED <<row, values, registry, newest, prov, edit, del, calls, crashes, disturbed>>

-----------------------------------------------------------------------------
(* Changing the key or the name *)

\* POST /contexts/{id}/regenerate-api-key and PATCH /contexts/{id}: the row is
\* written, and without a host there is no master to ask.
Edit(r, f) ==
  /\ row.state = "live" /\ Asked
  /\ edit[r].pc = "idle" /\ newest[f] < MaxChange
  /\ values' = [values EXCEPT ![f] = newest[f] + 1]
  /\ newest' = [newest EXCEPT ![f] = newest[f] + 1]
  /\ edit' = IF row.hosted
             THEN [edit EXCEPT ![r] = [pc |-> "master", field |-> f,
                                       version |-> newest[f] + 1]]
             ELSE edit
  /\ UNCHANGED <<row, registry, prov, reb, del, calls, crashes>>

\* Mutant of EditTaken: a rename sends the key of the row it has read.
EditTakenForgetting(r) ==
  /\ edit[r].pc = "master"
  /\ registry' = IF registry.present
                 THEN [registry EXCEPT !.values = [First EXCEPT ![edit[r].field] = edit[r].version]]
                 ELSE registry
  /\ edit' = [edit EXCEPT ![r] = IdleEdit]
  /\ UNCHANGED <<row, values, newest, prov, reb, del, calls, crashes, disturbed>>

\* The registry follows, if the master knows the container.
EditTaken(r) ==
  /\ edit[r].pc = "master"
  /\ registry' = IF registry.present
                 THEN [registry EXCEPT !.values[edit[r].field] = edit[r].version]
                 ELSE registry
  /\ edit' = [edit EXCEPT ![r] = IdleEdit]
  /\ UNCHANGED <<row, values, newest, prov, reb, del, calls, crashes, disturbed>>

\* The call is best effort.
EditLost(r) == /\ edit[r].pc = "master" /\ "lost" \in Faults /\ Disturbs
               /\ edit' = [edit EXCEPT ![r] = IdleEdit]
               /\ UNCHANGED <<row, values, registry, newest, prov, reb, del, calls, crashes>>

-----------------------------------------------------------------------------
(* Deleting *)

\* DELETE /contexts/{id}: without a host the row is deleted at once.
DeleteContext == /\ row.state = "live" /\ Asked /\ del = "idle"
                 /\ IF row.hosted THEN del' = "master" /\ UNCHANGED row
                                  ELSE row' = [row EXCEPT !.state = "deleted"] /\ UNCHANGED del
                 /\ UNCHANGED <<values, registry, newest, prov, reb, edit, calls, crashes>>

DeleteTaken == /\ del = "master"
               /\ registry' = [registry EXCEPT !.present = FALSE]
               /\ del' = "row"
               /\ UNCHANGED <<row, values, newest, prov, reb, edit, calls, crashes, disturbed>>

\* A master that cannot be reached does not keep the row.
DeleteLost == /\ del = "master" /\ "lost" \in Faults /\ Disturbs
              /\ del' = "row"
              /\ UNCHANGED <<row, values, registry, newest, prov, reb, edit, calls, crashes>>

\* Mutant of RowDeleted: the container stays when the row goes.
RowDeletedOnly == /\ del # "idle"
                  /\ row' = [row EXCEPT !.state = "deleted"]
                  /\ del' = "idle"
                  /\ UNCHANGED <<values, registry, newest, prov, reb, edit, calls, crashes, disturbed>>

RowDeleted == /\ del = "row"
              /\ row' = [row EXCEPT !.state = "deleted"]
              /\ del' = "idle"
              /\ UNCHANGED <<values, registry, newest, prov, reb, edit, calls, crashes, disturbed>>

-----------------------------------------------------------------------------
(* The REST API: POST /v1/recall, /query, /record, /flush and /upload *)

\* Mutant of Authenticates: the host's master is asked, which has the key too.
AuthenticatesByMaster(key) == registry.present /\ key = registry.values["api_key"]

\* _context_for_key: one row has the key.
Authenticates(key) == row.state = "live" /\ key = values["api_key"]

\* A context with a host has a master to forward to (_host_for, _resolve_context).
Routed == row.state = "live" /\ row.hosted

\* A call comes in with any key that the client was ever given.
KbCallAsked(q, key) ==
  /\ calls[q].pc = "idle" /\ key \in 0 .. newest["api_key"]
  /\ calls' = [calls EXCEPT ![q] = [pc |-> CASE ~Authenticates(key) -> "no_key"
                                           [] Authenticates(key) /\ ~Routed -> "no_host"
                                           [] OTHER -> "master",
                                    key |-> key]]
  /\ UNCHANGED <<row, values, registry, newest, prov, reb, edit, del, crashes, disturbed>>

\* The client gets its answer: the refusal, what the container said, or 502.
KbCallAnswered(q) ==
  /\ calls[q].pc # "idle"
  /\ calls' = [calls EXCEPT ![q] = NoCall]
  /\ UNCHANGED <<row, values, registry, newest, prov, reb, edit, del, crashes, disturbed>>

\* The process dies and starts again: tasks and requests are gone.
Restart == /\ crashes < MaxCrash /\ crashes' = crashes + 1
           /\ prov' = IdleCall /\ reb' = [b \in Rebuilder |-> IdleCall]
           /\ edit' = [r \in Editor |-> IdleEdit] /\ del' = "idle"
           /\ disturbed' = (disturbed \/ ~Quiet)
           /\ calls' = [q \in Caller |-> NoCall]
           /\ UNCHANGED <<row, values, registry, newest>>

Next == \/ CreateContext \/ ProvisionTaken \/ Provisioned \/ ProvisionFails
        \/ \E b \in Rebuilder : \/ RebuildContext(b) \/ RebuildTaken(b)
                                \/ Rebuilt(b) \/ RebuildFails(b)
        \/ \E r \in Editor : EditTaken(r) \/ EditLost(r) \/ \E f \in Field : Edit(r, f)
        \/ DeleteContext \/ DeleteTaken \/ DeleteLost \/ RowDeleted
        \/ \E q \in Caller : \/ KbCallAnswered(q)
                             \/ \E key \in 0 .. MaxChange : KbCallAsked(q, key)
        \/ Restart

Spec == Init /\ [][Next]_vars

-----------------------------------------------------------------------------
(* Safety *)

\* "Old key stops working immediately, the new one works at once": the row has
\* the key and the name that the client was told last, whatever rebuilds, lost
\* calls and restarts do.
NewestAccepted == row.state = "live" => values = newest

\* "Rotating a key takes effect instantly" (kb_api.py): of all keys the client was
\* ever given the API takes the last one, and no other, from the answer of
\* regenerate_api_key on, whatever the master and the tasks of the context still have.
KeyDecides ==
  [][\A q \in Caller :
       row.state = "live" /\ calls[q].pc = "idle" /\ calls'[q].pc # "idle"
         => (calls'[q].pc = "no_key" <=> calls'[q].key # newest["api_key"])]_vars

\* The registry "keeps matching" the row: if requests followed one another and
\* no call was lost or cut off by a restart, they agree when nothing is under way
\* (_rebuild_bg, regenerate_api_key, rename_context).
RegistryAgrees ==
  Quiet /\ ~disturbed /\ row.state = "live" /\ row.hosted
    => registry = [present |-> TRUE, values |-> values]

\* In the same circumstances a context that was deleted has no container left
\* (delete_context).
DeletedIsGone == Quiet /\ ~disturbed /\ row.state = "deleted" => ~registry.present

-----------------------------------------------------------------------------
(* The inductive invariant of NewestAccepted *)

\* When nobody edits a context that is provisioned, the key the provisioning
\* task will write is the newest one, and nothing changes before the row exists.
ProvisioningIsCurrent ==
  /\ row.state = "none" => values = newest
  /\ prov.pc # "idle" => row.state # "none"
  /\ prov.pc # "idle" /\ row.state = "live" => prov.captured["api_key"] = newest["api_key"]

NewestInv == TypeOK /\ NewestAccepted /\ ProvisioningIsCurrent
=============================================================================
