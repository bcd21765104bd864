----------------------------- MODULE Connectors -----------------------------
(***************************************************************************)
(* The MCP connectors of one workspace: the durable store of the backend   *)
(* (services/connector_store.py, routers/connectors.py), the masters that  *)
(* hold copies, and the calls between them.                                *)
(*                                                                         *)
(* The dashboard edits through the workspace proxy, on the master of the   *)
(* home host.  The master answers for itself and mirrors the change to the *)
(* backend, whose host routing (main.py) lets the call in.  Provisioning   *)
(* and rebuilding push the store onto the master they have used.  The      *)
(* master is not part of the repository: it is modelled by what            *)
(* routers/contexts.py and the connector modules say of it.                *)
(***************************************************************************)
EXTENDS Naturals

CONSTANTS
  Connector, Host, Context,
  Request,     \* bound: proxied edits in flight
  NoHost,
  MaxVersion,  \* bound: changes of connectors
  MaxCrash,    \* bound: restarts of the backend
  Faults,      \* {"lost"}: a mirrored change may not reach the backend
  Habits       \* what the placement does: a subset of AllHabits

AllHabits == {"spread",   \* contexts on a second host while the first is in use
              "returns"}  \* a context on a host the workspace has left, and
                          \*   that others have kept up

ASSUME ConnectorsAssumption ==
  /\ NoHost \notin Host /\ Connector # {}
  /\ MaxVersion \in Nat /\ MaxCrash \in Nat
  /\ Faults \subseteq {"lost"} /\ Habits \subseteq AllHabits

VARIABLES
  store,    \* store[k]: the version of the row of workspace_connectors, 0 for none
  host,     \* host[h]: whether the machine is up
  master,   \* master[h][k]: the version the master of h has, 0 for none
  home,     \* home[c]: the host_id of the row of a context
  task,     \* task[c]: provisioning or rebuilding c, with the rows it pushes
  edit,     \* edit[r]: a proxied request, resolved to a host
  mirror,   \* the calls of the masters to the backend that are under way
  newest,   \* newest[k]: the version that was edited last, 0 when removed
  clock,    \* edits so far
  pushed,   \* history: pushed[h], the store has been pushed to h
  lost,     \* history: a mirrored change did not arrive
  crossed,  \* history: two mirrored changes of a connector overtook each other,
            \*   or a push and a change of the same connector crossed
  crashes   \* restarts so far

vars == <<store, host, master, home, task, edit, mirror, newest, clock, pushed, lost,
          crossed, crashes>>

Versions == [Connector -> 0 .. MaxVersion]
None == [k \in Connector |-> 0]
IdleTask == [pc |-> "idle", host |-> NoHost, rows |-> None]
IdleEdit == [pc |-> "idle", host |-> NoHost, connector |-> CHOOSE k \in Connector : TRUE,
             removes |-> FALSE]

Task == [pc : {"idle", "provision", "rebuild", "push"}, host : Host \cup {NoHost},
         rows : Versions]
ProxiedEdit == [pc : {"idle", "sent"}, host : Host \cup {NoHost}, connector : Connector,
                removes : BOOLEAN]
Call == [host : Host, connector : Connector, stamp : 1 .. MaxVersion, removes : BOOLEAN]

\* The version of the connector that a call leaves behind.
Value(call) == IF call.removes THEN 0 ELSE call.stamp

TypeOK ==
  /\ store \in Versions /\ newest \in Versions
  /\ host \in [Host -> {"none", "up", "gone"}]
  /\ master \in [Host -> Versions]
  /\ home \in [Context -> Host \cup {NoHost}]
  /\ task \in [Context -> Task]
  /\ \A c \in Context : task[c].pc # "idle" => task[c].host \in Host
  /\ edit \in [Request -> ProxiedEdit]
  /\ \A r \in Request : edit[r].pc = "sent" => edit[r].host \in Host
  /\ mirror \subseteq Call
  /\ clock \in 0 .. MaxVersion /\ crashes \in 0 .. MaxCrash
  /\ pushed \in [Host -> BOOLEAN] /\ lost \in BOOLEAN /\ crossed \in BOOLEAN

Init ==
  /\ store = None /\ newest = None
  /\ host = [h \in Host |-> "none"] /\ master = [h \in Host |-> None]
  /\ home = [c \in Context |-> NoHost] /\ task = [c \in Context |-> IdleTask]
  /\ edit = [r \in Request |-> IdleEdit]
  /\ mirror = {} /\ clock = 0 /\ crashes = 0
  /\ pushed = [h \in Host |-> FALSE] /\ lost = FALSE /\ crossed = FALSE

-----------------------------------------------------------------------------
(* Host routing and address resolution *)

\* Mutant of Served: the machine-to-machine paths are gated like the others.
ServedByKind(name, path) == path = "infra" \/ (name = "api") = (path = "v1")

\* enforce_host_routing: on which host name a path is answered.
Served(name, path) == path \in {"infra", "internal"} \/ (name = "api") = (path = "v1")

\* _home_host: the host of any context of the workspace that has one.
Homes == {home[c] : c \in Context} \ {NoHost}

\* _resolve_workspace: the masters that may answer an MCP client of the workspace.
Resolved == Homes

\* A container of the workspace is on the host, or will be.
InUse(h) == \/ h \in Homes
            \/ \E c \in Context : task[c].pc = "provision" /\ task[c].host = h

-----------------------------------------------------------------------------
(* Contexts and their hosts *)

\* A place that the scheduler may choose: the home host if there is one.
MayPlace(h) == /\ host[h] # "gone"
               /\ \/ InUse(h)
                  \/ /\ \A g \in Host : ~InUse(g)
                     /\ host[h] = "none" \/ "returns" \in Habits
                  \/ host[h] = "none" /\ "spread" \in Habits

\* _provision_bg has placed the context, and calls the master.
ProvisionContext(c, h) ==
  /\ home[c] = NoHost /\ task[c].pc = "idle" /\ MayPlace(h)
  /\ host' = [host EXCEPT ![h] = "up"]
  /\ task' = [task EXCEPT ![c] = [pc |-> "provision", host |-> h, rows |-> None]]
  /\ UNCHANGED <<store, master, home, edit, mirror, newest, clock, pushed, lost, crossed,
                 crashes>>

RebuildContext(c) ==
  /\ home[c] # NoHost /\ task[c].pc = "idle"
  /\ task' = [task EXCEPT ![c] = [pc |-> "rebuild", host |-> home[c], rows |-> None]]
  /\ UNCHANGED <<store, host, master, home, edit, mirror, newest, clock, pushed, lost,
                 crossed, crashes>>

\* The rows read now are behind a change that is still on its way: a removal on
\* the same host, or any change on another one.
Behind(h) == \E m \in mirror : m.host # h \/ (m.removes /\ store[m.connector] # 0)

\* The master has answered: the row gets its host, and _rehydrate_connectors
\* reads the store.  An empty store is not pushed.
Answered(c) ==
  LET h == task[c].host IN
  /\ task[c].pc \in {"provision", "rebuild"}
  /\ home' = IF task[c].pc = "provision" THEN [home EXCEPT ![c] = h] ELSE home
  /\ task' = [task EXCEPT ![c] = IF store = None THEN IdleTask
                                 ELSE [pc |-> "push", host |-> h, rows |-> store]]
  /\ pushed' = IF store = None /\ host[h] = "up" THEN [pushed EXCEPT ![h] = TRUE] ELSE pushed
  /\ crossed' = (crossed \/ Behind(h))
  /\ UNCHANGED <<store, host, master, edit, mirror, newest, clock, lost, crashes>>

\* Mutant of Imported: the rows are sent without updated_at, and the master cannot
\* tell which are older than its own.
ImportedBlindly(old, rows) == [k \in Connector |-> IF rows[k] = 0 THEN old[k] ELSE rows[k]]

\* The master "skips rows it already has a newer copy of".
Imported(old, rows) == [k \in Connector |-> IF rows[k] > old[k] THEN rows[k] ELSE old[k]]

PushArrives(c) ==
  LET h == task[c].host IN
  /\ task[c].pc = "push" /\ host[h] = "up"
  /\ master' = [master EXCEPT ![h] = Imported(master[h], task[c].rows)]
  /\ pushed' = [pushed EXCEPT ![h] = TRUE]
  /\ task' = [task EXCEPT ![c] = IdleTask]
  /\ UNCHANGED <<store, host, home, edit, mirror, newest, clock, lost, crossed, crashes>>

\* Provisioning or rebuilding fails, or the push does, which is best effort.
TaskFails(c) == /\ task[c].pc # "idle"
                /\ task' = [task EXCEPT ![c] = IdleTask]
                /\ UNCHANGED <<store, host, master, home, edit, mirror, newest, clock,
                               pushed, lost, crossed, crashes>>

DeleteContext(c) == /\ home[c] # NoHost
                    /\ home' = [home EXCEPT ![c] = NoHost]
                    /\ UNCHANGED <<store, host, master, task, edit, mirror, newest, clock,
                                   pushed, lost, crossed, crashes>>

\* terminate_host_if_empty and the sweep: the calls of its master go with it.
TearDown(h) == /\ host[h] = "up" /\ ~InUse(h)
               /\ host' = [host EXCEPT ![h] = "gone"]
               /\ master' = [master EXCEPT ![h] = None]
               /\ pushed' = [pushed EXCEPT ![h] = FALSE]
               /\ lost' = (lost \/ \E m \in mirror : m.host = h)
               /\ mirror' = {m \in mirror : m.host # h}
               /\ UNCHANGED <<store, home, task, edit, newest, clock, crossed, crashes>>

-----------------------------------------------------------------------------
(* Edits through the workspace proxy *)

\* workspace_proxy resolves the home host and then waits for the body.
EditAsked(r, k, h, removes) ==
  /\ edit[r].pc = "idle" /\ clock < MaxVersion
  /\ h \in Homes /\ (\E name \in {"api", "mcp"} : Served(name, "dashboard"))
  /\ edit' = [edit EXCEPT ![r] = [pc |-> "sent", host |-> h, connector |-> k,
                                  removes |-> removes]]
  /\ UNCHANGED <<store, host, master, home, task, mirror, newest, clock, pushed, lost,
                 crossed, crashes>>

\* The master takes the edit and mirrors it; it has nothing to remove twice.
EditTaken(r) ==
  LET h == edit[r].host
      call == [host |-> h, connector |-> edit[r].connector, stamp |-> clock + 1,
               removes |-> edit[r].removes]
      k == call.connector IN
  /\ edit[r].pc = "sent" /\ host[h] = "up" /\ clock < MaxVersion
  /\ call.removes => master[h][k] # 0
  /\ master' = [master EXCEPT ![h][k] = Value(call)]
  /\ mirror' = mirror \cup {call}
  /\ newest' = [newest EXCEPT ![k] = Value(call)]
  /\ clock' = clock + 1
  /\ crossed' = (\/ crossed
                 \/ ~InUse(h) /\ \E g \in Host : InUse(g)
                 \/ /\ call.removes
                    /\ \E c \in Context : task[c].pc = "push" /\ task[c].rows[k] # 0)
  /\ edit' = [edit EXCEPT ![r] = IdleEdit]
  /\ UNCHANGED <<store, host, home, task, pushed, lost, crashes>>

\* "Master is unreachable", or it knows no such connector.
EditRefused(r) == /\ edit[r].pc = "sent"
                  /\ edit' = [edit EXCEPT ![r] = IdleEdit]
                  /\ UNCHANGED <<store, host, master, home, task, mirror, newest, clock,
                                 pushed, lost, crossed, crashes>>

\* POST /internal/connectors/sync and DELETE /internal/connectors/{ws}/{id}, on
\* whatever host name the masters use for the backend: the row is written as the
\* call says, whatever it holds.
MirrorArrives(m, name) ==
  /\ store' = IF Served(name, "internal")
              THEN [store EXCEPT ![m.connector] = Value(m)] ELSE store
  /\ crossed' = (crossed \/ \E n \in mirror : /\ n.connector = m.connector
                                              /\ n.stamp < m.stamp)
  /\ mirror' = mirror \ {m}
  /\ UNCHANGED <<host, master, home, task, edit, newest, clock, pushed, lost, crashes>>

\* The backend is down, or does not accept the master's token.
MirrorLost(m) == /\ "lost" \in Faults /\ lost' = TRUE
                 /\ mirror' = mirror \ {m}
                 /\ UNCHANGED <<store, host, master, home, task, edit, newest, clock,
                                pushed, crossed, crashes>>

\* The process dies and starts again: tasks and requests are gone.
Restart == /\ crashes < MaxCrash /\ crashes' = crashes + 1
           /\ task' = [c \in Context |-> IdleTask]
           /\ edit' = [r \in Request |-> IdleEdit]
           /\ UNCHANGED <<store, host, master, home, mirror, newest, clock, pushed, lost,
                          crossed>>

Next ==
  \/ \E c \in Context : \/ RebuildContext(c) \/ Answered(c) \/ PushArrives(c)
                        \/ TaskFails(c) \/ DeleteContext(c)
                        \/ \E h \in Host : ProvisionContext(c, h)
  \/ \E h \in Host : TearDown(h)
  \/ \E r \in Request : \/ EditTaken(r) \/ EditRefused(r)
                        \/ \E k \in Connector, h \in Host, removes \in BOOLEAN :
                             EditAsked(r, k, h, removes)
  \/ \E m \in mirror : MirrorLost(m) \/ \E name \in {"api", "mcp"} : MirrorArrives(m, name)
  \/ Restart

Spec == Init /\ [][Next]_vars

-----------------------------------------------------------------------------
(* Safety *)

\* "Connectors survive deleting all contexts and terminating the host": when no
\* mirrored change is under way the store has every connector as it was edited
\* last, if no change was lost and none overtook another (connector_store.py,
\* the internal paths of main.py).
StoreIsNewest == mirror = {} /\ ~lost /\ ~crossed => store = newest

\* A client that connects to the workspace meets the connectors as they were
\* edited last, on every host that the store has been pushed to, if in addition
\* no change crossed a push (_rehydrate_connectors, _resolve_workspace).
MastersAgree == ~lost /\ ~crossed => \A h \in Resolved : pushed[h] => master[h] = newest

\* What holds of removals only if none crosses a push, and fails as it stands:
\* a connector that was removed, here and on the backend, is on no host of the
\* workspace.
RemovedStaysRemoved ==
  mirror = {} /\ ~lost => \A h \in Resolved, k \in Connector :
                             newest[k] = 0 /\ pushed[h] => master[h][k] = 0

-----------------------------------------------------------------------------
(* The inductive invariant of StoreIsNewest *)

\* The last change under way leaves the version that was edited last; where none
\* is under way, the store has it.
LastOf(k, m) == /\ m.connector = k
                /\ \A n \in mirror : n.connector = k => n.stamp <= m.stamp

MirrorInv ==
  /\ \A m \in mirror : m.stamp <= clock
  /\ \A m, n \in mirror : m.stamp = n.stamp => m = n
  /\ ~lost /\ ~crossed =>
       \A k \in Connector :
         /\ (\A m \in mirror : m.connector # k) => store[k] = newest[k]
         /\ \A m \in mirror : LastOf(k, m) => Value(m) = newest[k]

StoreInv == TypeOK /\ MirrorInv
=============================================================================
