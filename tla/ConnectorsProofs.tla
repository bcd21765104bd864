-------------------------- MODULE ConnectorsProofs --------------------------
(***************************************************************************)
(* Proofs about Connectors for any connectors, hosts, contexts, requests   *)
(* and restarts: the store has the newest edits, for every habit of the    *)
(* placement, and so has the master, for a workspace on one host.          *)
(***************************************************************************)
EXTENDS Connectors, WellFoundedInduction, TLAPS

USE ConnectorsAssumption DEF Versions, Task, ProxiedEdit, Call, None, IdleTask, IdleEdit

-----------------------------------------------------------------------------
(* Types *)

\* Every reachable state has the types of the model.
LEMMA TypeStep == TypeOK /\ [Next]_vars => TypeOK'
<1> SUFFICES ASSUME TypeOK, [Next]_vars PROVE TypeOK'
  OBVIOUS
<1> USE DEF TypeOK
<1>1. ASSUME NEW c \in Context, NEW h \in Host, ProvisionContext(c, h) PROVE TypeOK'
  <2>1. [pc |-> "provision", host |-> h, rows |-> None] \in Task
    OBVIOUS
  <2>2. task' \in [Context -> Task]
    BY <1>1, <2>1 DEF ProvisionContext
  <2>3. \A d \in Context : task'[d].pc # "idle" => task'[d].host \in Host
    BY <1>1 DEF ProvisionContext
  <2>4. host' \in [Host -> {"none", "up", "gone"}]
    BY <1>1 DEF ProvisionContext
  <2> QED
    BY <1>1, <2>2, <2>3, <2>4 DEF ProvisionContext
<1>2. ASSUME NEW c \in Context, RebuildContext(c) PROVE TypeOK'
  <2>1. home[c] \in Host
    BY <1>2 DEF RebuildContext
  <2>2. [pc |-> "rebuild", host |-> home[c], rows |-> None] \in Task
    BY <2>1
  <2>3. task' \in [Context -> Task]
    BY <1>2, <2>2 DEF RebuildContext
  <2>4. \A d \in Context : task'[d].pc # "idle" => task'[d].host \in Host
    BY <1>2, <2>1 DEF RebuildContext
  <2> QED
    BY <1>2, <2>3, <2>4 DEF RebuildContext
<1>3. ASSUME NEW c \in Context, Answered(c) PROVE TypeOK'
  <2>1. task[c].host \in Host
    BY <1>3 DEF Answered
  <2> QED
    BY <1>3, <2>1 DEF Answered
<1>4. ASSUME NEW c \in Context, PushArrives(c) PROVE TypeOK'
  <2>1. \A old \in Versions, rows \in Versions : Imported(old, rows) \in Versions
    BY DEF Imported
  <2>2. task[c].host \in Host /\ task[c].rows \in Versions
    BY <1>4 DEF PushArrives
  <2>3. master' \in [Host -> Versions]
    BY <1>4, <2>1, <2>2 DEF PushArrives
  <2> QED
    BY <1>4, <2>2, <2>3 DEF PushArrives
<1>5. ASSUME NEW c \in Context, TaskFails(c) PROVE TypeOK'
  BY <1>5 DEF TaskFails
<1>6. ASSUME NEW c \in Context, DeleteContext(c) PROVE TypeOK'
  BY <1>6 DEF DeleteContext
<1>7. ASSUME NEW h \in Host, TearDown(h) PROVE TypeOK'
  BY <1>7 DEF TearDown
<1>8. ASSUME NEW r \in Request, NEW k \in Connector, NEW h \in Host, NEW removes \in BOOLEAN,
             EditAsked(r, k, h, removes)
      PROVE TypeOK'
  BY <1>8 DEF EditAsked
<1>9. ASSUME NEW r \in Request, EditTaken(r) PROVE TypeOK'
  <2> DEFINE call == [host |-> edit[r].host, connector |-> edit[r].connector,
                      stamp |-> clock + 1, removes |-> edit[r].removes]
  <2>1. call \in Call /\ Value(call) \in 0 .. MaxVersion
    BY <1>9 DEF EditTaken, Value
  <2>2. mirror' = mirror \cup {call} /\ clock' = clock + 1 /\ clock' \in 0 .. MaxVersion
    BY <1>9 DEF EditTaken
  <2>3. /\ master' = [master EXCEPT ![edit[r].host][edit[r].connector] = Value(call)]
        /\ newest' = [newest EXCEPT ![edit[r].connector] = Value(call)]
    BY <1>9 DEF EditTaken
  <2>4. master' \in [Host -> Versions] /\ newest' \in Versions
    BY <2>1, <2>3
  <2>5. crossed' \in BOOLEAN
    BY <1>9 DEF EditTaken
  <2> HIDE DEF call
  <2> QED
    BY <1>9, <2>1, <2>2, <2>4, <2>5 DEF EditTaken
<1>10. ASSUME NEW r \in Request, EditRefused(r) PROVE TypeOK'
  BY <1>10 DEF EditRefused
<1>11. ASSUME NEW m \in mirror, NEW name \in {"api", "mcp"}, MirrorArrives(m, name)
       PROVE TypeOK'
  <2>1. Value(m) \in 0 .. MaxVersion /\ m.connector \in Connector
    BY DEF Value
  <2> QED
    BY <1>11, <2>1 DEF MirrorArrives
<1>12. ASSUME NEW m \in mirror, MirrorLost(m) PROVE TypeOK'
  BY <1>12 DEF MirrorLost
<1>13. CASE Restart
  BY <1>13 DEF Restart
<1>14. CASE UNCHANGED vars
  BY <1>14 DEF vars
<1> QED
  BY <1>1, <1>2, <1>3, <1>4, <1>5, <1>6, <1>7, <1>8, <1>9, <1>10, <1>11, <1>12, <1>13,
     <1>14 DEF Next

-----------------------------------------------------------------------------
(* The store follows the edits *)

\* MirrorInv depends on the store, the calls under way and their history alone.
LEMMA MirrorUntouched ==
  MirrorInv /\ UNCHANGED <<store, mirror, newest, clock, lost>> /\ (~crossed' => ~crossed)
    => MirrorInv'
BY DEF MirrorInv, LastOf, Value

\* A new edit is the last change of its connector.
LEMMA EditTakenStep == ASSUME TypeOK, MirrorInv, NEW r \in Request, EditTaken(r)
                       PROVE MirrorInv'
<1> DEFINE k == edit[r].connector
           call == [host |-> edit[r].host, connector |-> k, stamp |-> clock + 1,
                    removes |-> edit[r].removes]
<1>1. /\ mirror' = mirror \cup {call} /\ clock' = clock + 1
      /\ newest' = [newest EXCEPT ![k] = Value(call)]
      /\ store' = store /\ lost' = lost /\ (~crossed' => ~crossed)
  BY DEF EditTaken
<1>2. /\ call.connector = k /\ call.stamp = clock + 1
      /\ k \in Connector /\ clock \in Nat /\ newest \in Versions
      /\ \A m \in mirror : m.stamp \in Nat /\ m.connector \in Connector
  BY DEF TypeOK
<1>3. \A m \in mirror : m.stamp < call.stamp /\ m.stamp <= clock /\ m # call
  BY <1>2 DEF MirrorInv
<1> HIDE DEF call, k
<1>4. (\A m \in mirror : m.stamp <= clock)' /\ (\A m, n \in mirror : m.stamp = n.stamp => m = n)'
  <2>1. call.stamp <= clock + 1 /\ \A m \in mirror : m.stamp <= clock + 1
    BY <1>2, <1>3
  <2>2. \A m, n \in mirror : m.stamp = n.stamp => m = n
    BY DEF MirrorInv
  <2>3. \A m \in mirror : m.stamp # call.stamp
    BY <1>2, <1>3
  <2> QED
    BY <1>1, <2>1, <2>2, <2>3
<1>5. ASSUME ~lost', ~crossed', NEW j \in Connector
      PROVE /\ ((\A m \in mirror : m.connector # j) => store[j] = newest[j])'
            /\ (\A m \in mirror : LastOf(j, m) => Value(m) = newest[j])'
  <2>1. /\ (\A m \in mirror : m.connector # j) => store[j] = newest[j]
        /\ \A m \in mirror : LastOf(j, m) => Value(m) = newest[j]
    BY <1>1, <1>5 DEF MirrorInv
  <2>2. CASE j = k
    <3>1. newest'[k] = Value(call) /\ call \in mirror' /\ call.connector = j
      BY <1>1, <1>2, <2>2
    <3>2. \A m \in mirror' : LastOf(j, m)' => m = call
      BY <1>1, <1>2, <1>3, <2>2, <3>1 DEF LastOf
    <3> QED
      BY <2>2, <3>1, <3>2
  <2>3. CASE j # k
    <3>1. newest'[j] = newest[j] /\ call.connector # j
      BY <1>1, <1>2, <2>3
    <3>2. \A m \in mirror' : LastOf(j, m)' => m \in mirror /\ LastOf(j, m)
      BY <1>1, <3>1 DEF LastOf
    <3> QED
      BY <1>1, <2>1, <3>1, <3>2 DEF Value
  <2> QED
    BY <2>2, <2>3
<1> QED
  BY <1>4, <1>5 DEF MirrorInv

\* A call that overtakes none is the first of its connector; when it is the only
\* one, the store has its version.
LEMMA MirrorArrivesStep ==
  ASSUME TypeOK, MirrorInv, NEW m \in mirror, NEW name \in {"api", "mcp"},
         MirrorArrives(m, name)
  PROVE MirrorInv'
<1>1. /\ mirror' = mirror \ {m} /\ clock' = clock /\ newest' = newest /\ lost' = lost
      /\ store' = [store EXCEPT ![m.connector] = Value(m)]
      /\ ~crossed' => /\ ~crossed
                      /\ \A n \in mirror : n.connector = m.connector => ~(n.stamp < m.stamp)
  BY DEF MirrorArrives, Served
<1>2. /\ store \in Versions /\ m.connector \in Connector /\ m.stamp \in Nat
      /\ \A n \in mirror : n.stamp \in Nat
  BY DEF TypeOK
<1>3. \A n \in mirror : n.stamp <= clock
  BY DEF MirrorInv
<1>4. \A l, n \in mirror : l.stamp = n.stamp => l = n
  BY DEF MirrorInv
<1>5. ASSUME ~lost', ~crossed', NEW j \in Connector
      PROVE /\ ((\A n \in mirror : n.connector # j) => store[j] = newest[j])'
            /\ (\A n \in mirror : LastOf(j, n) => Value(n) = newest[j])'
  <2>1. /\ (\A n \in mirror : n.connector # j) => store[j] = newest[j]
        /\ \A n \in mirror : LastOf(j, n) => Value(n) = newest[j]
    BY <1>1, <1>5 DEF MirrorInv
  <2>2. CASE j # m.connector
    <3>1. store'[j] = store[j]
      BY <1>1, <1>2, <2>2
    <3>2. (\A n \in mirror' : n.connector # j) => \A n \in mirror : n.connector # j
      BY <1>1, <2>2
    <3>3. \A n \in mirror' : n \in mirror /\ (LastOf(j, n)' => LastOf(j, n))
      BY <1>1, <2>2 DEF LastOf
    <3> QED
      BY <1>1, <2>1, <3>1, <3>2, <3>3 DEF Value
  <2>3. CASE j = m.connector
    <3>1. store'[j] = Value(m)
      BY <1>1, <1>2, <2>3
    <3>2. (\A n \in mirror' : n.connector # j) => LastOf(j, m)
      BY <1>1, <1>2, <2>3 DEF LastOf
    <3>3. \A n \in mirror' : n \in mirror /\ (LastOf(j, n)' => LastOf(j, n))
      <4> SUFFICES ASSUME NEW n \in mirror', LastOf(j, n)' PROVE LastOf(j, n)
        BY <1>1
      <4>1. n \in mirror /\ n # m /\ n.connector = j
        BY <1>1 DEF LastOf
      <4>2. m.stamp <= n.stamp
        BY <1>1, <1>2, <1>5, <2>3, <4>1
      <4> QED
        BY <1>1, <4>1, <4>2 DEF LastOf
    <3> QED
      BY <1>1, <2>1, <3>1, <3>2, <3>3 DEF Value
  <2> QED
    BY <2>2, <2>3
<1> QED
  BY <1>1, <1>3, <1>4, <1>5 DEF MirrorInv

\* Every step keeps the order of the changes under way.
LEMMA MirrorStep == TypeOK /\ MirrorInv /\ [Next]_vars => MirrorInv'
<1> SUFFICES ASSUME TypeOK, MirrorInv, [Next]_vars PROVE MirrorInv'
  OBVIOUS
<1>1. ASSUME NEW c \in Context, NEW h \in Host, ProvisionContext(c, h) PROVE MirrorInv'
  BY <1>1, MirrorUntouched DEF ProvisionContext
<1>2. ASSUME NEW c \in Context, RebuildContext(c) PROVE MirrorInv'
  BY <1>2, MirrorUntouched DEF RebuildContext
<1>3. ASSUME NEW c \in Context, Answered(c) PROVE MirrorInv'
  BY <1>3, MirrorUntouched DEF Answered
<1>4. ASSUME NEW c \in Context, PushArrives(c) PROVE MirrorInv'
  BY <1>4, MirrorUntouched DEF PushArrives
<1>5. ASSUME NEW c \in Context, TaskFails(c) PROVE MirrorInv'
  BY <1>5, MirrorUntouched DEF TaskFails
<1>6. ASSUME NEW c \in Context, DeleteContext(c) PROVE MirrorInv'
  BY <1>6, MirrorUntouched DEF DeleteContext
<1>7. ASSUME NEW h \in Host, TearDown(h) PROVE MirrorInv'
  <2>1. mirror' \subseteq mirror /\ clock' = clock /\ store' = store /\ newest' = newest
    BY <1>7 DEF TearDown
  <2>2. ~lost' /\ ~crossed' => ~lost /\ ~crossed /\ mirror' = mirror
    BY <1>7 DEF TearDown
  <2> QED
    BY <2>1, <2>2 DEF MirrorInv, LastOf, Value
<1>8. ASSUME NEW r \in Request, NEW k \in Connector, NEW h \in Host, NEW removes \in BOOLEAN,
             EditAsked(r, k, h, removes)
      PROVE MirrorInv'
  BY <1>8, MirrorUntouched DEF EditAsked
<1>9. ASSUME NEW r \in Request, EditTaken(r) PROVE MirrorInv'
  BY <1>9, EditTakenStep
<1>10. ASSUME NEW r \in Request, EditRefused(r) PROVE MirrorInv'
  BY <1>10, MirrorUntouched DEF EditRefused
<1>11. ASSUME NEW m \in mirror, NEW name \in {"api", "mcp"}, MirrorArrives(m, name)
       PROVE MirrorInv'
  BY <1>11, MirrorArrivesStep
<1>12. ASSUME NEW m \in mirror, MirrorLost(m) PROVE MirrorInv'
  <2>1. mirror' \subseteq mirror /\ clock' = clock /\ lost' = TRUE
    BY <1>12 DEF MirrorLost
  <2> QED
    BY <2>1 DEF MirrorInv
<1>13. CASE Restart
  BY <1>13, MirrorUntouched DEF Restart
<1>14. CASE UNCHANGED vars
  BY <1>14, MirrorUntouched DEF vars
<1> QED
  BY <1>1, <1>2, <1>3, <1>4, <1>5, <1>6, <1>7, <1>8, <1>9, <1>10, <1>11, <1>12, <1>13,
     <1>14 DEF Next

\* The last change of a connector that is under way leaves what was edited last,
\* and where none is under way the store has it.
THEOREM StoreInvariant == Spec => []StoreInv
<1>1. Init => StoreInv
  <2>1. Init => TypeOK
    <3>1. (CHOOSE k \in Connector : TRUE) \in Connector
      OBVIOUS
    <3>2. /\ IdleTask \in Task /\ IdleEdit \in ProxiedEdit /\ None \in Versions
          /\ IdleTask.pc = "idle" /\ IdleEdit.pc = "idle"
      BY <3>1
    <3> HIDE DEF IdleTask, IdleEdit, None, Task, ProxiedEdit, Versions, Call
    <3>3. Init => /\ \A c \in Context : task[c] = IdleTask
                  /\ \A r \in Request : edit[r] = IdleEdit
      BY DEF Init
    <3>4. Init => /\ pushed \in [Host -> BOOLEAN] /\ lost \in BOOLEAN /\ crossed \in BOOLEAN
      BY Zenon DEF Init
    <3>7. Init => clock \in 0 .. MaxVersion /\ crashes \in 0 .. MaxCrash
      BY DEF Init
    <3>5. Init => /\ host \in [Host -> {"none", "up", "gone"}] /\ mirror \subseteq Call
                  /\ home \in [Context -> Host \cup {NoHost}]
      BY DEF Init
    <3>6. Init => /\ store \in Versions /\ newest \in Versions
                  /\ master \in [Host -> Versions]
                  /\ task \in [Context -> Task] /\ edit \in [Request -> ProxiedEdit]
      BY <3>2 DEF Init
    <3> QED
      BY <3>2, <3>3, <3>4, <3>5, <3>6, <3>7 DEF TypeOK
  <2>2. Init => MirrorInv
    BY DEF Init, MirrorInv
  <2> QED
    BY <2>1, <2>2 DEF StoreInv
<1>2. StoreInv /\ [Next]_vars => StoreInv'
  BY TypeStep, MirrorStep DEF StoreInv
<1> QED
  BY <1>1, <1>2, PTL DEF Spec

\* Connectors survive everything that happens to contexts, hosts and the backend:
\* when no change is under way and none was lost or overtaken, the store has every
\* connector as it was edited last, under every habit of the placement.
THEOREM StoreSurvives == Spec => []StoreIsNewest
<1>1. StoreInv => StoreIsNewest
  BY DEF StoreInv, TypeOK, MirrorInv, StoreIsNewest
<1> QED
  BY <1>1, StoreInvariant, PTL
-----------------------------------------------------------------------------
(* The masters follow the edits *)

HIDE ConnectorsAssumption DEF Versions, Task, ProxiedEdit, Call, None, IdleTask, IdleEdit

\* Nothing of the workspace has reached the master of the host.
Fresh(h) ==
  /\ ~pushed[h] /\ master[h] = None /\ h \notin Homes
  /\ \A m \in mirror : m.host # h
  /\ \A r \in Request : edit[r].pc = "sent" => edit[r].host # h
  /\ \A c \in Context : task[c].pc \in {"rebuild", "push"} => task[c].host # h

\* The connector was not edited on the host, and the store has not been pushed to it.
Unedited(h, k) == ~pushed[h] /\ master[h][k] = 0 /\ \A m \in mirror : m.connector # k

\* All edits are made on this host; what its master lacks is in the rows that are pushed.
Settled(h) ==
  /\ \A m \in mirror : m.host = h
  /\ \A k \in Connector : master[h][k] = newest[k] \/ Unedited(h, k)
  /\ \A c \in Context : task[c].pc = "push" /\ task[c].host = h =>
       \A k \in Connector : /\ task[c].rows[k] <= newest[k]
                            /\ master[h][k] # newest[k] => task[c].rows[k] = newest[k]

\* Changes arrive in the order they were made.
InOrder == /\ \A k \in Connector : newest[k] <= clock /\ store[k] <= clock
           /\ ~crossed => \A m \in mirror : store[m.connector] < m.stamp

\* The workspace is on one host, and a machine is not used before it is up.
OneHost ==
  /\ \A g, h \in Host : InUse(g) /\ InUse(h) => g = h
  /\ \A h \in Host : host[h] = "none" => Fresh(h) /\ ~InUse(h)

UsedHost == ~lost /\ ~crossed => \A h \in Host : InUse(h) => Fresh(h) \/ Settled(h)

HostInv == InOrder /\ OneHost /\ UsedHost

LEMMA Typed ==
  ASSUME TypeOK
  PROVE  /\ clock \in Nat
         /\ \A k \in Connector : store[k] \in Nat /\ newest[k] \in Nat
         /\ \A h \in Host, k \in Connector : master[h][k] \in Nat
         /\ \A c \in Context, k \in Connector : task[c].rows[k] \in Nat
         /\ \A m \in mirror : m.host \in Host /\ m.connector \in Connector /\ m.stamp \in Nat
         /\ \A m \in mirror : Value(m) \in {0, m.stamp}
<1>1. clock \in Nat
  BY ConnectorsAssumption DEF TypeOK
<1>2. \A k \in Connector : store[k] \in Nat /\ newest[k] \in Nat
  BY ConnectorsAssumption DEF TypeOK, Versions
<1>3. \A h \in Host, k \in Connector : master[h][k] \in Nat
  BY ConnectorsAssumption DEF TypeOK, Versions
<1>4. ASSUME NEW c \in Context, NEW k \in Connector PROVE task[c].rows[k] \in Nat
  <2>1. task[c].rows \in Versions
    BY DEF TypeOK, Task
  <2> QED
    BY <2>1, ConnectorsAssumption DEF Versions
<1>5. ASSUME NEW m \in mirror
      PROVE  /\ m.host \in Host /\ m.connector \in Connector /\ m.stamp \in Nat
             /\ Value(m) \in {0, m.stamp}
  BY ConnectorsAssumption DEF TypeOK, Call, Value
<1> QED
  BY <1>1, <1>2, <1>3, <1>4, <1>5

\* A change is newer than the row it replaces.
LEMMA OrderStep ==
  ASSUME TypeOK, MirrorInv, InOrder, [Next]_vars PROVE InOrder'
<1>1. ASSUME UNCHANGED <<store, newest, clock>>, mirror' \subseteq mirror, ~crossed' => ~crossed
      PROVE  InOrder'
  BY <1>1 DEF InOrder
<1>2. ASSUME NEW r \in Request, EditTaken(r) PROVE InOrder'
  <2>1. PICK call : /\ mirror' = mirror \cup {call} /\ call.connector = edit[r].connector
                    /\ call.stamp = clock + 1 /\ Value(call) \in {0, clock + 1}
                    /\ newest' = [newest EXCEPT ![call.connector] = Value(call)]
                    /\ clock' = clock + 1 /\ store' = store /\ (~crossed' => ~crossed)
    <3> DEFINE c == [host |-> edit[r].host, connector |-> edit[r].connector,
                     stamp |-> clock + 1, removes |-> edit[r].removes]
    <3>1. /\ c.connector = edit[r].connector /\ c.stamp = clock + 1
          /\ Value(c) \in {0, clock + 1}
      BY DEF Value
    <3>2. /\ mirror' = mirror \cup {c} /\ newest' = [newest EXCEPT ![c.connector] = Value(c)]
          /\ clock' = clock + 1 /\ store' = store /\ (~crossed' => ~crossed)
      BY <1>2 DEF EditTaken
    <3> HIDE DEF c
    <3> QED
      BY <3>1, <3>2
  <2>2. newest \in [Connector -> 0 .. MaxVersion] /\ edit[r].connector \in Connector
    BY DEF TypeOK, Versions, ProxiedEdit
  <2>3. \A k \in Connector : newest'[k] \in {newest[k], 0, clock + 1}
    BY <2>1, <2>2
  <2>4. \A k \in Connector : newest'[k] <= clock' /\ store'[k] <= clock'
    BY <2>1, <2>3, Typed DEF InOrder
  <2>5. ASSUME ~crossed', NEW m \in mirror' PROVE store'[m.connector] < m.stamp
    <3>1. CASE m \in mirror
      BY <2>1, <2>5, <3>1 DEF InOrder
    <3>2. CASE m = call
      BY <2>1, <2>2, <3>2, Typed DEF InOrder
    <3> QED
      BY <2>1, <3>1, <3>2
  <2> QED
    BY <2>4, <2>5 DEF InOrder
<1>3. ASSUME NEW m \in mirror, NEW name \in {"api", "mcp"}, MirrorArrives(m, name)
      PROVE  InOrder'
  <2>1. /\ mirror' = mirror \ {m} /\ clock' = clock /\ newest' = newest
        /\ store' = [store EXCEPT ![m.connector] = Value(m)]
        /\ ~crossed' => /\ ~crossed
                        /\ \A n \in mirror : n.connector = m.connector => ~(n.stamp < m.stamp)
    BY <1>3 DEF MirrorArrives, Served
  <2>2. store \in [Connector -> 0 .. MaxVersion] /\ Value(m) <= m.stamp /\ m.stamp <= clock
    BY Typed DEF TypeOK, Versions, MirrorInv
  <2>3. \A k \in Connector : store'[k] = IF k = m.connector THEN Value(m) ELSE store[k]
    BY <2>1, <2>2
  <2>4. \A k \in Connector : newest'[k] <= clock' /\ store'[k] <= clock'
    BY <2>1, <2>2, <2>3, Typed DEF InOrder
  <2>5. ASSUME ~crossed', NEW n \in mirror' PROVE store'[n.connector] < n.stamp
    <3>1. n \in mirror /\ n.stamp # m.stamp
      BY <2>1 DEF MirrorInv
    <3>2. CASE n.connector = m.connector
      BY <2>1, <2>2, <2>3, <2>5, <3>1, <3>2, Typed
    <3>3. CASE n.connector # m.connector
      BY <2>1, <2>3, <2>5, <3>1, <3>3, Typed DEF InOrder
    <3> QED
      BY <3>2, <3>3
  <2> QED
    BY <2>4, <2>5 DEF InOrder
<1>4. ASSUME NEW c \in Context,
             \/ RebuildContext(c) \/ Answered(c) \/ PushArrives(c) \/ TaskFails(c)
             \/ DeleteContext(c) \/ \E h \in Host : ProvisionContext(c, h)
      PROVE  InOrder'
  BY <1>1, <1>4 DEF RebuildContext, Answered, PushArrives, TaskFails, DeleteContext,
                    ProvisionContext
<1>5. ASSUME NEW h \in Host, TearDown(h) PROVE InOrder'
  BY <1>1, <1>5 DEF TearDown
<1>6. ASSUME NEW r \in Request,
             EditRefused(r) \/ \E k \in Connector, h \in Host, removes \in BOOLEAN :
                                 EditAsked(r, k, h, removes)
      PROVE  InOrder'
  BY <1>1, <1>6 DEF EditRefused, EditAsked
<1>7. ASSUME NEW m \in mirror, MirrorLost(m) PROVE InOrder'
  BY <1>1, <1>7 DEF MirrorLost
<1>8. CASE Restart \/ UNCHANGED vars
  BY <1>1, <1>8 DEF Restart, vars
<1> QED
  BY <1>2, <1>3, <1>4, <1>5, <1>6, <1>7, <1>8 DEF Next
\* What a step may do to a host whose master it leaves alone.
Kept(h) ==
  /\ pushed'[h] = pushed[h] /\ master'[h] = master[h] /\ newest' = newest
  /\ mirror' \subseteq mirror
  /\ h \in Homes' => h \in Homes
  /\ InUse(h)' => InUse(h) \/ (Fresh(h) /\ host'[h] # "none")
  /\ host'[h] = "none" => host[h] = "none"
  /\ \A r \in Request : edit'[r].pc = "sent" /\ edit'[r].host = h
       => h \in Homes \/ (edit[r].pc = "sent" /\ edit[r].host = h)
  /\ \A c \in Context : task'[c].pc = "push" /\ task'[c].host = h => task'[c] = task[c]
  /\ \A c \in Context : task'[c].pc = "rebuild" /\ task'[c].host = h
       => h \in Homes \/ task'[c] = task[c]

LEMMA FreshKept == ASSUME NEW h \in Host, Kept(h), Fresh(h) PROVE Fresh(h)'
<1>1. ~pushed'[h] /\ master'[h] = None /\ h \notin Homes' /\ h \notin Homes
  BY DEF Fresh, Kept
<1>2. \A m \in mirror' : m.host # h
  BY DEF Fresh, Kept
<1>3. \A r \in Request : edit'[r].pc = "sent" => edit'[r].host # h
  BY <1>1 DEF Fresh, Kept
<1>4. ASSUME NEW c \in Context, task'[c].pc \in {"rebuild", "push"}, task'[c].host = h
      PROVE  FALSE
  <2>1. task'[c] = task[c]
    BY <1>1, <1>4 DEF Kept
  <2> QED
    BY <1>4, <2>1 DEF Fresh
<1> QED
  BY <1>1, <1>2, <1>3, <1>4 DEF Fresh

LEMMA SettledKept == ASSUME NEW h \in Host, Kept(h), Settled(h) PROVE Settled(h)'
<1>1. pushed'[h] = pushed[h] /\ master'[h] = master[h] /\ newest' = newest /\ mirror' \subseteq mirror
  BY DEF Kept
<1>2. \A m \in mirror' : m.host = h
  BY <1>1 DEF Settled
<1>3. \A k \in Connector : master'[h][k] = newest'[k] \/ Unedited(h, k)'
  BY <1>1 DEF Settled, Unedited
<1>4. ASSUME NEW c \in Context, task'[c].pc = "push", task'[c].host = h, NEW k \in Connector
      PROVE  /\ task'[c].rows[k] <= newest'[k]
             /\ master'[h][k] # newest'[k] => task'[c].rows[k] = newest'[k]
  <2>1. task'[c] = task[c]
    BY <1>4 DEF Kept
  <2> QED
    BY <1>1, <1>4, <2>1 DEF Settled
<1> QED
  BY <1>2, <1>3, <1>4 DEF Settled

\* A step that puts no second host to use, and moves no master but to settle it.
LEMMA Carried ==
  ASSUME OneHost, UsedHost, ~lost' /\ ~crossed' => ~lost /\ ~crossed,
         \A h \in Host : InUse(h)' \/ host'[h] = "none" =>
           \/ Kept(h)
           \/ host'[h] # "none" /\ (~lost' /\ ~crossed' => Settled(h)'),
         \A g, h \in Host : InUse(g)' /\ InUse(h)' => g = h
  PROVE  OneHost' /\ UsedHost'
<1>1. ASSUME NEW h \in Host, host'[h] = "none" PROVE Fresh(h)' /\ ~InUse(h)'
  <2>1. Kept(h) /\ host[h] = "none"
    BY <1>1 DEF Kept
  <2>2. Fresh(h) /\ ~InUse(h)
    BY <2>1 DEF OneHost
  <2> QED
    BY <1>1, <2>1, <2>2, FreshKept DEF Kept
<1>2. OneHost'
  BY <1>1 DEF OneHost
<1>3. ASSUME ~lost', ~crossed', NEW h \in Host, InUse(h)' PROVE Fresh(h)' \/ Settled(h)'
  <2>1. CASE Kept(h)
    <3>1. Fresh(h) \/ Settled(h)
      BY <1>3, <2>1 DEF Kept, UsedHost
    <3> QED
      BY <2>1, <3>1, FreshKept, SettledKept
  <2> QED
    BY <1>3, <2>1
<1>4. UsedHost'
  BY <1>3 DEF UsedHost
<1> QED
  BY <1>2, <1>4

\* No host is put to use.
LEMMA FewerInUse ==
  ASSUME OneHost, \A h \in Host : InUse(h)' => InUse(h)
  PROVE  \A g, h \in Host : InUse(g)' /\ InUse(h)' => g = h
  BY DEF OneHost

\* One context changes.
LEMMA TaskSet ==
  ASSUME TypeOK, NEW c \in Context, NEW row, task' = [task EXCEPT ![c] = row]
  PROVE  task'[c] = row /\ \A d \in Context : d # c => task'[d] = task[d]
  BY DEF TypeOK

LEMMA ProvisionHost ==
  ASSUME Habits = {}, TypeOK, HostInv, NEW c \in Context, NEW h \in Host, ProvisionContext(c, h)
  PROVE  OneHost' /\ UsedHost'
<1>1. /\ task' = [task EXCEPT ![c] = [pc |-> "provision", host |-> h, rows |-> None]]
      /\ host' = [host EXCEPT ![h] = "up"]
      /\ UNCHANGED <<master, home, edit, mirror, newest, pushed, lost, crossed>>
      /\ InUse(h) \/ (host[h] = "none" /\ \A g \in Host : ~InUse(g))
  BY DEF ProvisionContext, MayPlace
<1>2. PICK row : row = [pc |-> "provision", host |-> h, rows |-> None]
  OBVIOUS
<1>3. /\ task'[c].pc = "provision" /\ task'[c].host = h
      /\ \A d \in Context : d # c => task'[d] = task[d]
  <2>1. task' = [task EXCEPT ![c] = row] /\ row.pc = "provision" /\ row.host = h
    BY <1>1, <1>2
  <2> QED
    BY <2>1, TaskSet
<1>4. Homes' = Homes
  BY <1>1 DEF Homes
<1>5. \A g \in Host : InUse(g)' => InUse(g) \/ g = h
  BY <1>3, <1>4 DEF InUse
<1>6. \A f, g \in Host : InUse(f)' /\ InUse(g)' => f = g
  BY <1>1, <1>5 DEF HostInv, OneHost
<1>7. host'[h] = "up" /\ \A g \in Host : g # h => host'[g] = host[g]
  BY <1>1 DEF TypeOK
<1>8. ASSUME NEW g \in Host PROVE Kept(g)
  <2>1. InUse(g)' => InUse(g) \/ (Fresh(g) /\ host'[g] # "none")
    BY <1>1, <1>5, <1>7 DEF HostInv, OneHost
  <2>2. host'[g] = "none" => host[g] = "none"
    BY <1>7
  <2> QED
    BY <1>1, <1>3, <1>4, <2>1, <2>2 DEF Kept
<1> QED
  BY <1>1, <1>6, <1>8, Carried DEF HostInv

\* Steps that put no host to use and tell no master anything.
Quiet ==
  \/ \E c \in Context : RebuildContext(c) \/ TaskFails(c) \/ DeleteContext(c)
  \/ \E h \in Host : TearDown(h)
  \/ \E r \in Request : EditRefused(r) \/ \E k \in Connector, h \in Host, removes \in BOOLEAN :
                                            EditAsked(r, k, h, removes)
  \/ \E m \in mirror : MirrorLost(m) \/ \E name \in {"api", "mcp"} : MirrorArrives(m, name)
  \/ Restart \/ UNCHANGED vars

LEMMA QuietHost == ASSUME TypeOK, HostInv, Quiet PROVE OneHost' /\ UsedHost'
<1>0. OneHost /\ UsedHost
  BY DEF HostInv
<1>1. ASSUME UNCHANGED <<host, master, newest, pushed>>, mirror' \subseteq mirror,
             ~lost' /\ ~crossed' => ~lost /\ ~crossed,
             Homes' \subseteq Homes, \A h \in Host : InUse(h)' => InUse(h),
             \A r \in Request : edit'[r].pc = "sent"
               => edit'[r].host \in Homes \/ (edit[r].pc = "sent" /\ edit[r].host = edit'[r].host),
             \A c \in Context : /\ task'[c].pc = "push" => task'[c] = task[c]
                                /\ task'[c].pc = "rebuild"
                                     => task'[c].host \in Homes \/ task'[c] = task[c]
      PROVE  OneHost' /\ UsedHost'
  <2>1. \A h \in Host : Kept(h)
    BY <1>1 DEF Kept
  <2> QED
    BY <1>0, <1>1, <2>1, Carried, FewerInUse
<1>2. ASSUME NEW c \in Context, RebuildContext(c) PROVE OneHost' /\ UsedHost'
  <2>1. PICK row : row = [pc |-> "rebuild", host |-> home[c], rows |-> None]
    OBVIOUS
  <2>2. /\ row.pc = "rebuild" /\ row.host \in Homes
        /\ task' = [task EXCEPT ![c] = row]
        /\ UNCHANGED <<host, master, home, edit, mirror, newest, pushed, lost, crossed>>
    BY <1>2, <2>1 DEF RebuildContext, Homes
  <2>3. task'[c] = row /\ \A d \in Context : d # c => task'[d] = task[d]
    BY <2>2, TaskSet
  <2>4. Homes' = Homes
    BY <2>2 DEF Homes
  <2>5. \A h \in Host : InUse(h)' => InUse(h)
    BY <2>2, <2>3, <2>4 DEF InUse
  <2> QED
    BY <1>1, <2>2, <2>3, <2>4, <2>5
<1>3. ASSUME NEW c \in Context, TaskFails(c) PROVE OneHost' /\ UsedHost'
  <2>1. /\ task'[c] = IdleTask /\ \A d \in Context : d # c => task'[d] = task[d]
        /\ UNCHANGED <<host, master, home, edit, mirror, newest, pushed, lost, crossed>>
    BY <1>3, TaskSet DEF TaskFails
  <2>2. IdleTask.pc = "idle"
    BY DEF IdleTask
  <2>3. Homes' = Homes
    BY <2>1 DEF Homes
  <2>4. \A h \in Host : InUse(h)' => InUse(h)
    BY <2>1, <2>2, <2>3 DEF InUse
  <2> QED
    BY <1>1, <2>1, <2>2, <2>3, <2>4
<1>4. ASSUME NEW c \in Context, DeleteContext(c) PROVE OneHost' /\ UsedHost'
  <2>1. UNCHANGED <<host, master, task, edit, mirror, newest, pushed, lost, crossed>>
    BY <1>4 DEF DeleteContext
  <2>2. Homes' \subseteq Homes
    BY <1>4 DEF DeleteContext, Homes, TypeOK
  <2>3. \A h \in Host : InUse(h)' => InUse(h)
    BY <2>1, <2>2 DEF InUse
  <2> QED
    BY <1>1, <2>1, <2>2, <2>3
<1>5. ASSUME NEW h \in Host, TearDown(h) PROVE OneHost' /\ UsedHost'
  <2>1. /\ ~InUse(h) /\ host' = [host EXCEPT ![h] = "gone"]
        /\ master' = [master EXCEPT ![h] = None] /\ pushed' = [pushed EXCEPT ![h] = FALSE]
        /\ mirror' \subseteq mirror /\ (~lost' => ~lost)
        /\ UNCHANGED <<home, task, edit, newest, crossed>>
    BY <1>5 DEF TearDown
  <2>2. Homes' = Homes
    BY <2>1 DEF Homes
  <2>3. \A g \in Host : InUse(g)' => InUse(g)
    BY <2>1, <2>2 DEF InUse
  <2>4. /\ host'[h] = "gone"
        /\ \A g \in Host : g # h => /\ host'[g] = host[g] /\ master'[g] = master[g]
                                    /\ pushed'[g] = pushed[g]
    BY <2>1 DEF TypeOK
  <2>5. ASSUME NEW g \in Host, InUse(g)' \/ host'[g] = "none" PROVE Kept(g)
    <3>1. g # h
      BY <2>1, <2>3, <2>4, <2>5
    <3> QED
      BY <2>1, <2>2, <2>3, <2>4, <3>1 DEF Kept
  <2> QED
    BY <1>0, <2>1, <2>3, <2>5, Carried, FewerInUse
<1>6. ASSUME NEW r \in Request, EditRefused(r) PROVE OneHost' /\ UsedHost'
  <2>1. /\ edit' = [edit EXCEPT ![r] = IdleEdit] /\ IdleEdit.pc = "idle"
        /\ UNCHANGED <<host, master, home, task, mirror, newest, pushed, lost, crossed>>
    BY <1>6 DEF EditRefused, IdleEdit
  <2>2. edit'[r] = IdleEdit /\ \A q \in Request : q # r => edit'[q] = edit[q]
    BY <2>1 DEF TypeOK
  <2>3. Homes' = Homes /\ \A g \in Host : InUse(g)' => InUse(g)
    BY <2>1 DEF Homes, InUse
  <2> QED
    BY <1>1, <2>1, <2>2, <2>3
<1>7. ASSUME NEW r \in Request, NEW k \in Connector, NEW h \in Host, NEW removes \in BOOLEAN,
             EditAsked(r, k, h, removes)
      PROVE  OneHost' /\ UsedHost'
  <2>1. PICK row : row = [pc |-> "sent", host |-> h, connector |-> k, removes |-> removes]
    OBVIOUS
  <2>2. /\ edit' = [edit EXCEPT ![r] = row] /\ row.host = h /\ h \in Homes
        /\ UNCHANGED <<host, master, home, task, mirror, newest, pushed, lost, crossed>>
    BY <1>7, <2>1 DEF EditAsked
  <2>3. edit'[r] = row /\ \A q \in Request : q # r => edit'[q] = edit[q]
    BY <2>2 DEF TypeOK
  <2>4. Homes' = Homes /\ \A g \in Host : InUse(g)' => InUse(g)
    BY <2>2 DEF Homes, InUse
  <2> QED
    BY <1>1, <2>2, <2>3, <2>4
<1>8. ASSUME NEW m \in mirror, MirrorLost(m) \/ \E name \in {"api", "mcp"} : MirrorArrives(m, name)
      PROVE  OneHost' /\ UsedHost'
  <2>1. /\ mirror' \subseteq mirror /\ (~lost' => ~lost) /\ (~crossed' => ~crossed)
        /\ UNCHANGED <<host, master, home, task, edit, newest, pushed>>
    <3>1. CASE MirrorLost(m)
      BY <3>1 DEF MirrorLost
    <3>2. ASSUME NEW name \in {"api", "mcp"}, MirrorArrives(m, name)
          PROVE  /\ mirror' \subseteq mirror /\ lost' = lost /\ (~crossed' => ~crossed)
                 /\ UNCHANGED <<host, master, home, task, edit, newest, pushed>>
      BY <3>2 DEF MirrorArrives
    <3> QED
      BY <1>8, <3>1, <3>2
  <2>2. Homes' = Homes /\ \A g \in Host : InUse(g)' => InUse(g)
    BY <2>1 DEF Homes, InUse
  <2> QED
    BY <1>1, <2>1, <2>2
<1>9. CASE Restart
  <2>1. /\ \A c \in Context : task'[c].pc = "idle"
        /\ \A r \in Request : edit'[r].pc = "idle"
        /\ UNCHANGED <<host, master, home, mirror, newest, pushed, lost, crossed>>
    BY <1>9 DEF Restart, IdleTask, IdleEdit
  <2>2. Homes' = Homes
    BY <2>1 DEF Homes
  <2>3. \A g \in Host : InUse(g)' => InUse(g)
    BY <2>1, <2>2 DEF InUse
  <2> QED
    BY <1>1, <2>1, <2>2, <2>3
<1>10. CASE UNCHANGED vars
  <2>1. UNCHANGED <<host, master, home, task, edit, mirror, newest, pushed, lost, crossed>>
    BY <1>10 DEF vars
  <2>2. Homes' = Homes /\ \A g \in Host : InUse(g)' => InUse(g)
    BY <2>1 DEF Homes, InUse
  <2> QED
    BY <1>1, <2>1, <2>2
<1> QED
  BY <1>2, <1>3, <1>4, <1>5, <1>6, <1>7, <1>8, <1>9, <1>10 DEF Quiet
\* Of the changes of a connector that are under way, one is the last.
LEMMA LastExists ==
  ASSUME TypeOK, MirrorInv, NEW k, NEW n \in mirror, n.connector = k
  PROVE  \E m \in mirror : LastOf(k, m)
<1> DEFINE D == {clock - m.stamp : m \in {l \in mirror : l.connector = k}}
<1>1. \A m \in mirror : m.stamp \in Nat /\ clock \in Nat /\ m.stamp <= clock
  BY Typed DEF MirrorInv
<1>2. D \subseteq Nat /\ D # {}
  BY <1>1
<1>3. PICK d \in D : \A e \in D : ~(<<e, d>> \in OpToRel(<, Nat))
  <2> HIDE DEF D
  <2> QED
    BY <1>2, WFMin, NatLessThanWellFounded
<1>4. \A e \in D : d <= e
  <2> HIDE DEF D
  <2>1. ASSUME NEW e \in D, e < d PROVE FALSE
    <3>1. PICK p : p = <<e, d>>
      OBVIOUS
    <3>2. p \in Nat \X Nat /\ p[1] < p[2]
      BY <1>2, <2>1, <3>1
    <3>3. p \in OpToRel(<, Nat)
      BY <3>2 DEF OpToRel
    <3> QED
      BY <1>3, <3>1, <3>3
  <2> QED
    BY <1>2, <2>1
<1>5. PICK m \in mirror : m.connector = k /\ d = clock - m.stamp
  OBVIOUS
<1>6. ASSUME NEW l \in mirror, l.connector = k PROVE l.stamp <= m.stamp
  <2>1. clock - m.stamp <= clock - l.stamp
    BY <1>4, <1>5, <1>6
  <2> QED
    BY <1>1, <2>1
<1> QED
  BY <1>5, <1>6 DEF LastOf

\* When the store is read for a push, its rows are not behind the edits.
LEMMA StoreBelow ==
  ASSUME TypeOK, MirrorInv, InOrder, ~lost, ~crossed, NEW h \in Host, ~Behind(h),
         NEW k \in Connector
  PROVE  /\ store[k] <= newest[k]
         /\ (\A m \in mirror : m.connector # k) => store[k] = newest[k]
<1>1. (\A m \in mirror : m.connector # k) => store[k] = newest[k]
  BY DEF MirrorInv
<1>2. CASE \A m \in mirror : m.connector # k
  BY <1>1, <1>2, Typed
<1>3. ASSUME NEW n \in mirror, n.connector = k PROVE store[k] <= newest[k]
  <2>1. PICK m \in mirror : LastOf(k, m)
    BY <1>3, LastExists
  <2>2. m.connector = k /\ Value(m) = newest[k] /\ store[k] < m.stamp
    BY <2>1 DEF LastOf, MirrorInv, InOrder
  <2>3. m.removes => store[k] = 0
    BY <2>2 DEF Behind
  <2> QED
    BY <2>2, <2>3, Typed DEF Value
<1> QED
  BY <1>1, <1>2, <1>3

LEMMA AnsweredHost ==
  ASSUME TypeOK, MirrorInv, HostInv, NEW c \in Context, Answered(c)
  PROVE  OneHost' /\ UsedHost'
<1>0. OneHost /\ UsedHost /\ InOrder
  BY DEF HostInv
<1>1. PICK h \in Host : h = task[c].host
  BY DEF Answered, TypeOK
<1>2. PICK row : /\ task' = [task EXCEPT ![c] = row]
                 /\ row.pc = "idle" \/ (row.pc = "push" /\ row.host = h /\ row.rows = store)
  <2>1. PICK row : row = IF store = None THEN IdleTask
                         ELSE [pc |-> "push", host |-> h, rows |-> store]
    OBVIOUS
  <2>2. task' = [task EXCEPT ![c] = row]
    BY <1>1, <2>1 DEF Answered
  <2>3. IdleTask.pc = "idle"
    BY DEF IdleTask
  <2>4. PICK push : push = [pc |-> "push", host |-> h, rows |-> store]
    OBVIOUS
  <2>5. push.pc = "push" /\ push.host = h /\ push.rows = store
    BY <2>4
  <2>6. row = IdleTask \/ row = push
    BY <2>1, <2>4
  <2> QED
    BY <2>2, <2>3, <2>5, <2>6
<1>3. task'[c] = row /\ \A d \in Context : d # c => task'[d] = task[d]
  BY <1>2, TaskSet
<1>4. /\ home' = IF task[c].pc = "provision" THEN [home EXCEPT ![c] = h] ELSE home
      /\ task[c].pc \in {"provision", "rebuild"}
      /\ pushed' = IF store = None /\ host[h] = "up" THEN [pushed EXCEPT ![h] = TRUE] ELSE pushed
      /\ (~crossed' => ~crossed /\ ~Behind(h))
      /\ UNCHANGED <<store, host, master, edit, mirror, newest, lost>>
  BY <1>1 DEF Answered
<1>5. /\ Homes' \subseteq Homes \cup {h}
      /\ task[c].pc = "rebuild" => Homes' = Homes
  BY <1>4 DEF Homes, TypeOK
<1>6. task[c].pc = "provision" => InUse(h)
  BY <1>1 DEF InUse
<1>7. \A g \in Host : InUse(g)' => InUse(g)
  BY <1>2, <1>3, <1>4, <1>5, <1>6 DEF InUse
<1>8. host'[h] # "none"
  <2>1. ~(Fresh(h) /\ ~InUse(h))
    BY <1>1, <1>4, <1>6 DEF Fresh
  <2> QED
    BY <1>0, <1>4, <2>1 DEF OneHost
<1>9. ASSUME NEW g \in Host, g # h PROVE Kept(g)
  <2>1. pushed'[g] = pushed[g] /\ master' = master /\ newest' = newest /\ mirror' = mirror
    BY <1>4, <1>9 DEF TypeOK
  <2>2. g \in Homes' => g \in Homes
    BY <1>5, <1>9
  <2>3. \A d \in Context : task'[d].pc \in {"push", "rebuild"} /\ task'[d].host = g
                             => task'[d] = task[d]
    BY <1>2, <1>3, <1>9
  <2> QED
    BY <1>4, <1>7, <2>1, <2>2, <2>3 DEF Kept
<1>10. ASSUME ~lost', ~crossed', InUse(h)' PROVE Settled(h)'
  <2>0. ~lost /\ ~crossed /\ ~Behind(h) /\ InUse(h)
    BY <1>4, <1>7, <1>10
  <2>1. \A m \in mirror : m.host = h
    BY <2>0 DEF Behind
  <2>2. \A k \in Connector : /\ store[k] <= newest[k]
                             /\ (\A m \in mirror : m.connector # k) => store[k] = newest[k]
    BY <1>0, <2>0, StoreBelow
  <2>3. \A k \in Connector : master[h][k] = newest[k] \/ Unedited(h, k)
    <3>1. CASE Settled(h)
      BY <3>1 DEF Settled
    <3>2. CASE Fresh(h)
      BY <2>1, <3>2 DEF Fresh, Unedited, None
    <3> QED
      BY <1>0, <2>0, <3>1, <3>2 DEF UsedHost
  <2>4. \A k \in Connector : master[h][k] # newest[k] => store[k] = newest[k]
    BY <2>2, <2>3 DEF Unedited
  <2>5. ASSUME NEW d \in Context, task'[d].pc = "push", task'[d].host = h, NEW k \in Connector
        PROVE  /\ task'[d].rows[k] <= newest[k]
               /\ master[h][k] # newest[k] => task'[d].rows[k] = newest[k]
    <3>1. CASE d = c
      BY <1>2, <1>3, <2>2, <2>4, <2>5, <3>1
    <3>2. CASE d # c
      <4>1. task[d].pc = "push" /\ task[d].host = h /\ task'[d] = task[d]
        BY <1>3, <2>5, <3>2
      <4>2. Settled(h)
        BY <1>0, <2>0, <4>1 DEF UsedHost, Fresh
      <4> QED
        BY <4>1, <4>2 DEF Settled
    <3> QED
      BY <3>1, <3>2
  <2>6. ASSUME NEW k \in Connector PROVE master[h][k] = newest[k] \/ Unedited(h, k)'
    <3>1. CASE pushed' = pushed
      BY <1>4, <2>3, <3>1 DEF Unedited
    <3>2. CASE store = None
      <4>1. store[k] = 0
        BY <3>2 DEF None
      <4>2. master[h][k] = newest[k]
        BY <2>3, <2>4, <4>1 DEF Unedited
      <4> QED
        BY <4>2
    <3> QED
      BY <1>4, <3>1, <3>2
  <2> QED
    BY <1>4, <2>1, <2>5, <2>6 DEF Settled
<1>11. ASSUME NEW g \in Host, InUse(g)' \/ host'[g] = "none"
       PROVE  Kept(g) \/ (host'[g] # "none" /\ (~lost' /\ ~crossed' => Settled(g)'))
  BY <1>8, <1>9, <1>10, <1>11
<1> QED
  BY <1>0, <1>4, <1>7, <1>11, Carried, FewerInUse
\* The push brings what the master lacked, and nothing older than what it has.
LEMMA PushHost ==
  ASSUME TypeOK, HostInv, NEW c \in Context, PushArrives(c) PROVE OneHost' /\ UsedHost'
<1>0. OneHost /\ UsedHost
  BY DEF HostInv
<1>1. PICK h \in Host : h = task[c].host
  BY DEF PushArrives, TypeOK
<1>2. /\ task[c].pc = "push" /\ host[h] = "up"
      /\ master' = [master EXCEPT ![h] = Imported(master[h], task[c].rows)]
      /\ pushed' = [pushed EXCEPT ![h] = TRUE] /\ task' = [task EXCEPT ![c] = IdleTask]
      /\ UNCHANGED <<host, home, edit, mirror, newest, lost, crossed>>
  BY <1>1 DEF PushArrives
<1>3. /\ task'[c].pc = "idle" /\ \A d \in Context : d # c => task'[d] = task[d]
  <2>1. IdleTask.pc = "idle"
    BY DEF IdleTask
  <2> QED
    BY <1>2, <2>1, TaskSet
<1>4. Homes' = Homes
  BY <1>2 DEF Homes
<1>5. \A g \in Host : InUse(g)' => InUse(g)
  BY <1>3, <1>4 DEF InUse
<1>6. ASSUME NEW g \in Host, g # h PROVE Kept(g)
  <2>1. pushed'[g] = pushed[g] /\ master'[g] = master[g]
    BY <1>2, <1>6 DEF TypeOK
  <2> QED
    BY <1>2, <1>3, <1>4, <1>5, <2>1 DEF Kept
<1>7. ASSUME ~lost', ~crossed', InUse(h)' PROVE Settled(h)'
  <2>1. Settled(h)
    <3>1. ~Fresh(h)
      BY <1>1, <1>2 DEF Fresh
    <3> QED
      BY <1>0, <1>2, <1>5, <1>7, <3>1 DEF UsedHost
  <2>2. ASSUME NEW k \in Connector PROVE master'[h][k] = newest[k]
    <3>1. master'[h][k] = IF task[c].rows[k] > master[h][k] THEN task[c].rows[k] ELSE master[h][k]
      BY <1>2 DEF TypeOK, Imported
    <3>2. /\ task[c].rows[k] <= newest[k]
          /\ master[h][k] # newest[k] => task[c].rows[k] = newest[k] /\ master[h][k] = 0
      BY <1>1, <1>2, <2>1 DEF Settled, Unedited
    <3> QED
      BY <3>1, <3>2, Typed
  <2>3. ASSUME NEW d \in Context, task'[d].pc = "push", task'[d].host = h, NEW k \in Connector
        PROVE  task'[d].rows[k] <= newest[k]
    <3>1. task'[d] = task[d]
      BY <1>3, <2>3
    <3> QED
      BY <2>1, <2>3, <3>1 DEF Settled
  <2>4. \A m \in mirror : m.host = h
    BY <2>1 DEF Settled
  <2> QED
    BY <1>2, <2>2, <2>3, <2>4 DEF Settled
<1>8. ASSUME NEW g \in Host, InUse(g)' \/ host'[g] = "none"
      PROVE  Kept(g) \/ (host'[g] # "none" /\ (~lost' /\ ~crossed' => Settled(g)'))
  BY <1>2, <1>6, <1>7, <1>8
<1> QED
  BY <1>0, <1>2, <1>5, <1>8, Carried, FewerInUse

\* The master has the edit; the rows that are pushed are not behind it.
LEMMA EditTakenHost ==
  ASSUME TypeOK, HostInv, NEW r \in Request, EditTaken(r) PROVE OneHost' /\ UsedHost'
<1>0. OneHost /\ UsedHost /\ InOrder
  BY DEF HostInv
<1>1. PICK h \in Host, k \in Connector : h = edit[r].host /\ k = edit[r].connector
  BY DEF EditTaken, TypeOK, ProxiedEdit
<1>2. PICK call :
        /\ call = [host |-> h, connector |-> k, stamp |-> clock + 1, removes |-> edit[r].removes]
  OBVIOUS
<1>3. /\ call.host = h /\ call.connector = k /\ call.removes \in BOOLEAN
      /\ Value(call) = IF call.removes THEN 0 ELSE clock + 1
  BY <1>2 DEF Value, TypeOK, ProxiedEdit
<1>4. /\ edit[r].pc = "sent" /\ mirror' = mirror \cup {call}
      /\ master' = [master EXCEPT ![h][k] = Value(call)]
      /\ newest' = [newest EXCEPT ![k] = Value(call)]
      /\ edit' = [edit EXCEPT ![r] = IdleEdit]
      /\ UNCHANGED <<host, home, task, pushed, lost>>
  BY <1>1, <1>2 DEF EditTaken
<1>5. ~crossed' => /\ ~crossed
                   /\ InUse(h) \/ \A g \in Host : ~InUse(g)
                   /\ call.removes => \A c \in Context : task[c].pc = "push" => task[c].rows[k] = 0
  BY <1>1, <1>2 DEF EditTaken
<1>6. Homes' = Homes /\ \A g \in Host : InUse(g)' <=> InUse(g)
  BY <1>4 DEF Homes, InUse
<1>7. ~Fresh(h)
  BY <1>1, <1>4 DEF Fresh
<1>8. \A q \in Request : edit'[q].pc = "sent" => edit'[q] = edit[q]
  BY <1>4 DEF TypeOK, IdleEdit
<1>9. /\ \A g \in Host : g # h => master'[g] = master[g]
      /\ \A j \in Connector : master'[h][j] = IF j = k THEN Value(call) ELSE master[h][j]
      /\ \A j \in Connector : newest'[j] = IF j = k THEN Value(call) ELSE newest[j]
  BY <1>4 DEF TypeOK, Versions
<1>10. ASSUME NEW g \in Host, host'[g] = "none" PROVE Fresh(g)' /\ ~InUse(g)'
  <2>1. Fresh(g) /\ ~InUse(g) /\ g # h
    BY <1>0, <1>4, <1>7, <1>10 DEF OneHost
  <2>2. master'[g] = None /\ \A m \in mirror' : m.host # g
    BY <1>3, <1>4, <1>9, <2>1 DEF Fresh
  <2> QED
    BY <1>4, <1>6, <1>8, <2>1, <2>2 DEF Fresh
<1>11. OneHost'
  BY <1>0, <1>6, <1>10 DEF OneHost
<1>12. ASSUME ~lost', ~crossed', NEW g \in Host, InUse(g)' PROVE Settled(g)'
  <2>1. g = h /\ ~crossed /\ ~lost
    BY <1>0, <1>4, <1>5, <1>6, <1>12 DEF OneHost
  <2>2. Settled(h)
    BY <1>0, <1>6, <1>7, <1>12, <2>1 DEF UsedHost
  <2>3. \A m \in mirror' : m.host = h
    BY <1>3, <1>4, <2>2 DEF Settled
  <2>4. ASSUME NEW j \in Connector PROVE master'[h][j] = newest'[j] \/ Unedited(h, j)'
    <3>1. CASE j = k
      BY <1>9, <3>1
    <3>2. CASE j # k
      <4>1. master[h][j] = newest[j] \/ Unedited(h, j)
        BY <2>2 DEF Settled
      <4> QED
        BY <1>3, <1>4, <1>9, <3>2, <4>1 DEF Unedited
    <3> QED
      BY <3>1, <3>2
  <2>5. ASSUME NEW c \in Context, task[c].pc = "push", task[c].host = h, NEW j \in Connector
        PROVE  /\ task[c].rows[j] <= newest'[j]
               /\ master'[h][j] # newest'[j] => task[c].rows[j] = newest'[j]
    <3>1. /\ task[c].rows[j] <= newest[j]
          /\ master[h][j] # newest[j] => task[c].rows[j] = newest[j]
      BY <2>2, <2>5 DEF Settled
    <3>2. CASE j # k
      BY <1>9, <3>1, <3>2
    <3>3. CASE j = k
      <4>1. newest[j] <= clock
        BY <1>0 DEF InOrder
      <4>2. task[c].rows[j] <= Value(call)
        BY <1>3, <1>5, <1>12, <2>5, <3>1, <3>3, <4>1, Typed
      <4> QED
        BY <1>9, <3>3, <4>2
    <3> QED
      BY <3>2, <3>3
  <2> QED
    BY <1>4, <2>1, <2>3, <2>4, <2>5 DEF Settled
<1> QED
  BY <1>11, <1>12 DEF UsedHost

LEMMA HostStep ==
  ASSUME Habits = {}, StoreInv, HostInv, [Next]_vars PROVE HostInv'
<1>0. TypeOK /\ MirrorInv
  BY DEF StoreInv
<1>1. InOrder'
  BY <1>0, OrderStep DEF HostInv
<1>2. ASSUME NEW c \in Context, NEW h \in Host, ProvisionContext(c, h)
      PROVE  OneHost' /\ UsedHost'
  BY <1>0, <1>2, ProvisionHost
<1>3. ASSUME NEW c \in Context, Answered(c) PROVE OneHost' /\ UsedHost'
  BY <1>0, <1>3, AnsweredHost
<1>4. ASSUME NEW c \in Context, PushArrives(c) PROVE OneHost' /\ UsedHost'
  BY <1>0, <1>4, PushHost
<1>5. ASSUME NEW r \in Request, EditTaken(r) PROVE OneHost' /\ UsedHost'
  BY <1>0, <1>5, EditTakenHost
<1>6. ASSUME Quiet PROVE OneHost' /\ UsedHost'
  BY <1>0, <1>6, QuietHost
<1>7. OneHost' /\ UsedHost'
  BY <1>2, <1>3, <1>4, <1>5, <1>6 DEF Next, Quiet
<1> QED
  BY <1>1, <1>7 DEF HostInv

LEMMA InitHost == ASSUME Init PROVE HostInv
<1>1. /\ mirror = {} /\ \A h \in Host : ~pushed[h] /\ master[h] = None
      /\ \A r \in Request : edit[r].pc = "idle"
      /\ \A c \in Context : task[c].pc = "idle" /\ home[c] = NoHost
  BY DEF Init, IdleTask, IdleEdit
<1>2. Homes = {} /\ \A h \in Host : ~InUse(h)
  BY <1>1 DEF Homes, InUse
<1>3. \A h \in Host : Fresh(h)
  BY <1>1, <1>2 DEF Fresh
<1>4. OneHost /\ UsedHost
  BY <1>2, <1>3 DEF OneHost, UsedHost
<1>5. InOrder
  BY <1>1 DEF Init, InOrder, None
<1> QED
  BY <1>4, <1>5 DEF HostInv

\* An MCP client meets the connectors as they were edited last on the host of its
\* workspace, through every provision, rebuild, delete, tear-down and restart, if no change
\* was lost or overtaken, and the workspace neither spreads over hosts nor comes back to
\* one it left (_rehydrate_connectors, _resolve_workspace).
THEOREM MastersFollow == ASSUME Habits = {} PROVE Spec => []MastersAgree
<1>1. StoreInv /\ HostInv /\ [Next]_vars => HostInv'
  BY HostStep
<1>2. ASSUME TypeOK, HostInv PROVE MastersAgree
  <2> SUFFICES ASSUME ~lost, ~crossed, NEW h \in Resolved, pushed[h] PROVE master[h] = newest
    BY DEF MastersAgree
  <2>1. h \in Homes /\ h \in Host /\ InUse(h)
    BY <1>2 DEF Resolved, Homes, InUse, TypeOK
  <2>2. Settled(h)
    BY <1>2, <2>1 DEF HostInv, UsedHost, Fresh
  <2>3. \A k \in Connector : master[h][k] = newest[k]
    BY <2>2 DEF Settled, Unedited
  <2> QED
    BY <1>2, <2>1, <2>3 DEF TypeOK, Versions
<1>3. StoreInv => TypeOK
  BY DEF StoreInv
<1> QED
  BY <1>1, <1>2, <1>3, InitHost, StoreInvariant, PTL DEF Spec
=============================================================================
