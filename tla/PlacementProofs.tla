--------------------------- MODULE PlacementProofs ---------------------------
(***************************************************************************)
(* Proofs about modules Placement and PlacementAccounting, for every       *)
(* number of workspaces, plans, contexts, hosts, requests, sweepers and    *)
(* restarts.  First the inductive invariant; then the refinement: every    *)
(* step of a handler, task or sweep is a step of the pool of hosts, or     *)
(* leaves it unchanged; last the accounts of a host: the use on record     *)
(* against what contexts take of it, which are sums (SumTheorems).         *)
(***************************************************************************)
EXTENDS PlacementAccounting, SumTheorems, TLAPS

(* Capacity vectors *)

LEMMA OfferedTyped == Offered \subseteq Vector
BY PlacementAssumption DEF Offered

LEMMA ZeroTyped == Zero \in Vector
BY DEF Zero, Vector

LEMMA ChargeTyped == \A u, v \in Vector : Charge(u, v) \in Vector
BY DEF Charge, Vector

LEMMA RefundTyped == \A u, v \in Vector : Refund(u, v) \in Vector
BY DEF Refund, Vector

\* A reservation that fits leaves the host within its budget.
LEMMA ChargeBounded ==
  \A u, v, b \in Vector : Fits(u, v, b) => \A r \in Resource : Charge(u, v)[r] <= b[r]
BY DEF Charge, Fits, Vector

\* A release never raises the use, so it cannot break the budget.
LEMMA RefundBounded ==
  \A u, v \in Vector : \A r \in Resource : Refund(u, v)[r] <= u[r]
BY DEF Refund, Vector

-----------------------------------------------------------------------------
(* The initial state *)

LEMMA InitInductive == Init => Inductive
<1> SUFFICES ASSUME Init PROVE Inductive
  OBVIOUS
<1> USE DEF Init, NoHostRow, NoContextRow, IdleProv, IdleTerm, IdleRebuild
<1>1. \A p \in Plan : planCaps[p] \in CapChoices[p]
  BY PlacementAssumption
<1>2. \A p \in Plan : planCaps[p] \in Offered
  BY <1>1 DEF Offered
<1>3. TypeOK
  <2>1. AnyPlan \in Plan /\ AnyWorkspace \in Workspace
    BY PlacementAssumption DEF AnyPlan, AnyWorkspace
  <2>2. planCaps \in [Plan -> Vector]
    BY <1>2, OfferedTyped
  <2> QED
    BY <2>1, <2>2, ZeroTyped, PlacementAssumption
       DEF TypeOK, HostRow, ContextRow, ProvTask, TermTask, RebuildTask, NoHost
<1>4. CapsOffered
  BY <1>2 DEF CapsOffered
<1>5. ReadyHosts
  BY DEF ReadyHosts
<1>6. ProvPhases
  BY DEF ProvPhases, Ordering
<1>7. TermPhases
  BY DEF TermPhases
<1>8. WithinBudget
  <2>1. \A h \in Host : hosts[h].used = Zero /\ hosts[h].budget = Zero
    OBVIOUS
  <2>2. \A r \in Resource : Zero[r] <= Zero[r]
    BY DEF Zero
  <2> HIDE DEF Init, NoHostRow
  <2> QED
    BY <2>1, <2>2 DEF WithinBudget
<1>9. DedicatedIsolation
  BY DEF DedicatedIsolation
<1>10. LinkedHostReady /\ RecordedNeverLost
  BY DEF LinkedHostReady, RecordedNeverLost, ContextExists
<1> QED
  BY <1>3, <1>4, <1>5, <1>6, <1>7, <1>8, <1>9, <1>10 DEF Inductive

-----------------------------------------------------------------------------
(* Creating and placing a context *)

LEMMA CreateContextInductive ==
  ASSUME Inductive, NEW w \in Workspace, NEW c \in Context, CreateContext(w, c)
  PROVE  Inductive'
<1>0. /\ TypeOK /\ CapsOffered /\ ReadyHosts /\ ProvPhases /\ TermPhases
      /\ WithinBudget /\ DedicatedIsolation /\ LinkedHostReady /\ RecordedNeverLost
  BY DEF Inductive
<1>1. /\ ctxs[c].status = "none"
      /\ ctxs' = [ctxs EXCEPT ![c] = [status |-> "provisioning", ws |-> w,
                                     host |-> NoHost, caps |-> planCaps[role[w]]]]
      /\ prov' = [prov EXCEPT ![c] = [IdleProv EXCEPT !.pc = "start", !.plan = role[w]]]
      /\ UNCHANGED <<hosts, ec2, role, planCaps, rebuild, term, crashes>>
  BY DEF CreateContext
<1>2. /\ role[w] \in Plan /\ planCaps[role[w]] \in Vector
      /\ planCaps[role[w]] \in Offered
  BY <1>0 DEF TypeOK, CapsOffered
<1>3. /\ ctxs'[c].status = "provisioning" /\ ctxs'[c].host = NoHost
      /\ ctxs'[c].caps = planCaps[role[w]]
      /\ \A d \in Context : d # c => ctxs'[d] = ctxs[d]
      /\ prov'[c].pc = "start" /\ prov'[c].host = NoHost
      /\ \A d \in Context : d # c => prov'[d] = prov[d]
  BY <1>0, <1>1 DEF TypeOK, ContextRow, ProvTask, IdleProv
<1>4. NoHost \notin Host
  BY DEF NoHost, Host
<1>5. TypeOK'
  <2>1. ctxs' \in [Context -> ContextRow]
    BY <1>0, <1>1, <1>2 DEF TypeOK, ContextRow
  <2>2. prov' \in [Context -> ProvTask]
    BY <1>0, <1>1, <1>2, ZeroTyped DEF TypeOK, ProvTask, IdleProv
  <2> QED
    BY <1>0, <1>1, <2>1, <2>2 DEF TypeOK
<1>6. CapsOffered'
  BY <1>0, <1>1, <1>2, <1>3 DEF CapsOffered
<1>7. ReadyHosts' /\ WithinBudget' /\ RecordedNeverLost'
  BY <1>0, <1>1 DEF ReadyHosts, WithinBudget, RecordedNeverLost
<1>8. ProvPhases'
  BY <1>0, <1>1, <1>3 DEF ProvPhases, Ordering, HostExists
<1>9. TermPhases'
  BY <1>0, <1>1, <1>3 DEF TermPhases
<1>10. DedicatedIsolation'
  BY <1>0, <1>1, <1>3, <1>4 DEF DedicatedIsolation, ContextExists
<1>11. LinkedHostReady'
  BY <1>0, <1>1, <1>3 DEF LinkedHostReady, ContextExists
<1> QED
  BY <1>5, <1>6, <1>7, <1>8, <1>9, <1>10, <1>11 DEF Inductive

LEMMA PlaceOnReadyInductive ==
  ASSUME Inductive, NEW c \in Context, PlaceOnReady(c) PROVE Inductive'
<1> DEFINE v == planCaps[prov[c].plan]
<1>0. /\ TypeOK /\ CapsOffered /\ ReadyHosts /\ ProvPhases /\ TermPhases
      /\ WithinBudget /\ DedicatedIsolation /\ LinkedHostReady /\ RecordedNeverLost
  BY DEF Inductive
<1>u. /\ prov[c].pc = "start"
      /\ UNCHANGED <<ec2, ctxs, role, planCaps, rebuild, term, crashes>>
  BY DEF PlaceOnReady
<1>1. PICK h \in Fitting(c) : /\ hosts' = Reserved(h, v)
                              /\ prov' = [prov EXCEPT ![c] = [@ EXCEPT !.pc = "master", !.host = h, !.caps = v]]
  BY DEF FirstFit, PlaceOnReady
<1>2. /\ h \in Host /\ hosts[h].status = "ready"
      /\ Fits(hosts[h].used, v, hosts[h].budget)
      /\ hosts[h].owner # Nobody => hosts[h].owner = ctxs[c].ws
  BY <1>0, <1>1, PlacementAssumption DEF Fitting, Candidates, CanReserve
<1>3. v \in Vector /\ v \in Offered
  BY <1>0 DEF TypeOK, ProvTask, CapsOffered
<1>4. hosts' = [hosts EXCEPT ![h].used = Charge(hosts[h].used, v)]
  BY <1>1 DEF Reserved
<1>5. Charge(hosts[h].used, v) \in Vector
  BY <1>0, <1>2, <1>3, ChargeTyped DEF TypeOK, HostRow
<1>6. /\ \A g \in Host : /\ hosts'[g].status = hosts[g].status
                         /\ hosts'[g].owner = hosts[g].owner
                         /\ hosts'[g].recorded = hosts[g].recorded
                         /\ hosts'[g].budget = hosts[g].budget
                         /\ g # h => hosts'[g].used = hosts[g].used
      /\ hosts'[h].used = Charge(hosts[h].used, v)
  BY <1>0, <1>2, <1>4 DEF TypeOK, HostRow
<1>7. /\ prov'[c].pc = "master" /\ prov'[c].host = h /\ prov'[c].caps = v
      /\ \A d \in Context : d # c => prov'[d] = prov[d]
  BY <1>0, <1>1 DEF TypeOK, ProvTask
<1>8. TypeOK'
  <2>1. hosts' \in [Host -> HostRow]
    BY <1>0, <1>2, <1>4, <1>5 DEF TypeOK, HostRow
  <2>2. prov' \in [Context -> ProvTask]
    BY <1>0, <1>1, <1>2, <1>3 DEF TypeOK, ProvTask
  <2> QED
    BY <1>0, <1>u, <2>1, <2>2 DEF TypeOK
<1>9. CapsOffered'
  BY <1>0, <1>u, <1>3, <1>7 DEF CapsOffered
<1>10. ReadyHosts'
  BY <1>0, <1>2, <1>6 DEF ReadyHosts
<1>11. ProvPhases'
  BY <1>0, <1>u, <1>2, <1>6, <1>7 DEF ProvPhases, Ordering, HostExists
<1>12. TermPhases'
  BY <1>0, <1>u, <1>6 DEF TermPhases
<1>13. WithinBudget'
  <2>1. hosts[h].used \in Vector /\ hosts[h].budget \in Vector
    BY <1>0, <1>2 DEF TypeOK, HostRow
  <2>2. \A r \in Resource : hosts'[h].used[r] <= hosts'[h].budget[r]
    BY <2>1, <1>2, <1>3, <1>6, ChargeBounded
  <2> QED
    BY <1>0, <1>6, <2>2 DEF WithinBudget
<1>14. DedicatedIsolation'
  BY <1>0, <1>u, <1>2, <1>6, <1>7 DEF DedicatedIsolation, ContextExists
<1>15. LinkedHostReady' /\ RecordedNeverLost'
  BY <1>0, <1>u, <1>6 DEF LinkedHostReady, RecordedNeverLost, ContextExists, TypeOK, ContextRow
<1> QED
  BY <1>8, <1>9, <1>10, <1>11, <1>12, <1>13, <1>14, <1>15 DEF Inductive

LEMMA ProvisionHostInductive ==
  ASSUME Inductive, NEW c \in Context, ProvisionHost(c) PROVE Inductive'
<1> DEFINE v == planCaps[prov[c].plan]
           row == OrderedRow(prov[c].plan, ctxs[c].ws)
<1>0. /\ TypeOK /\ CapsOffered /\ ReadyHosts /\ ProvPhases /\ TermPhases
      /\ WithinBudget /\ DedicatedIsolation /\ LinkedHostReady /\ RecordedNeverLost
  BY DEF Inductive
<1>u. /\ prov[c].pc = "start"
      /\ UNCHANGED <<ec2, ctxs, role, planCaps, rebuild, term, crashes>>
  BY DEF ProvisionHost
<1>1. PICK h \in Host :
        /\ hosts[h].status = "none"
        /\ hosts' = [hosts EXCEPT ![h] = row]
        /\ prov' = [prov EXCEPT ![c] = [@ EXCEPT !.pc = "launch", !.host = h, !.caps = v]]
  BY DEF ProvisionHost
<1>2. v \in Vector /\ v \in Offered
  BY <1>0 DEF TypeOK, ProvTask, CapsOffered
<1>3. /\ row \in HostRow /\ row.status = "provisioning" /\ row.used = Zero
      /\ ~row.recorded /\ row.budget \in Vector
      /\ row.owner # Nobody => row.owner = ctxs[c].ws
  <2>1. AnyPlan \in Plan /\ HostBudget[prov[c].plan] \in Vector
    BY <1>0, PlacementAssumption DEF AnyPlan, TypeOK, ProvTask
  <2> QED
    BY <1>0, <2>1, ZeroTyped DEF OrderedRow, NoHostRow, HostRow, TypeOK, ProvTask, ContextRow
<1>4. hosts'[h] = row /\ \A g \in Host : g # h => hosts'[g] = hosts[g]
  BY <1>0, <1>1 DEF TypeOK
<1>5. /\ prov'[c].pc = "launch" /\ prov'[c].host = h /\ prov'[c].caps = v
      /\ \A d \in Context : d # c => prov'[d] = prov[d]
  BY <1>0, <1>1 DEF TypeOK, ProvTask
<1>6. TypeOK'
  <2>1. hosts' \in [Host -> HostRow]
    BY <1>0, <1>1, <1>3 DEF TypeOK
  <2>2. prov' \in [Context -> ProvTask]
    BY <1>0, <1>1, <1>2 DEF TypeOK, ProvTask
  <2> QED
    BY <1>0, <1>u, <2>1, <2>2 DEF TypeOK
<1>7. CapsOffered'
  BY <1>0, <1>u, <1>2, <1>5 DEF CapsOffered
<1>8. ReadyHosts'
  BY <1>0, <1>3, <1>4 DEF ReadyHosts
<1>9. ProvPhases'
  BY <1>0, <1>u, <1>1, <1>3, <1>4, <1>5 DEF ProvPhases, Ordering, HostExists
<1>10. TermPhases'
  <2>1. \A t \in Task : term[t].pc \in {"ec2", "row"} => term[t].host # h
    BY <1>0, <1>1 DEF TermPhases
  <2> QED
    BY <1>0, <1>u, <1>1, <1>3, <1>4, <2>1 DEF TermPhases
<1>11. WithinBudget'
  BY <1>0, <1>3, <1>4 DEF WithinBudget, Zero, Vector
<1>12. DedicatedIsolation'
  <2>1. NoHost \notin Host
    BY DEF NoHost, Host
  <2>2. \A d \in Context : prov[d].pc # "idle" => prov[d].host # h
    BY <1>0, <1>1, <2>1 DEF ProvPhases, Ordering, TypeOK, ProvTask
  <2>3. \A d \in Context : ContextExists(d) => ctxs[d].host # h
    BY <1>0, <1>1, <2>1 DEF LinkedHostReady
  <2> QED
    BY <1>0, <1>u, <1>3, <1>4, <1>5, <2>2, <2>3 DEF DedicatedIsolation, ContextExists
<1>13. LinkedHostReady' /\ RecordedNeverLost'
  BY <1>0, <1>u, <1>1, <1>3, <1>4 DEF LinkedHostReady, RecordedNeverLost, ContextExists, TypeOK, ContextRow
<1> QED
  BY <1>6, <1>7, <1>8, <1>9, <1>10, <1>11, <1>12, <1>13 DEF Inductive

-----------------------------------------------------------------------------
(* Waiting for a new host *)

LEMMA LaunchSucceedsInductive ==
  ASSUME Inductive, NEW c \in Context, LaunchSucceeds(c) PROVE Inductive'
<1> DEFINE h == prov[c].host
<1>0. /\ TypeOK /\ CapsOffered /\ ReadyHosts /\ ProvPhases /\ TermPhases
      /\ WithinBudget /\ DedicatedIsolation /\ LinkedHostReady /\ RecordedNeverLost
  BY DEF Inductive
<1>1. /\ prov[c].pc = "launch"
      /\ ec2' = [ec2 EXCEPT ![h] = "running"]
      /\ prov' = [prov EXCEPT ![c].pc = "address"]
      /\ UNCHANGED <<hosts, ctxs, role, planCaps, rebuild, term, crashes>>
  BY DEF LaunchSucceeds
<1>2. h \in Host /\ ~hosts[h].recorded
  BY <1>0, <1>1 DEF ProvPhases, Ordering
<1>3. /\ prov'[c].pc = "address" /\ prov'[c].host = h /\ prov'[c].caps = prov[c].caps
      /\ \A d \in Context : d # c => prov'[d] = prov[d]
      /\ \A g \in Host : g # h => ec2'[g] = ec2[g]
  BY <1>0, <1>1 DEF TypeOK, ProvTask
<1>4. TypeOK'
  <2>1. prov' \in [Context -> ProvTask]
    BY <1>0, <1>1 DEF TypeOK, ProvTask
  <2> QED
    BY <1>0, <1>1, <1>2, <2>1 DEF TypeOK
<1>5. CapsOffered'
  BY <1>0, <1>1, <1>3 DEF CapsOffered
<1>6. ReadyHosts' /\ WithinBudget' /\ LinkedHostReady'
  BY <1>0, <1>1 DEF ReadyHosts, WithinBudget, LinkedHostReady, ContextExists
<1>7. ProvPhases'
  BY <1>0, <1>1, <1>3 DEF ProvPhases, Ordering, HostExists
<1>8. TermPhases'
  BY <1>0, <1>1, <1>2, <1>3 DEF TermPhases
<1>9. DedicatedIsolation'
  BY <1>0, <1>1, <1>3 DEF DedicatedIsolation, ContextExists
<1>10. RecordedNeverLost'
  BY <1>0, <1>1, <1>2, <1>3 DEF RecordedNeverLost
<1> QED
  BY <1>4, <1>5, <1>6, <1>7, <1>8, <1>9, <1>10 DEF Inductive

\* What Abandon does to the task and to its row, for the steps that end in it.
LEMMA AbandonEffect ==
  ASSUME TypeOK, NEW c \in Context, Abandon(c), ctxs[c].status # "none"
  PROVE  /\ prov' \in [Context -> ProvTask] /\ ctxs' \in [Context -> ContextRow]
         /\ prov'[c].pc = "idle" /\ prov'[c].host = NoHost
         /\ \A d \in Context : d # c => prov'[d] = prov[d]
         /\ \A d \in Context : /\ ctxs'[d].host = ctxs[d].host
                               /\ ctxs'[d].ws = ctxs[d].ws
                               /\ ctxs'[d].caps = ctxs[d].caps
                               /\ ctxs'[d].status = "none" <=> ctxs[d].status = "none"
                               /\ ContextExists(d)' <=> ContextExists(d)
<1>1. IdleProv \in ProvTask
  BY PlacementAssumption, ZeroTyped DEF IdleProv, ProvTask, AnyPlan
<1>2. /\ prov' \in [Context -> ProvTask]
      /\ prov'[c].pc = "idle" /\ prov'[c].host = NoHost
      /\ \A d \in Context : d # c => prov'[d] = prov[d]
  BY <1>1 DEF Abandon, IdleProv, TypeOK
<1> QED
  BY <1>2 DEF Abandon, SetContextStatus, ContextExists, TypeOK, ContextRow

\* The three ways in which ordering a host fails change the rows alike.
LEMMA FailedOrderInductive ==
  ASSUME Inductive, NEW c \in Context, Ordering(c),
         SetHostStatus(prov[c].host, "error"), Abandon(c),
         UNCHANGED <<ec2, role, planCaps, rebuild, term, crashes>>
  PROVE  Inductive'
<1> DEFINE h == prov[c].host
<1>0. /\ TypeOK /\ CapsOffered /\ ReadyHosts /\ ProvPhases /\ TermPhases
      /\ WithinBudget /\ DedicatedIsolation /\ LinkedHostReady /\ RecordedNeverLost
  BY DEF Inductive
<1>1. /\ h \in Host /\ hosts[h].status \in {"provisioning", "deleted"}
      /\ ctxs[c].status # "none"
  BY <1>0 DEF ProvPhases, Ordering
<1>2. /\ hosts' \in [Host -> HostRow]
      /\ \A g \in Host : /\ hosts'[g].used = hosts[g].used
                         /\ hosts'[g].budget = hosts[g].budget
                         /\ hosts'[g].owner = hosts[g].owner
                         /\ hosts'[g].recorded = hosts[g].recorded
                         /\ g # h => hosts'[g].status = hosts[g].status
      /\ hosts[h].status = "deleted" => hosts'[h].status = "deleted"
      /\ hosts[h].status # "deleted" => hosts'[h].status = "error"
  BY <1>0, <1>1 DEF SetHostStatus, HostExists, TypeOK, HostRow
<1>3. /\ prov' \in [Context -> ProvTask] /\ ctxs' \in [Context -> ContextRow]
      /\ prov'[c].pc = "idle" /\ prov'[c].host = NoHost
      /\ \A d \in Context : /\ d # c => prov'[d] = prov[d]
                            /\ ctxs'[d].host = ctxs[d].host
                            /\ ctxs'[d].ws = ctxs[d].ws
                            /\ ctxs'[d].caps = ctxs[d].caps
                            /\ ctxs'[d].status = "none" <=> ctxs[d].status = "none"
                            /\ ContextExists(d)' <=> ContextExists(d)
  BY <1>0, <1>1, AbandonEffect
<1>4. TypeOK'
  BY <1>0, <1>2, <1>3 DEF TypeOK
<1>5. CapsOffered'
  BY <1>0, <1>3 DEF CapsOffered
<1>6. ReadyHosts'
  BY <1>0, <1>1, <1>2 DEF ReadyHosts
<1>7. ProvPhases'
  BY <1>0, <1>1, <1>2, <1>3 DEF ProvPhases, Ordering, HostExists
<1>8. TermPhases'
  BY <1>0, <1>1, <1>2, <1>3 DEF TermPhases
<1>9. WithinBudget'
  BY <1>0, <1>2 DEF WithinBudget
<1>10. DedicatedIsolation'
  BY <1>0, <1>2, <1>3 DEF DedicatedIsolation
<1>11. LinkedHostReady'
  BY <1>0, <1>1, <1>2, <1>3 DEF LinkedHostReady, TypeOK, ContextRow
<1>12. RecordedNeverLost'
  BY <1>0, <1>1, <1>2 DEF RecordedNeverLost
<1> QED
  BY <1>4, <1>5, <1>6, <1>7, <1>8, <1>9, <1>10, <1>11, <1>12 DEF Inductive

LEMMA AddressAssignedInductive ==
  ASSUME Inductive, NEW c \in Context, AddressAssigned(c) PROVE Inductive'
<1> DEFINE h == prov[c].host
<1>0. /\ TypeOK /\ CapsOffered /\ ReadyHosts /\ ProvPhases /\ TermPhases
      /\ WithinBudget /\ DedicatedIsolation /\ LinkedHostReady /\ RecordedNeverLost
  BY DEF Inductive
<1>1. /\ prov[c].pc = "address"
      /\ hosts' = IF HostExists(h) THEN [hosts EXCEPT ![h].recorded = TRUE] ELSE hosts
      /\ prov' = [prov EXCEPT ![c].pc = "health"]
      /\ UNCHANGED <<ec2, ctxs, role, planCaps, rebuild, term, crashes>>
  BY DEF AddressAssigned
<1>2. h \in Host /\ hosts[h].status \in {"provisioning", "deleted"}
  BY <1>0, <1>1 DEF ProvPhases, Ordering
<1>3. /\ hosts' \in [Host -> HostRow]
      /\ \A g \in Host : /\ hosts'[g].used = hosts[g].used
                         /\ hosts'[g].budget = hosts[g].budget
                         /\ hosts'[g].owner = hosts[g].owner
                         /\ hosts'[g].status = hosts[g].status
                         /\ g # h => hosts'[g].recorded = hosts[g].recorded
                         /\ hosts[g].recorded => hosts'[g].recorded
                         /\ hosts[g].status = "deleted" => hosts'[g].recorded = hosts[g].recorded
      /\ HostExists(h) => hosts'[h].recorded
  BY <1>0, <1>1, <1>2, ZenonT(40) DEF HostExists, TypeOK, HostRow
<1>4. /\ prov' \in [Context -> ProvTask]
      /\ prov'[c].pc = "health" /\ prov'[c].host = h /\ prov'[c].caps = prov[c].caps
      /\ \A d \in Context : d # c => prov'[d] = prov[d]
  BY <1>0, <1>1 DEF TypeOK, ProvTask
<1>5. TypeOK'
  BY <1>0, <1>1, <1>3, <1>4 DEF TypeOK
<1>6. CapsOffered'
  BY <1>0, <1>1, <1>4 DEF CapsOffered
<1>7. ReadyHosts' /\ WithinBudget'
  BY <1>0, <1>3 DEF ReadyHosts, WithinBudget
<1>8. ProvPhases'
  BY <1>0, <1>1, <1>2, <1>3, <1>4, SMTT(30) DEF ProvPhases, Ordering, HostExists
<1>9. TermPhases'
  BY <1>0, <1>1, <1>3 DEF TermPhases
<1>10. DedicatedIsolation'
  BY <1>0, <1>1, <1>3, <1>4 DEF DedicatedIsolation, ContextExists
<1>11. LinkedHostReady'
  BY <1>0, <1>1, <1>3 DEF LinkedHostReady, ContextExists, TypeOK, ContextRow
<1>12. RecordedNeverLost'
  <2>1. ec2' = ec2
    BY <1>1
  <2>2. \A g \in Host : hosts'[g].status = "deleted" /\ hosts'[g].recorded
                       => hosts[g].status = "deleted" /\ hosts[g].recorded
    BY <1>3
  <2> QED
    BY <1>0, <2>1, <2>2 DEF RecordedNeverLost
<1> QED
  BY <1>5, <1>6, <1>7, <1>8, <1>9, <1>10, <1>11, <1>12 DEF Inductive

LEMMA MasterHealthyInductive ==
  ASSUME Inductive, NEW c \in Context, MasterHealthy(c) PROVE Inductive'
<1> DEFINE h == prov[c].host
           fits == Fits(hosts[h].used, prov[c].caps, hosts[h].budget)
<1>0. /\ TypeOK /\ CapsOffered /\ ReadyHosts /\ ProvPhases /\ TermPhases
      /\ WithinBudget /\ DedicatedIsolation /\ LinkedHostReady /\ RecordedNeverLost
  BY DEF Inductive
<1>1. /\ prov[c].pc = "health"
      /\ UNCHANGED <<ec2, role, planCaps, rebuild, term, crashes>>
  BY DEF MasterHealthy
<1>2. /\ h \in Host /\ hosts[h].status \in {"provisioning", "deleted"}
      /\ HostExists(h) => hosts[h].recorded
      /\ ctxs[c].status # "none"
      /\ hosts[h].used = Zero
  BY <1>0, <1>1 DEF ProvPhases, Ordering, ReadyHosts
<1>3. prov[c].caps \in Offered /\ prov[c].caps \in Vector
  BY <1>0, <1>1, OfferedTyped DEF CapsOffered
<1>4. Charge(hosts[h].used, prov[c].caps) \in Vector
  BY <1>2, <1>3, ZeroTyped, ChargeTyped
<1>5. /\ hosts' \in [Host -> HostRow]
      /\ \A g \in Host : /\ hosts'[g].budget = hosts[g].budget
                         /\ hosts'[g].owner = hosts[g].owner
                         /\ hosts'[g].recorded = hosts[g].recorded
                         /\ g # h => /\ hosts'[g].used = hosts[g].used
                                     /\ hosts'[g].status = hosts[g].status
      /\ hosts[h].status = "deleted" => hosts'[h] = hosts[h]
      /\ hosts[h].status # "deleted" =>
           /\ hosts'[h].status = "ready"
           /\ fits => hosts'[h].used = Charge(hosts[h].used, prov[c].caps)
           /\ ~fits => hosts'[h].used = hosts[h].used
  <2>1. CASE ~HostExists(h)
    BY <1>0, <1>2, <2>1 DEF MasterHealthy, HostExists, TypeOK, HostRow
  <2>2. CASE HostExists(h) /\ fits
    <3> DEFINE row == [hosts[h] EXCEPT !.status = "ready",
                                       !.used = Charge(hosts[h].used, prov[c].caps)]
    <3>1. hosts' = [hosts EXCEPT ![h] = row]
      BY <1>0, <1>2, <2>2 DEF MasterHealthy, Open, TypeOK
    <3>2. hosts \in [Host -> HostRow] /\ hosts[h] \in HostRow /\ hosts[h].status # "deleted"
      BY <1>0, <1>2, <2>2 DEF TypeOK, HostExists
    <3>3. /\ row \in HostRow /\ row.status = "ready"
          /\ row.used = Charge(hosts[h].used, prov[c].caps)
          /\ row.budget = hosts[h].budget /\ row.owner = hosts[h].owner
          /\ row.recorded = hosts[h].recorded
      BY <1>4, <3>2 DEF HostRow
    <3> HIDE DEF row
    <3> QED
      BY <1>2, <2>2, <3>1, <3>2, <3>3
  <2>3. CASE HostExists(h) /\ ~fits
    <3>1. hosts' = [hosts EXCEPT ![h].status = "ready"]
      BY <2>3 DEF MasterHealthy, Open
    <3> QED
      BY <1>0, <1>2, <2>3, <3>1 DEF HostExists, TypeOK, HostRow
  <2> QED
    BY <2>1, <2>2, <2>3
<1>6. /\ ctxs' \in [Context -> ContextRow] /\ prov' \in [Context -> ProvTask]
      /\ \A d \in Context : /\ d # c => prov'[d] = prov[d]
                            /\ ctxs'[d].host = ctxs[d].host
                            /\ ctxs'[d].ws = ctxs[d].ws
                            /\ ctxs'[d].caps = ctxs[d].caps
                            /\ ctxs'[d].status = "none" <=> ctxs[d].status = "none"
                            /\ ContextExists(d)' <=> ContextExists(d)
      /\ \/ /\ prov'[c].pc = "master" /\ prov'[c].host = h
            /\ prov'[c].caps = prov[c].caps /\ hosts[h].status # "deleted"
         \/ prov'[c].pc = "idle" /\ prov'[c].host = NoHost
  <2>1. CASE HostExists(h) /\ fits
    <3>1. prov' = [prov EXCEPT ![c].pc = "master"] /\ UNCHANGED ctxs
      BY <2>1 DEF MasterHealthy
    <3> QED
      BY <1>0, <2>1, <3>1 DEF HostExists, ContextExists, TypeOK, ProvTask
  <2>2. CASE ~(HostExists(h) /\ fits)
    <3>1. Abandon(c)
      BY <2>2 DEF MasterHealthy
    <3> QED
      BY <1>0, <1>2, <3>1, AbandonEffect
  <2> QED
    BY <2>1, <2>2
<1>7. TypeOK'
  BY <1>0, <1>1, <1>5, <1>6 DEF TypeOK
<1>8. CapsOffered'
  BY <1>0, <1>1, <1>3, <1>6 DEF CapsOffered
<1>9. ReadyHosts'
  BY <1>0, <1>2, <1>5 DEF ReadyHosts, HostExists
<1>10. ProvPhases'
  BY <1>0, <1>1, <1>2, <1>5, <1>6 DEF ProvPhases, Ordering, HostExists
<1>11. TermPhases'
  BY <1>0, <1>1, <1>2, <1>5, <1>6 DEF TermPhases
<1>12. WithinBudget'
  <2>1. hosts[h].budget \in Vector
    BY <1>0, <1>2 DEF TypeOK, HostRow
  <2>2. \A r \in Resource : hosts'[h].used[r] <= hosts'[h].budget[r]
    BY <1>0, <1>2, <1>3, <1>5, <2>1, ZeroTyped, ChargeBounded DEF WithinBudget
  <2> QED
    BY <1>0, <1>5, <2>2 DEF WithinBudget
<1>13. DedicatedIsolation'
  BY <1>0, <1>1, <1>2, <1>5, <1>6 DEF DedicatedIsolation, NoHost, Host
<1>14. LinkedHostReady'
  BY <1>0, <1>2, <1>5, <1>6 DEF LinkedHostReady, TypeOK, ContextRow
<1>15. RecordedNeverLost'
  BY <1>0, <1>1, <1>2, <1>5 DEF RecordedNeverLost
<1> QED
  BY <1>7, <1>8, <1>9, <1>10, <1>11, <1>12, <1>13, <1>14, <1>15 DEF Inductive

-----------------------------------------------------------------------------
(* The host's master *)

\* Releasing a slot changes the use of one host only, and never raises it.
LEMMA ReleasedEffect ==
  ASSUME TypeOK, ReadyHosts, NEW h \in Host, NEW v \in Vector
  PROVE  /\ Released(h, v) \in [Host -> HostRow]
         /\ \A g \in Host : /\ Released(h, v)[g].status = hosts[g].status
                            /\ Released(h, v)[g].owner = hosts[g].owner
                            /\ Released(h, v)[g].recorded = hosts[g].recorded
                            /\ Released(h, v)[g].budget = hosts[g].budget
                            /\ \A r \in Resource : Released(h, v)[g].used[r] <= hosts[g].used[r]
                            /\ g # h => Released(h, v)[g].used = hosts[g].used
<1> DEFINE used == Refund(hosts[h].used, v)
<1>1. used \in Vector /\ \A r \in Resource : used[r] <= hosts[h].used[r]
  BY RefundTyped, RefundBounded DEF TypeOK, HostRow
<1>2. \A g \in Host, r \in Resource : hosts[g].used[r] <= hosts[g].used[r]
  BY DEF TypeOK, HostRow, Vector
<1>3. CASE HostExists(h)
  <2>1. Released(h, v) = [hosts EXCEPT ![h].used = used]
    BY <1>3 DEF Released, TypeOK
  <2> HIDE DEF used
  <2> QED
    BY <1>1, <1>2, <2>1 DEF TypeOK, HostRow
<1>4. CASE ~HostExists(h)
  BY <1>2, <1>4 DEF Released, TypeOK
<1> QED
  BY <1>3, <1>4

LEMMA MasterRejectsInductive ==
  ASSUME Inductive, NEW c \in Context, MasterRejects(c) PROVE Inductive'
<1> DEFINE h == prov[c].host
<1>0. /\ TypeOK /\ CapsOffered /\ ReadyHosts /\ ProvPhases /\ TermPhases
      /\ WithinBudget /\ DedicatedIsolation /\ LinkedHostReady /\ RecordedNeverLost
  BY DEF Inductive
<1>1. /\ prov[c].pc = "master" /\ Abandon(c)
      /\ hosts' = Released(h, prov[c].caps)
      /\ UNCHANGED <<ec2, role, planCaps, rebuild, term, crashes>>
  BY DEF MasterRejects
<1>2. /\ h \in Host /\ hosts[h].status \in {"ready", "deleted"}
      /\ ctxs[c].status # "none"
      /\ prov[c].caps \in Vector
  BY <1>0, <1>1, OfferedTyped DEF ProvPhases, CapsOffered
<1>3. /\ hosts' \in [Host -> HostRow]
      /\ \A g \in Host : /\ hosts'[g].status = hosts[g].status
                         /\ hosts'[g].owner = hosts[g].owner
                         /\ hosts'[g].recorded = hosts[g].recorded
                         /\ hosts'[g].budget = hosts[g].budget
                         /\ \A r \in Resource : hosts'[g].used[r] <= hosts[g].used[r]
                         /\ g # h => hosts'[g].used = hosts[g].used
      /\ hosts[h].status = "deleted" => hosts' = hosts
  BY <1>0, <1>1, <1>2, ReleasedEffect DEF Released, HostExists
<1>4. /\ prov' \in [Context -> ProvTask] /\ ctxs' \in [Context -> ContextRow]
      /\ prov'[c].pc = "idle" /\ prov'[c].host = NoHost
      /\ \A d \in Context : /\ d # c => prov'[d] = prov[d]
                            /\ ctxs'[d].host = ctxs[d].host
                            /\ ctxs'[d].ws = ctxs[d].ws
                            /\ ctxs'[d].caps = ctxs[d].caps
                            /\ ctxs'[d].status = "none" <=> ctxs[d].status = "none"
                            /\ ContextExists(d)' <=> ContextExists(d)
  BY <1>0, <1>1, <1>2, AbandonEffect
<1>5. TypeOK'
  BY <1>0, <1>1, <1>3, <1>4 DEF TypeOK
<1>6. CapsOffered'
  BY <1>0, <1>1, <1>4 DEF CapsOffered
<1>7. ReadyHosts'
  BY <1>0, <1>2, <1>3 DEF ReadyHosts
<1>8. ProvPhases'
  BY <1>0, <1>3, <1>4 DEF ProvPhases, Ordering, HostExists
<1>9. TermPhases'
  BY <1>0, <1>1, <1>3, <1>4 DEF TermPhases
<1>10. WithinBudget'
  <2>1. \A g \in Host : /\ hosts[g].used \in Vector /\ hosts'[g].used \in Vector
                        /\ hosts[g].budget \in Vector
    BY <1>0, <1>3 DEF TypeOK, HostRow
  <2> QED
    BY <1>0, <1>3, <2>1 DEF WithinBudget, Vector
<1>11. DedicatedIsolation'
  BY <1>0, <1>3, <1>4 DEF DedicatedIsolation
<1>12. LinkedHostReady'
  BY <1>0, <1>3, <1>4, SMTT(30) DEF LinkedHostReady, TypeOK, ContextRow
<1>13. RecordedNeverLost'
  BY <1>0, <1>1, <1>3 DEF RecordedNeverLost
<1> QED
  BY <1>5, <1>6, <1>7, <1>8, <1>9, <1>10, <1>11, <1>12, <1>13 DEF Inductive

LEMMA MasterAcceptsInductive ==
  ASSUME Inductive, NEW c \in Context, MasterAccepts(c) PROVE Inductive'
<1> DEFINE h == prov[c].host
<1>0. /\ TypeOK /\ CapsOffered /\ ReadyHosts /\ ProvPhases /\ TermPhases
      /\ WithinBudget /\ DedicatedIsolation /\ LinkedHostReady /\ RecordedNeverLost
  BY DEF Inductive
<1>1. /\ prov[c].pc = "master" /\ prov' = [prov EXCEPT ![c] = IdleProv]
      /\ UNCHANGED <<hosts, ec2, role, planCaps, rebuild, term, crashes>>
  BY DEF MasterAccepts
<1>2. h \in Host /\ hosts[h].status \in {"ready", "deleted"} /\ ctxs[c].status # "none"
  BY <1>0, <1>1 DEF ProvPhases
<1>3. /\ prov' \in [Context -> ProvTask]
      /\ prov'[c].pc = "idle" /\ prov'[c].host = NoHost
      /\ \A d \in Context : d # c => prov'[d] = prov[d]
  <2>1. IdleProv \in ProvTask
    BY PlacementAssumption, ZeroTyped DEF IdleProv, ProvTask, AnyPlan
  <2> QED
    BY <1>0, <1>1, <2>1 DEF IdleProv, TypeOK
<1>4. /\ ctxs' \in [Context -> ContextRow]
      /\ \A d \in Context : /\ ctxs'[d].ws = ctxs[d].ws
                            /\ ctxs'[d].caps = ctxs[d].caps
                            /\ ctxs'[d].status = "none" <=> ctxs[d].status = "none"
                            /\ ContextExists(d)' <=> ContextExists(d)
                            /\ \/ ctxs'[d].host = ctxs[d].host
                               \/ d = c /\ ctxs'[d].host = h /\ hosts[h].status = "ready"
  <2>1. CASE HostExists(h) /\ ContextExists(c)
    <3>1. PICK s \in Up : ctxs' = [ctxs EXCEPT ![c] = [@ EXCEPT !.host = h, !.status = s]]
      BY <2>1 DEF MasterAccepts
    <3> QED
      BY <1>0, <1>2, <2>1, <3>1, ZenonT(40) DEF Up, HostExists, ContextExists, TypeOK, ContextRow
  <2>2. CASE ~(HostExists(h) /\ ContextExists(c))
    <3>1. SetContextStatus(c, "error")
      BY <2>2 DEF MasterAccepts
    <3> QED
      BY <1>0, <1>2, <3>1 DEF SetContextStatus, ContextExists, TypeOK, ContextRow
  <2> QED
    BY <2>1, <2>2
<1>5. TypeOK'
  BY <1>0, <1>1, <1>3, <1>4 DEF TypeOK
<1>6. CapsOffered'
  BY <1>0, <1>1, <1>3, <1>4 DEF CapsOffered
<1>7. ReadyHosts' /\ WithinBudget' /\ RecordedNeverLost'
  BY <1>0, <1>1 DEF ReadyHosts, WithinBudget, RecordedNeverLost
<1>8. ProvPhases'
  BY <1>0, <1>1, <1>3, <1>4 DEF ProvPhases, Ordering, HostExists
<1>9. TermPhases'
  BY <1>0, <1>1, <1>4 DEF TermPhases
<1>10. DedicatedIsolation'
  BY <1>0, <1>1, <1>2, <1>3, <1>4 DEF DedicatedIsolation
<1>11. LinkedHostReady'
  BY <1>0, <1>1, <1>2, <1>4 DEF LinkedHostReady, ReadyHosts
<1> QED
  BY <1>5, <1>6, <1>7, <1>8, <1>9, <1>10, <1>11 DEF Inductive

\* A rebuild only moves the status of a row.
LEMMA StatusOnlyInductive ==
  ASSUME Inductive, NEW c \in Context, NEW s \in {"provisioning", "running", "starting", "error"},
         SetContextStatus(c, s), rebuild' \in [Rebuilder -> RebuildTask],
         UNCHANGED <<hosts, ec2, role, planCaps, prov, term, crashes>>
  PROVE  Inductive'
<1>0. /\ TypeOK /\ CapsOffered /\ ReadyHosts /\ ProvPhases /\ TermPhases
      /\ WithinBudget /\ DedicatedIsolation /\ LinkedHostReady /\ RecordedNeverLost
  BY DEF Inductive
<1>1. /\ ctxs' \in [Context -> ContextRow]
      /\ \A d \in Context : /\ ctxs'[d].host = ctxs[d].host
                            /\ ctxs'[d].ws = ctxs[d].ws
                            /\ ctxs'[d].caps = ctxs[d].caps
                            /\ ctxs'[d].status = "none" <=> ctxs[d].status = "none"
                            /\ ContextExists(d)' <=> ContextExists(d)
  BY <1>0 DEF SetContextStatus, ContextExists, TypeOK, ContextRow
<1>2. TypeOK'
  BY <1>0, <1>1 DEF TypeOK
<1>3. CapsOffered' /\ TermPhases'
  BY <1>0, <1>1 DEF CapsOffered, TermPhases
<1>4. ReadyHosts' /\ WithinBudget' /\ RecordedNeverLost'
  BY <1>0 DEF ReadyHosts, WithinBudget, RecordedNeverLost
<1>5. ProvPhases'
  BY <1>0, <1>1 DEF ProvPhases, Ordering, HostExists
<1>6. DedicatedIsolation' /\ LinkedHostReady'
  BY <1>0, <1>1 DEF DedicatedIsolation, LinkedHostReady
<1> QED
  BY <1>2, <1>3, <1>4, <1>5, <1>6 DEF Inductive

-----------------------------------------------------------------------------
(* Deleting contexts and terminating empty hosts *)

\* What such steps may do to a host row: leave it but for its use and age, or
\* delete it when nothing is linked to it and no instance on record is running.
RowKept(g) == /\ hosts'[g].status = hosts[g].status
              /\ hosts'[g].owner = hosts[g].owner
              /\ hosts'[g].recorded = hosts[g].recorded
              /\ hosts'[g].budget = hosts[g].budget
              /\ \A r \in Resource : hosts'[g].used[r] <= hosts[g].used[r]
              /\ hosts[g].used = Zero => hosts'[g].used = Zero

RowDisposed(g) == /\ HostExists(g)
                  /\ hosts[g].recorded => ec2[g] # "running"
                  /\ \A c \in Context : ContextExists(c)' => ctxs'[c].host # g
                  /\ hosts'[g] = DeletedHostRow(g)

LEMMA DeletedHostRowTyped ==
  ASSUME TypeOK, NEW h \in Host
  PROVE  /\ DeletedHostRow(h) \in HostRow
         /\ DeletedHostRow(h).status = "deleted" /\ DeletedHostRow(h).used = Zero
         /\ DeletedHostRow(h).owner = hosts[h].owner
         /\ DeletedHostRow(h).recorded = hosts[h].recorded
         /\ DeletedHostRow(h).budget = hosts[h].budget
<1>1. hosts[h] \in HostRow
  BY DEF TypeOK
<1> QED
  BY <1>1, ZeroTyped DEF DeletedHostRow, HostRow

\* Steps that keep or dispose of host rows, delete contexts, and leave tasks idle
\* or about to terminate an instance on record preserve the invariant.
LEMMA DisposalInductive ==
  ASSUME Inductive,
         hosts' \in [Host -> HostRow], ctxs' \in [Context -> ContextRow],
         term' \in [Task -> TermTask],
         \A g \in Host : RowKept(g) \/ RowDisposed(g),
         \A c \in Context : /\ ctxs'[c].ws = ctxs[c].ws /\ ctxs'[c].caps = ctxs[c].caps
                            /\ ctxs'[c].status = "none" <=> ctxs[c].status = "none"
                            /\ ContextExists(c)' => /\ ContextExists(c)
                                                   /\ ctxs'[c].host = ctxs[c].host,
         \A t \in Task : \/ term'[t] = term[t]
                         \/ term'[t].pc = "idle"
                         \/ /\ term'[t].pc = "ec2" /\ HostExists(term'[t].host)
                            /\ hosts[term'[t].host].recorded,
         UNCHANGED <<ec2, role, planCaps, prov, rebuild, crashes>>
  PROVE  Inductive'
<1>0. /\ TypeOK /\ CapsOffered /\ ReadyHosts /\ ProvPhases /\ TermPhases
      /\ WithinBudget /\ DedicatedIsolation /\ LinkedHostReady /\ RecordedNeverLost
  BY DEF Inductive
<1>1. \A g \in Host :
        /\ hosts'[g].owner = hosts[g].owner /\ hosts'[g].recorded = hosts[g].recorded
        /\ hosts'[g].budget = hosts[g].budget
        /\ \/ hosts'[g].status = hosts[g].status
           \/ /\ hosts'[g].status = "deleted" /\ hosts'[g].used = Zero
              /\ HostExists(g) /\ RowDisposed(g)
  BY <1>0, DeletedHostRowTyped DEF RowKept, RowDisposed
<1>2. \A g \in Host : HostExists(g) => hosts[g].status # "none"
  BY DEF HostExists
<1>3. TypeOK'
  BY <1>0 DEF TypeOK
<1>4. CapsOffered'
  BY <1>0 DEF CapsOffered
<1>5. ReadyHosts'
  <2>1. \A g \in Host : RowKept(g) => /\ hosts'[g].status = hosts[g].status
                                      /\ hosts[g].used = Zero => hosts'[g].used = Zero
    BY DEF RowKept
  <2>2. \A g \in Host : RowDisposed(g) => hosts'[g].status = "deleted" /\ hosts'[g].used = Zero
    BY <1>0, DeletedHostRowTyped DEF RowDisposed
  <2> QED
    BY <1>0, <1>1, <2>1, <2>2 DEF ReadyHosts
<1>6. ProvPhases'
  BY <1>0, <1>1 DEF ProvPhases, Ordering, HostExists
<1>7. TermPhases'
  BY <1>0, <1>1, <1>2 DEF TermPhases, HostExists
<1>8. WithinBudget'
  <2> SUFFICES ASSUME NEW g \in Host PROVE \A r \in Resource : hosts'[g].used[r] <= hosts'[g].budget[r]
    BY DEF WithinBudget
  <2>1. hosts[g].used \in Vector /\ hosts'[g].used \in Vector /\ hosts[g].budget \in Vector
    BY <1>0 DEF TypeOK, HostRow
  <2>2. CASE RowKept(g)
    BY <1>0, <2>1, <2>2 DEF RowKept, WithinBudget, Vector
  <2>3. CASE hosts'[g].used = Zero
    BY <1>1, <2>1, <2>3 DEF Zero, Vector
  <2> QED
    BY <1>0, <2>2, <2>3, DeletedHostRowTyped DEF RowDisposed
<1>9. DedicatedIsolation'
  BY <1>0, <1>1 DEF DedicatedIsolation
<1>10. LinkedHostReady'
  BY <1>0, <1>1 DEF LinkedHostReady, RowDisposed, TypeOK, ContextRow
<1>11. RecordedNeverLost'
  BY <1>0, <1>1 DEF RecordedNeverLost, RowDisposed
<1> QED
  BY <1>3, <1>4, <1>5, <1>6, <1>7, <1>8, <1>9, <1>10, <1>11 DEF Inductive

LEMMA UnchangedRowsKept == TypeOK /\ hosts' = hosts => \A g \in Host : RowKept(g)
BY DEF RowKept, TypeOK, HostRow, Vector

\* The part of terminate_host_if_empty before its await, on a table in which
\* only uses have been lowered.
LEMMA TerminateIfEmptyEffect ==
  ASSUME TypeOK, NEW t \in Task, NEW h \in Host, NEW table \in [Host -> HostRow],
         NEW linked, TerminateIfEmpty(t, h, table, linked),
         linked = {} => \A c \in Context : ContextExists(c)' => ctxs'[c].host # h,
         \A g \in Host : hosts' = table => RowKept(g),
         \A g \in Host : g # h /\ hosts'[g] = table[g] => RowKept(g)
  PROVE  /\ hosts' \in [Host -> HostRow] /\ term' \in [Task -> TermTask]
         /\ \A g \in Host : RowKept(g) \/ RowDisposed(g)
         /\ \A u \in Task : \/ term'[u] = term[u]
                            \/ term'[u].pc = "idle"
                            \/ /\ term'[u].pc = "ec2" /\ HostExists(term'[u].host)
                               /\ hosts[term'[u].host].recorded
<1>1. IdleTerm \in TermTask /\ IdleTerm.pc = "idle"
  BY DEF IdleTerm, TermTask
<1>2. CASE ~HostExists(h) \/ linked # {}
  BY <1>1, <1>2 DEF TerminateIfEmpty, TypeOK
<1>3. CASE HostExists(h) /\ linked = {} /\ hosts[h].recorded
  <2>1. /\ hosts' = table
        /\ term' = [term EXCEPT ![t] = [pc |-> "ec2", ctx |-> Nobody, host |-> h]]
    BY <1>3 DEF TerminateIfEmpty
  <2> QED
    BY <1>3, <2>1 DEF TypeOK, TermTask
<1>4. CASE HostExists(h) /\ linked = {} /\ ~hosts[h].recorded
  <2>1. /\ hosts' = [table EXCEPT ![h] = DeletedHostRow(h)]
        /\ term' = [term EXCEPT ![t] = IdleTerm]
    BY <1>4 DEF TerminateIfEmpty
  <2>2. DeletedHostRow(h) \in HostRow
    BY DeletedHostRowTyped
  <2>3. hosts' \in [Host -> HostRow] /\ hosts'[h] = DeletedHostRow(h)
    BY <2>1, <2>2
  <2>4. RowDisposed(h)
    BY <1>4, <2>3 DEF RowDisposed
  <2>5. \A g \in Host : g # h => RowKept(g)
    BY <2>1
  <2> QED
    BY <1>1, <2>1, <2>3, <2>4, <2>5 DEF TypeOK
<1> QED
  BY <1>2, <1>3, <1>4

LEMMA WithoutContextEffect ==
  ASSUME TypeOK, NEW c \in Context, ctxs[c].status # "none", ctxs' = WithoutContext(c)
  PROVE  /\ ctxs' \in [Context -> ContextRow] /\ ~ContextExists(c)'
         /\ \A d \in Context : /\ ctxs'[d].ws = ctxs[d].ws /\ ctxs'[d].caps = ctxs[d].caps
                               /\ ctxs'[d].status = "none" <=> ctxs[d].status = "none"
                               /\ ContextExists(d)' => /\ ContextExists(d)
                                                      /\ ctxs'[d].host = ctxs[d].host
BY ZenonT(40) DEF WithoutContext, ContextExists, TypeOK, ContextRow

LEMMA DeleteUnplacedInductive ==
  ASSUME Inductive, NEW c \in Context, DeleteUnplaced(c) PROVE Inductive'
<1>1. TypeOK
  BY DEF Inductive
<1>2. /\ ctxs[c].status # "none" /\ ctxs' = WithoutContext(c)
      /\ UNCHANGED <<hosts, ec2, role, planCaps, prov, rebuild, term, crashes>>
  BY DEF DeleteUnplaced, ContextExists
<1>3. /\ hosts' \in [Host -> HostRow] /\ term' \in [Task -> TermTask]
      /\ \A t \in Task : term'[t] = term[t]
  BY <1>1, <1>2 DEF TypeOK
<1> QED
  BY <1>1, <1>2, <1>3, WithoutContextEffect, UnchangedRowsKept, DisposalInductive

LEMMA DeletePlacedInductive ==
  ASSUME Inductive, NEW r \in Request, NEW c \in Context, DeletePlaced(r, c)
  PROVE  Inductive'
<1>0. /\ TypeOK /\ CapsOffered /\ ReadyHosts /\ ProvPhases /\ TermPhases
      /\ WithinBudget /\ DedicatedIsolation /\ LinkedHostReady /\ RecordedNeverLost
  BY DEF Inductive
<1> DEFINE task == [pc |-> "master", ctx |-> c, host |-> ctxs[c].host]
<1>1. /\ ContextExists(c) /\ ctxs[c].host # NoHost
      /\ term' = [term EXCEPT ![r] = task]
      /\ UNCHANGED <<hosts, ec2, ctxs, role, planCaps, prov, rebuild, crashes>>
  BY DEF DeletePlaced
<1>2. /\ ctxs[c].host \in Host /\ hosts[ctxs[c].host].status = "ready"
      /\ ctxs[c].status # "none"
  BY <1>0, <1>1 DEF LinkedHostReady, ContextExists, TypeOK, ContextRow
<1>3. /\ term' \in [Task -> TermTask] /\ r \in Task /\ term'[r] = task
      /\ \A t \in Task : t # r => term'[t] = term[t]
  BY <1>0, <1>1, <1>2 DEF TypeOK, Task, TermTask
<1>4. TypeOK'
  BY <1>0, <1>1, <1>3 DEF TypeOK
<1>5. TermPhases'
  BY <1>0, <1>1, <1>2, <1>3 DEF TermPhases
<1>6. CapsOffered' /\ ReadyHosts' /\ WithinBudget' /\ RecordedNeverLost'
  BY <1>0, <1>1 DEF CapsOffered, ReadyHosts, WithinBudget, RecordedNeverLost
<1>7. ProvPhases' /\ DedicatedIsolation' /\ LinkedHostReady'
  BY <1>0, <1>1 DEF ProvPhases, DedicatedIsolation, LinkedHostReady, Ordering, HostExists, ContextExists
<1> QED
  BY <1>4, <1>5, <1>6, <1>7 DEF Inductive

LEMMA FinishDeleteInductive ==
  ASSUME Inductive, NEW r \in Request, FinishDelete(r) PROVE Inductive'
<1>0. /\ TypeOK /\ CapsOffered /\ ReadyHosts /\ ProvPhases /\ TermPhases
      /\ WithinBudget /\ DedicatedIsolation /\ LinkedHostReady /\ RecordedNeverLost
  BY DEF Inductive
<1>a. term[r].ctx \in Context /\ term[r].host \in Host
  BY <1>0 DEF TermPhases, Task, FinishDelete
<1>b. PICK c \in Context, h \in Host : c = term[r].ctx /\ h = term[r].host
  BY <1>a
<1> DEFINE table == Released(h, ctxs[c].caps)
           linked == Linked(h) \ {c}
<1>1. /\ term[r].pc = "master" /\ ctxs' = WithoutContext(c)
      /\ TerminateIfEmpty(r, h, table, linked)
      /\ UNCHANGED <<ec2, role, planCaps, prov, rebuild, crashes>>
  BY <1>b DEF FinishDelete
<1>2. /\ r \in Task /\ ctxs[c].status # "none"
      /\ ctxs[c].caps \in Vector /\ hosts[h].status \in {"ready", "deleted"}
  BY <1>0, <1>b, <1>1, OfferedTyped DEF TermPhases, CapsOffered, Task
<1>3. /\ table \in [Host -> HostRow]
      /\ \A g \in Host : /\ table[g].status = hosts[g].status
                         /\ table[g].owner = hosts[g].owner
                         /\ table[g].recorded = hosts[g].recorded
                         /\ table[g].budget = hosts[g].budget
                         /\ \A s \in Resource : table[g].used[s] <= hosts[g].used[s]
                         /\ g # h => table[g].used = hosts[g].used
  BY <1>0, <1>2, ReleasedEffect
<1>4. hosts[h].used = Zero => table[h].used = Zero
  <2>1. Refund(Zero, ctxs[c].caps) = Zero
    BY <1>2 DEF Refund, Zero, Vector
  <2>2. table = IF HostExists(h) THEN [hosts EXCEPT ![h].used = Refund(hosts[h].used, ctxs[c].caps)] ELSE hosts
    BY DEF Released
  <2> QED
    BY <1>0, <1>2, <2>1, <2>2 DEF TypeOK, HostRow
<1>5. \A g \in Host : hosts'[g] = table[g] => RowKept(g)
  BY <1>2, <1>3, <1>4 DEF RowKept
<1>6. /\ ctxs' \in [Context -> ContextRow] /\ ~ContextExists(c)'
      /\ \A d \in Context : /\ ctxs'[d].ws = ctxs[d].ws /\ ctxs'[d].caps = ctxs[d].caps
                            /\ ctxs'[d].status = "none" <=> ctxs[d].status = "none"
                            /\ ContextExists(d)' => /\ ContextExists(d)
                                                   /\ ctxs'[d].host = ctxs[d].host
  BY <1>0, <1>1, <1>2, WithoutContextEffect
<1>7. linked = {} => \A d \in Context : ContextExists(d)' => ctxs'[d].host # h
  BY <1>6 DEF Linked
<1> HIDE DEF table, linked
<1>8. /\ hosts' \in [Host -> HostRow] /\ term' \in [Task -> TermTask]
      /\ \A g \in Host : RowKept(g) \/ RowDisposed(g)
      /\ \A u \in Task : \/ term'[u] = term[u]
                         \/ term'[u].pc = "idle"
                         \/ /\ term'[u].pc = "ec2" /\ HostExists(term'[u].host)
                            /\ hosts[term'[u].host].recorded
  BY <1>0, <1>1, <1>2, <1>3, <1>5, <1>7, TerminateIfEmptyEffect
<1> QED
  BY <1>1, <1>6, <1>8, DisposalInductive

LEMMA SweepHostInductive ==
  ASSUME Inductive, NEW s \in Sweeper, NEW h \in Host, SweepHost(s, h)
  PROVE  Inductive'
<1>1. TypeOK
  BY DEF Inductive
<1>2. /\ Linked(h) = {} /\ TerminateIfEmpty(s, h, hosts, {})
      /\ UNCHANGED <<ec2, ctxs, role, planCaps, prov, rebuild, crashes>>
  BY DEF SweepHost
<1>3. s \in Task /\ hosts \in [Host -> HostRow]
  BY <1>1 DEF Task, TypeOK
<1>4. \A g \in Host : hosts'[g] = hosts[g] => RowKept(g)
  BY <1>1 DEF RowKept, TypeOK, HostRow, Vector
<1>5. \A c \in Context : ContextExists(c)' => ctxs'[c].host # h
  BY <1>2 DEF Linked, ContextExists
<1>6. /\ hosts' \in [Host -> HostRow] /\ term' \in [Task -> TermTask]
      /\ \A g \in Host : RowKept(g) \/ RowDisposed(g)
      /\ \A u \in Task : \/ term'[u] = term[u]
                         \/ term'[u].pc = "idle"
                         \/ /\ term'[u].pc = "ec2" /\ HostExists(term'[u].host)
                            /\ hosts[term'[u].host].recorded
  BY <1>1, <1>2, <1>3, <1>4, <1>5, TerminateIfEmptyEffect
<1>7. /\ ctxs' \in [Context -> ContextRow]
      /\ \A c \in Context : ContextExists(c)' => ContextExists(c)
  BY <1>1, <1>2 DEF TypeOK, ContextExists
<1> QED
  BY <1>2, <1>6, <1>7, DisposalInductive

LEMMA TerminateSucceedsInductive ==
  ASSUME Inductive, NEW t \in Task, TerminateSucceeds(t) PROVE Inductive'
<1> DEFINE h == term[t].host
<1>0. /\ TypeOK /\ CapsOffered /\ ReadyHosts /\ ProvPhases /\ TermPhases
      /\ WithinBudget /\ DedicatedIsolation /\ LinkedHostReady /\ RecordedNeverLost
  BY DEF Inductive
<1>1. /\ term[t].pc = "ec2"
      /\ ec2' = [ec2 EXCEPT ![h] = "terminated"]
      /\ term' = [term EXCEPT ![t].pc = "row"]
      /\ UNCHANGED <<hosts, ctxs, role, planCaps, prov, rebuild, crashes>>
  BY DEF TerminateSucceeds
<1>2. h \in Host /\ hosts[h].recorded /\ hosts[h].status # "none"
  BY <1>0, <1>1 DEF TermPhases
<1>3. /\ term' \in [Task -> TermTask] /\ ec2' \in [Host -> {"none", "running", "terminated"}]
      /\ term'[t].pc = "row" /\ term'[t].host = h /\ ec2'[h] = "terminated"
      /\ \A u \in Task : u # t => term'[u] = term[u]
      /\ \A g \in Host : g # h => ec2'[g] = ec2[g]
  BY <1>0, <1>1, <1>2 DEF TypeOK, TermTask
<1>4. TypeOK'
  BY <1>0, <1>1, <1>3 DEF TypeOK
<1>5. TermPhases'
  BY <1>0, <1>1, <1>2, <1>3 DEF TermPhases
<1>6. CapsOffered' /\ ReadyHosts' /\ WithinBudget'
  BY <1>0, <1>1 DEF CapsOffered, ReadyHosts, WithinBudget
<1>7. ProvPhases' /\ DedicatedIsolation' /\ LinkedHostReady'
  BY <1>0, <1>1 DEF ProvPhases, DedicatedIsolation, LinkedHostReady, Ordering, HostExists, ContextExists
<1>8. RecordedNeverLost'
  BY <1>0, <1>1, <1>3 DEF RecordedNeverLost
<1> QED
  BY <1>4, <1>5, <1>6, <1>7, <1>8 DEF Inductive

LEMMA TerminateFailsInductive ==
  ASSUME Inductive, NEW t \in Task, TerminateFails(t) PROVE Inductive'
<1>1. TypeOK
  BY DEF Inductive
<1>2. /\ term' = [term EXCEPT ![t] = IdleTerm]
      /\ UNCHANGED <<hosts, ec2, ctxs, role, planCaps, prov, rebuild, crashes>>
  BY DEF TerminateFails
<1>3. /\ term' \in [Task -> TermTask] /\ ctxs' \in [Context -> ContextRow]
      /\ hosts' \in [Host -> HostRow]
      /\ \A u \in Task : term'[u] = term[u] \/ term'[u].pc = "idle"
      /\ \A c \in Context : ContextExists(c)' => ContextExists(c)
  BY <1>1, <1>2 DEF TypeOK, IdleTerm, TermTask, ContextExists
<1> QED
  BY <1>1, <1>2, <1>3, UnchangedRowsKept, DisposalInductive

LEMMA RemoveHostRowInductive ==
  ASSUME Inductive, NEW t \in Task, RemoveHostRow(t) PROVE Inductive'
<1>0. /\ TypeOK /\ CapsOffered /\ ReadyHosts /\ ProvPhases /\ TermPhases
      /\ WithinBudget /\ DedicatedIsolation /\ LinkedHostReady /\ RecordedNeverLost
  BY DEF Inductive
<1>a. term[t].host \in Host
  BY <1>0 DEF TermPhases, RemoveHostRow
<1>b. PICK h \in Host : h = term[t].host
  BY <1>a
<1>1. /\ ec2[h] = "terminated"
      /\ hosts' = IF RemovableRow(h) THEN [hosts EXCEPT ![h] = DeletedHostRow(h)] ELSE hosts
      /\ term' = [term EXCEPT ![t] = IdleTerm]
      /\ UNCHANGED <<ec2, ctxs, role, planCaps, prov, rebuild, crashes>>
  BY <1>0, <1>b DEF RemoveHostRow, TermPhases
<1>2. /\ term' \in [Task -> TermTask] /\ ctxs' \in [Context -> ContextRow]
      /\ \A u \in Task : term'[u] = term[u] \/ term'[u].pc = "idle"
      /\ \A c \in Context : ContextExists(c)' <=> ContextExists(c)
  BY <1>0, <1>1 DEF TypeOK, IdleTerm, TermTask, ContextExists
<1>3. /\ hosts' \in [Host -> HostRow]
      /\ \A g \in Host : hosts'[g] = hosts[g] \/ (g = h /\ RemovableRow(h) /\ hosts'[h] = DeletedHostRow(h))
  BY <1>0, <1>1, DeletedHostRowTyped DEF TypeOK
<1>4. \A g \in Host : hosts'[g] = hosts[g] => RowKept(g)
  BY <1>0 DEF RowKept, TypeOK, HostRow, Vector
<1>5. RemovableRow(h) /\ hosts'[h] = DeletedHostRow(h) => RowDisposed(h)
  BY <1>1, <1>2 DEF RemovableRow, RowDisposed, Linked
<1> QED
  BY <1>1, <1>2, <1>3, <1>4, <1>5, DisposalInductive

-----------------------------------------------------------------------------
(* The environment *)

LEMMA HostAgesInductive ==
  ASSUME Inductive, NEW h \in Host, HostAges(h) PROVE Inductive'
<1>1. TypeOK
  BY DEF Inductive
<1>2. /\ hosts' = [hosts EXCEPT ![h].old = TRUE]
      /\ UNCHANGED <<ec2, ctxs, role, planCaps, prov, rebuild, term, crashes>>
  BY DEF HostAges
<1>3. /\ hosts' \in [Host -> HostRow]
      /\ \A g \in Host : /\ hosts'[g].status = hosts[g].status
                         /\ hosts'[g].owner = hosts[g].owner
                         /\ hosts'[g].recorded = hosts[g].recorded
                         /\ hosts'[g].budget = hosts[g].budget
                         /\ hosts'[g].used = hosts[g].used
                         /\ hosts[g].used \in Vector
  BY <1>1, <1>2, ZenonT(40) DEF TypeOK, HostRow
<1>k. \A g \in Host : RowKept(g)
  BY <1>3 DEF RowKept, Vector
<1>4. /\ ctxs' \in [Context -> ContextRow] /\ term' \in [Task -> TermTask]
      /\ \A c \in Context : ContextExists(c)' => ContextExists(c)
  BY <1>1, <1>2 DEF TypeOK, ContextExists
<1> QED
  BY <1>2, <1>3, <1>k, <1>4, DisposalInductive

\* Plan selection, plan edits and stuttering leave hosts, contexts and tasks alone.
LEMMA ProfileInductive ==
  ASSUME Inductive, UNCHANGED <<hosts, ec2, ctxs, prov, rebuild, term, crashes>>,
         role' \in [Workspace -> Plan], planCaps' \in [Plan -> Offered]
  PROVE  Inductive'
<1>0. /\ TypeOK /\ CapsOffered /\ ReadyHosts /\ ProvPhases /\ TermPhases
      /\ WithinBudget /\ DedicatedIsolation /\ LinkedHostReady /\ RecordedNeverLost
  BY DEF Inductive
<1>1. TypeOK'
  BY <1>0, OfferedTyped DEF TypeOK
<1>2. CapsOffered'
  BY <1>0 DEF CapsOffered
<1>3. ReadyHosts' /\ WithinBudget' /\ RecordedNeverLost' /\ TermPhases'
  BY <1>0 DEF ReadyHosts, WithinBudget, RecordedNeverLost, TermPhases
<1>4. ProvPhases' /\ DedicatedIsolation' /\ LinkedHostReady'
  BY <1>0 DEF ProvPhases, DedicatedIsolation, LinkedHostReady, Ordering, HostExists, ContextExists
<1> QED
  BY <1>1, <1>2, <1>3, <1>4 DEF Inductive

LEMMA RestartInductive == ASSUME Inductive, Restart PROVE Inductive'
<1>0. /\ TypeOK /\ CapsOffered /\ ReadyHosts /\ ProvPhases /\ TermPhases
      /\ WithinBudget /\ DedicatedIsolation /\ LinkedHostReady /\ RecordedNeverLost
  BY DEF Inductive
<1>1. /\ crashes' \in 0 .. MaxCrash
      /\ prov' = [c \in Context |-> IdleProv]
      /\ rebuild' = [b \in Rebuilder |-> IdleRebuild]
      /\ term' = [t \in Task |-> IdleTerm]
      /\ UNCHANGED <<hosts, ec2, ctxs, role, planCaps>>
  BY <1>0, PlacementAssumption DEF Restart, TypeOK
<1>2. TypeOK'
  <2>1. IdleProv \in ProvTask /\ IdleTerm \in TermTask /\ IdleRebuild \in RebuildTask
    BY PlacementAssumption, ZeroTyped
       DEF IdleProv, ProvTask, AnyPlan, IdleTerm, TermTask, IdleRebuild, RebuildTask
  <2> QED
    BY <1>0, <1>1, <2>1 DEF TypeOK
<1>3. \A c \in Context : prov'[c].pc = "idle" /\ prov'[c].host = NoHost
  BY <1>1 DEF IdleProv
<1>4. \A t \in Task : term'[t].pc = "idle"
  BY <1>1 DEF IdleTerm
<1>5. CapsOffered'
  BY <1>0, <1>1, <1>3 DEF CapsOffered
<1>6. ProvPhases' /\ TermPhases'
  BY <1>3, <1>4 DEF ProvPhases, TermPhases, Ordering
<1>7. ReadyHosts' /\ WithinBudget' /\ RecordedNeverLost'
  BY <1>0, <1>1 DEF ReadyHosts, WithinBudget, RecordedNeverLost
<1>8. DedicatedIsolation' /\ LinkedHostReady'
  BY <1>0, <1>1, <1>3 DEF DedicatedIsolation, LinkedHostReady, ContextExists
<1> QED
  BY <1>2, <1>5, <1>6, <1>7, <1>8 DEF Inductive

-----------------------------------------------------------------------------
(* Every step *)

LEMMA ProvisionInductive ==
  ASSUME Inductive, NEW c \in Context, Provision(c) PROVE Inductive'
<1>1. CASE PlaceOnReady(c)
  BY <1>1, PlaceOnReadyInductive
<1>2. CASE ProvisionHost(c)
  BY <1>2, ProvisionHostInductive
<1>3. CASE LaunchSucceeds(c)
  BY <1>3, LaunchSucceedsInductive
<1>4. CASE LaunchFails(c) \/ AddressTimesOut(c) \/ HealthTimesOut(c)
  BY <1>4, FailedOrderInductive DEF LaunchFails, AddressTimesOut, HealthTimesOut, Ordering
<1>5. CASE AddressAssigned(c)
  BY <1>5, AddressAssignedInductive
<1>6. CASE MasterHealthy(c)
  BY <1>6, MasterHealthyInductive
<1>7. CASE MasterAccepts(c)
  BY <1>7, MasterAcceptsInductive
<1>8. CASE MasterRejects(c)
  BY <1>8, MasterRejectsInductive
<1> QED
  BY <1>1, <1>2, <1>3, <1>4, <1>5, <1>6, <1>7, <1>8 DEF Provision

LEMMA RebuildInductive ==
  ASSUME Inductive,
         \/ \E b \in Rebuilder, c \in Context : RebuildContext(b, c)
         \/ \E b \in Rebuilder : Rebuild(b)
  PROVE  Inductive'
<1>0. TypeOK
  BY DEF Inductive
<1>1. CASE \E b \in Rebuilder, c \in Context : RebuildContext(b, c)
  <2>1. PICK b \in Rebuilder, c \in Context : RebuildContext(b, c)
    BY <1>1
  <2>2. rebuild' \in [Rebuilder -> RebuildTask]
    BY <1>0, <2>1 DEF RebuildContext, RebuildTask, TypeOK
  <2> QED
    BY <2>1, <2>2, StatusOnlyInductive DEF RebuildContext
<1>2. CASE \E b \in Rebuilder : Rebuild(b)
  <2>1. PICK b \in Rebuilder, s \in Up \cup {"error"} : EndRebuild(b, s)
    BY <1>2 DEF Rebuild, RebuildAccepted, RebuildFailed
  <2>2. rebuild' \in [Rebuilder -> RebuildTask]
    BY <1>0, <2>1 DEF EndRebuild, IdleRebuild, RebuildTask, TypeOK
  <2>3. rebuild[b].ctx \in Context
    BY <1>0, <2>1 DEF EndRebuild, TypeOK, RebuildTask
  <2> QED
    BY <2>1, <2>2, <2>3, StatusOnlyInductive DEF EndRebuild, Up
<1> QED
  BY <1>1, <1>2
LEMMA NextInductive == Inductive /\ [Next]_vars => Inductive'
<1> SUFFICES ASSUME Inductive, [Next]_vars PROVE Inductive'
  OBVIOUS
<1>0. TypeOK /\ CapsOffered
  BY DEF Inductive
<1>1. CASE \E w \in Workspace, c \in Context : CreateContext(w, c)
  BY <1>1, CreateContextInductive
<1>2. CASE \E c \in Context : Provision(c) \/ DeleteUnplaced(c)
  BY <1>2, ProvisionInductive, DeleteUnplacedInductive
<1>3. CASE \E r \in Request, c \in Context : DeletePlaced(r, c)
  BY <1>3, DeletePlacedInductive
<1>4. CASE \E r \in Request : FinishDelete(r)
  BY <1>4, FinishDeleteInductive
<1>5. CASE \/ \E b \in Rebuilder, c \in Context : RebuildContext(b, c)
           \/ \E b \in Rebuilder : Rebuild(b)
  BY <1>5, RebuildInductive
<1>6. CASE \E s \in Sweeper, h \in Host : SweepHost(s, h)
  BY <1>6, SweepHostInductive
<1>7. CASE \E t \in Task : Terminate(t)
  BY <1>7, TerminateSucceedsInductive, TerminateFailsInductive, RemoveHostRowInductive
     DEF Terminate
<1>8. CASE \E h \in Host : HostAges(h)
  BY <1>8, HostAgesInductive
<1>9. CASE (\E w \in Workspace : SelectPlan(w)) \/ (\E p \in Plan : EditPlan(p)) \/ UNCHANGED vars
  <2>1. role' \in [Workspace -> Plan]
    BY <1>0, <1>9, PlacementAssumption DEF SelectPlan, EditPlan, vars, TypeOK
  <2>2. planCaps' \in [Plan -> Offered]
    BY <1>0, <1>9 DEF SelectPlan, EditPlan, vars, TypeOK, CapsOffered, Offered
  <2>3. UNCHANGED <<hosts, ec2, ctxs, prov, rebuild, term, crashes>>
    BY <1>9 DEF SelectPlan, EditPlan, vars
  <2> QED
    BY <2>1, <2>2, <2>3, ProfileInductive
<1>10. CASE Restart
  BY <1>10, RestartInductive
<1> QED
  BY <1>1, <1>2, <1>3, <1>4, <1>5, <1>6, <1>7, <1>8, <1>9, <1>10 DEF Next

\* The strengthened invariant holds in every reachable state.
THEOREM InductiveInvariant == Spec => []Inductive
BY InitInductive, NextInductive, PTL DEF Spec

\* Rows, tasks and instances stay within their types, however handlers, tasks,
\* sweeps and restarts interleave.
THEOREM TypeCorrect == Spec => []TypeOK
<1>1. Inductive => TypeOK
  BY DEF Inductive
<1> QED
  BY <1>1, InductiveInvariant, PTL

\* reserve_host_capacity and release_host_capacity keep the recorded use of every
\* host within its budget, for any interleaving of their callers.
THEOREM BudgetHeld == Spec => []WithinBudget
<1>1. Inductive => WithinBudget
  BY DEF Inductive
<1> QED
  BY <1>1, InductiveInvariant, PTL

\* No workspace is ever placed on another workspace's dedicated host.
THEOREM WorkspacesIsolated == Spec => []DedicatedIsolation
<1>1. Inductive => DedicatedIsolation
  BY DEF Inductive
<1> QED
  BY <1>1, InductiveInvariant, PTL

\* Deletes, sweeps and placements never leave a linked context without a ready
\* host row that has its instance on record.
THEOREM LinkedHostsReady == Spec => []LinkedHostReady
<1>1. Inductive => LinkedHostReady
  BY DEF Inductive
<1> QED
  BY <1>1, InductiveInvariant, PTL

\* An instance that made it onto its row is terminated before the row goes.
THEOREM RecordedInstancesKept == Spec => []RecordedNeverLost
<1>1. Inductive => RecordedNeverLost
  BY DEF Inductive
<1> QED
  BY <1>1, InductiveInvariant, PTL

-----------------------------------------------------------------------------
(* The refinement of the pool of hosts *)

\* One host row changes, or none.
OnlyRow(h) == /\ hosts' \in [Host -> HostRow]
              /\ \A g \in Host : g # h => hosts'[g] = hosts[g]

LEMMA InitPool == Init => Pool!PoolInit
BY DEF Init, NoHostRow, Pool!PoolInit, Zero, Pool!Zero

LEMMA PoolUnchanged ==
  ASSUME \A g \in Host : /\ hosts'[g].status = hosts[g].status
                         /\ hosts'[g].budget = hosts[g].budget
                         /\ hosts'[g].used = hosts[g].used
  PROVE  UNCHANGED Pool!poolVars
BY DEF Pool!poolVars

LEMMA OrderStep ==
  ASSUME NEW h \in Host, OnlyRow(h), hosts[h].status = "none",
         hosts'[h].status = "provisioning", hosts'[h].used = hosts[h].used,
         \E p \in Plan : hosts'[h].budget = HostBudget[p]
  PROVE  Pool!Order(h)
BY DEF OnlyRow, Pool!Order

LEMMA OpenStep ==
  ASSUME NEW h \in Host, OnlyRow(h), hosts[h].status = "provisioning",
         hosts'[h].status = "ready", hosts'[h].budget = hosts[h].budget,
         \/ hosts'[h].used = hosts[h].used
         \/ \E v \in Offered : /\ Fits(hosts[h].used, v, hosts[h].budget)
                               /\ hosts'[h].used = Charge(hosts[h].used, v)
  PROVE  Pool!Open(h)
BY DEF OnlyRow, Pool!Open, Pool!Sale, Fits, Charge, Pool!Fits, Pool!Charge

LEMMA FailStep ==
  ASSUME NEW h \in Host, OnlyRow(h), hosts[h].status = "provisioning",
         hosts'[h].status = "error", hosts'[h].budget = hosts[h].budget,
         hosts'[h].used = hosts[h].used
  PROVE  Pool!Fail(h)
BY DEF OnlyRow, Pool!Fail

LEMMA SellStep ==
  ASSUME NEW h \in Host, OnlyRow(h), hosts[h].status = "ready",
         hosts'[h].status = "ready", hosts'[h].budget = hosts[h].budget,
         NEW v \in Offered, Fits(hosts[h].used, v, hosts[h].budget),
         hosts'[h].used = Charge(hosts[h].used, v)
  PROVE  Pool!Sell(h)
<1>1. /\ [g \in Host |-> hosts'[g].status] = [g \in Host |-> hosts[g].status]
      /\ [g \in Host |-> hosts'[g].budget] = [g \in Host |-> hosts[g].budget]
  BY DEF OnlyRow
<1>2. [g \in Host |-> hosts'[g].used]
        = [[g \in Host |-> hosts[g].used] EXCEPT ![h] = Charge(hosts[h].used, v)]
  BY DEF OnlyRow
<1>3. [g \in Host |-> hosts[g].used][h] = hosts[h].used
  OBVIOUS
<1>4. Pool!Sale(h)
  BY <1>2, <1>3 DEF Pool!Sale, Fits, Charge, Pool!Fits, Pool!Charge
<1> QED
  BY <1>1, <1>4 DEF Pool!Sell

LEMMA ReturnStep ==
  ASSUME NEW h \in Host, OnlyRow(h), hosts[h].status = "ready",
         hosts'[h].status = "ready", hosts'[h].budget = hosts[h].budget,
         NEW v \in Offered, hosts'[h].used = Refund(hosts[h].used, v)
  PROVE  Pool!Return(h)
<1>1. /\ [g \in Host |-> hosts'[g].status] = [g \in Host |-> hosts[g].status]
      /\ [g \in Host |-> hosts'[g].budget] = [g \in Host |-> hosts[g].budget]
  BY DEF OnlyRow
<1>2. [g \in Host |-> hosts'[g].used]
        = [[g \in Host |-> hosts[g].used] EXCEPT ![h] = Refund(hosts[h].used, v)]
  BY DEF OnlyRow
<1>3. [g \in Host |-> hosts[g].used][h] = hosts[h].used
  OBVIOUS
<1>4. \E u \in Offered :
        [g \in Host |-> hosts'[g].used]
          = [[g \in Host |-> hosts[g].used] EXCEPT ![h] = Pool!Refund(@, u)]
  <2>1. Pool!Refund([g \in Host |-> hosts[g].used][h], v) = Refund(hosts[h].used, v)
    BY <1>3 DEF Refund, Pool!Refund
  <2> QED
    BY <1>2, <2>1
<1> QED
  BY <1>1, <1>4 DEF Pool!Return

LEMMA RetireStep ==
  ASSUME NEW h \in Host, OnlyRow(h), TypeOK, HostExists(h), hosts'[h] = DeletedHostRow(h)
  PROVE  Pool!Retire(h)
<1>1. hosts[h].status \in {"provisioning", "ready", "error"}
  BY DEF HostExists, TypeOK, HostRow
<1>2. /\ hosts'[h].status = "deleted" /\ hosts'[h].used = Zero
      /\ hosts'[h].budget = hosts[h].budget
  BY DeletedHostRowTyped
<1> QED
  BY <1>1, <1>2 DEF OnlyRow, Pool!Retire, Zero, Pool!Zero

-----------------------------------------------------------------------------
(* One lemma for each kind of step that touches a host row *)

LEMMA PlaceOnReadyPool ==
  ASSUME Inductive, Inductive', NEW c \in Context, PlaceOnReady(c) PROVE Pool!PoolNext
<1> DEFINE v == planCaps[prov[c].plan]
<1>1. PICK h \in Fitting(c) : hosts' = Reserved(h, v)
  BY DEF PlaceOnReady, FirstFit
<1>2. h \in Host /\ hosts[h].status = "ready" /\ Fits(hosts[h].used, v, hosts[h].budget)
  BY <1>1 DEF Fitting, Candidates, CanReserve
<1>3. v \in Offered
  BY DEF Inductive, TypeOK, ProvTask, CapsOffered
<1>4. hosts' = [hosts EXCEPT ![h].used = Charge(hosts[h].used, v)]
  BY <1>1 DEF Reserved
<1>5. /\ OnlyRow(h) /\ hosts'[h].status = "ready" /\ hosts'[h].budget = hosts[h].budget
      /\ hosts'[h].used = Charge(hosts[h].used, v)
  BY <1>2, <1>4 DEF OnlyRow, Inductive, TypeOK, HostRow
<1> QED
  BY <1>2, <1>3, <1>5, SellStep DEF Pool!PoolNext

LEMMA ProvisionHostPool ==
  ASSUME Inductive, Inductive', NEW c \in Context, ProvisionHost(c) PROVE Pool!PoolNext
<1> DEFINE row == OrderedRow(prov[c].plan, ctxs[c].ws)
<1>1. PICK h \in Host : hosts[h].status = "none" /\ hosts' = [hosts EXCEPT ![h] = row]
  BY DEF ProvisionHost
<1>2. /\ row.status = "provisioning" /\ row.used = Zero
      /\ row.budget = HostBudget[prov[c].plan] /\ prov[c].plan \in Plan
  BY DEF OrderedRow, NoHostRow, Inductive, TypeOK, ProvTask
<1>3. hosts[h].used = Zero
  BY <1>1 DEF Inductive, ReadyHosts
<1>4. OnlyRow(h) /\ hosts'[h] = row
  BY <1>1 DEF OnlyRow, Inductive, TypeOK
<1> QED
  BY <1>1, <1>2, <1>3, <1>4, OrderStep DEF Pool!PoolNext

\* A failing order marks the row, unless the sweep has deleted it.
LEMMA FailedOrderPool ==
  ASSUME Inductive, Inductive', NEW c \in Context, Ordering(c),
         SetHostStatus(prov[c].host, "error")
  PROVE  Pool!PoolNext \/ UNCHANGED Pool!poolVars
<1> DEFINE h == prov[c].host
<1>1. h \in Host /\ hosts[h].status \in {"provisioning", "deleted"}
  BY DEF Inductive, ProvPhases
<1>2. CASE HostExists(h)
  <2>1. hosts' = [hosts EXCEPT ![h].status = "error"]
    BY <1>2 DEF SetHostStatus
  <2>2. /\ hosts[h].status = "provisioning" /\ OnlyRow(h) /\ hosts'[h].status = "error"
        /\ hosts'[h].budget = hosts[h].budget /\ hosts'[h].used = hosts[h].used
    BY <1>1, <1>2, <2>1 DEF OnlyRow, HostExists, Inductive, TypeOK, HostRow
  <2> QED
    BY <1>1, <2>2, FailStep DEF Pool!PoolNext
<1>3. CASE ~HostExists(h)
  BY <1>3, PoolUnchanged DEF SetHostStatus
<1> QED
  BY <1>2, <1>3

LEMMA MasterHealthyPool ==
  ASSUME Inductive, Inductive', NEW c \in Context, MasterHealthy(c)
  PROVE  Pool!PoolNext \/ UNCHANGED Pool!poolVars
<1> DEFINE h == prov[c].host
           v == prov[c].caps
<1>1. h \in Host /\ hosts[h].status \in {"provisioning", "deleted"} /\ v \in Offered
  BY DEF MasterHealthy, Inductive, ProvPhases, Ordering, CapsOffered
<1>2. CASE HostExists(h)
  <2>1. hosts' = Open(h, v)
    BY <1>2 DEF MasterHealthy
  <2>2. hosts[h].status = "provisioning"
    BY <1>1, <1>2 DEF HostExists
  <2>3. CASE Fits(hosts[h].used, v, hosts[h].budget)
    <3> DEFINE row == [hosts[h] EXCEPT !.status = "ready",
                                       !.used = Charge(hosts[h].used, v)]
    <3>1. hosts' = [hosts EXCEPT ![h] = row]
      BY <1>1, <2>1, <2>3 DEF Open, Inductive, TypeOK
    <3>2. hosts \in [Host -> HostRow] /\ hosts[h] \in HostRow
      BY <1>1 DEF Inductive, TypeOK
    <3>3. /\ row.status = "ready" /\ row.budget = hosts[h].budget
          /\ row.used = Charge(hosts[h].used, v)
      BY <3>2 DEF HostRow
    <3> HIDE DEF row
    <3>4. /\ OnlyRow(h) /\ hosts'[h].status = "ready" /\ hosts'[h].budget = hosts[h].budget
          /\ hosts'[h].used = Charge(hosts[h].used, v)
      <4>1. h \in Host
        BY <1>1
      <4>2. hosts'[h] = row /\ \A g \in Host \ {h} : hosts'[g] = hosts[g]
        BY <3>1, <3>2, <4>1
      <4>3. hosts' \in [Host -> HostRow]
        BY DEF Inductive, TypeOK
      <4> HIDE DEF h
      <4> QED
        BY <3>3, <4>2, <4>3 DEF OnlyRow
    <3> QED
      BY <1>1, <2>2, <2>3, <3>4, OpenStep DEF Pool!PoolNext
  <2>4. CASE ~Fits(hosts[h].used, v, hosts[h].budget)
    <3>1. hosts' = [hosts EXCEPT ![h].status = "ready"]
      BY <2>1, <2>4 DEF Open
    <3>2. /\ OnlyRow(h) /\ hosts'[h].status = "ready" /\ hosts'[h].budget = hosts[h].budget
          /\ hosts'[h].used = hosts[h].used
      BY <1>1, <3>1 DEF OnlyRow, Inductive, TypeOK, HostRow
    <3> QED
      BY <1>1, <2>2, <3>2, OpenStep DEF Pool!PoolNext
  <2> QED
    BY <2>3, <2>4
<1>3. CASE ~HostExists(h)
  <2>1. hosts' = hosts
    BY <1>3 DEF MasterHealthy
  <2> QED
    BY <2>1, PoolUnchanged
<1> QED
  BY <1>2, <1>3

\* Giving a slot back: nothing happens if the row is gone, else the host is open.
LEMMA ReleasePool ==
  ASSUME TypeOK, NEW h \in Host, NEW v \in Offered, hosts' = Released(h, v),
         hosts[h].status \in {"ready", "deleted"}
  PROVE  Pool!PoolNext \/ UNCHANGED Pool!poolVars
<1>1. CASE HostExists(h)
  <2>1. hosts' = [hosts EXCEPT ![h].used = Refund(hosts[h].used, v)]
    BY <1>1 DEF Released, TypeOK
  <2>2. Refund(hosts[h].used, v) \in Vector
    BY RefundTyped, OfferedTyped DEF TypeOK, HostRow
  <2>3. /\ hosts[h].status = "ready" /\ OnlyRow(h) /\ hosts'[h].status = "ready"
        /\ hosts'[h].budget = hosts[h].budget
        /\ hosts'[h].used = Refund(hosts[h].used, v)
    BY <1>1, <2>1, <2>2 DEF OnlyRow, HostExists, TypeOK, HostRow
  <2> QED
    BY <2>3, ReturnStep DEF Pool!PoolNext
<1>2. CASE ~HostExists(h)
  BY <1>2, PoolUnchanged DEF Released
<1> QED
  BY <1>1, <1>2

LEMMA FinishDeletePool ==
  ASSUME Inductive, Inductive', NEW r \in Request, FinishDelete(r)
  PROVE  Pool!PoolNext \/ UNCHANGED Pool!poolVars
<1> DEFINE h == term[r].host
           v == ctxs[term[r].ctx].caps
           linked == Linked(h) \ {term[r].ctx}
<1>1. /\ h \in Host /\ hosts[h].status \in {"ready", "deleted"} /\ v \in Offered
      /\ TypeOK /\ Released(h, v) \in [Host -> HostRow]
  BY OfferedTyped, ReleasedEffect DEF FinishDelete, Inductive, TermPhases, CapsOffered, Task
<1>2. TerminateIfEmpty(r, h, Released(h, v), linked)
  BY DEF FinishDelete
<1>3. CASE hosts' = Released(h, v)
  BY <1>1, <1>3, ReleasePool
<1>4. CASE HostExists(h) /\ hosts' = [Released(h, v) EXCEPT ![h] = DeletedHostRow(h)]
  <2>1. Released(h, v) = [hosts EXCEPT ![h].used = Refund(hosts[h].used, v)]
    BY <1>1, <1>4 DEF Released, TypeOK
  <2>2. hosts' \in [Host -> HostRow]
    BY DEF Inductive, TypeOK
  <2>3. OnlyRow(h) /\ hosts'[h] = DeletedHostRow(h)
    BY <1>1, <1>4, <2>1, <2>2 DEF OnlyRow, TypeOK
  <2> QED
    BY <1>1, <1>4, <2>3, RetireStep DEF Pool!PoolNext
<1> QED
  BY <1>2, <1>3, <1>4 DEF TerminateIfEmpty

LEMMA SweepHostPool ==
  ASSUME Inductive, Inductive', NEW s \in Sweeper, NEW h \in Host, SweepHost(s, h)
  PROVE  Pool!PoolNext \/ UNCHANGED Pool!poolVars
<1>1. \/ hosts' = hosts
      \/ HostExists(h) /\ hosts' = [hosts EXCEPT ![h] = DeletedHostRow(h)]
  BY DEF SweepHost, TerminateIfEmpty
<1>2. CASE hosts' = hosts
  BY <1>2, PoolUnchanged
<1>3. CASE HostExists(h) /\ hosts' = [hosts EXCEPT ![h] = DeletedHostRow(h)]
  <2>1. OnlyRow(h) /\ hosts'[h] = DeletedHostRow(h) /\ TypeOK
    BY <1>3 DEF OnlyRow, Inductive, TypeOK
  <2> QED
    BY <1>3, <2>1, RetireStep DEF Pool!PoolNext
<1> QED
  BY <1>1, <1>2, <1>3

LEMMA RemoveHostRowPool ==
  ASSUME Inductive, Inductive', NEW t \in Task, RemoveHostRow(t)
  PROVE  Pool!PoolNext \/ UNCHANGED Pool!poolVars
<1> DEFINE h == term[t].host
<1>1. h \in Host
  BY DEF RemoveHostRow, Inductive, TermPhases
<1>2. CASE RemovableRow(h)
  <2>1. hosts' = [hosts EXCEPT ![h] = DeletedHostRow(h)] /\ HostExists(h)
    BY <1>2 DEF RemoveHostRow, RemovableRow
  <2>2. OnlyRow(h) /\ hosts'[h] = DeletedHostRow(h) /\ TypeOK
    BY <1>1, <2>1 DEF OnlyRow, Inductive, TypeOK
  <2> QED
    BY <1>1, <2>1, <2>2, RetireStep DEF Pool!PoolNext
<1>3. CASE ~RemovableRow(h)
  BY <1>3, PoolUnchanged DEF RemoveHostRow
<1> QED
  BY <1>2, <1>3

-----------------------------------------------------------------------------
(* Every step *)

\* These columns of the row are what the pool sees of a host.
LEMMA InvisibleStep ==
  ASSUME TypeOK, NEW h \in Host,
         \/ hosts' = hosts
         \/ hosts' = [hosts EXCEPT ![h].recorded = TRUE]
         \/ hosts' = [hosts EXCEPT ![h].old = TRUE]
  PROVE  UNCHANGED Pool!poolVars
<1>1. \A g \in Host : /\ hosts'[g].status = hosts[g].status
                     /\ hosts'[g].budget = hosts[g].budget
                     /\ hosts'[g].used = hosts[g].used
  <2>1. CASE hosts' = hosts
    BY <2>1
  <2>2. CASE hosts' = [hosts EXCEPT ![h].recorded = TRUE]
    BY <2>2 DEF TypeOK, HostRow
  <2>3. CASE hosts' = [hosts EXCEPT ![h].old = TRUE]
    BY <2>3 DEF TypeOK, HostRow
  <2> QED
    BY <2>1, <2>2, <2>3
<1> QED
  BY <1>1, PoolUnchanged

LEMMA ProvisionPool ==
  ASSUME Inductive, Inductive', NEW c \in Context, Provision(c)
  PROVE  Pool!PoolNext \/ UNCHANGED Pool!poolVars
<1>1. CASE PlaceOnReady(c) \/ ProvisionHost(c)
  BY <1>1, PlaceOnReadyPool, ProvisionHostPool
<1>2. CASE LaunchFails(c) \/ AddressTimesOut(c) \/ HealthTimesOut(c)
  BY <1>2, FailedOrderPool DEF LaunchFails, AddressTimesOut, HealthTimesOut, Ordering
<1>3. CASE MasterHealthy(c)
  BY <1>3, MasterHealthyPool
<1>4. CASE MasterRejects(c)
  <2>1. /\ TypeOK /\ prov[c].host \in Host /\ prov[c].caps \in Offered
        /\ hosts[prov[c].host].status \in {"ready", "deleted"}
    BY <1>4 DEF MasterRejects, Inductive, ProvPhases, CapsOffered
  <2> QED
    BY <1>4, <2>1, ReleasePool DEF MasterRejects
<1>5. CASE AddressAssigned(c)
  <2>1. TypeOK /\ prov[c].host \in Host
    BY <1>5 DEF AddressAssigned, Inductive, ProvPhases, Ordering
  <2> QED
    BY <1>5, <2>1, InvisibleStep DEF AddressAssigned
<1>6. CASE LaunchSucceeds(c) \/ MasterAccepts(c)
  BY <1>6, PoolUnchanged DEF LaunchSucceeds, MasterAccepts
<1> QED
  BY <1>1, <1>2, <1>3, <1>4, <1>5, <1>6 DEF Provision

LEMMA NextPool ==
  Inductive /\ Inductive' /\ [Next]_vars => Pool!PoolNext \/ UNCHANGED Pool!poolVars
<1> SUFFICES ASSUME Inductive, Inductive', [Next]_vars
             PROVE  Pool!PoolNext \/ UNCHANGED Pool!poolVars
  OBVIOUS
<1>1. CASE UNCHANGED hosts
  BY <1>1, PoolUnchanged
<1>2. CASE \E c \in Context : Provision(c)
  BY <1>2, ProvisionPool
<1>3. CASE \E r \in Request : FinishDelete(r)
  BY <1>3, FinishDeletePool
<1>4. CASE \E s \in Sweeper, h \in Host : SweepHost(s, h)
  BY <1>4, SweepHostPool
<1>5. CASE \E t \in Task : RemoveHostRow(t)
  BY <1>5, RemoveHostRowPool
<1>6. CASE \E h \in Host : HostAges(h)
  BY <1>6, InvisibleStep DEF HostAges, Inductive
<1> QED
  BY <1>1, <1>2, <1>3, <1>4, <1>5, <1>6
     DEF Next, CreateContext, DeleteUnplaced, DeletePlaced, RebuildContext, Rebuild,
         RebuildAccepted, RebuildFailed, EndRebuild, Terminate, TerminateSucceeds,
         TerminateFails, SelectPlan, EditPlan, Restart, vars

\* The scheduler, the context handlers and the sweep together implement the host
\* pool: hosts sell only while ready and within budget, and never come back.
THEOREM PlacementImplementsPool == Spec => ImplementsPool
<1>1. Inductive /\ Inductive' /\ [Next]_vars => [Pool!PoolNext]_(Pool!poolVars)
  BY NextPool
<1> QED
  BY <1>1, InitPool, InductiveInvariant, PTL DEF Spec, ImplementsPool, Pool!PoolSpec

-----------------------------------------------------------------------------
(* What contexts take of a host *)

LEMMA LoadNat ==
  ASSUME NEW rows, NEW S \in SUBSET Context, NEW r \in Resource,
         \A c \in S : rows[c].caps \in Vector
  PROVE  Load(rows, S, r) \in Nat
<1> DEFINE f == [c \in Context |-> rows[c].caps[r]]
<1>1. IsFiniteSet(S)
  BY AccountingAssumption, FS_Subset
<1>2. \A c \in S : f[c] \in Nat
  BY DEF Vector
<1> HIDE DEF f
<1>3. SumFunctionOnSet(f, S) \in Nat
  BY <1>1, <1>2, SumNat
<1> QED
  BY <1>3 DEF Load, f

LEMMA LoadSame ==
  ASSUME NEW rows, NEW new, NEW S \in SUBSET Context, NEW r \in Resource,
         \A c \in S : new[c].caps = rows[c].caps
  PROVE  Load(new, S, r) = Load(rows, S, r)
<1> DEFINE f == [c \in Context |-> rows[c].caps[r]]
           g == [c \in Context |-> new[c].caps[r]]
<1>1. IsFiniteSet(S)
  BY AccountingAssumption, FS_Subset
<1>2. \A c \in S : f[c] = g[c]
  OBVIOUS
<1> HIDE DEF f, g
<1>3. SumFunctionOnSet(f, S) = SumFunctionOnSet(g, S)
  BY <1>1, <1>2, SumSame
<1> QED
  BY <1>3 DEF Load, f, g

\* One context more.
LEMMA LoadMore ==
  ASSUME NEW rows, NEW S \in SUBSET Context, NEW r \in Resource,
         NEW c \in Context, c \notin S, \A d \in S \cup {c} : rows[d].caps \in Vector
  PROVE  Load(rows, S \cup {c}, r) = rows[c].caps[r] + Load(rows, S, r)
<1> DEFINE f == [d \in Context |-> rows[d].caps[r]]
<1>1. IsFiniteSet(S)
  BY AccountingAssumption, FS_Subset
<1>2. \A d \in S \cup {c} : f[d] \in Nat
  BY DEF Vector
<1>3. f[c] = rows[c].caps[r]
  OBVIOUS
<1> HIDE DEF f
<1>4. SumFunctionOnSet(f, S \cup {c}) = f[c] + SumFunctionOnSet(f, S)
  BY <1>1, <1>2, SumAdd
<1> QED
  BY <1>3, <1>4 DEF Load, f

LEMMA OccupiedNat ==
  ASSUME TypeOK, NEW h \in Host, NEW r \in Resource
  PROVE  /\ Load(ctxs, Linked(h), r) \in Nat /\ Load(prov, Holding(h), r) \in Nat
         /\ Occupied(h, r) \in Nat
<1>1. \A c \in Context : ctxs[c].caps \in Vector /\ prov[c].caps \in Vector
  BY DEF TypeOK, ContextRow, ProvTask
<1>2. Linked(h) \in SUBSET Context /\ Holding(h) \in SUBSET Context
  BY DEF Linked, Holding
<1>3. Load(ctxs, Linked(h), r) \in Nat /\ Load(prov, Holding(h), r) \in Nat
  BY <1>1, <1>2, LoadNat
<1> QED
  BY <1>3 DEF Occupied

-----------------------------------------------------------------------------
(* A step and the use on record *)

\* The step leaves what context c takes of host h as it was.
Unmoved(c, h) ==
  /\ c \in Linked(h)' <=> c \in Linked(h)
  /\ c \in Holding(h)' <=> c \in Holding(h)
  /\ c \in Linked(h) => ctxs'[c].caps = ctxs[c].caps
  /\ c \in Holding(h) => prov'[c].caps = prov[c].caps

\* The use of host h on record keeps up with what is occupied, and keeps in step with
\* it until a restart if clients wait for the placement.
Follows(h) ==
  \A r \in Resource :
    /\ Occupied(h, r)' + hosts[h].used[r] <= Occupied(h, r) + hosts'[h].used[r]
    /\ Habits = {} /\ crashes' = 0
         => Occupied(h, r)' + hosts[h].used[r] = Occupied(h, r) + hosts'[h].used[r]

LEMMA Occupants ==
  ASSUME NEW h \in Host
  PROVE  /\ Linked(h) \in SUBSET Context /\ Holding(h) \in SUBSET Context
         /\ Linked(h)' \in SUBSET Context /\ Holding(h)' \in SUBSET Context
         /\ \A r \in Resource :
              Occupied(h, r)' = Load(ctxs', Linked(h)', r) + Load(prov', Holding(h)', r)
BY DEF Linked, Holding, Occupied, Load

\* Where nothing moves and the use stays, nothing changes.
LEMMA UnmovedFollows ==
  ASSUME TypeOK, NEW h \in Host, \A c \in Context : Unmoved(c, h),
         hosts'[h].used = hosts[h].used
  PROVE  Follows(h)
<1>1. /\ Linked(h)' = Linked(h) /\ \A c \in Linked(h) : ctxs'[c].caps = ctxs[c].caps
      /\ Holding(h)' = Holding(h) /\ \A c \in Holding(h) : prov'[c].caps = prov[c].caps
  BY Occupants DEF Unmoved
<1>2. ASSUME NEW r \in Resource PROVE Occupied(h, r)' = Occupied(h, r) /\ Occupied(h, r) \in Nat
  <2>1. /\ Load(ctxs', Linked(h), r) = Load(ctxs, Linked(h), r)
        /\ Load(prov', Holding(h), r) = Load(prov, Holding(h), r)
    BY <1>1, LoadSame, Occupants
  <2> QED
    BY <1>1, <2>1, Occupants, OccupiedNat DEF Occupied
<1>3. \A r \in Resource : hosts[h].used[r] \in Nat
  BY DEF TypeOK, HostRow, Vector
<1> QED
  BY <1>2, <1>3 DEF Follows

\* The rest of the host, when one context moves.
LEMMA RestStays ==
  ASSUME NEW h \in Host, NEW c \in Context, \A d \in Context \ {c} : Unmoved(d, h),
         NEW r \in Resource
  PROVE  /\ Linked(h)' \ {c} = Linked(h) \ {c}
         /\ Holding(h)' \ {c} = Holding(h) \ {c}
         /\ Load(ctxs', Linked(h)' \ {c}, r) = Load(ctxs, Linked(h) \ {c}, r)
         /\ Load(prov', Holding(h)' \ {c}, r) = Load(prov, Holding(h) \ {c}, r)
<1>1. /\ Linked(h)' \ {c} = Linked(h) \ {c}
      /\ \A d \in Linked(h) \ {c} : ctxs'[d].caps = ctxs[d].caps
      /\ Holding(h)' \ {c} = Holding(h) \ {c}
      /\ \A d \in Holding(h) \ {c} : prov'[d].caps = prov[d].caps
  BY Occupants DEF Unmoved
<1>2. PICK S \in SUBSET Context, T \in SUBSET Context :
        S = Linked(h) \ {c} /\ T = Holding(h) \ {c}
  BY Occupants
<1>3. Load(ctxs', S, r) = Load(ctxs, S, r)
  BY <1>1, <1>2, LoadSame
<1>4. Load(prov', T, r) = Load(prov, T, r)
  BY <1>1, <1>2, LoadSame
<1> QED
  BY <1>1, <1>2, <1>3, <1>4

\* The share of one context.
Share(rows, S, c, r) == IF c \in S THEN rows[c].caps[r] ELSE 0

LEMMA LoadSplit ==
  ASSUME NEW rows, NEW S \in SUBSET Context, NEW c \in Context, NEW r \in Resource,
         \A d \in Context : rows[d].caps \in Vector
  PROVE  /\ Load(rows, S \ {c}, r) \in Nat /\ Share(rows, S, c, r) \in Nat
         /\ Load(rows, S, r) = Load(rows, S \ {c}, r) + Share(rows, S, c, r)
<1>1. PICK i \in Nat, k \in Nat : i = Load(rows, S \ {c}, r) /\ k = rows[c].caps[r]
  <2>1. Load(rows, S \ {c}, r) \in Nat
    BY LoadNat
  <2> QED
    BY <2>1 DEF Vector
<1>2. CASE c \in S
  <2>1. (S \ {c}) \cup {c} = S /\ c \notin S \ {c} /\ S \ {c} \in SUBSET Context
    BY <1>2
  <2>2. Load(rows, (S \ {c}) \cup {c}, r) = rows[c].caps[r] + Load(rows, S \ {c}, r)
    BY <2>1, LoadMore
  <2>3. Load(rows, S, r) = k + i
    BY <1>1, <2>1, <2>2
  <2> QED
    BY <1>1, <1>2, <2>3 DEF Share
<1>3. CASE c \notin S
  <2>1. S \ {c} = S
    BY <1>3
  <2>2. Load(rows, S, r) = Load(rows, S \ {c}, r)
    BY <2>1, Zenon
  <2> QED
    BY <1>1, <1>3, <2>2 DEF Share
<1> QED
  BY <1>2, <1>3

\* What a host carries before and after a step that moves one context.
LEMMA Shares ==
  ASSUME TypeOK, TypeOK', NEW h \in Host, NEW c \in Context,
         \A d \in Context \ {c} : Unmoved(d, h), NEW r \in Resource
  PROVE  \E rest \in Nat, old \in Nat, new \in Nat :
           /\ Occupied(h, r) = rest + old /\ Occupied(h, r)' = rest + new
           /\ old = Share(ctxs, Linked(h), c, r) + Share(prov, Holding(h), c, r)
           /\ new = Share(ctxs', Linked(h)', c, r) + Share(prov', Holding(h)', c, r)
<1>1. PICK i, j : i = Load(ctxs, Linked(h) \ {c}, r) /\ j = Load(prov, Holding(h) \ {c}, r)
  OBVIOUS
<1>2. i = Load(ctxs', Linked(h)' \ {c}, r) /\ j = Load(prov', Holding(h)' \ {c}, r)
  BY <1>1, RestStays
<1>3. /\ i \in Nat /\ Share(ctxs, Linked(h), c, r) \in Nat
      /\ Load(ctxs, Linked(h), r) = i + Share(ctxs, Linked(h), c, r)
  <2>1. \A d \in Context : ctxs[d].caps \in Vector
    BY DEF TypeOK, ContextRow
  <2> QED
    BY <1>1, <2>1, Occupants, LoadSplit
<1>4. /\ j \in Nat /\ Share(prov, Holding(h), c, r) \in Nat
      /\ Load(prov, Holding(h), r) = j + Share(prov, Holding(h), c, r)
  <2>1. \A d \in Context : prov[d].caps \in Vector
    BY DEF TypeOK, ProvTask
  <2> QED
    BY <1>1, <2>1, Occupants, LoadSplit
<1>5. /\ Share(ctxs', Linked(h)', c, r) \in Nat
      /\ Load(ctxs', Linked(h)', r) = i + Share(ctxs', Linked(h)', c, r)
  <2>1. \A d \in Context : ctxs'[d].caps \in Vector
    BY DEF TypeOK, ContextRow
  <2> QED
    BY <1>2, <2>1, Occupants, LoadSplit
<1>6. /\ Share(prov', Holding(h)', c, r) \in Nat
      /\ Load(prov', Holding(h)', r) = j + Share(prov', Holding(h)', c, r)
  <2>1. \A d \in Context : prov'[d].caps \in Vector
    BY DEF TypeOK, ProvTask
  <2> QED
    BY <1>2, <2>1, Occupants, LoadSplit
<1>7. PICK rest \in Nat, old \in Nat, new \in Nat :
        /\ rest = i + j
        /\ old = Share(ctxs, Linked(h), c, r) + Share(prov, Holding(h), c, r)
        /\ new = Share(ctxs', Linked(h)', c, r) + Share(prov', Holding(h)', c, r)
  <2>1. /\ i + j \in Nat
        /\ Share(ctxs, Linked(h), c, r) + Share(prov, Holding(h), c, r) \in Nat
        /\ Share(ctxs', Linked(h)', c, r) + Share(prov', Holding(h)', c, r) \in Nat
    BY <1>3, <1>4, <1>5, <1>6
  <2> QED
    BY <2>1, Zenon
<1>8. Occupied(h, r) = rest + old
  BY <1>3, <1>4, <1>7 DEF Occupied
<1>9. Occupied(h, r)' = rest + new
  BY <1>3, <1>4, <1>5, <1>6, <1>7, Occupants
<1> QED
  BY <1>7, <1>8, <1>9

-----------------------------------------------------------------------------
(* The ways a context moves *)

\* A slot is reserved for the task of c.
LEMMA HeldFollows ==
  ASSUME TypeOK, TypeOK', NEW h \in Host, NEW c \in Context,
         \A d \in Context \ {c} : Unmoved(d, h),
         c \notin Linked(h), c \notin Linked(h)', c \notin Holding(h), c \in Holding(h)',
         hosts'[h].used = Charge(hosts[h].used, prov'[c].caps)
  PROVE  Follows(h)
<1> SUFFICES ASSUME NEW r \in Resource
             PROVE  Occupied(h, r)' + hosts[h].used[r] = Occupied(h, r) + hosts'[h].used[r]
                    /\ Occupied(h, r)' + hosts[h].used[r] \in Nat
  BY DEF Follows
<1>1. PICK rest \in Nat, v \in Nat :
        Occupied(h, r) = rest + 0 /\ Occupied(h, r)' = rest + v /\ v = 0 + prov'[c].caps[r]
  BY Shares DEF Share
<1>2. prov'[c].caps[r] \in Nat /\ hosts[h].used[r] \in Nat
  BY DEF TypeOK, ProvTask, HostRow, Vector
<1>3. hosts'[h].used[r] = hosts[h].used[r] + prov'[c].caps[r]
  BY DEF Charge
<1> QED
  BY <1>1, <1>2, <1>3

\* The slot of a task is given back.
LEMMA ReleasedFollows ==
  ASSUME TypeOK, TypeOK', NEW h \in Host, NEW c \in Context,
         \A d \in Context \ {c} : Unmoved(d, h), NEW v \in Vector,
         \/ /\ c \notin Linked(h) /\ c \notin Linked(h)' /\ v = prov[c].caps
            /\ c \in Holding(h) /\ c \notin Holding(h)'
         \/ /\ c \in Linked(h) /\ c \notin Linked(h)' /\ v = ctxs[c].caps
            /\ c \notin Holding(h) /\ c \notin Holding(h)',
         hosts'[h].used = Refund(hosts[h].used, v),
         \A r \in Resource : hosts[h].used[r] >= Occupied(h, r)
  PROVE  Follows(h)
<1> SUFFICES ASSUME NEW r \in Resource
             PROVE  Occupied(h, r)' + hosts[h].used[r] = Occupied(h, r) + hosts'[h].used[r]
                    /\ Occupied(h, r)' + hosts[h].used[r] \in Nat
  BY DEF Follows
<1>1. PICK u \in Nat, k \in Nat : u = hosts[h].used[r] /\ k = v[r]
  BY DEF TypeOK, HostRow, Vector
<1>2. PICK rest \in Nat, i \in Nat, j \in Nat :
        Occupied(h, r) = rest + i /\ Occupied(h, r)' = rest + j /\ i = k /\ j = 0
  <2>1. PICK rest \in Nat, i \in Nat, j \in Nat :
           /\ Occupied(h, r) = rest + i /\ Occupied(h, r)' = rest + j
           /\ i = Share(ctxs, Linked(h), c, r) + Share(prov, Holding(h), c, r)
           /\ j = Share(ctxs', Linked(h)', c, r) + Share(prov', Holding(h)', c, r)
    BY Shares DEF Share
  <2>2. i = k /\ j = 0
    BY <1>1, <2>1 DEF Share
  <2> QED
    BY <2>1, <2>2
<1>3. hosts'[h].used[r] = IF u >= k THEN u - k ELSE 0
  BY <1>1 DEF Refund
<1>4. u >= rest + i
  BY <1>1, <1>2
<1> QED
  BY <1>1, <1>2, <1>3, <1>4

\* The task of c hands its slot to the row.
LEMMA LinkedFollows ==
  ASSUME TypeOK, TypeOK', NEW h \in Host, NEW c \in Context,
         \A d \in Context \ {c} : Unmoved(d, h),
         c \notin Linked(h), c \in Linked(h)', c \in Holding(h), c \notin Holding(h)',
         ctxs'[c].caps = prov[c].caps, hosts'[h].used = hosts[h].used
  PROVE  Follows(h)
<1> SUFFICES ASSUME NEW r \in Resource
             PROVE  Occupied(h, r)' + hosts[h].used[r] = Occupied(h, r) + hosts'[h].used[r]
                    /\ Occupied(h, r)' + hosts[h].used[r] \in Nat
  BY DEF Follows
<1>1. prov[c].caps[r] \in Nat /\ hosts[h].used[r] \in Nat
  BY DEF TypeOK, ProvTask, HostRow, Vector
<1>2. PICK rest \in Nat, v \in Nat, w \in Nat :
        /\ Occupied(h, r) = rest + v /\ Occupied(h, r)' = rest + w
        /\ v = 0 + prov[c].caps[r] /\ w = prov[c].caps[r] + 0
  BY Shares DEF Share
<1> QED
  BY <1>1, <1>2

\* The task of c ends and keeps its slot: the use on record is too high from then on.
LEMMA KeptFollows ==
  ASSUME TypeOK, TypeOK', NEW h \in Host, NEW c \in Context,
         \A d \in Context \ {c} : Unmoved(d, h),
         c \notin Linked(h), c \notin Linked(h)', c \in Holding(h), c \notin Holding(h)',
         hosts'[h].used = hosts[h].used, Habits # {}
  PROVE  Follows(h)
<1> SUFFICES ASSUME NEW r \in Resource
             PROVE  Occupied(h, r)' + hosts[h].used[r] <= Occupied(h, r) + hosts'[h].used[r]
  BY DEF Follows
<1>1. prov[c].caps[r] \in Nat /\ hosts[h].used[r] \in Nat
  BY DEF TypeOK, ProvTask, HostRow, Vector
<1>2. PICK rest \in Nat, v \in Nat, w \in Nat :
        /\ Occupied(h, r) = rest + v /\ Occupied(h, r)' = rest + w
        /\ v = 0 + prov[c].caps[r] /\ w = 0 + 0
  BY Shares DEF Share
<1> QED
  BY <1>1, <1>2

-----------------------------------------------------------------------------
(* Steps that leave the slots alone *)

\* What the accounts rest on, and what a step does for every host that is left.
Ready == /\ Inductive /\ Inductive' /\ DeletesOnce
         /\ CapsOfTasks /\ DeletesLinked /\ PlacedContextsExist /\ ChargesCover

Settled == \A h \in Host : HostExists(h)' => Follows(h)

LEMMA UnmovedSettled ==
  ASSUME TypeOK, \A c \in Context, h \in Host : Unmoved(c, h),
         \A h \in Host : HostExists(h)' => hosts'[h].used = hosts[h].used
  PROVE  Settled
BY UnmovedFollows DEF Settled

\* A row that stays where it is, and a task without a slot.
LEMMA StayUnmoved ==
  ASSUME NEW c \in Context, NEW h \in Host,
         \/ /\ ctxs'[c].host = ctxs[c].host /\ ctxs'[c].caps = ctxs[c].caps
            /\ ContextExists(c)' <=> ContextExists(c)
         \/ ctxs[c].host # h /\ ctxs'[c].host # h,
         \/ prov'[c] = prov[c]
         \/ prov[c].pc # "master" /\ prov'[c].pc # "master"
         \/ prov[c].host # h /\ prov'[c].host # h
  PROVE  Unmoved(c, h)
BY DEF Unmoved, Linked, Holding

LEMMA CreateContextSettled ==
  ASSUME Ready, NEW w \in Workspace, NEW c \in Context, CreateContext(w, c)
  PROVE  Settled
<1>1. TypeOK /\ ProvPhases
  BY DEF Ready, Inductive
<1>2. /\ ctxs[c].status = "none" /\ hosts' = hosts
      /\ ctxs' = [ctxs EXCEPT ![c] = [status |-> "provisioning", ws |-> w,
                                     host |-> NoHost, caps |-> planCaps[role[w]]]]
      /\ prov' = [prov EXCEPT ![c] = [IdleProv EXCEPT !.pc = "start", !.plan = role[w]]]
  BY DEF CreateContext
<1>3. /\ ctxs'[c].host = NoHost /\ prov'[c].pc = "start"
      /\ \A d \in Context \ {c} : ctxs'[d] = ctxs[d] /\ prov'[d] = prov[d]
  BY <1>1, <1>2 DEF TypeOK, IdleProv
<1>4. prov[c].pc = "idle"
  BY <1>1, <1>2 DEF ProvPhases
<1>5. ASSUME NEW d \in Context, NEW h \in Host PROVE Unmoved(d, h)
  <2>1. CASE d = c
    <3>1. c \notin Linked(h) /\ c \notin Linked(h)'
      BY <1>2, <1>3 DEF Linked, ContextExists, NoHost, Host
    <3>2. c \notin Holding(h) /\ c \notin Holding(h)'
      BY <1>3, <1>4 DEF Holding
    <3> QED
      BY <2>1, <3>1, <3>2 DEF Unmoved
  <2>2. CASE d # c
    BY <1>3, <2>2, StayUnmoved DEF ContextExists
  <2> QED
    BY <2>1, <2>2
<1> QED
  BY <1>1, <1>2, <1>5, UnmovedSettled

\* The background task of c goes on or ends without a slot.
LEMMA TaskSettled ==
  ASSUME TypeOK, NEW c \in Context, prov[c].pc # "master", prov'[c].pc # "master",
         \A d \in Context \ {c} : prov'[d] = prov[d],
         \A d \in Context : /\ ctxs'[d].host = ctxs[d].host /\ ctxs'[d].caps = ctxs[d].caps
                            /\ ContextExists(d)' <=> ContextExists(d),
         \A h \in Host : hosts'[h].used = hosts[h].used
  PROVE  Settled
<1>1. ASSUME NEW d \in Context, NEW h \in Host PROVE Unmoved(d, h)
  BY StayUnmoved
<1> QED
  BY <1>1, UnmovedSettled

LEMMA ProvisionHostSettled ==
  ASSUME Ready, NEW c \in Context, ProvisionHost(c) PROVE Settled
<1> DEFINE row == OrderedRow(prov[c].plan, ctxs[c].ws)
<1>1. TypeOK /\ ReadyHosts
  BY DEF Ready, Inductive
<1>2. PICK h \in Host, v \in {planCaps[prov[c].plan]} :
        /\ prov[c].pc = "start" /\ hosts[h].status = "none" /\ ctxs' = ctxs
        /\ hosts' = [hosts EXCEPT ![h] = row]
        /\ prov' = [prov EXCEPT ![c] = [@ EXCEPT !.pc = "launch", !.host = h, !.caps = v]]
  BY DEF ProvisionHost
<1>3. row.used = Zero
  BY DEF OrderedRow, NoHostRow
<1>4. \A g \in Host : hosts'[g].used = hosts[g].used
  BY <1>1, <1>2, <1>3 DEF TypeOK, ReadyHosts
<1>5. prov'[c].pc = "launch" /\ \A d \in Context \ {c} : prov'[d] = prov[d]
  BY <1>1, <1>2 DEF TypeOK, ProvTask
<1> QED
  BY <1>1, <1>2, <1>4, <1>5, TaskSettled DEF ContextExists

\* A failed order of a host.
LEMMA FailedOrderSettled ==
  ASSUME Ready, NEW c \in Context, Ordering(c), SetHostStatus(prov[c].host, "error"),
         Abandon(c)
  PROVE  Settled
<1>1. TypeOK /\ ctxs[c].status # "none"
  BY DEF Ready, Inductive, ProvPhases, Ordering
<1>2. \A h \in Host : hosts'[h].used = hosts[h].used
  BY <1>1 DEF SetHostStatus, TypeOK, HostRow
<1>3. prov[c].pc # "master"
  BY DEF Ordering
<1>4. /\ prov'[c].pc = "idle" /\ \A d \in Context \ {c} : prov'[d] = prov[d]
      /\ \A d \in Context : /\ ctxs'[d].host = ctxs[d].host /\ ctxs'[d].caps = ctxs[d].caps
                            /\ ContextExists(d)' <=> ContextExists(d)
  BY <1>1, AbandonEffect
<1> QED
  BY <1>1, <1>2, <1>3, <1>4, TaskSettled

LEMMA LaunchSettled ==
  ASSUME Ready, NEW c \in Context, LaunchSucceeds(c) \/ AddressAssigned(c) PROVE Settled
<1>1. TypeOK
  BY DEF Ready, Inductive
<1>2. /\ prov[c].pc \in {"launch", "address"} /\ ctxs' = ctxs
      /\ \E s \in {"address", "health"} : prov' = [prov EXCEPT ![c].pc = s]
      /\ \/ hosts' = hosts
         \/ hosts' = [hosts EXCEPT ![prov[c].host].recorded = TRUE]
  BY DEF LaunchSucceeds, AddressAssigned
<1>3. \A h \in Host : hosts'[h].used = hosts[h].used
  BY <1>1, <1>2 DEF TypeOK, HostRow
<1>4. prov'[c].pc # "master" /\ \A d \in Context \ {c} : prov'[d] = prov[d]
  BY <1>1, <1>2 DEF TypeOK, ProvTask
<1> QED
  BY <1>1, <1>2, <1>3, <1>4, TaskSettled DEF ContextExists

\* Rebuilds, delete requests, sweeps and terminations move no context; the use of a
\* host changes only when its row is deleted.
LEMMA StaySettled ==
  ASSUME TypeOK, prov' = prov,
         \A c \in Context : /\ ctxs'[c].host = ctxs[c].host /\ ctxs'[c].caps = ctxs[c].caps
                            /\ ContextExists(c)' <=> ContextExists(c),
         \A h \in Host : HostExists(h)' => hosts'[h].used = hosts[h].used
  PROVE  Settled
<1>1. ASSUME NEW c \in Context, NEW h \in Host PROVE Unmoved(c, h)
  BY StayUnmoved
<1> QED
  BY <1>1, UnmovedSettled

LEMMA DeleteUnplacedSettled ==
  ASSUME Ready, NEW c \in Context, DeleteUnplaced(c) PROVE Settled
<1>1. TypeOK
  BY DEF Ready, Inductive
<1>2. ctxs[c].host = NoHost /\ ctxs' = WithoutContext(c) /\ hosts' = hosts /\ prov' = prov
  BY DEF DeleteUnplaced
<1>3. /\ ctxs'[c].host = NoHost
      /\ \A d \in Context \ {c} : ctxs'[d] = ctxs[d]
  BY <1>1, <1>2 DEF WithoutContext, TypeOK, ContextRow
<1>4. \A h \in Host : h # NoHost
  BY DEF Host, NoHost
<1>5. ASSUME NEW d \in Context, NEW h \in Host PROVE Unmoved(d, h)
  BY <1>2, <1>3, <1>4, StayUnmoved DEF ContextExists
<1> QED
  BY <1>1, <1>2, <1>5, UnmovedSettled

-----------------------------------------------------------------------------
(* Steps that move a slot *)

LEMMA PlaceOnReadySettled ==
  ASSUME Ready, NEW c \in Context, PlaceOnReady(c) PROVE Settled
<1>1. TypeOK /\ TypeOK' /\ CapsOfTasks
  BY DEF Ready, Inductive
<1>2. PICK v : v = planCaps[prov[c].plan]
  OBVIOUS
<1>3. PICK h \in Host : /\ hosts' = [hosts EXCEPT ![h].used = Charge(hosts[h].used, v)]
                        /\ prov' = [prov EXCEPT ![c] = [@ EXCEPT !.pc = "master", !.host = h,
                                                                 !.caps = v]]
                        /\ prov[c].pc = "start" /\ ctxs' = ctxs
  BY <1>2 DEF PlaceOnReady, FirstFit, Fitting, Candidates, Reserved
<1>4. /\ prov'[c].pc = "master" /\ prov'[c].host = h /\ prov'[c].caps = v
      /\ \A d \in Context \ {c} : prov'[d] = prov[d]
      /\ hosts'[h].used = Charge(hosts[h].used, v)
      /\ \A g \in Host \ {h} : hosts'[g].used = hosts[g].used
  BY <1>1, <1>3 DEF TypeOK, ProvTask, HostRow
<1>5. c \notin Linked(h) /\ c \notin Linked(h)' /\ c \notin Holding(h) /\ c \in Holding(h)'
  <2>1. ContextExists(c) => ctxs[c].host = NoHost
    BY <1>1, <1>3 DEF CapsOfTasks
  <2> QED
    BY <1>3, <1>4, <2>1 DEF Linked, Holding, ContextExists, NoHost, Host
<1>6. \A d \in Context \ {c} : \A g \in Host : Unmoved(d, g)
  BY <1>3, <1>4, StayUnmoved DEF ContextExists
<1>7. Follows(h)
  BY <1>1, <1>4, <1>5, <1>6, HeldFollows
<1>8. ASSUME NEW g \in Host \ {h} PROVE Follows(g)
  <2>1. Unmoved(c, g)
    BY <1>3, <1>4 DEF Unmoved, Linked, Holding, ContextExists
  <2> QED
    BY <1>1, <1>4, <1>6, <2>1, UnmovedFollows
<1> QED
  BY <1>7, <1>8 DEF Settled

LEMMA MasterHealthySettled ==
  ASSUME Ready, NEW c \in Context, MasterHealthy(c) PROVE Settled
<1>1. /\ TypeOK /\ TypeOK' /\ CapsOfTasks /\ prov[c].pc = "health" /\ prov[c].host \in Host
      /\ ctxs[c].status # "none"
  BY DEF Ready, Inductive, MasterHealthy, ProvPhases, Ordering
<1>2. PICK h \in Host, v \in Vector : h = prov[c].host /\ v = prov[c].caps
  BY <1>1 DEF TypeOK, ProvTask
<1>3. CASE HostExists(h) /\ Fits(hosts[h].used, v, hosts[h].budget)
  <2>1. /\ hosts' = [hosts EXCEPT ![h] = [hosts[h] EXCEPT !.status = "ready",
                                            !.used = Charge(hosts[h].used, v)]]
        /\ prov' = [prov EXCEPT ![c].pc = "master"] /\ ctxs' = ctxs
    BY <1>2, <1>3 DEF MasterHealthy, Open
  <2>2. /\ prov'[c].pc = "master" /\ prov'[c].host = h /\ prov'[c].caps = v
        /\ \A d \in Context \ {c} : prov'[d] = prov[d]
    BY <1>1, <1>2, <2>1 DEF TypeOK, ProvTask
  <2>3. /\ hosts'[h].used = Charge(hosts[h].used, v)
        /\ \A g \in Host \ {h} : hosts'[g].used = hosts[g].used
    BY <1>1, <2>1 DEF TypeOK, HostRow
  <2>4. c \notin Linked(h) /\ c \notin Linked(h)' /\ c \notin Holding(h) /\ c \in Holding(h)'
    <3>1. ContextExists(c) => ctxs[c].host = NoHost
      BY <1>1 DEF CapsOfTasks
    <3> QED
      BY <1>1, <2>1, <2>2, <3>1 DEF Linked, Holding, ContextExists, NoHost, Host
  <2>5. \A d \in Context \ {c} : \A g \in Host : Unmoved(d, g)
    BY <2>1, <2>2, StayUnmoved DEF ContextExists
  <2>6. Follows(h)
    BY <1>1, <2>2, <2>3, <2>4, <2>5, HeldFollows
  <2>7. ASSUME NEW g \in Host \ {h} PROVE Follows(g)
    <3>1. Unmoved(c, g)
      BY <1>1, <2>1, <2>2 DEF Unmoved, Linked, Holding, ContextExists
    <3> QED
      BY <1>1, <2>3, <2>5, <3>1, UnmovedFollows
  <2> QED
    BY <2>6, <2>7 DEF Settled
<1>4. CASE ~(HostExists(h) /\ Fits(hosts[h].used, v, hosts[h].budget))
  <2>1. /\ hosts' = hosts \/ hosts' = [hosts EXCEPT ![h].status = "ready"]
        /\ Abandon(c)
    BY <1>2, <1>4 DEF MasterHealthy, Open
  <2>2. \A g \in Host : hosts'[g].used = hosts[g].used
    BY <1>1, <2>1, SMTT(30) DEF TypeOK, HostRow
  <2>3. /\ prov'[c].pc = "idle" /\ \A d \in Context \ {c} : prov'[d] = prov[d]
        /\ \A d \in Context : /\ ctxs'[d].host = ctxs[d].host /\ ctxs'[d].caps = ctxs[d].caps
                              /\ ContextExists(d)' <=> ContextExists(d)
    BY <1>1, <2>1, AbandonEffect
  <2> QED
    BY <1>1, <2>2, <2>3, TaskSettled
<1> QED
  BY <1>3, <1>4

\* Giving back the slot of one context changes the use of its host only.
LEMMA ReleasedUse ==
  ASSUME TypeOK, NEW h \in Host, NEW v
  PROVE  /\ HostExists(h) => Released(h, v)[h].used = Refund(hosts[h].used, v)
         /\ \A g \in Host \ {h} : Released(h, v)[g].used = hosts[g].used
BY DEF Released, TypeOK, HostRow

LEMMA MasterRejectsSettled ==
  ASSUME Ready, NEW c \in Context, MasterRejects(c) PROVE Settled
<1>1. /\ TypeOK /\ TypeOK' /\ CapsOfTasks /\ prov[c].pc = "master" /\ prov[c].host \in Host
      /\ ctxs[c].status # "none" /\ ChargesCover
  BY DEF Ready, Inductive, MasterRejects, ProvPhases
<1>2. PICK h \in Host, v \in Vector : h = prov[c].host /\ v = prov[c].caps
  BY <1>1 DEF TypeOK, ProvTask
<1>3. hosts' = Released(h, v) /\ Abandon(c)
  BY <1>2 DEF MasterRejects
<1>4. /\ prov'[c].pc = "idle" /\ \A d \in Context \ {c} : prov'[d] = prov[d]
      /\ \A d \in Context : /\ ctxs'[d].host = ctxs[d].host /\ ctxs'[d].caps = ctxs[d].caps
                            /\ ContextExists(d)' <=> ContextExists(d)
  BY <1>1, <1>3, AbandonEffect
<1>5. c \notin Linked(h) /\ c \notin Linked(h)' /\ c \in Holding(h) /\ c \notin Holding(h)'
  <2>1. ContextExists(c) => ctxs[c].host = NoHost
    BY <1>1 DEF CapsOfTasks
  <2> QED
    BY <1>1, <1>2, <1>4, <2>1 DEF Linked, Holding, NoHost, Host
<1>6. \A d \in Context \ {c} : \A g \in Host : Unmoved(d, g)
  BY <1>4, StayUnmoved
<1>7. ASSUME HostExists(h) PROVE Follows(h)
  <2>1. hosts'[h].used = Refund(hosts[h].used, v)
    BY <1>1, <1>3, <1>7, ReleasedUse
  <2>2. \A r \in Resource : hosts[h].used[r] >= Occupied(h, r)
    BY <1>1, <1>7 DEF ChargesCover
  <2> QED
    BY <1>1, <1>2, <1>5, <1>6, <2>1, <2>2, ReleasedFollows
<1>8. ASSUME NEW g \in Host \ {h} PROVE Follows(g)
  <2>1. Unmoved(c, g)
    BY <1>1, <1>2, <1>4 DEF Unmoved, Linked, Holding
  <2>2. hosts'[g].used = hosts[g].used
    BY <1>1, <1>3, ReleasedUse
  <2> QED
    BY <1>1, <1>6, <2>1, <2>2, UnmovedFollows
<1>9. ~HostExists(h) => ~HostExists(h)'
  BY <1>3 DEF Released, HostExists
<1> QED
  BY <1>7, <1>8, <1>9 DEF Settled

LEMMA MasterAcceptsSettled ==
  ASSUME Ready, NEW c \in Context, MasterAccepts(c) PROVE Settled
<1>1. /\ TypeOK /\ TypeOK' /\ CapsOfTasks /\ prov[c].pc = "master" /\ prov[c].host \in Host
      /\ PlacedContextsExist /\ hosts' = hosts
  BY DEF Ready, Inductive, MasterAccepts, ProvPhases
<1>2. PICK h \in Host : h = prov[c].host
  BY <1>1
<1>3. prov' = [prov EXCEPT ![c] = IdleProv]
  BY DEF MasterAccepts
<1>4. prov'[c].pc = "idle" /\ \A d \in Context \ {c} : prov'[d] = prov[d]
  BY <1>1, <1>3 DEF TypeOK, IdleProv
<1>5. c \in Holding(h) /\ c \notin Holding(h)' /\ c \notin Linked(h)
  <2>1. ContextExists(c) => ctxs[c].host = NoHost
    BY <1>1 DEF CapsOfTasks
  <2> QED
    BY <1>1, <1>2, <1>4, <2>1 DEF Linked, Holding, NoHost, Host
<1>6. CASE HostExists(h) /\ ContextExists(c)
  <2>1. PICK s \in Up : ctxs' = [ctxs EXCEPT ![c] = [@ EXCEPT !.host = h, !.status = s]]
    BY <1>2, <1>6 DEF MasterAccepts
  <2>2. /\ ctxs'[c].host = h /\ ctxs'[c].status \in Up /\ ctxs'[c].caps = ctxs[c].caps
        /\ \A d \in Context \ {c} : ctxs'[d] = ctxs[d]
    BY <1>1, <2>1 DEF TypeOK, ContextRow
  <2>3. ctxs'[c].caps = prov[c].caps /\ ctxs[c].host = NoHost
    BY <1>1, <1>6, <2>2 DEF CapsOfTasks
  <2>4. \A d \in Context \ {c} : \A g \in Host : Unmoved(d, g)
    BY <1>4, <2>2, StayUnmoved DEF ContextExists
  <2>5. Follows(h)
    <3>1. c \in Linked(h)'
      BY <2>2 DEF Up, Linked, ContextExists
    <3> QED
      BY <1>1, <1>5, <2>3, <2>4, <3>1, LinkedFollows
  <2>6. ASSUME NEW g \in Host \ {h} PROVE Follows(g)
    <3>1. Unmoved(c, g)
      BY <1>1, <1>2, <1>4, <2>2, <2>3 DEF Unmoved, Linked, Holding, NoHost, Host
    <3> QED
      BY <1>1, <2>4, <3>1, UnmovedFollows
  <2> QED
    BY <2>5, <2>6 DEF Settled
<1>7. CASE ~(HostExists(h) /\ ContextExists(c))
  <2>1. SetContextStatus(c, "error")
    BY <1>2, <1>7 DEF MasterAccepts
  <2>2. \A d \in Context : /\ ctxs'[d].host = ctxs[d].host /\ ctxs'[d].caps = ctxs[d].caps
                           /\ ContextExists(d)' <=> ContextExists(d)
    BY <1>1, <2>1 DEF SetContextStatus, ContextExists, TypeOK, ContextRow
  <2>3. \A d \in Context \ {c} : \A g \in Host : Unmoved(d, g)
    BY <1>4, <2>2, StayUnmoved
  <2>4. ASSUME HostExists(h) PROVE Follows(h)
    <3>1. Habits # {}
      BY <1>1, <1>7, <2>4 DEF PlacedContextsExist
    <3>2. c \notin Linked(h)'
      BY <1>5, <2>2 DEF Linked
    <3> QED
      BY <1>1, <1>5, <2>3, <3>1, <3>2, KeptFollows
  <2>5. ASSUME NEW g \in Host \ {h} PROVE Follows(g)
    <3>1. Unmoved(c, g)
      BY <1>1, <1>2, <1>4, <2>2 DEF Unmoved, Linked, Holding
    <3> QED
      BY <1>1, <2>3, <3>1, UnmovedFollows
  <2>6. ~HostExists(h) => ~HostExists(h)'
    BY <1>1 DEF HostExists
  <2> QED
    BY <2>4, <2>5, <2>6 DEF Settled
<1> QED
  BY <1>6, <1>7

LEMMA FinishDeleteSettled ==
  ASSUME Ready, NEW r \in Request, FinishDelete(r) PROVE Settled
<1>1. /\ TypeOK /\ TypeOK' /\ CapsOfTasks /\ DeletesLinked /\ ChargesCover
      /\ term[r].pc = "master" /\ term[r].ctx \in Context /\ term[r].host \in Host
  BY DEF Ready, Inductive, FinishDelete, TermPhases, Task
<1>2. PICK c \in Context, h \in Host, v \in Vector :
        c = term[r].ctx /\ h = term[r].host /\ v = ctxs[c].caps
  BY <1>1 DEF TypeOK, ContextRow
<1>3. ContextExists(c) /\ ctxs[c].host = h
  BY <1>1, <1>2 DEF DeletesLinked
<1>4. /\ ctxs' = WithoutContext(c) /\ prov' = prov
      /\ \/ hosts' = Released(h, v)
         \/ hosts' = [Released(h, v) EXCEPT ![h] = DeletedHostRow(h)]
  BY <1>2 DEF FinishDelete, TerminateIfEmpty
<1>5. /\ ~ContextExists(c)' /\ \A d \in Context \ {c} : ctxs'[d] = ctxs[d]
  BY <1>1, <1>4 DEF WithoutContext, ContextExists, TypeOK, ContextRow
<1>6. c \in Linked(h) /\ c \notin Linked(h)' /\ c \notin Holding(h) /\ c \notin Holding(h)'
  <2>1. prov[c].pc = "idle"
    BY <1>1, <1>3 DEF CapsOfTasks, NoHost, Host
  <2> QED
    BY <1>3, <1>4, <1>5, <2>1 DEF Linked, Holding
<1>7. \A d \in Context \ {c} : \A g \in Host : Unmoved(d, g)
  BY <1>4, <1>5, StayUnmoved DEF ContextExists
<1>8. ASSUME HostExists(h)' PROVE Follows(h)
  <2>1. hosts[h] \in HostRow /\ h \in DOMAIN hosts /\ h \in DOMAIN Released(h, v)
    BY <1>1 DEF TypeOK, Released
  <2>2. hosts' = Released(h, v)
    BY <1>4, <1>8, <2>1 DEF HostExists, DeletedHostRow, HostRow
  <2>3. HostExists(h)
    BY <1>8, <2>2 DEF Released, HostExists
  <2>4. hosts'[h].used = Refund(hosts[h].used, v)
    BY <1>1, <2>2, <2>3, ReleasedUse
  <2>5. \A s \in Resource : hosts[h].used[s] >= Occupied(h, s)
    BY <1>1, <2>3 DEF ChargesCover
  <2> QED
    BY <1>1, <1>2, <1>6, <1>7, <2>4, <2>5, ReleasedFollows
<1>9. ASSUME NEW g \in Host \ {h} PROVE Follows(g)
  <2>1. Unmoved(c, g)
    BY <1>3, <1>4, <1>5 DEF Unmoved, Linked, Holding
  <2>2. hosts'[g].used = Released(h, v)[g].used
    BY <1>1, <1>4 DEF Released, TypeOK
  <2>3. hosts'[g].used = hosts[g].used
    BY <1>1, <2>2, ReleasedUse
  <2> QED
    BY <1>1, <1>7, <2>1, <2>3, UnmovedFollows
<1> QED
  BY <1>8, <1>9 DEF Settled

\* A restart forgets the tasks; what they held stays on record.
LEMMA RestartSettled == ASSUME Ready, Restart PROVE Settled
<1>1. TypeOK /\ crashes \in Nat
  BY PlacementAssumption DEF Ready, Inductive, TypeOK
<1>2. /\ prov' = [c \in Context |-> IdleProv] /\ hosts' = hosts /\ ctxs' = ctxs
      /\ crashes' # 0
  BY <1>1 DEF Restart
<1>3. ASSUME NEW h \in Host, NEW r \in Resource
      PROVE  Occupied(h, r)' + hosts[h].used[r] <= Occupied(h, r) + hosts'[h].used[r]
  <2>1. Holding(h)' = {} /\ Linked(h)' = Linked(h)
    BY <1>2 DEF Holding, Linked, ContextExists, IdleProv
  <2>2. Load(prov', {}, r) = 0
    BY FS_EmptySet, SumRecursion DEF Load
  <2>3. Occupied(h, r)' = Load(ctxs, Linked(h), r) + Load(prov', {}, r)
    BY <1>2, <2>1, Occupants
  <2>4. PICK i \in Nat, j \in Nat : i = Load(ctxs, Linked(h), r) /\ j = Load(prov, Holding(h), r)
    BY <1>1, OccupiedNat
  <2>5. Occupied(h, r)' = i /\ Occupied(h, r) = i + j
    BY <2>2, <2>3, <2>4 DEF Occupied
  <2>6. hosts[h].used[r] \in Nat /\ hosts' = hosts
    BY <1>1, <1>2 DEF TypeOK, HostRow, Vector
  <2> QED
    BY <2>5, <2>6
<1> QED
  BY <1>2, <1>3 DEF Settled, Follows

-----------------------------------------------------------------------------
(* Every step *)

LEMMA ProvisionSettled ==
  ASSUME Ready, NEW c \in Context, Provision(c) PROVE Settled
<1>1. CASE LaunchFails(c) \/ AddressTimesOut(c) \/ HealthTimesOut(c)
  BY <1>1, FailedOrderSettled DEF LaunchFails, AddressTimesOut, HealthTimesOut, Ordering
<1>2. CASE ~(LaunchFails(c) \/ AddressTimesOut(c) \/ HealthTimesOut(c))
  BY <1>2, PlaceOnReadySettled, ProvisionHostSettled, LaunchSettled, MasterHealthySettled,
     MasterAcceptsSettled, MasterRejectsSettled DEF Provision
<1> QED
  BY <1>1, <1>2

LEMMA RebuildSettled ==
  ASSUME Ready,
         \/ \E b \in Rebuilder, c \in Context : RebuildContext(b, c)
         \/ \E b \in Rebuilder : Rebuild(b)
  PROVE  Settled
<1>1. TypeOK
  BY DEF Ready, Inductive
<1>2. PICK c \in Context, s \in {"provisioning", "running", "starting", "error"} :
        SetContextStatus(c, s) /\ prov' = prov /\ hosts' = hosts
  BY <1>1 DEF RebuildContext, Rebuild, RebuildAccepted, RebuildFailed, EndRebuild, TypeOK, RebuildTask, Up
<1>3. \A d \in Context : /\ ctxs'[d].host = ctxs[d].host /\ ctxs'[d].caps = ctxs[d].caps
                         /\ ContextExists(d)' <=> ContextExists(d)
  BY <1>1, <1>2 DEF SetContextStatus, ContextExists, TypeOK, ContextRow
<1> QED
  BY <1>1, <1>2, <1>3, StaySettled

\* Sweeps and terminations may delete a row, and change no other.
LEMMA DisposalSettled ==
  ASSUME Ready,
         \/ \E s \in Sweeper, h \in Host : SweepHost(s, h)
         \/ \E t \in Task : Terminate(t)
  PROVE  Settled
<1>1. TypeOK
  BY DEF Ready, Inductive
<1>2. PICK h \in Host : /\ prov' = prov /\ ctxs' = ctxs
                        /\ hosts' = hosts \/ hosts' = [hosts EXCEPT ![h] = DeletedHostRow(h)]
  <2>1. CASE \E s \in Sweeper, h \in Host : SweepHost(s, h)
    BY <2>1 DEF SweepHost, TerminateIfEmpty
  <2>2. ASSUME NEW t \in Task, Terminate(t)
        PROVE  \E h \in Host : /\ prov' = prov /\ ctxs' = ctxs
                               /\ hosts' = hosts \/ hosts' = [hosts EXCEPT ![h] = DeletedHostRow(h)]
    <3>1. term[t].host \in Host
      BY <2>2 DEF Terminate, TerminateSucceeds, TerminateFails, RemoveHostRow, Ready, Inductive,
                  TermPhases
    <3> QED
      BY <2>2, <3>1 DEF Terminate, TerminateSucceeds, TerminateFails, RemoveHostRow
  <2> QED
    BY <2>1, <2>2
<1>3. \A g \in Host : HostExists(g)' => hosts'[g].used = hosts[g].used
  BY <1>1, <1>2, DeletedHostRowTyped DEF HostExists, TypeOK
<1> QED
  BY <1>1, <1>2, <1>3, StaySettled DEF ContextExists

LEMMA NextSettled == ASSUME Ready, [Next]_vars PROVE Settled
<1>0. TypeOK
  BY DEF Ready, Inductive
<1>1. CASE \E w \in Workspace, c \in Context : CreateContext(w, c)
  BY <1>1, CreateContextSettled
<1>2. CASE \E c \in Context : Provision(c) \/ DeleteUnplaced(c)
  BY <1>2, ProvisionSettled, DeleteUnplacedSettled
<1>3. CASE \E r \in Request : FinishDelete(r)
  BY <1>3, FinishDeleteSettled
<1>4. CASE \/ \E b \in Rebuilder, c \in Context : RebuildContext(b, c)
           \/ \E b \in Rebuilder : Rebuild(b)
  BY <1>4, RebuildSettled
<1>5. CASE \/ \E s \in Sweeper, h \in Host : SweepHost(s, h)
           \/ \E t \in Task : Terminate(t)
  BY <1>5, DisposalSettled
<1>6. CASE Restart
  BY <1>6, RestartSettled
<1>7. CASE \/ \E r \in Request, c \in Context : DeletePlaced(r, c)
           \/ \E h \in Host : HostAges(h)
           \/ \E w \in Workspace : SelectPlan(w)
           \/ \E p \in Plan : EditPlan(p)
           \/ UNCHANGED vars
  <2>1. /\ prov' = prov /\ ctxs' = ctxs
        /\ hosts' = hosts \/ \E h \in Host : hosts' = [hosts EXCEPT ![h].old = TRUE]
    BY <1>7 DEF DeletePlaced, HostAges, SelectPlan, EditPlan, vars
  <2>2. \A h \in Host : hosts'[h].used = hosts[h].used
    <3>1. CASE hosts' = hosts
      BY <3>1
    <3>2. ASSUME NEW g \in Host, hosts' = [hosts EXCEPT ![g].old = TRUE]
          PROVE  \A h \in Host : hosts'[h].used = hosts[h].used
      BY <1>0, <3>2 DEF TypeOK, HostRow
    <3> QED
      BY <2>1, <3>1, <3>2
  <2> QED
    BY <1>0, <2>1, <2>2, StaySettled DEF ContextExists
<1> QED
  BY <1>1, <1>2, <1>3, <1>4, <1>5, <1>6, <1>7 DEF Next

\* A deleted row does not come back.
LEMMA DeletedStays ==
  ASSUME Inductive, Inductive', [Next]_vars, NEW h \in Host, hosts[h].status = "deleted"
  PROVE  hosts'[h].status = "deleted"
<1>1. TypeOK
  BY DEF Inductive
<1>2. [g \in Host |-> hosts'[g].status][h] = "deleted"
  <2>1. CASE UNCHANGED Pool!poolVars
    BY <2>1 DEF Pool!poolVars
  <2>2. CASE Pool!PoolNext
    BY <2>2 DEF Pool!PoolNext, Pool!Order, Pool!Open, Pool!Fail, Pool!Sell, Pool!Return, Pool!Retire
  <2> QED
    BY <2>1, <2>2, NextPool
<1> QED
  BY <1>2

\* What a host carries before it is ordered.
LEMMA NothingOrdered ==
  ASSUME Inductive, NEW h \in Host, hosts[h].status = "none", NEW r \in Resource
  PROVE  Occupied(h, r) = 0 /\ hosts[h].used[r] = 0
<1>1. Linked(h) = {} /\ Holding(h) = {}
  BY DEF Inductive, LinkedHostReady, ProvPhases, Linked, Holding, NoHost, Host
<1>2. \A rows : Load(rows, {}, r) = 0
  BY FS_EmptySet, SumRecursion DEF Load
<1>3. hosts[h].used = Zero
  BY DEF Inductive, ReadyHosts
<1> QED
  BY <1>1, <1>2, <1>3 DEF Occupied, Zero

-----------------------------------------------------------------------------
(* Tasks and delete requests stay tied to their contexts *)

Tied == CapsOfTasks /\ DeletesLinked /\ PlacedContextsExist

\* Context c has no task after the step, or one that starts, or the one it had.
TaskKept(c) ==
  \/ prov'[c].pc = "idle"
  \/ /\ prov'[c].pc = "start" /\ ContextExists(c)'
     /\ ctxs'[c].host = NoHost /\ ctxs'[c].caps = planCaps[prov'[c].plan]
  \/ /\ prov[c].pc # "idle" /\ prov'[c].plan = prov[c].plan
     /\ ctxs'[c].caps = ctxs[c].caps
     /\ ContextExists(c)' => ContextExists(c) /\ ctxs'[c].host = ctxs[c].host
     /\ Habits = {} /\ ContextExists(c) => ContextExists(c)'
     /\ \/ prov'[c].pc = prov[c].pc /\ prov'[c].caps = prov[c].caps
        \/ prov[c].pc # "start" /\ prov'[c].caps = prov[c].caps
        \/ prov'[c].caps = planCaps[prov[c].plan]

\* Request r waits for no master after the step, or as before for the same context.
RequestKept(r) ==
  term'[r].pc = "master" =>
    \E c \in Context : /\ term[r].pc = "master" /\ term'[r] = term[r] /\ term[r].ctx = c
                      /\ ContextExists(c)' /\ ctxs'[c].host = ctxs[c].host

LEMMA TasksTied ==
  ASSUME TypeOK, CapsOfTasks, PlacedContextsExist, planCaps' = planCaps,
         \A c \in Context : TaskKept(c)
  PROVE  CapsOfTasks' /\ PlacedContextsExist'
<1>1. ASSUME NEW c \in Context, prov'[c].pc # "idle"
      PROVE  /\ ContextExists(c)' => ctxs'[c].host = NoHost
             /\ ctxs'[c].caps = planCaps[prov'[c].plan]
             /\ prov'[c].pc # "start" => prov'[c].caps = ctxs'[c].caps
             /\ Habits = {} => ContextExists(c)'
  BY <1>1 DEF CapsOfTasks, PlacedContextsExist, TaskKept
<1> QED
  BY <1>1 DEF CapsOfTasks, PlacedContextsExist

LEMMA RequestsTied ==
  ASSUME DeletesLinked, \A r \in Request : RequestKept(r)
  PROVE  DeletesLinked'
<1>1. ASSUME NEW r \in Request, term'[r].pc = "master"
      PROVE  \E c \in Context : /\ term'[r].ctx = c
                                /\ ContextExists(c)' /\ ctxs'[c].host = term'[r].host
  BY <1>1 DEF DeletesLinked, RequestKept
<1>2. ASSUME NEW r \in Request, NEW q \in Request, term'[r].pc = "master",
             term'[q].pc = "master", term'[q].ctx = term'[r].ctx
      PROVE  q = r
  <2>1. term[r].pc = "master" /\ term'[r] = term[r] /\ term[q].pc = "master" /\ term'[q] = term[q]
    BY <1>2 DEF RequestKept
  <2> QED
    BY <1>2, <2>1 DEF DeletesLinked
<1> QED
  BY <1>1, <1>2 DEF DeletesLinked, ContextExists

\* Most steps leave the requests, and all contexts that have a host, where they are.
LEMMA RowsStayRequests ==
  ASSUME DeletesLinked, TermPhases, NEW r \in Request,
         term'[r] = term[r] \/ term'[r].pc # "master",
         \A c \in Context : ContextExists(c) /\ ctxs[c].host # NoHost =>
                              ContextExists(c)' /\ ctxs'[c].host = ctxs[c].host
  PROVE  RequestKept(r)
<1> SUFFICES ASSUME term[r].pc = "master", term'[r] = term[r] PROVE RequestKept(r)
  BY DEF RequestKept
<1>1. PICK c \in Context : /\ term[r].ctx = c /\ term[r].host # NoHost
                           /\ ContextExists(c) /\ ctxs[c].host = term[r].host
  BY DEF DeletesLinked, TermPhases, Task, Host, NoHost, ContextExists
<1> QED
  BY <1>1 DEF RequestKept

\* The background task of c takes a step, and ends, goes on, or takes a slot.
LEMMA TaskStepTied ==
  ASSUME TypeOK, TypeOK', TermPhases, Tied, NEW c \in Context, prov[c].pc # "idle",
         UNCHANGED <<planCaps, term>>,
         \A d \in Context \ {c} : prov'[d] = prov[d] /\ ctxs'[d].host = ctxs[d].host,
         \A d \in Context : /\ ctxs[d].host # NoHost => ctxs'[d].host = ctxs[d].host
                            /\ ctxs'[d].caps = ctxs[d].caps
                            /\ ContextExists(d)' <=> ContextExists(d),
         \/ prov'[c].pc = "idle"
         \/ /\ ctxs'[c].host = ctxs[c].host /\ prov'[c].plan = prov[c].plan
            /\ \/ prov[c].pc # "start" /\ prov'[c].caps = prov[c].caps
               \/ prov'[c].caps = planCaps[prov[c].plan]
  PROVE  Tied'
<1>1. TaskKept(c)
  BY DEF TaskKept
<1>2. ASSUME NEW d \in Context \ {c} PROVE TaskKept(d)
  <2>1. /\ prov'[d] = prov[d] /\ ctxs'[d].host = ctxs[d].host /\ ctxs'[d].caps = ctxs[d].caps
        /\ ContextExists(d)' <=> ContextExists(d)
    OBVIOUS
  <2> QED
    BY <2>1, Zenon DEF TaskKept
<1>3. ASSUME NEW r \in Request PROVE RequestKept(r)
  BY RowsStayRequests DEF Tied
<1> QED
  BY <1>1, <1>2, <1>3, TasksTied, RequestsTied DEF Tied

LEMMA ProvisionTied ==
  ASSUME Inductive, Inductive', Tied, NEW c \in Context, Provision(c)
  PROVE  Tied'
<1>1. /\ TypeOK /\ TypeOK' /\ TermPhases /\ prov[c].pc # "idle" /\ ctxs[c].status # "none"
      /\ UNCHANGED <<planCaps, term>>
  BY DEF Inductive, ProvPhases, Provision, PlaceOnReady, ProvisionHost, LaunchSucceeds, LaunchFails,
         AddressAssigned, AddressTimesOut, MasterHealthy, HealthTimesOut, MasterAccepts,
         MasterRejects
<1>2. CASE Abandon(c)
  <2>1. prov'[c].pc = "idle" /\ \A d \in Context \ {c} : prov'[d] = prov[d]
    BY <1>1, <1>2, AbandonEffect
  <2>2. \A d \in Context : /\ ctxs'[d].host = ctxs[d].host /\ ctxs'[d].caps = ctxs[d].caps
                           /\ ContextExists(d)' <=> ContextExists(d)
    BY <1>1, <1>2, AbandonEffect
  <2> QED
    BY <1>1, <2>1, <2>2, TaskStepTied
<1>3. CASE PlaceOnReady(c) \/ ProvisionHost(c)
  <2>a. PICK v : v = planCaps[prov[c].plan]
    OBVIOUS
  <2>1. /\ ctxs' = ctxs
        /\ \E h, s : prov' = [prov EXCEPT ![c] = [@ EXCEPT !.pc = s, !.host = h, !.caps = v]]
    BY <1>3, <2>a DEF PlaceOnReady, ProvisionHost
  <2>2. /\ prov'[c].plan = prov[c].plan /\ prov'[c].caps = planCaps[prov[c].plan]
        /\ \A d \in Context \ {c} : prov'[d] = prov[d]
    BY <1>1, <2>a, <2>1 DEF TypeOK, ProvTask
  <2>3. \A d \in Context : ContextExists(d)' <=> ContextExists(d)
    BY <2>1 DEF ContextExists
  <2> QED
    BY <1>1, <2>1, <2>2, <2>3, TaskStepTied
<1>4. CASE /\ LaunchSucceeds(c) \/ AddressAssigned(c) \/ MasterHealthy(c)
           /\ ~Abandon(c)
  <2>1. /\ \E p : prov' = [prov EXCEPT ![c].pc = p]
        /\ ctxs' = ctxs /\ prov[c].pc # "start"
    BY <1>4 DEF LaunchSucceeds, AddressAssigned, MasterHealthy
  <2>2. /\ prov'[c].plan = prov[c].plan /\ prov'[c].caps = prov[c].caps
        /\ \A d \in Context \ {c} : prov'[d] = prov[d]
    BY <1>1, <2>1 DEF TypeOK, ProvTask
  <2>3. \A d \in Context : ContextExists(d)' <=> ContextExists(d)
    BY <2>1 DEF ContextExists
  <2> QED
    BY <1>1, <2>1, <2>2, <2>3, TaskStepTied
<1>5. CASE MasterAccepts(c) /\ ~Abandon(c)
  <2>0. /\ prov' = [prov EXCEPT ![c] = IdleProv] /\ ContextExists(c) /\ prov[c].host \in Host
        /\ \E s \in Up :
             ctxs' = [ctxs EXCEPT ![c] = [@ EXCEPT !.host = prov[c].host, !.status = s]]
    BY <1>5 DEF MasterAccepts, Abandon, HostExists
  <2>1. PICK s \in Up :
          /\ prov' = [prov EXCEPT ![c] = IdleProv] /\ ContextExists(c) /\ prov[c].host \in Host
          /\ ctxs' = [ctxs EXCEPT ![c] = [@ EXCEPT !.host = prov[c].host, !.status = s]]
    BY <2>0
  <2>2. prov'[c].pc = "idle" /\ \A d \in Context \ {c} : prov'[d] = prov[d]
    BY <1>1, <2>1 DEF TypeOK, IdleProv
  <2>3. /\ ctxs'[c].caps = ctxs[c].caps /\ ctxs'[c].status \in Up
        /\ \A d \in Context \ {c} : ctxs'[d] = ctxs[d]
    BY <1>1, <2>1 DEF TypeOK, ContextRow
  <2>4. ctxs[c].host = NoHost
    BY <1>1, <2>1 DEF Tied, CapsOfTasks
  <2>5. \A d \in Context : /\ ctxs'[d].caps = ctxs[d].caps
                           /\ ContextExists(d)' <=> ContextExists(d)
    BY <2>1, <2>3 DEF Up, ContextExists
  <2> QED
    BY <1>1, <2>2, <2>3, <2>4, <2>5, TaskStepTied
<1> QED
  BY <1>2, <1>3, <1>4, <1>5
     DEF Provision, LaunchFails, AddressTimesOut, HealthTimesOut, MasterRejects

\* No context moves and no task does.
LEMMA StayTied ==
  ASSUME TypeOK, TermPhases, Tied, UNCHANGED <<planCaps, prov>>,
         \A r \in Request : term'[r] = term[r] \/ term'[r].pc # "master",
         \A c \in Context : /\ ctxs'[c].host = ctxs[c].host /\ ctxs'[c].caps = ctxs[c].caps
                            /\ ContextExists(c)' <=> ContextExists(c)
  PROVE  Tied'
<1>1. ASSUME NEW c \in Context PROVE TaskKept(c)
  BY DEF TaskKept
<1>2. ASSUME NEW r \in Request PROVE RequestKept(r)
  BY RowsStayRequests DEF Tied
<1> QED
  BY <1>1, <1>2, TasksTied, RequestsTied DEF Tied

LEMMA CreateContextTied ==
  ASSUME Inductive, Tied, NEW w \in Workspace, NEW c \in Context, CreateContext(w, c)
  PROVE  Tied'
<1>1. TypeOK /\ TermPhases /\ role[w] \in Plan
  BY DEF Inductive, TypeOK
<1>2. /\ ctxs[c].status = "none" /\ UNCHANGED <<planCaps, term>>
      /\ ctxs' = [ctxs EXCEPT ![c] = [status |-> "provisioning", ws |-> w,
                                     host |-> NoHost, caps |-> planCaps[role[w]]]]
      /\ prov' = [prov EXCEPT ![c] = [IdleProv EXCEPT !.pc = "start", !.plan = role[w]]]
  BY DEF CreateContext
<1>3. /\ ctxs'[c].host = NoHost /\ ctxs'[c].status = "provisioning"
      /\ ctxs'[c].caps = planCaps[role[w]]
      /\ prov'[c].pc = "start" /\ prov'[c].plan = role[w]
      /\ \A d \in Context \ {c} : ctxs'[d] = ctxs[d] /\ prov'[d] = prov[d]
  BY <1>1, <1>2 DEF TypeOK, IdleProv
<1>4. TaskKept(c)
  BY <1>3 DEF TaskKept, ContextExists
<1>5. ASSUME NEW d \in Context \ {c} PROVE TaskKept(d)
  BY <1>3 DEF TaskKept, ContextExists
<1>6. \A d \in Context : ContextExists(d) /\ ctxs[d].host # NoHost =>
                           ContextExists(d)' /\ ctxs'[d].host = ctxs[d].host
  BY <1>2, <1>3 DEF ContextExists
<1>7. ASSUME NEW r \in Request PROVE RequestKept(r)
  BY <1>1, <1>2, <1>6, RowsStayRequests DEF Tied
<1> QED
  BY <1>1, <1>2, <1>4, <1>5, <1>7, TasksTied, RequestsTied DEF Tied

LEMMA DeleteUnplacedTied ==
  ASSUME Inductive, Tied, NEW c \in Context, DeleteUnplaced(c)
  PROVE  Tied'
<1>1. TypeOK /\ TermPhases
  BY DEF Inductive
<1>2. /\ ctxs[c].host = NoHost /\ ctxs' = WithoutContext(c) /\ UNCHANGED <<planCaps, prov, term>>
      /\ prov[c].pc = "idle" \/ Habits # {}
  BY DEF DeleteUnplaced
<1>3. /\ ctxs'[c].host = NoHost /\ ctxs'[c].caps = ctxs[c].caps /\ ctxs'[c].status = "deleted"
      /\ \A d \in Context \ {c} : ctxs'[d] = ctxs[d]
  BY <1>1, <1>2 DEF WithoutContext, TypeOK, ContextRow
<1>4. TaskKept(c)
  BY <1>2, <1>3 DEF TaskKept, ContextExists
<1>5. ASSUME NEW d \in Context \ {c} PROVE TaskKept(d)
  BY <1>2, <1>3 DEF TaskKept, ContextExists
<1>6. \A d \in Context : ContextExists(d) /\ ctxs[d].host # NoHost =>
                           ContextExists(d)' /\ ctxs'[d].host = ctxs[d].host
  BY <1>2, <1>3 DEF ContextExists
<1>7. ASSUME NEW r \in Request PROVE RequestKept(r)
  BY <1>1, <1>2, <1>6, RowsStayRequests DEF Tied
<1> QED
  BY <1>1, <1>2, <1>4, <1>5, <1>7, TasksTied, RequestsTied DEF Tied

\* A delete request reads the row, and is the only one for its context.
LEMMA DeletePlacedTied ==
  ASSUME Inductive, DeletesOnce, Tied, NEW r \in Request, NEW c \in Context, DeletePlaced(r, c)
  PROVE  Tied'
<1>1. TypeOK /\ r \in Task
  BY DEF Inductive, Task
<1>2. /\ ContextExists(c) /\ UNCHANGED <<planCaps, prov, ctxs>>
      /\ \A t \in Request : term[t].ctx # c
      /\ term' = [term EXCEPT ![r] = [pc |-> "master", ctx |-> c, host |-> ctxs[c].host]]
  BY DEF DeletePlaced, DeletesOnce
<1>3. /\ term'[r].ctx = c /\ term'[r].host = ctxs[c].host
      /\ \A q \in Request \ {r} : term'[q] = term[q]
  BY <1>1, <1>2 DEF TypeOK
<1>4. DeletesLinked'
  <2>1. ASSUME NEW q \in Request, term'[q].pc = "master"
        PROVE  /\ ctxs'[term'[q].ctx].status \notin {"none", "deleted"}
               /\ ctxs'[term'[q].ctx].host = term'[q].host
    BY <1>2, <1>3, <2>1 DEF Tied, DeletesLinked, ContextExists
  <2>2. ASSUME NEW q \in Request, NEW t \in Request, term'[q].pc = "master",
               term'[t].pc = "master", term'[t].ctx = term'[q].ctx
        PROVE  t = q
    BY <1>2, <1>3, <2>2 DEF Tied, DeletesLinked
  <2> QED
    BY <2>1, <2>2 DEF DeletesLinked, ContextExists
<1>5. ASSUME NEW d \in Context PROVE TaskKept(d)
  BY <1>2 DEF TaskKept, ContextExists
<1> QED
  BY <1>1, <1>2, <1>4, <1>5, TasksTied DEF Tied

\* The context of a finished delete had no other request, and no task.
LEMMA FinishDeleteTied ==
  ASSUME Inductive, Tied, NEW r \in Request, FinishDelete(r)
  PROVE  Tied'
<1>1. /\ TypeOK /\ term[r].pc = "master" /\ term[r].ctx \in Context /\ term[r].host \in Host
      /\ r \in Task
  BY DEF Inductive, FinishDelete, TermPhases, Task
<1>2. PICK c \in Context : c = term[r].ctx
  BY <1>1
<1>3. /\ ctxs' = WithoutContext(c) /\ UNCHANGED <<planCaps, prov>>
      /\ \E i \in {"idle", "ec2"} :
           \E d, h : term' = [term EXCEPT ![r] = [pc |-> i, ctx |-> d, host |-> h]]
  BY <1>2 DEF FinishDelete, TerminateIfEmpty, IdleTerm
<1>4. prov[c].pc = "idle"
  BY <1>1, <1>2 DEF Tied, CapsOfTasks, DeletesLinked, NoHost, Host
<1>5. /\ term'[r].pc # "master" /\ \A q \in Request \ {r} : term'[q] = term[q]
      /\ \A d \in Context \ {c} : ctxs'[d] = ctxs[d]
  BY <1>1, <1>3 DEF WithoutContext, TypeOK, ContextRow
<1>6. ASSUME NEW d \in Context PROVE TaskKept(d)
  BY <1>3, <1>4, <1>5 DEF TaskKept, ContextExists
<1>7. ASSUME NEW q \in Request PROVE RequestKept(q)
  <2> SUFFICES ASSUME term'[q].pc = "master" PROVE RequestKept(q)
    BY DEF RequestKept
  <2>1. q # r /\ term'[q] = term[q] /\ term[q].pc = "master"
    BY <1>5
  <2>2. PICK d \in Context : d = term[q].ctx /\ ContextExists(d) /\ d # c
    BY <1>1, <1>2, <2>1 DEF Tied, DeletesLinked, Inductive, TermPhases, Task
  <2>3. ContextExists(d)' /\ ctxs'[d].host = ctxs[d].host
    BY <1>5, <2>2 DEF ContextExists
  <2> QED
    BY <2>1, <2>2, <2>3 DEF RequestKept
<1> QED
  BY <1>1, <1>3, <1>6, <1>7, TasksTied, RequestsTied DEF Tied

LEMMA RestartTied == ASSUME Inductive, Tied, Restart PROVE Tied'
<1>1. /\ TypeOK /\ UNCHANGED <<planCaps, ctxs>>
      /\ prov' = [c \in Context |-> IdleProv] /\ term' = [t \in Task |-> IdleTerm]
  BY DEF Inductive, Restart
<1>2. ASSUME NEW c \in Context PROVE TaskKept(c)
  BY <1>1 DEF TaskKept, IdleProv
<1>3. ASSUME NEW r \in Request PROVE RequestKept(r)
  BY <1>1 DEF RequestKept, IdleTerm, Task
<1> QED
  BY <1>1, <1>2, <1>3, TasksTied, RequestsTied DEF Tied

LEMMA RebuildTied ==
  ASSUME Inductive, Tied,
         \/ \E b \in Rebuilder, c \in Context : RebuildContext(b, c)
         \/ \E b \in Rebuilder : Rebuild(b)
  PROVE  Tied'
<1>1. TypeOK /\ TermPhases
  BY DEF Inductive
<1>2. PICK c \in Context, s \in {"provisioning", "running", "starting", "error"} :
        SetContextStatus(c, s) /\ UNCHANGED <<planCaps, prov, term>>
  BY <1>1 DEF RebuildContext, Rebuild, RebuildAccepted, RebuildFailed, EndRebuild, TypeOK, RebuildTask, Up
<1>3. \A d \in Context : /\ ctxs'[d].host = ctxs[d].host /\ ctxs'[d].caps = ctxs[d].caps
                         /\ ContextExists(d)' <=> ContextExists(d)
  BY <1>1, <1>2 DEF SetContextStatus, ContextExists, TypeOK, ContextRow
<1> QED
  BY <1>1, <1>2, <1>3, StayTied

LEMMA DisposalTied ==
  ASSUME Inductive, Tied,
         \/ \E s \in Sweeper, h \in Host : SweepHost(s, h)
         \/ \E t \in Task : Terminate(t)
  PROVE  Tied'
<1>1. TypeOK /\ TermPhases
  BY DEF Inductive
<1>2. UNCHANGED <<planCaps, prov, ctxs>>
  BY DEF SweepHost, Terminate, TerminateSucceeds, TerminateFails, RemoveHostRow
<1>3. PICK t \in Task, i \in {"idle", "ec2", "row"} :
        \/ term' = term
        \/ term' = [term EXCEPT ![t].pc = i]
        \/ \E d, h : term' = [term EXCEPT ![t] = [pc |-> i, ctx |-> d, host |-> h]]
  <2>1. ASSUME NEW s \in Sweeper, NEW h \in Host, SweepHost(s, h)
        PROVE  \E i \in {"idle", "ec2", "row"} : \E d, g :
                 term' = [term EXCEPT ![s] = [pc |-> i, ctx |-> d, host |-> g]]
    BY <2>1 DEF SweepHost, TerminateIfEmpty, IdleTerm
  <2>2. ASSUME NEW t \in Task, Terminate(t)
        PROVE  \E i \in {"idle", "ec2", "row"} :
                 \/ term' = [term EXCEPT ![t].pc = i]
                 \/ \E d, h : term' = [term EXCEPT ![t] = [pc |-> i, ctx |-> d, host |-> h]]
    BY <2>2 DEF Terminate, TerminateSucceeds, TerminateFails, RemoveHostRow, IdleTerm
  <2> QED
    BY <2>1, <2>2, SMTT(30) DEF Task
<1>4. \A r \in Request : term'[r] = term[r] \/ term'[r].pc # "master"
  BY <1>1, <1>3 DEF TypeOK, Task, TermTask
<1> QED
  BY <1>1, <1>2, <1>4, StayTied DEF ContextExists

LEMMA NextTied ==
  ASSUME CapsFixed, DeletesOnce, Inductive, Inductive', Tied, [Next]_vars
  PROVE  Tied'
<1>1. CASE \E w \in Workspace, c \in Context : CreateContext(w, c)
  BY <1>1, CreateContextTied
<1>2. CASE \E c \in Context : Provision(c) \/ DeleteUnplaced(c)
  BY <1>2, ProvisionTied, DeleteUnplacedTied
<1>3. CASE \/ \E r \in Request, c \in Context : DeletePlaced(r, c)
           \/ \E r \in Request : FinishDelete(r)
  BY <1>3, DeletePlacedTied, FinishDeleteTied
<1>4. CASE \/ \E b \in Rebuilder, c \in Context : RebuildContext(b, c)
           \/ \E b \in Rebuilder : Rebuild(b)
  BY <1>4, RebuildTied
<1>5. CASE \/ \E s \in Sweeper, h \in Host : SweepHost(s, h)
           \/ \E t \in Task : Terminate(t)
  BY <1>5, DisposalTied
<1>6. CASE Restart
  BY <1>6, RestartTied
<1>7. CASE \/ \E h \in Host : HostAges(h)
           \/ \E w \in Workspace : SelectPlan(w)
           \/ \E p \in Plan : EditPlan(p)
           \/ UNCHANGED vars
  <2>1. UNCHANGED <<prov, ctxs, term>>
    BY <1>7 DEF HostAges, SelectPlan, EditPlan, vars
  <2>2. ASSUME NEW p \in Plan PROVE ~EditPlan(p)
    BY DEF EditPlan, CapsFixed, Tied, CapsOfTasks
  <2>3. planCaps' = planCaps
    BY <1>7, <2>2 DEF HostAges, SelectPlan, vars
  <2> QED
    BY <2>1, <2>3, StayTied DEF Inductive, ContextExists
<1> QED
  BY <1>1, <1>2, <1>3, <1>4, <1>5, <1>6, <1>7 DEF Next

-----------------------------------------------------------------------------
(* The accounts *)

LEMMA InitAccounts == ASSUME Init PROVE Accounts
<1>1. TypeOK
  BY InitInductive DEF Inductive
<1>2. Tied
  BY PlacementAssumption
     DEF Init, Tied, CapsOfTasks, DeletesLinked, PlacedContextsExist, IdleProv, IdleTerm, Task
<1>3. ASSUME NEW h \in Host, NEW r \in Resource
      PROVE  Occupied(h, r) = 0 /\ hosts[h].used[r] = 0
  BY InitInductive, NothingOrdered DEF Init, NoHostRow
<1> QED
  BY <1>2, <1>3 DEF Accounts, Tied, ChargesCover, ExactAccounting

LEMMA OccupiedNextNat ==
  ASSUME TypeOK', NEW h \in Host, NEW r \in Resource
  PROVE  Occupied(h, r)' \in Nat
<1>1. \A c \in Context : ctxs'[c].caps \in Vector /\ prov'[c].caps \in Vector
  BY DEF TypeOK, ContextRow, ProvTask
<1>2. PICK S \in SUBSET Context, T \in SUBSET Context : S = Linked(h)' /\ T = Holding(h)'
  BY Occupants
<1>3. Load(ctxs', S, r) \in Nat /\ Load(prov', T, r) \in Nat
  BY <1>1, LoadNat
<1> QED
  BY <1>2, <1>3, Occupants

\* The accounts of a host that is left balance if they did before, or if it is new.
LEMMA HostBalances ==
  ASSUME Ready, [Next]_vars, NEW h \in Host, HostExists(h)', NEW r \in Resource
  PROVE  /\ hosts'[h].used[r] >= Occupied(h, r)'
         /\ Habits = {} /\ ExactAccounting /\ crashes' = 0
              => hosts'[h].used[r] = Occupied(h, r)'
<1>1. PICK i \in Nat, j \in Nat, u \in Nat, v \in Nat :
        i = Occupied(h, r) /\ j = Occupied(h, r)' /\ u = hosts[h].used[r] /\ v = hosts'[h].used[r]
  <2>1. Occupied(h, r) \in Nat /\ Occupied(h, r)' \in Nat
    BY OccupiedNat, OccupiedNextNat DEF Ready, Inductive
  <2>2. hosts[h].used[r] \in Nat /\ hosts'[h].used[r] \in Nat
    BY DEF Ready, Inductive, TypeOK, HostRow, Vector
  <2> QED
    BY <2>1, <2>2, Zenon
<1>2. j + u <= i + v /\ (Habits = {} /\ crashes' = 0 => j + u = i + v)
  BY <1>1, NextSettled DEF Settled, Follows
<1>3. u >= i /\ (Habits = {} /\ ExactAccounting /\ crashes = 0 => u = i)
  <2>1. CASE HostExists(h)
    BY <1>1, <2>1 DEF Ready, ChargesCover, ExactAccounting
  <2>2. CASE hosts[h].status = "none"
    BY <1>1, <2>2, NothingOrdered DEF Ready
  <2>3. hosts[h].status # "deleted"
    BY DeletedStays DEF Ready, HostExists
  <2> QED
    BY <2>1, <2>2, <2>3 DEF HostExists
<1>4. crashes' = 0 => crashes = 0
  <2>1. crashes \in Nat
    BY PlacementAssumption DEF Ready, Inductive, TypeOK
  <2>2. crashes' = crashes \/ crashes' = crashes + 1
    BY DEF Next, CreateContext, Provision, PlaceOnReady, ProvisionHost, LaunchSucceeds, LaunchFails,
           AddressAssigned, AddressTimesOut, MasterHealthy, HealthTimesOut, MasterAccepts,
           MasterRejects, DeleteUnplaced, DeletePlaced, FinishDelete, RebuildContext, Rebuild,
           RebuildAccepted, RebuildFailed, EndRebuild, SweepHost, Terminate, TerminateSucceeds,
           TerminateFails, RemoveHostRow, HostAges, SelectPlan, EditPlan, Restart, vars
  <2> QED
    BY <2>1, <2>2
<1> QED
  BY <1>1, <1>2, <1>3, <1>4

LEMMA NextAccounts ==
  ASSUME CapsFixed, DeletesOnce, Inductive, Inductive', Accounts, [Next]_vars
  PROVE  Accounts'
<1>1. Ready /\ Tied
  BY DEF Ready, Accounts, Tied
<1>2. Tied'
  BY <1>1, NextTied
<1>3. ChargesCover'
  BY <1>1, HostBalances DEF ChargesCover
<1>4. Habits = {} => ExactAccounting'
  BY <1>1, HostBalances DEF Accounts, ExactAccounting
<1> QED
  BY <1>2, <1>3, <1>4 DEF Accounts, Tied

LEMMA AccountsInvariant == ASSUME CapsFixed, DeletesOnce PROVE Spec => []Accounts
<1>1. Inductive /\ Inductive' /\ Accounts /\ [Next]_vars => Accounts'
  BY NextAccounts
<1> QED
  BY <1>1, InitAccounts, InductiveInvariant, PTL DEF Spec

\* However placements, failures, deletes, sweeps and restarts interleave, what a host
\* has on record covers all contexts on it or on their way to it: the scheduler never
\* sells a slot twice.  Two things break this, and are excluded: plan caps edited while
\* a context is being provisioned, and a context deleted twice at once.
THEOREM OccupiedCharged == ASSUME CapsFixed, DeletesOnce PROVE Spec => []ChargesCover
<1>1. Accounts => ChargesCover
  BY DEF Accounts
<1> QED
  BY <1>1, AccountsInvariant, PTL

\* For clients that wait for the placement too, every failure and delete gives back what
\* was reserved, no more and no less, until a restart forgets a task.
THEOREM AccountsExact == ASSUME CapsFixed, Habits = {} PROVE Spec => []ExactAccounting
<1>1. DeletesOnce
  BY DEF DeletesOnce
<1>2. Accounts => ExactAccounting
  BY DEF Accounts
<1> QED
  BY <1>1, <1>2, AccountsInvariant, PTL

\* "Two concurrent placements can never over-commit a host", under the hypotheses of
\* OccupiedCharged: not only the use on record, what contexts take stays in the budget.
THEOREM HostsNotOverCommitted == ASSUME CapsFixed, DeletesOnce PROVE Spec => []NeverOverCommitted
<1>1. ASSUME Inductive, Accounts, NEW h \in Host, NEW r \in Resource, HostExists(h)
      PROVE  Occupied(h, r) <= hosts[h].budget[r]
  <2>1. /\ hosts[h].used[r] >= Occupied(h, r) /\ hosts[h].used[r] <= hosts[h].budget[r]
    BY <1>1 DEF Accounts, ChargesCover, Inductive, WithinBudget
  <2>2. Occupied(h, r) \in Nat /\ hosts[h].used[r] \in Nat /\ hosts[h].budget[r] \in Nat
    BY <1>1, OccupiedNat DEF Inductive, TypeOK, HostRow, Vector
  <2> QED
    BY <2>1, <2>2
<1>2. Inductive /\ Accounts => NeverOverCommitted
  BY <1>1 DEF NeverOverCommitted
<1> QED
  BY <1>2, AccountsInvariant, InductiveInvariant, PTL
=============================================================================
