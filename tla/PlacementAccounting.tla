------------------------- MODULE PlacementAccounting -------------------------
(***************************************************************************)
(* The recorded use of a host against the contexts that occupy it.         *)
(***************************************************************************)
EXTENDS Placement, Functions

\* The rows of a table are finitely many.
ASSUME AccountingAssumption == IsFiniteSet(Context)

\* Contexts whose background task holds a slot on host h and has not linked yet.
Holding(h) == {c \in Context : prov[c].pc = "master" /\ prov[c].host = h}

\* What the contexts of S take of resource r, by the caps in their rows or tasks.
Load(rows, S, r) == SumFunctionOnSet([c \in Context |-> rows[c].caps[r]], S)

\* What the contexts linked to or holding a slot on host h take of resource r.
Occupied(h, r) == Load(ctxs, Linked(h), r) + Load(prov, Holding(h), r)

\* Until a restart the use on record is exactly what contexts occupy: every
\* failed placement and every delete gives back its slot, and gives it back once
\* (_provision_bg, delete_context).
ExactAccounting ==
  crashes = 0 => \A h \in Host, r \in Resource :
                   HostExists(h) => hosts[h].used[r] = Occupied(h, r)

\* After a restart the use on record may be too high, for slots whose task is
\* gone, but is never below what contexts occupy (release_host_capacity).
ChargesCover ==
  \A h \in Host, r \in Resource :
    HostExists(h) => hosts[h].used[r] >= Occupied(h, r)

\* "two concurrent placements can never over-commit a host": what contexts
\* occupy stays within the budget.
NeverOverCommitted ==
  \A h \in Host, r \in Resource :
    HostExists(h) => Occupied(h, r) <= hosts[h].budget[r]
-----------------------------------------------------------------------------
(* The inductive invariant *)

\* Nobody edits the caps of a plan, and nobody deletes a context that is being deleted.
CapsFixed == \A p \in Plan : \A u, v \in CapChoices[p] : u = v
DeletesOnce == "deletes_twice" \notin Habits

\* A background task places its context with the caps the row was inserted with.
CapsOfTasks ==
  /\ \A p \in Plan : planCaps[p] \in CapChoices[p]
  /\ \A c \in Context : prov[c].pc # "idle" =>
       /\ ContextExists(c) => ctxs[c].host = NoHost
       /\ ctxs[c].caps = planCaps[prov[c].plan]
       /\ prov[c].pc # "start" => prov[c].caps = ctxs[c].caps

\* The context of a delete request is still linked, and has no other such request.
DeletesLinked ==
  \A r \in Request : term[r].pc = "master" =>
    /\ ContextExists(term[r].ctx) /\ ctxs[term[r].ctx].host = term[r].host
    /\ \A q \in Request : term[q].pc = "master" /\ term[q].ctx = term[r].ctx => q = r

\* A client that waits for the placement finds its context there to be linked.
PlacedContextsExist ==
  Habits = {} => \A c \in Context : prov[c].pc # "idle" => ContextExists(c)

\* What a step preserves of the accounts, besides Inductive.
Accounts == /\ CapsOfTasks /\ DeletesLinked /\ PlacedContextsExist
            /\ ChargesCover /\ (Habits = {} => ExactAccounting)
=============================================================================
