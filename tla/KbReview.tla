------------------------------ MODULE KbReview ------------------------------
(***************************************************************************)
(* The review queue of shared knowledge: routers/kb_review.py.             *)
(*                                                                         *)
(* Agents do not write to the shared knowledge base: what a run wants to   *)
(* share is queued (propagate_to_master_kb) and an owner approves or       *)
(* rejects it.  Approving reads the row, awaits the container that writes  *)
(* the content, and then sets the status; rejecting is one step.  The      *)
(* answer of the container may be lost after the content was written.      *)
(***************************************************************************)
EXTENDS Naturals

CONSTANTS
  Item,       \* review items
  Request,    \* bound: approve requests in flight
  MaxCrash,   \* bound: restarts of the backend
  Nothing,
  Habits      \* what owners do: a subset of AllHabits

AllHabits == {"decides_twice"}  \* approves or rejects an item that is being approved

ASSUME ReviewAssumption == /\ MaxCrash \in Nat /\ Habits \subseteq AllHabits
                           /\ Nothing \notin Item

VARIABLES
  status,    \* status[i]: the row of kb_review_queue
  written,   \* written[i]: the content is in the shared knowledge base
  req,       \* req[r]: an approve request at its await
  late,      \* items the container may still write although nobody waits for it
  crashes    \* restarts so far

vars == <<status, written, req, late, crashes>>

\* pc "write": the container has not written yet; "answer": it has.
ApproveTask == [pc : {"idle"}, item : {Nothing}]
               \cup [pc : {"write", "answer"}, item : Item]

TypeOK == /\ status \in [Item -> {"none", "pending", "approved", "rejected"}]
          /\ written \in [Item -> BOOLEAN]
          /\ req \in [Request -> ApproveTask]
          /\ late \subseteq Item
          /\ crashes \in 0 .. MaxCrash

IdleRequest == [pc |-> "idle", item |-> Nothing]

Init == /\ status = [i \in Item |-> "none"]
        /\ written = [i \in Item |-> FALSE]
        /\ req = [r \in Request |-> IdleRequest]
        /\ late = {}
        /\ crashes = 0

Approvers(i) == {r \in Request : req[r].item = i}
Approving(i) == Approvers(i) # {}

\* propagate_to_master_kb.
Enqueue(i) == /\ status[i] = "none"
              /\ status' = [status EXCEPT ![i] = "pending"]
              /\ UNCHANGED <<written, req, late, crashes>>

\* Mutant of Decidable: an item that was decided on may be decided on again.
DecidableAgain(i) == status[i] # "none"

\* The check of approve and reject (409 otherwise).
Decidable(i) == status[i] = "pending"

\* What the assumptions about owners allow them to decide.
MayDecide(i) == "decides_twice" \in Habits \/ ~Approving(i)

\* POST /kb-review/{id}/approve, up to the await.
Approve(r, i) == /\ req[r].pc = "idle"
                 /\ Decidable(i) /\ MayDecide(i)
                 /\ req' = [req EXCEPT ![r] = [pc |-> "write", item |-> i]]
                 /\ UNCHANGED <<status, written, late, crashes>>

\* The container's agent_write.
ContainerWrites(r) == /\ req[r].pc = "write"
                      /\ written' = [written EXCEPT ![req[r].item] = TRUE]
                      /\ req' = [req EXCEPT ![r].pc = "answer"]
                      /\ UNCHANGED <<status, late, crashes>>

\* Mutant of Approved: the call of the container is not awaited.
ApprovedUnanswered(r) == /\ req[r].pc \in {"write", "answer"}
                         /\ status' = [status EXCEPT ![req[r].item] = "approved"]
                         /\ req' = [req EXCEPT ![r] = IdleRequest]
                         /\ UNCHANGED <<written, late, crashes>>

\* The answer arrives and the status is set, whatever it is by now.
Approved(r) == /\ req[r].pc = "answer"
               /\ status' = [status EXCEPT ![req[r].item] = "approved"]
               /\ req' = [req EXCEPT ![r] = IdleRequest]
               /\ UNCHANGED <<written, late, crashes>>

\* The writes that are under way when the process dies.
Abandoned == {req[r].item : r \in {q \in Request : req[q].pc = "write"}}

\* The call fails, before or after the write: 502, and the item stays pending.
WriteFails(r) == /\ req[r].pc # "idle"
                 /\ req' = [req EXCEPT ![r] = IdleRequest]
                 /\ late' = IF req[r].pc = "write" THEN late \cup {req[r].item} ELSE late
                 /\ UNCHANGED <<status, written, crashes>>

\* The container gets to a write nobody waits for any more.
LateWrite(i) == /\ i \in late
                /\ written' = [written EXCEPT ![i] = TRUE]
                /\ late' = late \ {i}
                /\ UNCHANGED <<status, req, crashes>>

\* POST /kb-review/{id}/reject.
Reject(i) == /\ Decidable(i) /\ MayDecide(i)
             /\ status' = [status EXCEPT ![i] = "rejected"]
             /\ UNCHANGED <<written, req, late, crashes>>

\* The process dies and starts again: requests at an await are gone.
Restart == /\ crashes < MaxCrash /\ crashes' = crashes + 1
           /\ req' = [r \in Request |-> IdleRequest]
           /\ late' = late \cup Abandoned
           /\ UNCHANGED <<status, written>>

Next == \/ \E i \in Item : Enqueue(i) \/ Reject(i) \/ LateWrite(i)
        \/ \E r \in Request, i \in Item : Approve(r, i)
        \/ \E r \in Request : ContainerWrites(r) \/ Approved(r) \/ WriteFails(r)
        \/ Restart

Spec == Init /\ [][Next]_vars

-----------------------------------------------------------------------------
(* Safety *)

\* An item on record as approved is in the knowledge base, over lost answers,
\* restarts and concurrent decisions (approve_review).
ApprovedIsWritten == \A i \in Item : status[i] = "approved" => written[i]

\* Once an item is decided on, by whichever of several requests comes first, no approval
\* of it is taken up any more, and the decision is turned only to approved, by an
\* approval that was asked for before it and has been answered (approve_review,
\* reject_review).
DecisionStands ==
  [][\A i \in Item : status[i] \in {"approved", "rejected"} =>
       /\ Approvers(i)' \subseteq Approvers(i)
       /\ \/ status'[i] = status[i]
          \/ status'[i] = "approved" /\ \E r \in Approvers(i) : r \notin Approvers(i)']_vars

\* A decision is final ("Item already approved", "Item already rejected").
DecisionFinal ==
  [][\A i \in Item : status[i] \in {"approved", "rejected"} => status'[i] = status[i]]_vars

\* What an owner rejects is not in the shared knowledge base: "a shared write is
\* queued here; an owner approves (upsert into the context KB) or rejects it".
RejectedIsAbsent == \A i \in Item : status[i] = "rejected" => ~written[i]

-----------------------------------------------------------------------------
(* The inductive invariants *)

\* A request that waits for the answer waits for that of a write that was made.
AnswersFollowWrites == \A r \in Request : req[r].pc = "answer" => written[req[r].item]

WrittenInv == TypeOK /\ AnswersFollowWrites /\ ApprovedIsWritten

\* With owners that do not decide twice, an item being approved is pending and
\* no other request approves it.
OneApprover ==
  \A r \in Request : req[r].pc # "idle" =>
    /\ status[req[r].item] = "pending"
    /\ \A q \in Request : req[q].item = req[r].item => q = r

DecisionInv == TypeOK /\ ("decides_twice" \notin Habits => OneApprover)
=============================================================================
