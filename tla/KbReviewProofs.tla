--------------------------- MODULE KbReviewProofs ---------------------------
(***************************************************************************)
(* Proofs about KbReview for any items, requests and restarts.             *)
(***************************************************************************)
EXTENDS KbReview, TLAPS

-----------------------------------------------------------------------------
(* Approved content is written *)

\* A request waits for an answer only when its content was written, and a status
\* is set to approved only by such a request.
THEOREM WrittenInvariant == Spec => []WrittenInv
<1>1. Init => WrittenInv
  BY ReviewAssumption DEF Init, WrittenInv, TypeOK, AnswersFollowWrites, ApprovedIsWritten,
     IdleRequest, ApproveTask
<1>2. WrittenInv /\ [Next]_vars => WrittenInv'
  <2> SUFFICES ASSUME WrittenInv, [Next]_vars PROVE WrittenInv'
    OBVIOUS
  <2>0. /\ status \in [Item -> {"none", "pending", "approved", "rejected"}]
        /\ written \in [Item -> BOOLEAN]
        /\ req \in [Request -> ApproveTask]
        /\ late \subseteq Item /\ crashes \in 0 .. MaxCrash /\ MaxCrash \in Nat
        /\ \A r \in Request : req[r].pc = "answer" => written[req[r].item]
        /\ \A i \in Item : status[i] = "approved" => written[i]
    BY ReviewAssumption DEF WrittenInv, TypeOK, AnswersFollowWrites, ApprovedIsWritten
  <2>t. /\ \A r \in Request : req[r].pc # "idle" => req[r].item \in Item
        /\ IdleRequest \in ApproveTask /\ IdleRequest.pc = "idle"
    BY <2>0 DEF ApproveTask, IdleRequest
  <2> USE <2>0, <2>t DEF WrittenInv, TypeOK, AnswersFollowWrites, ApprovedIsWritten
  <2>1. ASSUME NEW i \in Item, Enqueue(i) PROVE WrittenInv'
    BY <2>1 DEF Enqueue
  <2>2. ASSUME NEW i \in Item, Reject(i) PROVE WrittenInv'
    BY <2>2 DEF Reject
  <2>3. ASSUME NEW i \in Item, LateWrite(i) PROVE WrittenInv'
    BY <2>3 DEF LateWrite
  <2>4. ASSUME NEW r \in Request, NEW i \in Item, Approve(r, i) PROVE WrittenInv'
    <3>1. [pc |-> "write", item |-> i] \in ApproveTask
      BY DEF ApproveTask
    <3> QED
      BY <2>4, <3>1 DEF Approve
  <2>5. ASSUME NEW r \in Request, ContainerWrites(r) PROVE WrittenInv'
    <3>1. [req[r] EXCEPT !.pc = "answer"] \in ApproveTask
      BY <2>5 DEF ContainerWrites, ApproveTask
    <3>2. \A q \in Request : req'[q].item = req[q].item
      BY <2>5 DEF ContainerWrites, ApproveTask
    <3> QED
      BY <2>5, <3>1, <3>2 DEF ContainerWrites
  <2>6. ASSUME NEW r \in Request, Approved(r) PROVE WrittenInv'
    BY <2>6 DEF Approved
  <2>7. ASSUME NEW r \in Request, WriteFails(r) PROVE WrittenInv'
    BY <2>7 DEF WriteFails
  <2>8. CASE Restart
    <3>1. Abandoned \subseteq Item
      BY DEF Abandoned
    <3> QED
      BY <2>8, <3>1 DEF Restart
  <2>9. CASE UNCHANGED vars
    BY <2>9 DEF vars
  <2> QED
    BY <2>1, <2>2, <2>3, <2>4, <2>5, <2>6, <2>7, <2>8, <2>9 DEF Next
<1> QED
  BY <1>1, <1>2, PTL DEF Spec

\* An item on record as approved is in the knowledge base (approve_review).
THEOREM ApprovedWritten == Spec => []ApprovedIsWritten
<1>1. WrittenInv => ApprovedIsWritten
  BY DEF WrittenInv
<1> QED
  BY <1>1, WrittenInvariant, PTL

-----------------------------------------------------------------------------
(* Decisions *)

\* A decision is overturned only by an approval that was asked for before it, whatever
\* owners do, and however many requests, failures and restarts there are.
THEOREM DecisionsStand == Spec => DecisionStands
<1>1. TypeOK /\ [Next]_vars =>
        [\A i \in Item : status[i] \in {"approved", "rejected"} =>
           /\ Approvers(i)' \subseteq Approvers(i)
           /\ \/ status'[i] = status[i]
              \/ status'[i] = "approved" /\ \E r \in Approvers(i) : r \notin Approvers(i)']_vars
  <2> SUFFICES ASSUME TypeOK, Next, NEW i \in Item, status[i] \in {"approved", "rejected"}
               PROVE  /\ Approvers(i)' \subseteq Approvers(i)
                      /\ \/ status'[i] = status[i]
                         \/ /\ status'[i] = "approved"
                            /\ \E r \in Approvers(i) : r \notin Approvers(i)'
    OBVIOUS
  <2> DEFINE Stands == /\ \A q \in Request : req'[q].item = i => req[q].item = i
                       /\ \/ status'[i] = status[i]
                          \/ /\ status'[i] = "approved"
                             /\ \E r \in Request : req[r].item = i /\ req'[r].item # i
  <2> SUFFICES Stands
    BY DEF Approvers
  <2>0. /\ status \in [Item -> {"none", "pending", "approved", "rejected"}]
        /\ req \in [Request -> ApproveTask]
        /\ IdleRequest.item = Nothing /\ Nothing # i
    BY ReviewAssumption DEF TypeOK, IdleRequest
  <2>1. ASSUME NEW j \in Item, Enqueue(j) \/ Reject(j) \/ LateWrite(j) PROVE Stands
    BY <2>0, <2>1 DEF Enqueue, Reject, LateWrite, Decidable
  <2>2. ASSUME NEW r \in Request, NEW j \in Item, Approve(r, j) PROVE Stands
    <3>1. i # j /\ status' = status /\ req'[r].item = j
      BY <2>0, <2>2 DEF Approve, Decidable
    <3>2. \A q \in Request \ {r} : req'[q] = req[q]
      BY <2>0, <2>2 DEF Approve
    <3> QED
      BY <3>1, <3>2
  <2>3. ASSUME NEW r \in Request, ContainerWrites(r) PROVE Stands
    <3>1. status' = status /\ \A q \in Request : req'[q].item = req[q].item
      BY <2>0, <2>3 DEF ContainerWrites, ApproveTask
    <3> QED
      BY <3>1
  <2>4. ASSUME NEW r \in Request, Approved(r) PROVE Stands
    <3>1. /\ req'[r].item = Nothing /\ \A q \in Request \ {r} : req'[q] = req[q]
          /\ status' = [status EXCEPT ![req[r].item] = "approved"]
      BY <2>0, <2>4 DEF Approved
    <3>2. CASE req[r].item = i
      BY <2>0, <3>1, <3>2
    <3>3. CASE req[r].item # i
      BY <2>0, <3>1, <3>3
    <3> QED
      BY <3>2, <3>3
  <2>5. ASSUME NEW r \in Request, WriteFails(r) PROVE Stands
    <3>1. /\ req'[r].item = Nothing /\ \A q \in Request \ {r} : req'[q] = req[q]
          /\ status' = status
      BY <2>0, <2>5 DEF WriteFails
    <3> QED
      BY <2>0, <3>1
  <2>6. CASE Restart
    BY <2>0, <2>6 DEF Restart
  <2> HIDE DEF Stands
  <2> QED
    BY <2>1, <2>2, <2>3, <2>4, <2>5, <2>6 DEF Next
<1>2. WrittenInv => TypeOK
  BY DEF WrittenInv
<1> QED
  BY <1>1, <1>2, WrittenInvariant, PTL DEF Spec, DecisionStands

\* An item being approved is pending and has one approver.
THEOREM DecisionInvariant == Spec => []DecisionInv
<1>1. Init => DecisionInv
  BY ReviewAssumption DEF Init, DecisionInv, TypeOK, OneApprover, IdleRequest, ApproveTask
<1>2. DecisionInv /\ TypeOK' /\ [Next]_vars => DecisionInv'
  <2> SUFFICES ASSUME DecisionInv, TypeOK', [Next]_vars, "decides_twice" \notin Habits
               PROVE  OneApprover'
    BY DEF DecisionInv
  <2>0. /\ status \in [Item -> {"none", "pending", "approved", "rejected"}]
        /\ req \in [Request -> ApproveTask]
        /\ \A r \in Request : req[r].pc # "idle" =>
             /\ status[req[r].item] = "pending"
             /\ \A q \in Request : req[q].item = req[r].item => q = r
    BY DEF DecisionInv, TypeOK, OneApprover
  <2>t. /\ \A r \in Request : req[r].pc # "idle" => req[r].item \in Item
        /\ \A r \in Request : req[r].pc = "idle" => req[r].item = Nothing
        /\ IdleRequest.pc = "idle" /\ IdleRequest.item = Nothing /\ Nothing \notin Item
    BY <2>0, ReviewAssumption DEF ApproveTask, IdleRequest
  <2> USE <2>0, <2>t DEF OneApprover
  <2>1. ASSUME NEW i \in Item, Enqueue(i) PROVE OneApprover'
    BY <2>1 DEF Enqueue
  <2>2. ASSUME NEW i \in Item, Reject(i) PROVE OneApprover'
    BY <2>2 DEF Reject, MayDecide, Approving, Approvers
  <2>3. ASSUME NEW i \in Item, LateWrite(i) PROVE OneApprover'
    BY <2>3 DEF LateWrite
  <2>4. ASSUME NEW r \in Request, NEW i \in Item, Approve(r, i) PROVE OneApprover'
    <3>1. /\ req'[r].item = i /\ req'[r].pc = "write"
          /\ \A q \in Request \ {r} : req'[q] = req[q] /\ req[q].item # i
          /\ status' = status /\ status[i] = "pending"
      BY <2>4 DEF Approve, MayDecide, Approving, Approvers, Decidable
    <3> QED
      BY <3>1
  <2>5. ASSUME NEW r \in Request, ContainerWrites(r) PROVE OneApprover'
    <3>1. /\ \A q \in Request : req'[q].item = req[q].item
          /\ \A q \in Request : req'[q].pc # "idle" => req[q].pc # "idle"
          /\ status' = status
      BY <2>5 DEF ContainerWrites, ApproveTask
    <3> QED
      BY <3>1
  <2>6. ASSUME NEW r \in Request, Approved(r) PROVE OneApprover'
    <3>1. /\ req'[r].pc = "idle" /\ req'[r].item = Nothing
          /\ \A q \in Request \ {r} : req'[q] = req[q]
          /\ \A i \in Item : i # req[r].item => status'[i] = status[i]
      BY <2>6 DEF Approved
    <3>2. ASSUME NEW q \in Request, req'[q].pc # "idle"
          PROVE  /\ q # r /\ req[q].item # req[r].item /\ req[q].pc # "idle"
      BY <3>1, <3>2, <2>6 DEF Approved
    <3> QED
      BY <3>1, <3>2
  <2>7. ASSUME NEW r \in Request, WriteFails(r) PROVE OneApprover'
    <3>1. /\ req'[r].pc = "idle" /\ req'[r].item = Nothing
          /\ \A q \in Request \ {r} : req'[q] = req[q]
          /\ status' = status
      BY <2>7 DEF WriteFails
    <3> QED
      BY <3>1
  <2>8. CASE Restart
    BY <2>8 DEF Restart
  <2>9. CASE UNCHANGED vars
    BY <2>9 DEF vars
  <2> QED
    BY <2>1, <2>2, <2>3, <2>4, <2>5, <2>6, <2>7, <2>8, <2>9 DEF Next
<1>3. WrittenInv => TypeOK
  BY DEF WrittenInv
<1> QED
  BY <1>1, <1>2, <1>3, WrittenInvariant, PTL DEF Spec

\* With owners that do not decide twice a decision is final.
THEOREM DecisionsFinal == "decides_twice" \notin Habits /\ Spec => DecisionFinal
<1> SUFFICES ASSUME "decides_twice" \notin Habits PROVE Spec => DecisionFinal
  OBVIOUS
<1>1. DecisionInv /\ [Next]_vars =>
        [\A i \in Item : status[i] \in {"approved", "rejected"} => status'[i] = status[i]]_vars
  <2> SUFFICES ASSUME DecisionInv, Next, NEW i \in Item, status[i] \in {"approved", "rejected"}
               PROVE  status'[i] = status[i]
    OBVIOUS
  <2>0. /\ status \in [Item -> {"none", "pending", "approved", "rejected"}]
        /\ req \in [Request -> ApproveTask]
        /\ \A r \in Request : req[r].pc # "idle" => status[req[r].item] = "pending"
    BY DEF DecisionInv, TypeOK, OneApprover
  <2>1. ASSUME NEW j \in Item, Enqueue(j) \/ Reject(j) \/ LateWrite(j)
        PROVE  status'[i] = status[i]
    BY <2>0, <2>1 DEF Enqueue, Reject, LateWrite, Decidable
  <2>2. ASSUME NEW r \in Request, Approved(r) PROVE status'[i] = status[i]
    BY <2>0, <2>2 DEF Approved
  <2>3. ASSUME NEW r \in Request, ContainerWrites(r) \/ WriteFails(r)
        PROVE  status'[i] = status[i]
    BY <2>3 DEF ContainerWrites, WriteFails
  <2>4. ASSUME NEW r \in Request, NEW j \in Item, Approve(r, j) PROVE status'[i] = status[i]
    BY <2>4 DEF Approve
  <2>5. CASE Restart
    BY <2>5 DEF Restart
  <2> QED
    BY <2>1, <2>2, <2>3, <2>4, <2>5 DEF Next
<1> QED
  BY <1>1, DecisionInvariant, PTL DEF Spec, DecisionFinal
=============================================================================
