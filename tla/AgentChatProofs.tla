-------------------------- MODULE AgentChatProofs --------------------------
(***************************************************************************)
(* Proofs about AgentChat for any agents, bots, messages, tasks, requests  *)
(* and restarts, with every fault.                                         *)
(***************************************************************************)
EXTENDS AgentChat, TLAPS

USE ChatAssumption DEF Provider, AgentRow, Delivery, ChatTask

-----------------------------------------------------------------------------
(* Types *)

\* The changes that steps make to a delivery and to a task.
LEMMA DeliveryState ==
  ASSUME NEW d \in Delivery, NEW state \in {"none", "pending", "body", "done", "dropped"}
  PROVE  [d EXCEPT !.state = state] \in Delivery
OBVIOUS

LEMMA DeliveryAgent ==
  ASSUME NEW d \in Delivery, NEW a \in Agent, NEW state \in {"body", "done"}
  PROVE  [d EXCEPT !.agent = a, !.state = state] \in Delivery
OBVIOUS

LEMMA TaskState ==
  ASSUME NEW d \in ChatTask, NEW state \in {"none", "pending", "running", "ended"}
  PROVE  [d EXCEPT !.state = state] \in ChatTask
OBVIOUS

LEMMA TaskToken ==
  ASSUME NEW d \in ChatTask, NEW state \in {"running", "ended"}, NEW b \in Bot \cup {NoBot}
  PROVE  /\ [d EXCEPT !.state = state, !.token = b] \in ChatTask
         /\ [d EXCEPT !.state = state, !.reply = b] \in ChatTask
OBVIOUS

\* Saving an agent and telling Telegram keep the types.
LEMMA SavedTypes == ASSUME TypeOK, NEW a \in Agent, NEW row \in AgentRow, Saved(a, row)
                    PROVE /\ agent' \in [Agent -> AgentRow] /\ task' \in [Task -> ChatTask]
                          /\ edits' \in 0 .. MaxEdit /\ crashes' \in 0 .. MaxCrash
                          /\ repeated' \subseteq Message /\ overtaken' \subseteq Message
BY DEF TypeOK, Saved, Underway

LEMMA SyncTypes == ASSUME TypeOK, NEW a \in Agent, NEW row \in AgentRow, Sync(a, row)
                   PROVE /\ webhook' \in [Bot -> Agent \cup {NoAgent}]
                         /\ update' \in [Message -> Delivery]
                         /\ \A m \in Message : /\ update'[m].bot = update[m].bot
                                               /\ update'[m].agent = update[m].agent
                                               /\ \/ update'[m].state = update[m].state
                                                  \/ /\ update[m].state = "pending"
                                                     /\ update'[m].state = "dropped"
                         /\ unsettled' \subseteq Bot
<1>1. CASE Synced(a, row)
  <2>1. webhook' \in [Bot -> Agent \cup {NoAgent}]
    BY <1>1, SMTT(30) DEF Synced, TypeOK
  <2>2. update' \in [Message -> Delivery]
    <3>1. \A m \in Message : [update[m] EXCEPT !.state = "dropped"] \in Delivery
      BY DeliveryState DEF TypeOK
    <3> HIDE DEF Delivery
    <3> QED
      BY <1>1, <3>1 DEF Synced, TypeOK
  <2>3. unsettled' \subseteq Bot
    BY DEF Sync, TypeOK
  <2>4. \A m \in Message :
          /\ update'[m].bot = update[m].bot /\ update'[m].agent = update[m].agent
          /\ \/ update'[m].state = update[m].state
             \/ update[m].state = "pending" /\ update'[m].state = "dropped"
    BY <1>1 DEF Synced, TypeOK
  <2> QED
    BY <2>1, <2>2, <2>3, <2>4
<1>2. CASE UNCHANGED <<webhook, update>>
  BY <1>2 DEF Sync, TypeOK
<1> QED
  BY <1>1, <1>2 DEF Sync

\* The rows that the requests save.
LEMMA RowProvider ==
  ASSUME NEW row \in AgentRow, NEW provider \in Provider, NEW key \in {"none"} \cup Keyed
  PROVE  [row EXCEPT !.provider = provider, !.key = key] \in AgentRow
OBVIOUS

LEMMA RowStatus ==
  ASSUME NEW row \in AgentRow, NEW status \in {"active", "paused", "archived"}
  PROVE  [row EXCEPT !.status = status] \in AgentRow
OBVIOUS

LEMMA RowTelegram ==
  ASSUME NEW row \in AgentRow, NEW enabled \in BOOLEAN, NEW token \in Bot \cup {NoBot}
  PROVE  [row EXCEPT !.enabled = enabled, !.token = token, !.secret = row.secret \/ enabled]
           \in AgentRow
OBVIOUS

\* A request that saves a row, and tells Telegram or does not.
LEMMA SaveTypes ==
  ASSUME TypeOK, NEW a \in Agent, NEW row \in AgentRow, Saved(a, row),
         Sync(a, row) \/ UNCHANGED <<webhook, update, unsettled>>
  PROVE  TypeOK'
<1>1. /\ webhook' \in [Bot -> Agent \cup {NoAgent}] /\ update' \in [Message -> Delivery]
      /\ unsettled' \subseteq Bot
      /\ \A m \in Message : /\ update'[m].state # "none" => update'[m].bot \in Bot
                            /\ update'[m].state = "body" => update'[m].agent \in Agent
  <2>1. CASE Sync(a, row)
    BY <2>1, SyncTypes DEF TypeOK
  <2>2. CASE UNCHANGED <<webhook, update, unsettled>>
    BY <2>2 DEF TypeOK
  <2> QED
    BY <2>1, <2>2
<1>2. \A t \in Task : task'[t].state # "none" => task'[t].agent \in Agent
  BY DEF TypeOK, Saved
<1> HIDE DEF AgentRow, Delivery, ChatTask
<1> QED
  BY <1>1, <1>2, SavedTypes DEF TypeOK

\* Every reachable state has the types of the model.
LEMMA TypeStep == TypeOK /\ [Next]_vars => TypeOK'
<1> SUFFICES ASSUME TypeOK, [Next]_vars PROVE TypeOK'
  OBVIOUS
<1>1. ASSUME NEW a \in Agent, NEW provider \in Provider, NEW keyGiven \in BOOLEAN,
             NEW enabled \in BOOLEAN, NEW token \in Bot \cup {NoBot},
             CreateAgent(a, provider, keyGiven, enabled, token)
      PROVE TypeOK'
  <2> DEFINE row == [status |-> "active", provider |-> provider,
                     key |-> IF provider \in Keyed THEN provider ELSE "none",
                     enabled |-> enabled, token |-> token, secret |-> enabled]
  <2>1. row \in AgentRow
    OBVIOUS
  <2>2. Saved(a, row) /\ Sync(a, row)
    BY <1>1 DEF CreateAgent
  <2> QED
    BY <2>1, <2>2, SaveTypes
<1>2. ASSUME NEW a \in Agent, NEW provider \in Provider, NEW key \in {"kept", "new", "cleared"},
             UpdateProvider(a, provider, key)
      PROVE TypeOK'
  <2> DEFINE row == [agent[a] EXCEPT !.provider = provider,
                                     !.key = CASE key = "kept" -> agent[a].key
                                               [] key = "new" -> provider
                                               [] OTHER -> "none"]
  <2>0. agent[a] \in AgentRow /\ (key = "new" => provider \in Keyed)
    BY <1>2 DEF UpdateProvider, TypeOK
  <2>1. row \in AgentRow
    <3>1. (CASE key = "kept" -> agent[a].key [] key = "new" -> provider [] OTHER -> "none")
            \in {"none"} \cup Keyed
      BY <2>0
    <3> HIDE DEF AgentRow
    <3> QED
      BY <2>0, <3>1, RowProvider
  <2>2. Saved(a, row) /\ UNCHANGED <<webhook, update, unsettled>>
    BY <1>2 DEF UpdateProvider
  <2> QED
    BY <2>1, <2>2, SaveTypes
<1>3. ASSUME NEW a \in Agent, NEW status \in {"active", "paused", "archived"},
             UpdateStatus(a, status)
      PROVE TypeOK'
  <2>0. agent[a] \in AgentRow
    BY DEF TypeOK
  <2>1. [agent[a] EXCEPT !.status = status] \in AgentRow
    BY <2>0, RowStatus
  <2> QED
    BY <1>3, <2>1, SaveTypes DEF UpdateStatus
<1>4. ASSUME NEW a \in Agent, NEW enabled \in BOOLEAN, NEW token \in Bot \cup {NoBot},
             UpdateTelegram(a, enabled, token)
      PROVE TypeOK'
  <2> DEFINE row == [agent[a] EXCEPT !.enabled = enabled, !.token = token,
                                     !.secret = agent[a].secret \/ enabled]
  <2>0. agent[a] \in AgentRow
    BY DEF TypeOK
  <2>1. row \in AgentRow
    <3> HIDE DEF AgentRow
    <3> QED
      BY <2>0, RowTelegram, Zenon
  <2>2. Saved(a, row) /\ Sync(a, row)
    BY <1>4 DEF UpdateTelegram
  <2> QED
    BY <2>1, <2>2, SaveTypes
<1>5. ASSUME NEW m \in Message, Deliver(m) PROVE TypeOK'
  <2> DEFINE a == webhook[update[m].bot]
             state == IF Accepts(a) THEN "body" ELSE "done"
  <2>1. a \in Agent
    BY <1>5 DEF Deliver, TypeOK
  <2>2. [update[m] EXCEPT !.agent = a, !.state = state] \in Delivery
    BY <2>1, DeliveryAgent DEF TypeOK
  <2>3. update' = [update EXCEPT ![m] = [update[m] EXCEPT !.agent = a, !.state = state]]
    BY <1>5 DEF Deliver
  <2> HIDE DEF a, state, Delivery
  <2> QED
    BY <1>5, <2>2, <2>3 DEF TypeOK, Deliver
<1>6. ASSUME NEW m \in Message, Refused(m) PROVE TypeOK'
  <2>1. [update[m] EXCEPT !.state = "done"] \in Delivery
    BY DeliveryState DEF TypeOK
  <2> HIDE DEF Delivery
  <2> QED
    BY <1>6, <2>1 DEF TypeOK, Refused
<1>7. ASSUME NEW m \in Message, CreateFails(m) PROVE TypeOK'
  <2>1. [update[m] EXCEPT !.state = "pending"] \in Delivery
    BY DeliveryState DEF TypeOK
  <2> HIDE DEF Delivery
  <2> QED
    BY <1>7, <2>1 DEF TypeOK, CreateFails
<1>8. ASSUME NEW m \in Message, NEW b \in Bot, SendMessage(m, b) PROVE TypeOK'
  BY <1>8 DEF TypeOK, SendMessage, NoDelivery
<1>9. ASSUME NEW m \in Message, NEW t \in Task, TaskCreated(m, t) PROVE TypeOK'
  <2>1. /\ [update[m] EXCEPT !.state = "pending"] \in Delivery
        /\ [update[m] EXCEPT !.state = "done"] \in Delivery
    BY DeliveryState DEF TypeOK
  <2>2. update' \in [Message -> Delivery] /\ repeated' \subseteq Message
    <3> HIDE DEF Delivery
    <3> QED
      BY <1>9, <2>1 DEF TypeOK, TaskCreated, Answered
  <2>3. task' \in [Task -> ChatTask]
    BY <1>9 DEF TypeOK, TaskCreated, NoTask
  <2>4. /\ \A n \in Message : /\ update'[n].bot = update[n].bot
                              /\ update'[n].agent = update[n].agent
                              /\ update'[n].state # "none" => update[n].state # "none"
                              /\ update'[n].state = "body" => update[n].state = "body"
        /\ \A s \in Task : task'[s].state # "none" => task'[s].agent \in Agent
    BY <1>9 DEF TypeOK, TaskCreated, Answered, NoTask
  <2> HIDE DEF Delivery, ChatTask
  <2> QED
    BY <1>9, <2>2, <2>3, <2>4 DEF TypeOK, TaskCreated
<1>10. ASSUME NEW t \in Task, StartRun(t) PROVE TypeOK'
  <2> DEFINE state == IF agent[task[t].agent].status = "archived" THEN "ended" ELSE "running"
             token == agent[task[t].agent].token
  <2>1. task[t] \in ChatTask /\ token \in Bot \cup {NoBot}
    BY <1>10 DEF TypeOK, StartRun
  <2>2. state \in {"running", "ended"}
    OBVIOUS
  <2> HIDE DEF state, token
  <2>4. [task[t] EXCEPT !.state = state, !.token = token] \in ChatTask
    BY <2>1, <2>2, TaskToken
  <2> USE DEF state, token
  <2>3. task' = [task EXCEPT ![t] = [task[t] EXCEPT !.state = state, !.token = token]]
    BY <1>10 DEF StartRun
  <2> HIDE DEF state, token, ChatTask
  <2> QED
    BY <1>10, <2>3, <2>4 DEF TypeOK, StartRun
<1>11. ASSUME NEW t \in Task, RunEnds(t) PROVE TypeOK'
  <2>1. task[t] \in ChatTask /\ task[t].token \in Bot \cup {NoBot}
    BY DEF TypeOK
  <2>2. [task[t] EXCEPT !.state = "ended", !.reply = task[t].token] \in ChatTask
    BY <2>1, TaskToken
  <2> HIDE DEF ChatTask
  <2> QED
    BY <1>11, <2>2 DEF TypeOK, RunEnds
<1>12. ASSUME NEW t \in Task, RunFails(t) PROVE TypeOK'
  <2>1. [task[t] EXCEPT !.state = "ended"] \in ChatTask
    BY TaskState DEF TypeOK
  <2> HIDE DEF ChatTask
  <2> QED
    BY <1>12, <2>1 DEF TypeOK, RunFails
<1>13. CASE Restart
  <2>1. \A t \in Task : [task[t] EXCEPT !.state = "ended"] \in ChatTask
    BY TaskState DEF TypeOK
  <2>2. \A m \in Message : [update[m] EXCEPT !.state = "pending"] \in Delivery
    BY DeliveryState DEF TypeOK
  <2>3. /\ \A m \in Message : /\ update'[m].bot = update[m].bot
                              /\ update'[m].state # "body"
                              /\ update'[m].state # "none" => update[m].state # "none"
        /\ \A t \in Task : /\ task'[t].agent = task[t].agent
                            /\ task'[t].state # "none" => task[t].state # "none"
    BY <1>13 DEF Restart, TypeOK
  <2> HIDE DEF ChatTask, Delivery
  <2> QED
    BY <1>13, <2>1, <2>2, <2>3 DEF TypeOK, Restart
<1>14. CASE UNCHANGED vars
  BY <1>14 DEF TypeOK, vars
<1> QED
  BY <1>1, <1>2, <1>3, <1>4, <1>5, <1>6, <1>7, <1>8, <1>9, <1>10, <1>11, <1>12, <1>13,
     <1>14 DEF Next

-----------------------------------------------------------------------------
(* Webhooks match the settings *)

\* Nothing but saving an agent changes what webhooks and settings say.
LEMMA ChatUntouched ==
  ASSUME ChatInv, TypeOK', UNCHANGED <<agent, webhook, unsettled>> PROVE ChatInv'
BY DEF ChatInv, WebhookMatches, Chats

\* After a save that Telegram took, the bot of the row has the agent's webhook or
\* none, and the other settled bots were not the agent's before.
LEMMA SaveMatches ==
  ASSUME ChatInv, NEW a \in Agent, NEW row \in AgentRow, Saved(a, row),
         row.enabled => row.secret,
         \/ Sync(a, row)
         \/ /\ UNCHANGED <<webhook, update, unsettled>>
            /\ row.enabled = agent[a].enabled /\ row.token = agent[a].token
  PROVE  ChatInv'
<1>1. TypeOK /\ WebhookMatches /\ \A o \in Agent : agent[o].enabled => agent[o].secret
  BY DEF ChatInv
<1>2. TypeOK'
  BY <1>1, SaveTypes
<1>3. /\ agent'[a] = row /\ \A o \in Agent \ {a} : agent'[o] = agent[o]
      /\ \A b \in Bot : webhook[b] \in Agent \cup {NoAgent}
  BY <1>1 DEF Saved, TypeOK
<1>4. \A o \in Agent : agent'[o].enabled => agent'[o].secret
  BY <1>1, <1>3
<1>5. WebhookMatches'
  <2>1. CASE UNCHANGED <<webhook, unsettled>> /\ row.enabled = agent[a].enabled
             /\ row.token = agent[a].token
    BY <1>1, <1>3, <2>1 DEF WebhookMatches, Chats
  <2>2. CASE /\ UNCHANGED <<webhook, update>>
             /\ unsettled' = unsettled \cup ({row.token, agent[a].token} \ {NoBot})
    <3> SUFFICES ASSUME NEW b \in Bot \ unsettled', NEW o \in Agent
                 PROVE  (webhook[b] = o <=> Chats(o, b))'
      BY DEF WebhookMatches
    <3>1. b \notin unsettled /\ b # row.token /\ b # agent[a].token
      BY <2>2
    <3> QED
      BY <1>1, <1>3, <2>2, <3>1 DEF WebhookMatches, Chats
  <2>3. CASE /\ Synced(a, row)
             /\ unsettled' = unsettled
                  \cup {b \in Bot : b = row.token /\ \E o \in Agent \ {a} : agent[o].token = b}
                  \cup {b \in Bot : b = agent[a].token /\ b # row.token}
    <3> SUFFICES ASSUME NEW b \in Bot \ unsettled', NEW o \in Agent
                 PROVE  (webhook[b] = o <=> Chats(o, b))'
      BY DEF WebhookMatches
    <3>1. b \notin unsettled
      BY <2>3
    <3>2. CASE b = row.token
      <4>1. \A p \in Agent \ {a} : agent[p].token # b
        BY <2>3, <3>2
      <4>2. webhook'[b] = IF row.enabled THEN a ELSE NoAgent
        BY <1>1, <2>3, <3>2 DEF Synced, TypeOK
      <4> QED
        BY <1>3, <3>2, <4>1, <4>2 DEF Chats
    <3>3. CASE b # row.token
      <4>1. agent[a].token # b
        BY <2>3, <3>3
      <4>2. webhook'[b] = webhook[b]
        BY <1>1, <2>3, <3>3 DEF Synced, TypeOK
      <4> QED
        BY <1>1, <1>3, <3>1, <3>3, <4>1, <4>2 DEF WebhookMatches, Chats
    <3> QED
      BY <3>2, <3>3
  <2> QED
    BY <2>1, <2>2, <2>3 DEF Sync
<1> QED
  BY <1>2, <1>4, <1>5 DEF ChatInv

\* No agent has chat turned on at the start.
LEMMA ChatInit == Init => ChatInv
<1> SUFFICES ASSUME Init PROVE ChatInv
  OBVIOUS
<1>1. /\ \A a \in Agent : agent[a] = NoRow
      /\ \A b \in Bot : webhook[b] = NoAgent
      /\ \A m \in Message : update[m] = NoDelivery
      /\ \A t \in Task : task[t] = NoTask
  BY DEF Init
<1>2. NoRow \in AgentRow /\ NoDelivery \in Delivery /\ NoTask \in ChatTask
  BY DEF NoRow, NoDelivery, NoTask
<1>3. TypeOK
  <2>1. NoDelivery.state = "none" /\ NoTask.state = "none"
    BY DEF NoDelivery, NoTask
  <2>2. edits \in 0 .. MaxEdit /\ crashes \in 0 .. MaxCrash
    BY DEF Init
  <2>3. webhook \in [Bot -> Agent \cup {NoAgent}]
    BY DEF Init
  <2> HIDE DEF AgentRow, Delivery, ChatTask
  <2> QED
    BY <1>1, <1>2, <2>1, <2>2, <2>3 DEF Init, TypeOK
<1>4. NoRow.enabled = FALSE /\ \A b \in Bot, a \in Agent : webhook[b] # a
  BY <1>1 DEF NoRow
<1> QED
  BY <1>1, <1>3, <1>4 DEF ChatInv, WebhookMatches, Chats

\* Telegram delivers a settled bot's messages to the agent that has chat turned on
\* with it, and to no other.
THEOREM ChatInvariant == Spec => []ChatInv
<1>1. Init => ChatInv
  BY ChatInit
<1>2. ChatInv /\ [Next]_vars => ChatInv'
  <2> SUFFICES ASSUME ChatInv, [Next]_vars PROVE ChatInv'
    OBVIOUS
  <2>0. TypeOK /\ TypeOK' /\ \A o \in Agent : agent[o].enabled => agent[o].secret
    BY TypeStep DEF ChatInv
  <2>1. ASSUME NEW a \in Agent, NEW provider \in Provider, NEW keyGiven \in BOOLEAN,
               NEW enabled \in BOOLEAN, NEW token \in Bot \cup {NoBot},
               CreateAgent(a, provider, keyGiven, enabled, token)
        PROVE ChatInv'
    <3> DEFINE row == [status |-> "active", provider |-> provider,
                       key |-> IF provider \in Keyed THEN provider ELSE "none",
                       enabled |-> enabled, token |-> token, secret |-> enabled]
    <3>1. row \in AgentRow /\ (row.enabled => row.secret)
      OBVIOUS
    <3>2. Saved(a, row) /\ Sync(a, row)
      BY <2>1 DEF CreateAgent
    <3> HIDE DEF row
    <3> QED
      BY <3>1, <3>2, SaveMatches
  <2>2. ASSUME NEW a \in Agent, NEW provider \in Provider,
               NEW key \in {"kept", "new", "cleared"}, UpdateProvider(a, provider, key)
        PROVE ChatInv'
    <3> DEFINE row == [agent[a] EXCEPT !.provider = provider,
                                       !.key = CASE key = "kept" -> agent[a].key
                                                 [] key = "new" -> provider
                                                 [] OTHER -> "none"]
    <3>1. agent[a] \in AgentRow /\ (key = "new" => provider \in Keyed)
      BY <2>0, <2>2 DEF UpdateProvider, TypeOK
    <3>2. /\ row.enabled = agent[a].enabled /\ row.token = agent[a].token
          /\ row.secret = agent[a].secret
      BY <3>1
    <3>3. row \in AgentRow
      <4>1. (CASE key = "kept" -> agent[a].key [] key = "new" -> provider [] OTHER -> "none")
              \in {"none"} \cup Keyed
        BY <3>1
      <4> HIDE DEF AgentRow
      <4> QED
        BY <3>1, <4>1, RowProvider
    <3>4. Saved(a, row) /\ UNCHANGED <<webhook, update, unsettled>>
      BY <2>2 DEF UpdateProvider
    <3> HIDE DEF row
    <3> QED
      BY <2>0, <3>2, <3>3, <3>4, SaveMatches
  <2>3. ASSUME NEW a \in Agent, NEW status \in {"active", "paused", "archived"},
               UpdateStatus(a, status)
        PROVE ChatInv'
    <3> DEFINE row == [agent[a] EXCEPT !.status = status]
    <3>1. agent[a] \in AgentRow
      BY <2>0 DEF TypeOK
    <3>2. /\ row.enabled = agent[a].enabled /\ row.token = agent[a].token
          /\ row.secret = agent[a].secret /\ row \in AgentRow
      BY <3>1, RowStatus
    <3>3. Saved(a, row) /\ UNCHANGED <<webhook, update, unsettled>>
      BY <2>3 DEF UpdateStatus
    <3> HIDE DEF row
    <3> QED
      BY <2>0, <3>2, <3>3, SaveMatches
  <2>4. ASSUME NEW a \in Agent, NEW enabled \in BOOLEAN, NEW token \in Bot \cup {NoBot},
               UpdateTelegram(a, enabled, token)
        PROVE ChatInv'
    <3> DEFINE row == [agent[a] EXCEPT !.enabled = enabled, !.token = token,
                                       !.secret = agent[a].secret \/ enabled]
    <3>1. agent[a] \in AgentRow
      BY <2>0 DEF TypeOK
    <3>2. row \in AgentRow
      <4> HIDE DEF AgentRow
      <4> QED
        BY <3>1, RowTelegram, Zenon
    <3>3. row.enabled => row.secret
      BY <3>1
    <3>4. Saved(a, row) /\ Sync(a, row)
      BY <2>4 DEF UpdateTelegram
    <3> HIDE DEF row
    <3> QED
      BY <3>2, <3>3, <3>4, SaveMatches
  <2>5. ASSUME NEW m \in Message, \/ Deliver(m) \/ Refused(m) \/ CreateFails(m)
                                  \/ \E b \in Bot : SendMessage(m, b)
                                  \/ \E t \in Task : TaskCreated(m, t)
        PROVE ChatInv'
    BY <2>0, <2>5, ChatUntouched DEF Deliver, Refused, CreateFails, SendMessage, TaskCreated
  <2>6. ASSUME NEW t \in Task, StartRun(t) \/ RunEnds(t) \/ RunFails(t) PROVE ChatInv'
    BY <2>0, <2>6, ChatUntouched DEF StartRun, RunEnds, RunFails
  <2>7. CASE Restart \/ UNCHANGED vars
    BY <2>0, <2>7, ChatUntouched DEF Restart, vars
  <2> QED
    BY <2>1, <2>2, <2>3, <2>4, <2>5, <2>6, <2>7 DEF Next
<1> QED
  BY <1>1, <1>2, PTL DEF Spec

\* WebhookMatches, for any agents and bots and with every fault.
THEOREM WebhooksMatch == Spec => []WebhookMatches
<1>1. ChatInv => WebhookMatches
  BY DEF ChatInv
<1> QED
  BY <1>1, ChatInvariant, PTL

-----------------------------------------------------------------------------
(* One task for a message *)

\* Tasks and deliveries that go on as they are keep the invariant.
LEMMA OnceKept ==
  ASSUME OnceInv, TypeOK', repeated \subseteq repeated',
         \A t \in Task : /\ task'[t].message = task[t].message
                         /\ task'[t].state # "none" => task[t].state # "none",
         \A m \in Message : update'[m].state \in {"none", "pending", "body"}
                               => update[m].state \in {"none", "pending", "body"}
  PROVE  OnceInv'
<1>1. MessageOnce /\ OpenHasNoTask
  BY DEF OnceInv
<1>2. MessageOnce'
  <2> SUFFICES ASSUME NEW t1 \in Task, NEW t2 \in Task, task'[t1].state # "none",
                      task'[t2].state # "none", task'[t1].message = task'[t2].message
               PROVE  t1 = t2 \/ task'[t1].message \in repeated'
    BY DEF MessageOnce
  <2> QED
    BY <1>1 DEF MessageOnce
<1>3. OpenHasNoTask'
  <2> SUFFICES ASSUME NEW m \in Message \ repeated', NEW t \in Task,
                      update'[m].state \in {"none", "pending", "body"}, task'[t].state # "none"
               PROVE  task'[t].message # m
    BY DEF OpenHasNoTask
  <2> QED
    BY <1>1 DEF OpenHasNoTask
<1> QED
  BY <1>2, <1>3 DEF OnceInv

\* A message that is taken up has no task yet, and is over or repeated afterwards.
LEMMA TaskCreatedOnce ==
  ASSUME OnceInv, TypeOK', NEW m \in Message, NEW t \in Task, TaskCreated(m, t)
  PROVE  OnceInv'
<1>1. TypeOK /\ MessageOnce /\ OpenHasNoTask
  BY DEF OnceInv
<1>2. /\ update[m].state = "body" /\ task[t].state = "none"
      /\ task'[t].message = m
      /\ \A s \in Task \ {t} : task'[s] = task[s]
  BY <1>1 DEF TaskCreated, TypeOK, NoTask
<1>3. /\ \A n \in Message \ {m} : update'[n] = update[n]
      /\ repeated \subseteq repeated'
      /\ update'[m].state \in {"none", "pending", "body"} => m \in repeated'
  BY <1>1 DEF TaskCreated, Answered, TypeOK
<1>4. \A s \in Task : task[s].state # "none" /\ m \notin repeated => task[s].message # m
  BY <1>1, <1>2 DEF OpenHasNoTask
<1>5. MessageOnce'
  <2> SUFFICES ASSUME NEW t1 \in Task, NEW t2 \in Task, task'[t1].state # "none",
                      task'[t2].state # "none", task'[t1].message = task'[t2].message
               PROVE  t1 = t2 \/ task'[t1].message \in repeated'
    BY DEF MessageOnce
  <2>1. CASE t1 = t \/ t2 = t
    BY <1>2, <1>3, <1>4, <2>1
  <2>2. CASE t1 # t /\ t2 # t
    BY <1>1, <1>2, <1>3, <2>2 DEF MessageOnce
  <2> QED
    BY <2>1, <2>2
<1>6. OpenHasNoTask'
  <2> SUFFICES ASSUME NEW n \in Message \ repeated', NEW s \in Task,
                      update'[n].state \in {"none", "pending", "body"}, task'[s].state # "none"
               PROVE  task'[s].message # n
    BY DEF OpenHasNoTask
  <2>1. n # m
    BY <1>3
  <2> QED
    BY <1>1, <1>2, <1>3, <2>1 DEF OpenHasNoTask
<1> QED
  BY <1>5, <1>6 DEF OnceInv

\* A message makes at most one task unless its 200 was lost.
THEOREM OnceInvariant == Spec => []OnceInv
<1>1. Init => OnceInv
  <2> SUFFICES ASSUME Init PROVE OnceInv
    OBVIOUS
  <2>1. \A t \in Task : task[t].state = "none"
    BY DEF Init, NoTask
  <2>2. TypeOK
    BY ChatInit DEF ChatInv
  <2> QED
    BY <2>1, <2>2 DEF OnceInv, MessageOnce, OpenHasNoTask
<1>2. OnceInv /\ [Next]_vars => OnceInv'
  <2> SUFFICES ASSUME OnceInv, [Next]_vars PROVE OnceInv'
    OBVIOUS
  <2>0. TypeOK /\ TypeOK'
    BY TypeStep DEF OnceInv
  <2>1. ASSUME NEW a \in Agent, NEW row \in AgentRow, Saved(a, row),
               Sync(a, row) \/ UNCHANGED <<webhook, update, unsettled>>
        PROVE OnceInv'
    <3>1. \A m \in Message : update'[m].state \in {"none", "pending", "body"}
                                => update[m].state \in {"none", "pending", "body"}
      BY <2>0, <2>1, SyncTypes
    <3> QED
      BY <2>0, <2>1, <3>1, OnceKept DEF Saved
  <2>2. ASSUME NEW a \in Agent, NEW provider \in Provider, NEW keyGiven \in BOOLEAN,
               NEW enabled \in BOOLEAN, NEW token \in Bot \cup {NoBot},
               CreateAgent(a, provider, keyGiven, enabled, token)
        PROVE OnceInv'
    <3> DEFINE row == [status |-> "active", provider |-> provider,
                       key |-> IF provider \in Keyed THEN provider ELSE "none",
                       enabled |-> enabled, token |-> token, secret |-> enabled]
    <3>1. row \in AgentRow
      OBVIOUS
    <3>2. Saved(a, row) /\ Sync(a, row)
      BY <2>2 DEF CreateAgent
    <3> HIDE DEF row
    <3> QED
      BY <2>1, <3>1, <3>2
  <2>3. ASSUME NEW a \in Agent, NEW enabled \in BOOLEAN, NEW token \in Bot \cup {NoBot},
               UpdateTelegram(a, enabled, token)
        PROVE OnceInv'
    <3> DEFINE row == [agent[a] EXCEPT !.enabled = enabled, !.token = token,
                                       !.secret = agent[a].secret \/ enabled]
    <3>1. agent[a] \in AgentRow
      BY <2>0 DEF TypeOK
    <3>2. row \in AgentRow
      <4> HIDE DEF AgentRow
      <4> QED
        BY <3>1, RowTelegram, Zenon
    <3>3. Saved(a, row) /\ Sync(a, row)
      BY <2>3 DEF UpdateTelegram
    <3> HIDE DEF row
    <3> QED
      BY <2>1, <3>2, <3>3
  <2>4. ASSUME NEW a \in Agent,
               \/ \E provider \in Provider, key \in {"kept", "new", "cleared"} :
                    UpdateProvider(a, provider, key)
               \/ \E status \in {"active", "paused", "archived"} : UpdateStatus(a, status)
        PROVE OnceInv'
    <3>1. UNCHANGED <<task, update, repeated>>
      BY <2>4 DEF UpdateProvider, UpdateStatus, Saved
    <3> QED
      BY <2>0, <3>1, OnceKept
  <2>5. ASSUME NEW m \in Message, \/ Deliver(m) \/ Refused(m) \/ CreateFails(m)
                                  \/ \E b \in Bot : SendMessage(m, b)
        PROVE OnceInv'
    <3>1. UNCHANGED <<task, repeated>>
      BY <2>5 DEF Deliver, Refused, CreateFails, SendMessage
    <3>2. \A n \in Message : update'[n].state \in {"none", "pending", "body"}
                                => update[n].state \in {"none", "pending", "body"}
      BY <2>0, <2>5 DEF TypeOK, Deliver, Refused, CreateFails, SendMessage, NoDelivery
    <3> QED
      BY <2>0, <3>1, <3>2, OnceKept
  <2>6. ASSUME NEW m \in Message, NEW t \in Task, TaskCreated(m, t) PROVE OnceInv'
    BY <2>0, <2>6, TaskCreatedOnce
  <2>7. ASSUME NEW t \in Task, StartRun(t) \/ RunEnds(t) \/ RunFails(t) PROVE OnceInv'
    <3>1. UNCHANGED <<update, repeated>>
      BY <2>7 DEF StartRun, RunEnds, RunFails
    <3>2. task[t].state # "none"
      BY <2>7 DEF StartRun, RunEnds, RunFails
    <3>3. task'[t].message = task[t].message
      <4>1. task \in [Task -> ChatTask]
        BY <2>0 DEF TypeOK
      <4>2. CASE StartRun(t)
        <5> DEFINE row == agent[task[t].agent]
        <5>1. task' = [task EXCEPT ![t] =
                         [@ EXCEPT !.state = IF row.status = "archived" THEN "ended"
                                             ELSE "running",
                                   !.token = row.token]]
          BY <4>2 DEF StartRun
        <5> HIDE DEF row
        <5> QED
          BY <4>1, <5>1 DEF ChatTask
      <4>3. CASE RunEnds(t)
        BY <4>1, <4>3 DEF RunEnds, ChatTask
      <4>4. CASE RunFails(t)
        BY <4>1, <4>4 DEF RunFails, ChatTask
      <4> QED
        BY <2>7, <4>2, <4>3, <4>4
    <3>4. ASSUME NEW s \in Task, s # t PROVE task'[s] = task[s]
      <4>1. task \in [Task -> ChatTask]
        BY <2>0 DEF TypeOK
      <4> QED
        BY <2>7, <3>4, <4>1 DEF StartRun, RunEnds, RunFails
    <3>5. \A s \in Task : /\ task'[s].message = task[s].message
                          /\ task'[s].state # "none" => task[s].state # "none"
      BY <3>2, <3>3, <3>4
    <3> QED
      BY <2>0, <3>1, <3>5, OnceKept
  <2>8. CASE Restart
    <3>1. /\ \A s \in Task : /\ task'[s].message = task[s].message
                             /\ task'[s].state # "none" => task[s].state # "none"
          /\ \A n \in Message : update'[n].state \in {"none", "pending", "body"}
                                   => update[n].state \in {"none", "pending", "body"}
      BY <2>0, <2>8 DEF TypeOK, Restart
    <3> QED
      BY <2>0, <2>8, <3>1, OnceKept DEF Restart
  <2>9. CASE UNCHANGED vars
    BY <2>0, <2>9, OnceKept DEF vars
  <2> QED
    BY <2>2, <2>3, <2>4, <2>5, <2>6, <2>7, <2>8, <2>9 DEF Next
<1> QED
  BY <1>1, <1>2, PTL DEF Spec

\* MessageOnce, for any messages, tasks and restarts.
THEOREM MessagesOnce == Spec => []MessageOnce
<1>1. OnceInv => MessageOnce
  BY DEF OnceInv
<1> QED
  BY <1>1, OnceInvariant, PTL

-----------------------------------------------------------------------------
(* A key for the provider *)

KeyInv == TypeOK /\ KeyedHasKey

\* A row that is saved with a key, or for a provider that needs none.
LEMMA SaveHasKey ==
  ASSUME KeyInv, TypeOK', NEW a \in Agent, NEW row, Saved(a, row),
         row.provider \in Keyed => row.key # "none"
  PROVE  KeyInv'
<1>1. \A o \in Agent : agent'[o] = IF o = a THEN row ELSE agent[o]
  BY DEF KeyInv, TypeOK, Saved
<1> QED
  BY <1>1 DEF KeyInv, KeyedHasKey

\* A request that does not change the provider or the key keeps the invariant, and
\* one that does has looked at what the agent ends up with.
THEOREM KeyedAlwaysHasKey == Spec => []KeyedHasKey
<1>1. Init => KeyInv
  <2> SUFFICES ASSUME Init PROVE KeyInv
    OBVIOUS
  <2>1. TypeOK
    BY ChatInit DEF ChatInv
  <2>2. KeyedHasKey
    BY DEF Init, NoRow, KeyedHasKey
  <2> QED
    BY <2>1, <2>2 DEF KeyInv
<1>2. KeyInv /\ [Next]_vars => KeyInv'
  <2> SUFFICES ASSUME KeyInv, [Next]_vars PROVE KeyInv'
    OBVIOUS
  <2>0. TypeOK /\ TypeOK' /\ KeyedHasKey
    BY TypeStep DEF KeyInv
  <2>1. ASSUME NEW a \in Agent, NEW provider \in Provider, NEW keyGiven \in BOOLEAN,
               NEW enabled \in BOOLEAN, NEW token \in Bot \cup {NoBot},
               CreateAgent(a, provider, keyGiven, enabled, token)
        PROVE KeyInv'
    <3> DEFINE row == [status |-> "active", provider |-> provider,
                       key |-> IF provider \in Keyed THEN provider ELSE "none",
                       enabled |-> enabled, token |-> token, secret |-> enabled]
    <3>1. row.provider \in Keyed => row.key # "none"
      OBVIOUS
    <3>2. Saved(a, row)
      BY <2>1 DEF CreateAgent
    <3> HIDE DEF row
    <3> QED
      BY <2>0, <3>1, <3>2, SaveHasKey
  <2>2. ASSUME NEW a \in Agent, NEW provider \in Provider,
               NEW key \in {"kept", "new", "cleared"}, UpdateProvider(a, provider, key)
        PROVE KeyInv'
    <3> DEFINE given == CASE key = "kept" -> agent[a].key
                          [] key = "new" -> provider
                          [] OTHER -> "none"
               row == [agent[a] EXCEPT !.provider = provider, !.key = given]
    <3>1. agent[a] \in AgentRow
      BY <2>0 DEF TypeOK
    <3>2. provider \in Keyed => key = "new" \/ (agent[a].key # "none" /\ key = "kept")
      BY <2>2 DEF UpdateProvider, MustHaveKey
    <3>3. provider \in Keyed => given # "none"
      BY <3>2
    <3>4. Saved(a, row)
      BY <2>2 DEF UpdateProvider
    <3> HIDE DEF given
    <3>5. row.provider = provider /\ row.key = given
      BY <3>1
    <3> HIDE DEF row
    <3> QED
      BY <2>0, <3>3, <3>4, <3>5, SaveHasKey
  <2>3. ASSUME NEW a \in Agent, NEW status \in {"active", "paused", "archived"},
               UpdateStatus(a, status)
        PROVE KeyInv'
    <3> DEFINE row == [agent[a] EXCEPT !.status = status]
    <3>1. row.provider = agent[a].provider /\ row.key = agent[a].key
      BY <2>0 DEF TypeOK
    <3>2. Saved(a, row)
      BY <2>3 DEF UpdateStatus
    <3> HIDE DEF row
    <3> QED
      BY <2>0, <3>1, <3>2, SaveHasKey DEF KeyedHasKey
  <2>4. ASSUME NEW a \in Agent, NEW enabled \in BOOLEAN, NEW token \in Bot \cup {NoBot},
               UpdateTelegram(a, enabled, token)
        PROVE KeyInv'
    <3> DEFINE row == [agent[a] EXCEPT !.enabled = enabled, !.token = token,
                                       !.secret = agent[a].secret \/ enabled]
    <3>1. row.provider = agent[a].provider /\ row.key = agent[a].key
      BY <2>0 DEF TypeOK
    <3>2. Saved(a, row)
      BY <2>4 DEF UpdateTelegram
    <3> HIDE DEF row
    <3> QED
      BY <2>0, <3>1, <3>2, SaveHasKey DEF KeyedHasKey
  <2>5. CASE agent' = agent
    BY <2>0, <2>5 DEF KeyInv, KeyedHasKey
  <2>6. ASSUME NEW m \in Message, \/ Deliver(m) \/ Refused(m) \/ CreateFails(m)
                                  \/ \E b \in Bot : SendMessage(m, b)
                                  \/ \E t \in Task : TaskCreated(m, t)
        PROVE agent' = agent
    <3>1. CASE Deliver(m) \/ Refused(m) \/ CreateFails(m)
      BY <3>1 DEF Deliver, Refused, CreateFails
    <3>2. CASE \E b \in Bot : SendMessage(m, b)
      BY <3>2 DEF SendMessage
    <3>3. CASE \E t \in Task : TaskCreated(m, t)
      BY <3>3 DEF TaskCreated
    <3> QED
      BY <2>6, <3>1, <3>2, <3>3
  <2>7. ASSUME NEW t \in Task, StartRun(t) \/ RunEnds(t) \/ RunFails(t) PROVE agent' = agent
    BY <2>7 DEF StartRun, RunEnds, RunFails
  <2>8. CASE Restart \/ UNCHANGED vars
    BY <2>5, <2>8 DEF Restart, vars
  <2> QED
    BY <2>1, <2>2, <2>3, <2>4, <2>5, <2>6, <2>7, <2>8 DEF Next
<1>3. KeyInv => KeyedHasKey
  BY DEF KeyInv
<1> QED
  BY <1>1, <1>2, <1>3, PTL DEF Spec

-----------------------------------------------------------------------------
(* What the handler read still holds when it makes the task *)

\* A handler that is waiting for the body was let in, and its agent has not been
\* saved since.
BodyAccepted == \A m \in Message \ overtaken : update[m].state = "body"
                                                 => Accepts(update[m].agent)

BodyInv == TypeOK /\ BodyAccepted

\* Saving an agent overtakes the deliveries to it.
LEMMA SaveOvertakes ==
  ASSUME BodyInv, TypeOK', NEW a \in Agent, NEW row \in AgentRow, Saved(a, row),
         Sync(a, row) \/ UNCHANGED <<webhook, update, unsettled>>
  PROVE  BodyInv'
<1>1. TypeOK /\ BodyAccepted
  BY DEF BodyInv
<1>2. \A m \in Message : /\ update'[m].agent = update[m].agent
                         /\ update'[m].state = "body" => update[m].state = "body"
  BY <1>1, SyncTypes
<1> SUFFICES ASSUME NEW m \in Message, m \notin overtaken', update'[m].state = "body"
             PROVE  (Accepts(update[m].agent))'
  BY DEF BodyInv, BodyAccepted
<1>3. PICK o \in Agent : o = update[m].agent /\ o = update'[m].agent
  BY <1>1, <1>2 DEF TypeOK
<1>4. m \notin overtaken /\ o # a
  BY <1>2, <1>3 DEF Saved, Underway
<1>5. agent'[o] = agent[o]
  BY <1>1, <1>4 DEF Saved, TypeOK
<1>6. Accepts(o)
  BY <1>1, <1>2, <1>3, <1>4 DEF BodyAccepted
<1> QED
  BY <1>3, <1>5, <1>6 DEF Accepts

\* Deliveries that go on as they are, or are over, keep the invariant.
LEMMA BodyKept ==
  ASSUME BodyInv, TypeOK', UNCHANGED <<agent, overtaken>>,
         \A m \in Message : update'[m].state = "body" => update'[m] = update[m]
  PROVE  BodyInv'
<1> SUFFICES ASSUME NEW m \in Message, m \notin overtaken', update'[m].state = "body"
             PROVE  (Accepts(update[m].agent))'
  BY DEF BodyInv, BodyAccepted
<1>1. update'[m] = update[m] /\ Accepts(update[m].agent)
  BY DEF BodyInv, BodyAccepted
<1> QED
  BY <1>1 DEF Accepts

\* A delivery that is let in reads an agent that accepts it.
LEMMA DeliverAccepts ==
  ASSUME BodyInv, TypeOK', NEW m \in Message, Deliver(m)
  PROVE  BodyInv'
<1>1. TypeOK /\ BodyAccepted
  BY DEF BodyInv
<1>2. PICK a \in Agent : a = webhook[update[m].bot]
  BY <1>1 DEF Deliver, TypeOK
<1>3. /\ update'[m].agent = a
      /\ update'[m].state = "body" => Accepts(a)
      /\ \A n \in Message \ {m} : update'[n] = update[n]
  BY <1>1, <1>2 DEF Deliver, TypeOK
<1>4. UNCHANGED agent /\ overtaken' = overtaken \ {m}
  BY DEF Deliver
<1> SUFFICES ASSUME NEW n \in Message, n \notin overtaken', update'[n].state = "body"
             PROVE  (Accepts(update[n].agent))'
  BY DEF BodyInv, BodyAccepted
<1>5. CASE n = m
  BY <1>3, <1>4, <1>5 DEF Accepts
<1>6. CASE n # m
  BY <1>1, <1>3, <1>4, <1>6 DEF BodyAccepted, Accepts
<1> QED
  BY <1>5, <1>6

LEMMA BodyStep == BodyInv /\ [Next]_vars => BodyInv'
<1> SUFFICES ASSUME BodyInv, [Next]_vars PROVE BodyInv'
  OBVIOUS
<1>0. TypeOK /\ TypeOK'
  BY TypeStep DEF BodyInv
<1>1. ASSUME NEW a \in Agent, NEW provider \in Provider, NEW keyGiven \in BOOLEAN,
             NEW enabled \in BOOLEAN, NEW token \in Bot \cup {NoBot},
             CreateAgent(a, provider, keyGiven, enabled, token)
      PROVE BodyInv'
  <2> DEFINE row == [status |-> "active", provider |-> provider,
                     key |-> IF provider \in Keyed THEN provider ELSE "none",
                     enabled |-> enabled, token |-> token, secret |-> enabled]
  <2>1. row \in AgentRow
    OBVIOUS
  <2>2. Saved(a, row) /\ Sync(a, row)
    BY <1>1 DEF CreateAgent
  <2> HIDE DEF row
  <2> QED
    BY <1>0, <2>1, <2>2, SaveOvertakes
<1>2. ASSUME NEW a \in Agent, NEW provider \in Provider,
             NEW key \in {"kept", "new", "cleared"}, UpdateProvider(a, provider, key)
      PROVE BodyInv'
  <2> DEFINE given == CASE key = "kept" -> agent[a].key
                        [] key = "new" -> provider
                        [] OTHER -> "none"
             row == [agent[a] EXCEPT !.provider = provider, !.key = given]
  <2>1. agent[a] \in AgentRow /\ (key = "new" => provider \in Keyed)
    BY <1>0, <1>2 DEF UpdateProvider, TypeOK
  <2>2. given \in {"none"} \cup Keyed
    BY <2>1
  <2>3. Saved(a, row) /\ UNCHANGED <<webhook, update, unsettled>>
    BY <1>2 DEF UpdateProvider
  <2>4. row \in AgentRow
    <3> HIDE DEF AgentRow, given
    <3> QED
      BY <2>1, <2>2, RowProvider, Zenon
  <2> HIDE DEF row
  <2> QED
    BY <1>0, <2>3, <2>4, SaveOvertakes
<1>3. ASSUME NEW a \in Agent, NEW status \in {"active", "paused", "archived"},
             UpdateStatus(a, status)
      PROVE BodyInv'
  <2> DEFINE row == [agent[a] EXCEPT !.status = status]
  <2>1. row \in AgentRow
    BY <1>0, RowStatus DEF TypeOK
  <2>2. Saved(a, row) /\ UNCHANGED <<webhook, update, unsettled>>
    BY <1>3 DEF UpdateStatus
  <2> HIDE DEF row
  <2> QED
    BY <1>0, <2>1, <2>2, SaveOvertakes
<1>4. ASSUME NEW a \in Agent, NEW enabled \in BOOLEAN, NEW token \in Bot \cup {NoBot},
             UpdateTelegram(a, enabled, token)
      PROVE BodyInv'
  <2> DEFINE row == [agent[a] EXCEPT !.enabled = enabled, !.token = token,
                                     !.secret = agent[a].secret \/ enabled]
  <2>1. agent[a] \in AgentRow
    BY <1>0 DEF TypeOK
  <2>2. row \in AgentRow
    <3> HIDE DEF AgentRow
    <3> QED
      BY <2>1, RowTelegram, Zenon
  <2>3. Saved(a, row) /\ Sync(a, row)
    BY <1>4 DEF UpdateTelegram
  <2> HIDE DEF row
  <2> QED
    BY <1>0, <2>2, <2>3, SaveOvertakes
<1>5. ASSUME NEW m \in Message, Deliver(m) PROVE BodyInv'
  BY <1>0, <1>5, DeliverAccepts
<1>6. ASSUME NEW m \in Message, \/ Refused(m) \/ CreateFails(m)
                                \/ \E b \in Bot : SendMessage(m, b)
                                \/ \E t \in Task : TaskCreated(m, t)
      PROVE BodyInv'
  <2>0. update \in [Message -> Delivery]
    BY <1>0 DEF TypeOK
  <2>1. /\ UNCHANGED <<agent, overtaken>>
        /\ \A n \in Message : update'[n].state = "body" => update'[n] = update[n]
    <3>1. CASE Refused(m) \/ CreateFails(m)
      BY <2>0, <3>1 DEF Refused, CreateFails
    <3>2. CASE \E b \in Bot : SendMessage(m, b)
      BY <2>0, <3>2 DEF SendMessage, NoDelivery
    <3>3. CASE \E t \in Task : TaskCreated(m, t)
      BY <2>0, <3>3 DEF TaskCreated, Answered
    <3> QED
      BY <1>6, <3>1, <3>2, <3>3
  <2> QED
    BY <1>0, <2>1, BodyKept
<1>7. ASSUME NEW t \in Task, StartRun(t) \/ RunEnds(t) \/ RunFails(t) PROVE BodyInv'
  <2>1. UNCHANGED <<agent, overtaken, update>>
    BY <1>7 DEF StartRun, RunEnds, RunFails
  <2> QED
    BY <1>0, <2>1, BodyKept
<1>8. CASE Restart
  <2>1. UNCHANGED <<agent, overtaken>>
    BY <1>8 DEF Restart
  <2>2. \A n \in Message : update'[n].state = "body" => update'[n] = update[n]
    BY <1>0, <1>8 DEF TypeOK, Restart
  <2> QED
    BY <1>0, <2>1, <2>2, BodyKept
<1>9. CASE UNCHANGED vars
  BY <1>0, <1>9, BodyKept DEF vars
<1> QED
  BY <1>1, <1>2, <1>3, <1>4, <1>5, <1>6, <1>7, <1>8, <1>9 DEF Next

\* A task is new only when a body has come, and then for the agent that was read.
LEMMA NewTask ==
  ASSUME TypeOK, [Next]_vars, NEW t \in Task, task[t].state = "none", task'[t].state # "none"
  PROVE  \E m \in Message : /\ update[m].state = "body" /\ UNCHANGED agent
                            /\ task'[t].message = m /\ task'[t].agent = update[m].agent
<1>0. task \in [Task -> ChatTask]
  BY DEF TypeOK
<1>1. ~ UNCHANGED task
  OBVIOUS
<1>2. ~ \E s \in Task : StartRun(s) \/ RunEnds(s) \/ RunFails(s)
  <2> SUFFICES ASSUME NEW s \in Task, StartRun(s) \/ RunEnds(s) \/ RunFails(s) PROVE FALSE
    OBVIOUS
  <2>1. s # t
    BY DEF StartRun, RunEnds, RunFails
  <2>2. task'[t] = task[t]
    BY <1>0, <2>1 DEF StartRun, RunEnds, RunFails
  <2> QED
    BY <2>2
<1>3. ~ Restart
  BY <1>0 DEF Restart
<1>4. \A row : ~ \E a \in Agent : Saved(a, row)
  BY <1>1 DEF Saved
<1>5. ASSUME NEW a \in Agent, NEW provider \in Provider
      PROVE  ~ \/ \E keyGiven, enabled \in BOOLEAN, token \in Bot \cup {NoBot} :
                    CreateAgent(a, provider, keyGiven, enabled, token)
               \/ \E key \in {"kept", "new", "cleared"} : UpdateProvider(a, provider, key)
  BY <1>4 DEF CreateAgent, UpdateProvider
<1>6. ASSUME NEW a \in Agent
      PROVE  ~ \/ \E s \in {"active", "paused", "archived"} : UpdateStatus(a, s)
               \/ \E enabled \in BOOLEAN, token \in Bot \cup {NoBot} :
                    UpdateTelegram(a, enabled, token)
  BY <1>4 DEF UpdateStatus, UpdateTelegram
<1>7. PICK m \in Message, s \in Task : TaskCreated(m, s)
  <2>1. Next
    BY <1>1 DEF vars
  <2>2. PICK m \in Message : \/ Deliver(m) \/ Refused(m) \/ CreateFails(m)
                             \/ \E b \in Bot : SendMessage(m, b)
                             \/ \E s \in Task : TaskCreated(m, s)
    BY <1>2, <1>3, <1>5, <1>6, <2>1 DEF Next
  <2>3. ~ (Deliver(m) \/ Refused(m) \/ CreateFails(m) \/ \E b \in Bot : SendMessage(m, b))
    BY <1>1 DEF Deliver, Refused, CreateFails, SendMessage
  <2> QED
    BY <2>2, <2>3
<1>8. s = t
  BY <1>0, <1>7 DEF TaskCreated
<1> QED
  BY <1>0, <1>7, <1>8 DEF TaskCreated, NoTask

\* TasksWhileOn, for any agents, messages, requests and restarts.
THEOREM TasksAreWanted == Spec => TasksWhileOn
<1>1. Init => BodyInv
  <2> SUFFICES ASSUME Init PROVE BodyInv
    OBVIOUS
  <2>1. TypeOK
    BY ChatInit DEF ChatInv
  <2>2. BodyAccepted
    BY DEF Init, NoDelivery, BodyAccepted
  <2> QED
    BY <2>1, <2>2 DEF BodyInv
<1>2. BodyInv /\ [Next]_vars
        => [\A t \in Task : task[t].state = "none" /\ task'[t].state # "none"
              => Accepts(task'[t].agent) \/ task'[t].message \in overtaken]_vars
  <2> SUFFICES ASSUME BodyInv, [Next]_vars, NEW t \in Task,
                      task[t].state = "none", task'[t].state # "none"
               PROVE  Accepts(task'[t].agent) \/ task'[t].message \in overtaken
    OBVIOUS
  <2>1. PICK m \in Message : /\ update[m].state = "body"
                             /\ task'[t].message = m /\ task'[t].agent = update[m].agent
    BY NewTask DEF BodyInv
  <2> QED
    BY <2>1 DEF BodyInv, BodyAccepted
<1> QED
  BY <1>1, <1>2, BodyStep, PTL DEF Spec, TasksWhileOn
=============================================================================
