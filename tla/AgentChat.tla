------------------------------ MODULE AgentChat ------------------------------
(***************************************************************************)
(* Agents and the chat with them on Telegram: routers/agents.py,           *)
(* routers/telegram.py, services/telegram.py.                              *)
(*                                                                         *)
(* An agent's row holds its provider and key, and the bot it talks         *)
(* through.  Saving telegram settings registers or removes the bot's       *)
(* webhook at Telegram, best effort.  Telegram delivers a message to the   *)
(* webhook until it is told 200; the handler checks the agent, waits for   *)
(* the body and makes a task, whose run replies in the chat.  What else a  *)
(* run does is in AgentTasks.  Telegram itself is not part of the          *)
(* repository: it is modelled by how services/telegram.py uses it.         *)
(***************************************************************************)
EXTENDS Naturals

CONSTANTS
  Agent, Bot, Message,
  Task,       \* bound: tasks made of messages
  NoAgent, NoBot, NoMessage,
  Keyed,      \* the providers that need a key
  MaxEdit,    \* bound: requests that create or change an agent
  MaxCrash,   \* bound: restarts of the backend
  Faults      \* what goes wrong: a subset of AllFaults

AllFaults == {"telegram",   \* a call to Telegram fails
              "database",   \* a task is not inserted, and the handler raises
              "answer"}     \* Telegram does not get the 200

ASSUME ChatAssumption ==
  /\ NoAgent \notin Agent /\ NoBot \notin Bot /\ NoMessage \notin Message
  /\ "belleq" \notin Keyed /\ "none" \notin Keyed
  /\ MaxEdit \in Nat /\ MaxCrash \in Nat /\ Faults \subseteq AllFaults

VARIABLES
  agent,      \* agent[a]: its row
  webhook,    \* webhook[b]: the agent Telegram delivers the bot's messages to
  update,     \* update[m]: a message at Telegram, and its handler here
  task,       \* task[t]: a task made of a message
  edits,      \* requests so far
  crashes,    \* restarts so far
  unsettled,  \* history: bots of which a call failed, that two agents had, or
              \*   that an agent has given up
  repeated,   \* history: messages whose 200 was lost
  overtaken   \* history: messages whose agent was changed during the delivery

vars == <<agent, webhook, update, task, edits, crashes, unsettled, repeated, overtaken>>

Provider == {"belleq"} \cup Keyed

AgentRow == [status : {"none", "active", "paused", "archived"}, provider : Provider,
             key : {"none"} \cup Keyed,   \* the provider it was given for
             enabled : BOOLEAN, token : Bot \cup {NoBot}, secret : BOOLEAN]
Delivery == [bot : Bot \cup {NoBot}, agent : Agent \cup {NoAgent},
             state : {"none", "pending", "body", "done", "dropped"}]
ChatTask == [message : Message \cup {NoMessage}, agent : Agent \cup {NoAgent},
             state : {"none", "pending", "running", "ended"},
             token : Bot \cup {NoBot}, reply : Bot \cup {NoBot}]

TypeOK == /\ agent \in [Agent -> AgentRow]
          /\ webhook \in [Bot -> Agent \cup {NoAgent}]
          /\ update \in [Message -> Delivery]
          /\ \A m \in Message : /\ update[m].state # "none" => update[m].bot \in Bot
                                /\ update[m].state = "body" => update[m].agent \in Agent
          /\ task \in [Task -> ChatTask]
          /\ \A t \in Task : task[t].state # "none" => task[t].agent \in Agent
          /\ edits \in 0 .. MaxEdit /\ crashes \in 0 .. MaxCrash
          /\ unsettled \subseteq Bot
          /\ repeated \subseteq Message /\ overtaken \subseteq Message

NoRow == [status |-> "none", provider |-> "belleq", key |-> "none", enabled |-> FALSE,
          token |-> NoBot, secret |-> FALSE]
NoDelivery == [bot |-> NoBot, agent |-> NoAgent, state |-> "none"]
NoTask == [message |-> NoMessage, agent |-> NoAgent, state |-> "none", token |-> NoBot,
           reply |-> NoBot]

Init == /\ agent = [a \in Agent |-> NoRow]
        /\ webhook = [b \in Bot |-> NoAgent]
        /\ update = [m \in Message |-> NoDelivery]
        /\ task = [t \in Task |-> NoTask]
        /\ edits = 0 /\ crashes = 0
        /\ unsettled = {} /\ repeated = {} /\ overtaken = {}

-----------------------------------------------------------------------------
(* The settings of an agent *)

Exists(a) == agent[a].status # "none"

\* Deliveries to the agent that are waiting for their body.
Underway(a) == {m \in Message : update[m].state = "body" /\ update[m].agent = a}

\* Mutant of Synced: the webhook is registered, and stays when chat is turned off.
SyncedOnlyOn(a, row) ==
  IF row.enabled /\ row.token # NoBot /\ row.secret
  THEN /\ webhook' = [webhook EXCEPT ![row.token] = a]
       /\ update' = [m \in Message |->
            IF update[m].state = "pending" /\ update[m].bot = row.token
            THEN [update[m] EXCEPT !.state = "dropped"] ELSE update[m]]
  ELSE UNCHANGED <<webhook, update>>

\* _sync_telegram_webhook, when Telegram does what it is asked: registering drops
\* the messages that are pending, removing keeps them.
Synced(a, row) ==
  IF row.enabled /\ row.token # NoBot /\ row.secret
  THEN /\ webhook' = [webhook EXCEPT ![row.token] = a]
       /\ update' = [m \in Message |->
            IF update[m].state = "pending" /\ update[m].bot = row.token
            THEN [update[m] EXCEPT !.state = "dropped"] ELSE update[m]]
  ELSE /\ webhook' = [b \in Bot |-> IF b = row.token THEN NoAgent ELSE webhook[b]]
       /\ UNCHANGED update

\* It is best effort: a call that fails is logged.
Sync(a, row) ==
  \/ /\ Synced(a, row)
     /\ unsettled' = unsettled
          \cup {b \in Bot : b = row.token /\ \E o \in Agent \ {a} : agent[o].token = b}
          \cup {b \in Bot : b = agent[a].token /\ b # row.token}
  \/ /\ "telegram" \in Faults
     /\ UNCHANGED <<webhook, update>>
     /\ unsettled' = unsettled \cup ({row.token, agent[a].token} \ {NoBot})

\* An agent's row is saved.
Saved(a, row) == /\ edits < MaxEdit /\ edits' = edits + 1
                 /\ agent' = [agent EXCEPT ![a] = row]
                 /\ overtaken' = overtaken \cup Underway(a)
                 /\ UNCHANGED <<task, crashes, repeated>>

\* POST /contexts/{id}/agents: a key is kept for a provider that needs one.
CreateAgent(a, provider, keyGiven, enabled, token) ==
  LET row == [status |-> "active", provider |-> provider,
              key |-> IF provider \in Keyed THEN provider ELSE "none",
              enabled |-> enabled, token |-> token, secret |-> enabled] IN
  /\ ~Exists(a)
  /\ provider \in Keyed => keyGiven
  /\ Saved(a, row) /\ Sync(a, row)

\* Mutant of MustHaveKey: clearing the key is not looked at.
MustHaveAnyKey(old, provider, key) == provider \in Keyed => old.key # "none" \/ key = "new"

\* A keyed provider "must end up with a key".
MustHaveKey(old, provider, key) ==
  provider \in Keyed => key = "new" \/ (old.key # "none" /\ key = "kept")

\* PATCH /agents/{id}, the provider and its key: a patch keeps the key, gives a
\* new one, or clears it.
UpdateProvider(a, provider, key) ==
  /\ Exists(a)
  /\ key = "new" => provider \in Keyed   \* abstracts: a key with no use
  /\ MustHaveKey(agent[a], provider, key)
  /\ Saved(a, [agent[a] EXCEPT !.provider = provider,
                               !.key = CASE key = "kept" -> agent[a].key
                                         [] key = "new" -> provider
                                         [] OTHER -> "none"])
  /\ UNCHANGED <<webhook, update, unsettled>>

\* PATCH /agents/{id} with a status, and DELETE /agents/{id}, which archives; the
\* scheduler's part of it is AgentTasks' ArchiveAgent.
UpdateStatus(a, status) ==
  /\ Exists(a)
  /\ Saved(a, [agent[a] EXCEPT !.status = status])
  /\ UNCHANGED <<webhook, update, unsettled>>

\* PATCH /agents/{id}, the telegram settings: a secret is made when chat is turned
\* on for the first time, and never changed.
UpdateTelegram(a, enabled, token) ==
  LET row == [agent[a] EXCEPT !.enabled = enabled, !.token = token,
                              !.secret = agent[a].secret \/ enabled] IN
  /\ Exists(a)
  /\ Saved(a, row) /\ Sync(a, row)

-----------------------------------------------------------------------------
(* Messages *)

\* Someone writes to a bot.
SendMessage(m, b) ==
  /\ update[m].state = "none"
  /\ update' = [update EXCEPT ![m] = [NoDelivery EXCEPT !.bot = b, !.state = "pending"]]
  /\ UNCHANGED <<agent, webhook, task, edits, crashes, unsettled, repeated, overtaken>>

\* The handler goes on with a message for this agent.
Accepts(a) == agent[a].enabled /\ agent[a].secret /\ agent[a].status = "active"

\* Mutant of Deliver: the agent's status is not looked at.
DeliverAnyway(m) ==
  /\ update[m].state = "pending" /\ webhook[update[m].bot] # NoAgent
  /\ LET a == webhook[update[m].bot] IN
     update' = [update EXCEPT ![m] =
                  [@ EXCEPT !.agent = a,
                            !.state = IF agent[a].enabled THEN "body" ELSE "done"]]
  /\ overtaken' = overtaken \ {m}
  /\ UNCHANGED <<agent, webhook, task, edits, crashes, unsettled, repeated>>

\* Telegram calls the webhook; a message to an agent that does not accept it is
\* answered 200 like the others, and is over.
Deliver(m) ==
  /\ update[m].state = "pending" /\ webhook[update[m].bot] # NoAgent
  /\ LET a == webhook[update[m].bot] IN
     update' = [update EXCEPT ![m] =
                  [@ EXCEPT !.agent = a, !.state = IF Accepts(a) THEN "body" ELSE "done"]]
  /\ overtaken' = overtaken \ {m}
  /\ UNCHANGED <<agent, webhook, task, edits, crashes, unsettled, repeated>>

\* No text, or a chat that is not allowed.
Refused(m) == /\ update[m].state = "body"
              /\ update' = [update EXCEPT ![m].state = "done"]
              /\ UNCHANGED <<agent, webhook, task, edits, crashes, unsettled, repeated,
                             overtaken>>

\* Mutant of Answered: the handler waits for the run, and Telegram gives up on it.
AnsweredLate(m) == /\ update' = [update EXCEPT ![m].state = "pending"]
                   /\ UNCHANGED repeated

\* The 200 reaches Telegram, or it delivers the message once more.
Answered(m) == \/ /\ update' = [update EXCEPT ![m].state = "done"]
                  /\ UNCHANGED repeated
               \/ /\ "answer" \in Faults
                  /\ update' = [update EXCEPT ![m].state = "pending"]
                  /\ repeated' = repeated \cup {m}

\* The body has come: a task is made for the agent that was read before, and its
\* run is started.
TaskCreated(m, t) ==
  /\ update[m].state = "body" /\ task[t].state = "none"
  /\ task' = [task EXCEPT ![t] = [NoTask EXCEPT !.message = m, !.agent = update[m].agent,
                                                !.state = "pending"]]
  /\ Answered(m)
  /\ UNCHANGED <<agent, webhook, edits, crashes, unsettled, overtaken>>

\* The insertion raises: Telegram gets a 500 and delivers once more.
CreateFails(m) == /\ update[m].state = "body" /\ "database" \in Faults
                  /\ update' = [update EXCEPT ![m].state = "pending"]
                  /\ UNCHANGED <<agent, webhook, task, edits, crashes, unsettled, repeated,
                                 overtaken>>

\* trigger_run reads the agent; for one that is archived the task fails.
StartRun(t) ==
  /\ task[t].state = "pending"
  /\ LET row == agent[task[t].agent] IN
     task' = [task EXCEPT ![t] =
                [@ EXCEPT !.state = IF row.status = "archived" THEN "ended" ELSE "running",
                          !.token = row.token]]
  /\ UNCHANGED <<agent, webhook, update, edits, crashes, unsettled, repeated, overtaken>>

\* _reply_telegram: through the bot of the row that was read.
RunEnds(t) ==
  /\ task[t].state = "running"
  /\ task' = [task EXCEPT ![t] = [@ EXCEPT !.state = "ended", !.reply = task[t].token]]
  /\ UNCHANGED <<agent, webhook, update, edits, crashes, unsettled, repeated, overtaken>>

\* A run that fails sends no reply.
RunFails(t) == /\ task[t].state \in {"pending", "running"}
               /\ task' = [task EXCEPT ![t].state = "ended"]
               /\ UNCHANGED <<agent, webhook, update, edits, crashes, unsettled, repeated,
                              overtaken>>

\* The process dies and starts again: running tasks are failed, pending ones stay,
\* and Telegram gets no answer.
Restart == /\ crashes < MaxCrash /\ crashes' = crashes + 1
           /\ task' = [t \in Task |-> IF task[t].state = "running"
                                      THEN [task[t] EXCEPT !.state = "ended"] ELSE task[t]]
           /\ update' = [m \in Message |-> IF update[m].state = "body"
                                           THEN [update[m] EXCEPT !.state = "pending"]
                                           ELSE update[m]]
           /\ UNCHANGED <<agent, webhook, edits, unsettled, repeated, overtaken>>

Next ==
  \/ \E a \in Agent, provider \in Provider :
       \/ \E keyGiven, enabled \in BOOLEAN, token \in Bot \cup {NoBot} :
            CreateAgent(a, provider, keyGiven, enabled, token)
       \/ \E key \in {"kept", "new", "cleared"} : UpdateProvider(a, provider, key)
  \/ \E a \in Agent : \/ \E s \in {"active", "paused", "archived"} : UpdateStatus(a, s)
                      \/ \E enabled \in BOOLEAN, token \in Bot \cup {NoBot} :
                           UpdateTelegram(a, enabled, token)
  \/ \E m \in Message : \/ Deliver(m) \/ Refused(m) \/ CreateFails(m)
                        \/ \E b \in Bot : SendMessage(m, b)
                        \/ \E t \in Task : TaskCreated(m, t)
  \/ \E t \in Task : StartRun(t) \/ RunEnds(t) \/ RunFails(t)
  \/ Restart

Spec == Init /\ [][Next]_vars

-----------------------------------------------------------------------------
(* Safety *)

\* "Register or remove the agent bot's Telegram webhook to match its config":
\* Telegram delivers a bot's messages to the agent that has chat turned on with it,
\* and to no other, unless a call failed, two agents had the bot or an agent gave
\* it up (_sync_telegram_webhook).
Chats(a, b) == agent[a].enabled /\ agent[a].token = b

WebhookMatches == \A b \in Bot \ unsettled, a \in Agent : webhook[b] = a <=> Chats(a, b)

\* A message makes at most one task, whatever restarts and failed insertions do,
\* unless the 200 was lost (telegram_webhook).
MessageOnce == \A t1, t2 \in Task : /\ task[t1].state # "none" /\ task[t2].state # "none"
                                    /\ task[t1].message = task[t2].message
                                    => t1 = t2 \/ task[t1].message \in repeated

\* An agent of a keyed provider has a key to run with (update_agent's guard).
KeyedHasKey == \A a \in Agent : agent[a].provider \in Keyed => agent[a].key # "none"

\* A message makes a task for an agent that accepts messages at that moment, unless
\* the agent was changed during the delivery (telegram_webhook reads the agent
\* before it waits for the body).
TasksWhileOn ==
  [][\A t \in Task : task[t].state = "none" /\ task'[t].state # "none"
                       => Accepts(task'[t].agent) \/ task'[t].message \in overtaken]_vars

-----------------------------------------------------------------------------
(* Inductive invariants *)

\* Chat that is on has a secret, so saving it registers the webhook.
ChatInv == TypeOK /\ WebhookMatches /\ \A a \in Agent : agent[a].enabled => agent[a].secret

\* A message that may still be delivered has no task, unless its 200 was lost.
OpenHasNoTask ==
  \A m \in Message \ repeated, t \in Task :
    /\ update[m].state \in {"none", "pending", "body"}
    /\ task[t].state # "none"
    => task[t].message # m

OnceInv == TypeOK /\ MessageOnce /\ OpenHasNoTask

-----------------------------------------------------------------------------
(* What does not hold: one counterexample each, see README.md *)

\* The webhook matches the settings after every save that Telegram took.
WebhookAlwaysMatches == \A b \in Bot, a \in Agent : webhook[b] = a => Chats(a, b)

\* The key of a keyed provider was given for it.
KeyOfProvider == \A a \in Agent : agent[a].provider \in Keyed
                                    => agent[a].key = agent[a].provider

\* The reply comes from the bot that was written to (_reply_telegram sends with the
\* token of the agent as it was when the run began).
RepliesFromTheBotAsked ==
  \A t \in Task : task[t].reply # NoBot => task[t].reply = update[task[t].message].bot

\* A message is lost only to an agent that does not want it.
NothingDropped == \A m \in Message : update[m].state # "dropped"

\* No task is made for an agent that has been archived.
ArchivedMakesNoTask ==
  [][\A t \in Task : task[t].state = "none" /\ task'[t].state # "none"
                       => agent[task'[t].agent].status # "archived"]_vars
=============================================================================
