# btbz-SharpTalk: specification and proofs

btbz-SharpTalk is a multi-tenant support chat: a bot answers a shop's customers
in a widget or through an outside messenger, and hands a conversation to a person
when it cannot. The server is `apps/api` (NestJS, TypeORM on MySQL, Redis, an
event bus); it runs as one Node process, sometimes as several. This directory
holds TLA+ modules of its core, the configurations TLC checks them with, and
theorems about them that TLAPS proves. `PROJECT.json` maps each definition to the
lines it models. Paths below are relative to `apps/api/src/domain`.

1. [The system](#1-the-system)
2. [Modules](#2-modules)
3. [Runs](#3-runs)
4. [What the code does not keep](#4-what-the-code-does-not-keep)
5. [Proofs](#5-proofs)
6. [Not modelled](#6-not-modelled)
7. [Plan](#7-plan)

## 1. The system

### Parts, state, operations

| Part | State | Operations | What makes it correct |
|---|---|---|---|
| Outbound relay (`messenger/messenger-outbox.*`) | `channel_threads`, `channel_outbox`, `channel_message_map` | scan a thread past its cursor, queue, send, retry with backoff, confirm | every reply is queued and settles; no echo; nothing claimed that was not sent; nothing sent twice |
| Inbound path (`messenger/messenger-ingest`, `-sync`, webhook controllers) | the same tables, sessions, conversations | receive, drop duplicates, bind a thread to a conversation, run a turn, flush | one turn per message; notice before the answer; no lost message |
| Conversation (`chat/`) | `conversations`, `messages` | turn, handoff, escalate, leave, rate | the bot is silent for a person and only then; a promise of an email is kept |
| Console (`agent/agent.service`) | `assignments`, `agent_profiles`, `conversations` | accept, assign, reply, hand back, end | capacity is released; the owner on the row is the owner |
| Idle sweeper (`chat/idle-conversation.service`) | `idle_prompt_at` | ask, close after the grace period, close silently | an absent person's thread ends; an answer is heard |
| Alerts (`agent/agent-alert*`) | `agent_alerts` | page, acknowledge, stand down, remind | one page per wait; it ends with the wait |
| Answering (`chat/rag.service`, `chat/scenario.service`, `moderation/`, `ai-engine/`) | knowledge chunks, model calls | classify, retrieve, generate, moderate | outcome matters to the conversation, text does not |
| Closed loop of knowledge (`knowledge/knowledge-gap.service`, `agent/answer-rating.service`) | `knowledge_gap_tasks`, documents made | propose from resolutions, ratings and the daily batch; accept, dismiss | what is worth knowing is proposed; a decision stands; one document for one acceptance |
| Knowledge (rest of `knowledge/`) | documents, chunks, jobs | ingest, synchronise, resolve conflicts | one live version of a source |
| Coach, answer reuse (`ai-coach/`, `answer-reuse/`) | proposals, approved answers | propose, approve, apply, recall | only approved text is applied |
| Sessions and consent (`session/`) | sessions, consents | create, grant, withdraw | no turn without consent |
| Auth (`auth/`) | users, refresh tokens, MFA, limits | log in, rotate, recover | a used token is dead |
| Issues and tickets (`issue/`) | issues, links | open, follow, close | an issue follows its conversation |
| Privacy (`privacy/`) | requests, suppression list | export, erase, retain | the erased stays erased |
| Commerce connectors, marketing, analytics, administration, infrastructure, front ends | their own tables | integrations, events, settings | independent of the above |

### How the parts interact

There are no locks on rows, and few transactions. Parts meet in three ways.

* **Shared rows.** The turn, the console and the sweeper read a row of
  `conversations`, await other services, and then update it by id. What they
  decide with is what they read. Chat code writes `messages` and knows nothing of
  channels; the relay finds them by scanning.
* **Inline calls.** An inbound message runs a turn of the chat service and then
  flushes the outbox of its own thread, while the worker's tick may be doing the
  same one.
* **Timers and events.** `setInterval` drives the worker and the sweeper; each
  has a flag that keeps it from overlapping itself within one process, and none
  between processes. Events (escalation, stand-down) are best effort.

### What is hard here

Overlaps at every `await`; state read before a model call of several seconds and
used after it; ids handed out before their insert commits; crashes between an
effect outside (a send) and the row that remembers it; errors swallowed with
`.catch(() => undefined)`; retries from rows selected earlier; timers that must
eventually clean up. `PROJECT.json` lists each at its line, with the properties
that would catch it or the reason why none does yet.

## 2. Modules

```
RelayContract          what the relay promises, without its tables
   ^ implemented by
MessengerOutbox        the relay: outbox service and worker, one action per await
   ^ EXTENDS
MCMessengerOutbox      instances for TLC        MessengerOutboxProofs   theorems

Conversation           turn, console and sweeper on the rows of conversations
   ^ EXTENDS
MCConversation         instances for TLC        ConversationProofs      theorems

MessengerIngest        what comes in from messengers: sources, batches, ingest
   ^ EXTENDS
MCMessengerIngest      instances for TLC        MessengerIngestProofs   theorems

EscalationBus          the conversations and the calls that reach the subscribers
   ^ EXTENDS                ^ EXTENDS                ^ EXTENDS
AgentAlerts            IssueDesk                TicketBridge
AgentAlertsProofs      IssueDeskProofs          TicketBridgeProofs      lemmas

KnowledgeLoop          proposals, decisions and documents; EXTENDS EscalationBus
KnowledgeLoopProofs                                                     lemmas
   ^ EXTENDS the four
EscalationDesk         their composition        EscalationDeskProofs    theorems
   ^ EXTENDS
MCEscalationDesk       instances for TLC
```

### MessengerOutbox

A *deliverer* is the worker's tick or the flush at the end of an inbound
message. `proc[d]` is what its local variables hold between two awaits: the
thread row it read (`snap`), the messages left to queue (`scan`), the rows it
selected (`batch`) with the attempts they had then (`seen`). An action is the
code between two awaits:

| Code | Actions |
|---|---|
| `flushThread` | `ReadThread`, `ScanMessages`, `SkipMessage`, `QueueMessage`, `LoseInsert`, `StoreCursor` |
| `deliverPendingForThread`, `deliverDue` | `SelectPending`, `SelectDue` |
| `deliver`, `fail` | `TakeRow`, `LookUpMap`, `Promote`, `NothingToSend`, `SendAccepted`, `SendThrows`, `SaveMap`, `Mark`, `MarkFails`, `ChannelFails`, `RecordFailure`, `EndDelivery` |
| `flushAllThreads` and the worker's `tick` | `BeginTick`, `SweepThread`, `EndTick` |
| `confirmUnconfirmed` | `SelectUnconfirmed`, `AskProvider`, `Settle` |

The environment: messages are saved elsewhere in two steps, so that ids and
commits can disagree (`BeginSave`, `CommitSave`; `OverlappingSaves` allows several
at once); the inbound handler maps the shopper's words (`MapInbound`), binds a
thread to another conversation (`Rebind`) and changes whether it may be answered
(`SetReply`); an operator switches the channel (`SetChannel`); a backoff elapses;
the process restarts (`Crash`, which forgets every `proc` and keeps every table).
`Faults` names the disturbances a run allows and `MaxFaults` bounds them.

A sweep takes `SweepLimit` (100) of the threads that have news, any of them, as the
query has no order (`Swept`). `TakeRow` leaves out the failures for good of a missing
thread, message or adapter (237, 260, 263), since nothing in the model deletes any; the
update of the channel inside the `catch` (313) is taken to succeed.

A message is its conversation, its kind (the shopper's words, text, file only,
nothing) and whether it is saved. Time is only whether a row's backoff is over.
A database error is modelled where the code catches one: the insert of a row
(`LoseInsert`), the map row (`SaveMap`), the status after a send (`MarkFails`), the
channel's own update after that (`ChannelFails`, whose `catch` writes a failed send over
a row that may read sent). Elsewhere an error ends that handler's run, which is modelled only as part of a `Crash`.

Observers, which no guard reads: `copies` counts the sends the provider accepted,
`proved` the deliveries it reported, `waived` the messages passed while the thread
was receive-only.

### RelayContract

Something said may be queued; something queued may be accepted by the provider
any number of times; a delivery is claimed only after an acceptance. It promises
no more, because the code cannot keep more across a crash. The mapping reads
`sayable` from the saved messages, `claim` from the outbox's status column, and
`copies` from the observer.

### Conversation

A row of `conversations` keeps the columns that decide who answers: `status`,
`agent` (`agentId`), `email` (`replyChannel`) and `latch` (`idlePromptAt`: off,
asked, or due once the grace period is over). `held[c][a]` counts the active
rows of `assignments`. Each request in flight, and the sweeper, is a
handler with the row it read (`snap`).

| Code | Actions |
|---|---|
| `handleUserMessage` | `Message`, `Create`, `Persist`, `ClearLatch`, `Shift`, `Classify`, `Answer`, `Reply` |
| `handoff`, `escalate`, `markWaiting` | `HandOff`, `Escalate`, `Notice`, `Queue`, `Mailbox` |
| `endBySession`, `end` | `Leave`, `End`, `Close`, `Release` |
| `accept` | `Accept`, `Insert`, `Own` |
| `assignConversation` | `Assign`, `Transfer`, `Insert`, `Save` |
| `handBack` | `HandBack`, `LetGo`, `Return`, `Tell` |
| `sendMessage` (agent) | `AgentReply`, `SendReply` |
| sweeper, `closeDue` | `BeginSweep`, `Check`, `Unlatch`, `Bye`, `Close`, `Release`, `BeginAsk` |
| sweeper, `promptIdle` | `SelectUnasked`, `Look`, `Prompt`, `SetLatch`, `Close`, `Release`, `EndSweep` |

`Save` writes the whole row that `assignConversation` read, as `repo.save(entity)`
does; the others write single columns. Classification, retrieval, generation and
moderation are choices between their outcomes (`Classify`, `Answer`), the shift
calendar is a choice in `Shift` and `HandOff`, and small talk whose line moderation
refuses is handed off even from the queue, as in the code. Time is `last` (fresh,
quiet after 30 minutes, stale after days) and `GraceEnds`; `GrowsQuiet` waits for
requests in flight, since none lasts half an hour, and a latched thread does not
age before its minute of grace ends. `answered` is what the re-check's query
returns: the shopper has written since `idlePromptAt`.

Database errors and restarts are not modelled here.

### MessengerIngest

One room of a messenger, whose shopper writes messages `1..written`. `mark` is how
far the source has been taken: deliveries made, the stream cursor or the room's
watermark in Redis; `flagged` is the mail that is `\Seen`. A *handler* is the sync tick, a "fetch now"
of the console, or the task a webhook delivery starts; `proc[h]` is its batch, the
thread and the conversation as it read them, and where it stands. `thread`,
`sessions`, `convs`, `rows`, `mapped` and `drafts` are tables.

| Code | Actions |
|---|---|
| webhook controller | `Deliver` |
| the adapters' `pull`: mail box | `Search`, then for each mail `Read` (fetch and flag) or `FlagFails` |
| signed stream; room inboxes | `Pull`, `Commit`; `List`, `Fetch`, `Commit` (of one room; others may follow) |
| `syncChannel` | `HandOver`, `PullFails` |
| `ingestOne`: duplicate check, `findOrCreateThread` | `Lookup`, `Skip`, `Create`, `SkipCreated` |
| `resolveSession`, `resolveConversation` | `NewSession`, `Bind`, `Found`, `NoneFound`, `OpenConv`, `Attach` |
| `ensureNotice` | `Notice`, `Stamp` |
| the turn (`handleUserMessage`) | `Refuse`, `Enter`, `EnterNew`, `Silent`, `Answer`, `Draft`, `HandOff` |
| replies off, or a person on the thread; `escalate` | `Store`, `Page`, `PageFails` |
| the map row, the cursor, the batch's `catch` | `Map`, `NothingToMap`, `MapFails`, `Cursor`, `Fail` |

A pull keeps what it has fetched in memory, and its source is marked before it returns:
mail is flagged one by one with an awaited fetch between, a room's watermark is set
before the next room is fetched, the stream's cursor before the batch is ingested. So
`HandOver` is a step of its own, and between a mark and it a fetch may throw
(`PullFails`) or the process may restart. What is then gone (`DroppedBy`) is `skipped`.
A room is listed and fetched in two steps, so two pulls can set its watermark out of
order and with batches that overlap. The window of the mail search (24 hours, the newest
25), the page limits and the expiry of watermarks (7 days) and cursors (30 days) are not
modelled; a dropped message of an inbox does come back when somebody writes in its room
again.

The world: `Write`, `Redeliver`, `Restart` (which forgets every batch), agents who take, hand back and end, a new version of
the privacy notice, a reply mode set for one session. Observers say when a promise is
off: `hurt` (an ingest failed half way), `twinned` (two handlers had the message
together), `stray` (the turn went to another conversation than the one resolved),
`skipped` (above), `refused` (the consent gate), `returned`, `paged`, `overlapped`.

Here a person's ownership is a column pair and a turn two steps; `Conversation` has
the turn await by await. `MessengerOutbox` takes over where `Cursor` ends. The three
share tables but are checked apart, as the product of their states is out of reach;
what one does to another's tables is in each as environment actions.

### EscalationBus, AgentAlerts, IssueDesk, TicketBridge, KnowledgeLoop, EscalationDesk

The event bus hands an escalation to each subscriber in a task of its own, and the
hooks of an accept and an end are detached calls as well, so each entry of `events`
has one task per subscriber, which reads the tables when it likes and shares nothing
else. A restart cuts tasks off, and nothing starts them again.

| Code | Actions |
|---|---|
| `handoff`, `escalate`, `chooseConsultCategory`, console (`EscalationBus`) | `Escalate`, `BeginPick`, `PublishPick`, `RecordPick`, `Accept`, `HandBack`, `End`, `Leave`, `Say` |
| `onEscalation` (`AgentAlerts`) | `CheckAlarm`, `StandDown`, `Ring`, `RingFails` |
| `ack` | `ReadAlarm`, `AckRow`, `AckSiblings` |
| reminder sweep | `FindDue`, `LookWaiting`, `Stamp`, `MailAgents`, `PageLeads`, `SweepFails` |
| `openForEscalation`, `onAgentAccept`, `onConversationEnded` (`IssueDesk`) | `ReadIssue`, which plans; then the steps of the plan |
| `transition`, `assign`, `setPriority`, `createManual` | `AskTransition`, `AskAssign`, `AskPriority`, `AskFile` |
| `insertWithSequence` | `TakeNumber`, `InsertIssue`, `FindIssue`, `NumberTaken` |
| `save`, `record`, the assignment of `assign` | `SaveCopy`, `RecordEntry`, `PointAgent`, `JobFails` |
| `ISSUE_RESOLVED`, published and heard (`EscalationDesk`) | `Resolution` = `PublishResolved` and `Hear` |
| `rate`, `runBatch`, `accept`, `dismiss` (`KnowledgeLoop`) | `Rate`, `RunBatch`, `Decide`, `CreateDocument`, `SaveTask` |
| `proposeFromResolution`, `proposeFromRating`, `upsertProposal` | `FindMessages`, `FindTask`, `InsertTask`, `InsertRefused`, `SaveTask`, `CallFails` |
| `relayEscalation`, `createTicket`, `appendNewMessages`, `withRetry` (`TicketBridge`) | `SkipRelay`, `ReadRef`, `Gather`, `Send`, `SendFails`, `SaveRef`, `RefTaken` |
| `handleWebhook`, `relayAgentReply` | `FindRef`, `Mirror`, `CheckReply`, `StoreReply`, `MarkHeard` |

Each call on an issue decides what it will do on the copy it read: `jobs[j].plan` is
that list of saves and timeline entries, taken one await at a time, and `SaveCopy`
writes the whole copy, as `repo.save(entity)` does. The helpdesk is external: its
tickets, whose calls may be carried out with the answer lost, and its webhooks,
which come late, twice and in any order. An escalation of a shopper whose email is not
known, or of a tenant without usable credentials, is not relayed (`SkipRelay`, read
afresh for each, so a later one may be). Replies have ids: one that comes without
(`gorgias-webhook.controller.ts:37` makes it 0) does not move the cursor and would be
stored again each time it comes, as it cannot be told from a new one. TypeORM's `save`
selects the row again and writes the columns that differ; `SaveRef`, `SaveCopy` and the
loop's `SaveTask` write the whole copy in one step, which comes to the same but for a
write that falls between its two statements. A tenant works with issues or with the
helpdesk (`workflow_mode`); `setup.parts` chooses. An issue credited to an agent when it is resolved
(`Publishes`) is heard by the loop of knowledge. There a task is its status, and
`calls` has one entry for each handler, batch and console request, with what it found
(`fresh` while that still holds); which topics are over the thresholds is a choice of
`RunBatch`, and `docs` counts the documents made of each task. Observers: `crossed`,
`unrung` (alerts), `stale`, `cut`, `opened` (issues), `tangled`, `dropped`, `shown`
(bridge), `torn` (loop: tasks saved over a status the call had not read).

`Escalate` queues a conversation and publishes it in one step, where the code awaits in
between (`chat.service.ts:1408` to `:1428`, `:1510` to `:1523`). The subscribers' tasks
begin with the publish, and what they read of the conversation they read later still, so
whatever happens to it in between may as well happen just after the publish. What does
not is that the publish never comes: `BusRestart` may leave any conversations queued
without one (`Queue`, `QueuedUnheard`). Off hours an error of the update at line 1412
does the same to one conversation, and is not a step of its own.

## 3. Runs

| Run | Asks | Instance |
|---|---|---|
| `outbox_worker` | the worker alone: nothing twice, nothing passed over, final means final, every reply queued, every row settles | two threads of which a sweep takes one, two messages of three kinds, two attempts, a batch and a scan of one, an asynchronous provider, a rebind or a change of reply permission |
| `outbox_race` | the tick and an inline flush, at every await: no echo, claims backed, budget kept, the contract implemented | two messages of one thread, two attempts, one crash, database error, lost reply or channel switch |
| `desk_overlap` | two requests and the sweeper: owner and status agree, an ended thread is released, an answer is heard | one conversation, two agents, two requests in flight, four calls, capacity one |
| `desk_closes` | under fairness no thread stays with an absent person | two conversations, one agent, every endpoint, three calls |
| `ingest_once` | everything written comes in, once, after its notice, in one conversation, and somebody knows of it | ten situations of up to two messages: two handlers at once, or one handler with two disturbances of every kind |
| `escalation_desk` | alarms, issues and tickets follow the conversation, every escalation arrives, what an agent resolved is proposed, decisions stand | 28 situations of up to three calls, two conversations, two agents, two topics; 419,666 states |
| `outbox_twice`, `outbox_inactive`, `outbox_passed`, `desk_talks`, `desk_mute`, `desk_promise` | see section 4 | the smallest that shows it |

Why these bounds. Two messages are one that is in hand and one that overtakes it,
and one more than a batch or a scan holds, so that the limits bite; two threads are one more than a sweep takes. Two attempts are
a first and a last, and enough for two deliverers to count from the same stale row. Two requests and the sweeper are every pair of
handlers and every triple with the sweeper; two agents are needed for a transfer.
Four calls take a thread through accept, end, and a call that still holds the row
from before. `desk_overlap` leaves out `escalate`, `leave` and `reply`, which write
the rows through the same actions as `message` (`Queue`), `end` (`Close`, `Release`)
or not at all; `desk_closes` uses every endpoint. Symmetry is used in `desk_overlap`
only, which checks invariants only; agents and requests there are
interchangeable. The proofs of section 5 have no bounds.

`ingest_once` and `escalation_desk` choose a `setup` in `Init` and keep it: a sum of
small situations reaches combinations whose product is out of reach. In `ingest_once`
two messages are a batch with a rest, and two handlers every pair; the disturbances
(error, restart, lost mapping, redelivery, take, end, hand back, new notice, override)
come in every order and at every await. The sources differ in what they mark and when,
so each kind is there; a pull that fails or is cut off is there beside another one of
each kind. In `escalation_desk` three calls
are enough for one that crosses two others; two agents and a lead give sibling rows and
rows of the lead; the transcript holds two messages and an addition one, so that caps
bite; a helpdesk call fails once or twice, so that the retry succeeds and fails. Six
situations are of the loop: an issue resolved, reopened and resolved again beside
decisions, four moves being two overlapping decisions and two resolutions; ratings and
batches beside decisions; a batch of two topics that is cut off between them. The
subscribers never read each other's tables, which is why most situations have one of
them; the one with alerts and issues is there for the hooks they share a trigger with,
those with issues and the loop for what one publishes to the other.
What the observers except is reachable in these runs, so the exceptions are not
vacuous: without them each property is violated.

`outbox_worker` may rebind a thread, but only to the one conversation that is its own
(an unbound thread that is bound): a rebind to a second one is `outbox_passed`.

Deadlock checking is off in `ingest_once` and `escalation_desk`: messages, calls and
disturbances are bounded, and when all are handled the system rightly rests. In the
others the worker or the sweeper always ticks.

**Fairness.** Weak fairness of each deliverer's and each request's own steps: an
awaited call settles, one way or the other. Of the tick and the sweep:
`setInterval` keeps firing. Of `BackoffElapses`, `GraceEnds`, `GrowsQuiet`: time
passes. Of `CommitSave`: a transaction begun commits. Of `Collect(Tick)`: the sync
timer keeps firing and a platform keeps delivering what is not answered; of a
handler's `Proceed`, of each subscriber's tasks and of the loop's calls: an awaited call
settles. Of `Resolution`: a publish in the process arrives. Nothing is assumed of
shoppers, agents, operators or faults.

## 4. What the code does not keep

The first six are statements of the repository that a run refutes; the lines and the
quotes are in `PROJECT.json`.

* `outbox_twice`: the tick and an inline flush select the same row, both find no
  map row, both send. A retried send can deliver twice without any fault.
* `outbox_inactive`: a disabled channel uses up the attempts of every queued
  reply, so re-enabling it late does not drain the queue.
* `outbox_passed`: one cursor per thread, but a thread changes conversations: the
  tail of the old one, if not scanned yet, is never queued.
* `desk_talks`: an agent accepts while a turn is with the model, and the bot's
  answer follows into the agent's thread.
* `desk_mute`: an ended thread keeps the agent's id; escalated again, it waits with
  an agent on it whom nobody assigned, and the bot stays silent.
* `desk_promise`: `escalate` off hours promises an email but does not set
  `replyChannel`, so the sweeper closes the thread.

Others were met while modelling and are in the models as the code has them; the
properties leave room for them, and no run is spent on each.

* `messenger/adapter/gmail-imap.adapter.ts:145` "Marked read only after it is queued for
  ingest, so a crash re-reads the mail instead of dropping it": the queue is the pull's
  memory and the mail is flagged before the next one is fetched, so a fetch that throws
  or a restart drops mail that will not be searched for again. The same of
  `amoeba-talk-hub.adapter.ts:178` and `btbz-relay.adapter.ts:362`, whose watermark is
  set before the next room is fetched. `skipped` is what is lost so, and the only thing
  that is: `Accounted` and `WrittenComesIn` except nothing else that a pull took.
* `chat.service.ts:1408`, `:1510`: a restart between queueing and publishing leaves a
  conversation that waits and nobody was called to (`BusRestart`, in `unrung`).
* `messenger-ingest.service.ts:217` "A draft nobody sees is a draft nobody sends": after a
  hand-back the conversation keeps `escalated`, and a draft pages nobody (`returned`).
* A new version of the privacy notice turns away the messages of every bound room
  (`Refuse`), and the room is not given the new notice, since `ensureNotice` looks at
  the session's version; see docs/implementation/RPT-260909-Consent-Notice-Follows-Reply-Mode.md:35.
* `messenger-ingest.service.ts:202` promises that in approve mode nothing is sent; small
  talk and the request to log in (`chat.service.ts:904`, `:921`) are.
* `agent-alert.service.ts:101` "channels already notified for this escalation": the alarm
  found may be of an earlier one, and its targets are the earlier ones.
* `agent-alert-reminder.service.ts:112` "Accepted or ended meanwhile": read before the
  loop, so an accept during an earlier mail is still reminded of.
* `issue.service.ts:132` "Idempotent ... via uk_issue_conv": the row is, its `created`
  entry and the shopper's notice are written twice (`FindIssue`).
* `external-ticket.service.ts:36` "full transcript": the oldest 100 messages; `:172`
  "already relayed": also said of a reply that a later one overtook.
* `knowledge-gap.service.ts:278` "decided rows stay decided": a refresh that read the task
  before it was dismissed saves its copy, status and all, and raises it again; two
  acceptances that read it together make two documents (`torn`).
* `knowledge-gap.service.ts:173` "re-rating refreshes it while it is open": only
  `metricJson` is refreshed; `detail` keeps the first verdict.
* `issue.service.ts:487` "an agent-tier resolution is a capture candidate": the tier is
  stamped once, so an issue the bot settled, reopened and then resolved by an agent is
  credited to the bot for ever and is not proposed (`tier`).

## 5. Proofs

All are for every value of the constants, from `OutboxAssumption` and
`ConversationAssumption`: ids are numbers, the worker is no inbound handler and the
sweeper no request, NULL is no conversation and no agent, and the limits are
natural numbers (positive where the code needs it).

### MessengerOutboxProofs

`NeverEchoed`, `ClaimsBacked` and `BudgetKept` speak of the tables, but a deliverer
writes to them from what it read some awaits ago, so they are not inductive. `IInv`
adds, per message, what the tables say of each other (`RowInv`), and, per deliverer,
what it may still rely on (`LocalInv`). The latter mentions only facts that no step
takes back (`Growth`): a message that is saved, a row that is queued, a copy that was
accepted, a map row that exists. That is why another deliverer, a crash or a lost
insert cannot falsify it, and one lemma (`GrowthKeepsLocal`) serves every action.
The theorems: `Inductive`, `TypeCorrect`, `NoEcho`, `ClaimsAreBacked`, `BudgetIsKept`,
and `Implements`, the refinement of `RelayContract`: each step of the relay is a
step of the contract or leaves its three variables alone.

Four properties hold only under conditions, which their theorems assume by name.

* `WorkerAlone`: no inline flush, and none of the faults crash, dbError, lostReply (run
  `outbox_twice` shows that one inline flush is enough to send twice). Then a row is in
  nobody else's hand. `AloneInv` says that what the worker selected to send is still
  pending and what it selected to ask about still unconfirmed, and that the one pending
  row with a copy is the row in hand between its send and its mark; so `promote` is out of
  reach and the send finds no copy. Theorems: `SentOnce`, `SentWasReported`,
  `FinalIsFinal`.
* `InOrder`: inserts do not overlap, none of the outbox inserts is lost, and a thread keeps
  one conversation (run `outbox_passed` drops the last). Any number of flushes may overlap
  and crash. `OrderInv` says that messages commit in id order, so nothing appears behind a
  cursor that stands on a committed message (`CoversStays`); that each thread's cursor, and
  the one a deliverer carries to it, covers all that is behind it; and that the page a
  deliverer scans has no gap (`FirstIdsIsPrefix`, from the cardinality of finite sets). A
  stale flush that stores an older cursor therefore only makes work. Theorem:
  `NoneIsPassedOver`.

### ConversationProofs

`EndedIsReleased` is about moments when nobody works on the thread. `LeftoversCovered`
strengthens it to all moments: an assignment that is active on an ended thread has a
handler coming for it, at its `release` (an end) or at its `own` or `save` (an accept
or a transfer that will reopen the thread). `Covered` names it, and `CoverKept` is the
one lemma by which every action keeps that. `AnswerIsHeard` needs `AnswersKept`: a
thread answered when the sweep selected it stays answered while it is on the list,
because only the sweeper marks threads unanswered, and only after the list is done
(`Fit`: the sweeper that asks has forgotten what it heard). The theorems: `Inductive`,
`TypeCorrect`, `OwnerIsRight`, `EndReleases`, `SweepHears`.

### MessengerIngestProofs

From `IngestAssumption`. `NoticeBeforeAnswer` relates rows; what makes it true is spread
over the thread's `notice` column, the copies handlers hold and the version the gate let
them pass with. The strengthening says that a thread's notice column and a handler past
its notice imply the notice's row, that sessions keep their version, and that a handler
at work on an answer passed the gate with its session's version. `AtMostOnce` needs an
account of who may still store a message: for a message that is neither hurt nor twinned
nor stray, at most one handler holds it, and once it is stored either that handler is past
its store and will map the row, or it is mapped. The theorems: `TypeCorrect`,
`NoticeComesFirst`, `StoredOnce`, and four more, each with an invariant of its own.

* `NothingLost`: `AccountInv` tells three sets apart. `Home` came in, failed visibly or
  was turned away; `Safe` is also in the hands of a handler that ingests, which leaves a
  message only when it is home (`Tidy`); `Covered` is also in the hands of a pull, or was
  dropped by one (`skipped`). A mark, and the mark a pull is about to set, passes covered
  messages only; the thread's cursor passes safe ones only. The latter holds because a
  batch of an inbox brings, in order, all before each of its messages that is not safe
  (`Led`), also when it was fetched from a cursor that has moved since (`Owes`). The steps
  of a pull are proved apart (`Pulls`), as they alone move messages out of `Covered` but
  for `skipped`.
* `CalledOnce`: `PagedInv` says that a conversation that was paged is marked escalated,
  and that a handler which read that it is not holds one that was never paged, for as
  long as handlers are alone (`Alone`).
* `SomebodyHasIt`: `TendedInv` rests on what every step conserves (`Conserved`): a
  conversation that left the bot comes back only by being handed back. So a message that
  is not yet looked after has its handler still before the turn or before the page.
* `OneAtATime`: `SingleInv` says that while all is calm every conversation is of the one
  session, so that the newest one a handler finds is the one that may be open (`Live`) or
  one a human brought back, and that a handler about to open one has seen none, which
  stays so because nobody else is at work.

### AgentAlertsProofs, IssueDeskProofs, TicketBridgeProofs, KnowledgeLoopProofs, EscalationDeskProofs

From `BusAssumption`, `AlertsAssumption`, `DeskAssumption` and `BridgeAssumption`. The
first four hold, for each part, that its steps keep its invariant; `EscalationDeskProofs`
adds the bus and the steps the parts share, and composes them into one inductive
`Invariant`.
* `OneReminder`: `RemindedInv` says that a mailed row is stamped or acknowledged, and that
  an acknowledgement which would take a stamp off also acknowledges the row; a row in the
  sweep's hands was not mailed yet.
* `CursorBehindTicket`: `UntoldInv` says the same of every copy of a row as of the row, and
  that what a relay is about to save was sent to the ticket it is about to point at.
* `RingsOnce` and `FirstPageStands`: `PagerInv` says that a handler past its check knows
  that no alarm of its reason rings, and past the standing down that none does, unless its
  conversation counts as crossed.
* `NobodyWaitsUnheard`: `QueuedInv` says that an escalated conversation has a handler at
  work, or an alarm that rings or was acknowledged by an agent, or lost its handler or its
  publish to a failure.
* `OneReply` and `OneTicketAtATime`: `BridgeInv` has three parts. `LinkedInv`: rows, and the
  copies relays and webhooks hold, point at tickets of their own conversation, and a fresh
  copy is the row. `OnceInv`: a stored reply is behind the row's cursor, or its handler is
  about to move it. `SuccessionInv`: a ticket not said closed is the one the row points at,
  or a relay is about to point the row there.
* `IssuesMoveLawfully`: `LawfulInv` says that the saves left in the plan of a call whose
  copy is still fresh lead along transitions from the issue's status, one after the other.
* `TimelineTells`: `TimelineInv` has four parts. `Filed` and `Hooked`: only an issue there
  is has calls and a timeline, and a hook at work is on its own conversation. `AccountsInv`:
  the plan of a call tells the status and the reopenings after each of its steps, each save
  is followed by the entry that explains it, an entry of a change follows its save, and
  while the call is fresh the plan starts from the issue there is. `BalanceInv`: the entries
  said (`Said`, a subset of an interval) and those owed (`Arrears`, a finite set of pairs)
  add up to the row. A save by a fresh call moves the row and the arrears by the same
  amount, recording the entry moves it from the arrears to what is said, and `Explains`
  makes each of these amounts right for every set of entries the property counts. It needs
  the part of `DeskAssumption` that agents are not numbered as the hooks are, which only
  says how the model names its callers.
* `DecisionsStand` and `DocumentsBalance`: `Fits` says that a call about to create or to
  save, and still fresh, has a task that is proposed, and that only an acceptance ever made
  a document, before its save. So a save by a fresh call never finds a decision, and each
  document moves from the calls that owe an acceptance (`Owing`, a finite set whose
  cardinality is counted) to the status that records it.
* `SubscribersTyped`: the types.

### Only model-checked

* Liveness (`EveryReplyQueued`, `EveryRowSettles`, `NoThreadAbandoned`, `WrittenComesIn`,
  `EscalationRings`, `EscalationOpensIssue`, `EscalationReachesHelpdesk`,
  `ResolutionProposed`): TLAPS does not
  handle fairness and ENABLED.

Every invariant and every action property the runs check is proved. No module uses a RECURSIVE operator, and no proof needs induction over data.

## 6. Not modelled

The models cover the server's core: who answers, what comes in, what goes out, who is
paged and what becomes of an escalation. The repository is far larger, front ends above
all, and most of it is independent of that core.

* Restarts and database errors in `Conversation`, and the window between the sweeper's
  question and its latch.
* Attachments and the system lines about them; channel settings and error status.
* Answering, moderation, routing: outcomes of outside services; choices in the models.
* The window, the page limits and the expiry of what marks a source (see MessengerIngest);
  replies of the helpdesk without an id.
* Parsing and signatures of channel adapters, connectors, mail, push, caches: input and
  output around outside services.
* Knowledge ingestion and synchronisation, coach, sign-in, privacy: each has its own small
  state machine that does not touch the conversation's.
* Marketing, analytics, administration, front ends: independent edits and views.

## 7. Plan

What is left, in order of what matters most to the system's users. Specifications are
written to be proved about: constants with named assumptions, one action per await, no
RECURSIVE.

1. `Conversation` with restarts and database errors between the two writes of an end, and
   an observer of the sweeper's question for the window before its latch.
2. Abstract specification of the desk (who may speak), and `Conversation` without the
   overlaps of section 4 shown to implement it.
3. The theorem of that refinement.
4. Refresh-token rotation, coach proposals, knowledge jobs, each as a module of its own.
