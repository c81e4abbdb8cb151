------------------------- MODULE EscalationDeskProofs -------------------------
(***************************************************************************)
(* The composed system: the chat, the console and the restarts keep what the *)
(* subscribers' invariants rest on, and so do the steps of one subscriber    *)
(* for the others, which share the conversations and the events alone.       *)
(***************************************************************************)
EXTENDS EscalationDesk, AgentAlertsProofs, IssueDeskProofs, TicketBridgeProofs,
        KnowledgeLoopProofs

(***************************************************************************)
(* The bus.                                                                 *)
(***************************************************************************)
LEMMA BusStarts == BusInit => BusTypeOK
<1>. SUFFICES ASSUME BusInit PROVE BusTypeOK
    OBVIOUS
<1>1. [status |-> "ai", agent |-> NoAgent, picked |-> FALSE, said |-> 1] \in Conv
    BY DEF Conv
<1>2. <<>> \in Seq(Event) /\ Len(<<>>) = 0
    OBVIOUS
<1>. QED BY <1>1, <1>2, BusAssumption DEF BusInit, BusTypeOK

LEMMA SetupIsSetup ==
    ASSUME BusTypeOK
    PROVE  /\ setup.limit \in 0..MaxEvents /\ setup.convs \subseteq Convs /\ setup.bound \in Nat
           /\ setup.reasons \subseteq Reasons
<1>1. setup \in Setup
    BY BusAssumption DEF BusTypeOK
<1>. QED BY <1>1 DEF Setup

LEMMA PublishTypes ==
    ASSUME BusTypeOK, NEW kind \in {"escalated", "accepted", "ended", "left"}, NEW c \in Convs,
           NEW reason \in Reasons, NEW a \in Agents \cup {NoAgent}, Publish(kind, c, reason, a)
    PROVE  /\ events' \in Seq(Event) /\ Len(events') <= MaxEvents
           /\ DOMAIN events \subseteq DOMAIN events'
<1>. DEFINE e == [kind |-> kind, conv |-> c, reason |-> reason, agent |-> a]
<1>1. e \in Event
    BY DEF Event
<1>2. events \in Seq(Event) /\ events' = Append(events, e) /\ Len(events) < setup.limit
    BY DEF BusTypeOK, Publish
<1>. HIDE DEF e
<1>3. Len(events) + 1 <= MaxEvents
    BY <1>2, SetupIsSetup, BusAssumption
<1>. QED BY <1>1, <1>2, <1>3

LEMMA CallHookTypes ==
    ASSUME BusTypeOK, NEW kind \in {"accepted", "ended", "left"}, NEW c \in Convs,
           NEW a \in Agents \cup {NoAgent}, CallHook(kind, c, a)
    PROVE  /\ events' \in Seq(Event) /\ Len(events') <= MaxEvents
           /\ DOMAIN events \subseteq DOMAIN events'
<1>1. CASE UNCHANGED events
    BY <1>1 DEF BusTypeOK
<1>2. CASE Publish(kind, c, "user_request", a)
    <2>1. "user_request" \in Reasons
        BY DEF Reasons
    <2>. QED BY <1>2, <2>1, PublishTypes
<1>. QED BY <1>1, <1>2 DEF CallHook

\* Conversations and picks of the chat.
LEMMA ConvChanges ==
    ASSUME BusTypeOK, NEW c \in Convs, NEW status \in {"ai", "waiting", "agent", "ended"},
           NEW a \in Agents \cup {NoAgent}
    PROVE  /\ [convs EXCEPT ![c].status = status] \in [Convs -> Conv]
           /\ [convs EXCEPT ![c].status = status, ![c].agent = a] \in [Convs -> Conv]
           /\ [convs EXCEPT ![c].agent = a] \in [Convs -> Conv]
           /\ [convs EXCEPT ![c].picked = TRUE] \in [Convs -> Conv]
           /\ [convs EXCEPT ![c].said = @ + 1] \in [Convs -> Conv]
<1>1. convs \in [Convs -> Conv] /\ convs[c] \in Conv
    BY DEF BusTypeOK
<1>2. /\ [convs[c] EXCEPT !.status = status] \in Conv
      /\ [convs[c] EXCEPT !.status = status, !.agent = a] \in Conv
      /\ [convs[c] EXCEPT !.agent = a] \in Conv
      /\ [convs[c] EXCEPT !.picked = TRUE] \in Conv
    BY <1>1 DEF Conv
<1>3. [convs[c] EXCEPT !.said = @ + 1] \in Conv
    <2>. DEFINE n == convs[c].said + 1
    <2>1. n \in Nat
        BY <1>1 DEF Conv
    <2>. HIDE DEF n
    <2>2. [convs[c] EXCEPT !.said = n] \in Conv
        BY <1>1, <2>1 DEF Conv
    <2>. QED BY <2>2 DEF n
<1>. QED BY <1>1, <1>2, <1>3

LEMMA PickingChanges ==
    ASSUME BusTypeOK, NEW c \in Convs
    PROVE  /\ picking[c] \in Nat /\ [picking EXCEPT ![c] = @ + 1] \in [Convs -> Nat]
           /\ picking[c] > 0 => [picking EXCEPT ![c] = @ - 1] \in [Convs -> Nat]
           /\ [picking EXCEPT ![c] = IF @ > 0 THEN @ - 1 ELSE 0] \in [Convs -> Nat]
<1>1. picking \in [Convs -> Nat] /\ picking[c] \in Nat
    BY DEF BusTypeOK
<1>2. picking[c] > 0 => picking[c] - 1 \in Nat
    BY <1>1
<1>. QED BY <1>1, <1>2

LEMMA SpentTypes == ASSUME BusTypeOK, NEW move, Spend(move) PROVE spent' \in Nat
BY DEF BusTypeOK, Spend

\* The bus keeps its types, and loses no call.
BusKept == BusTypeOK' /\ DOMAIN events \subseteq DOMAIN events'

LEMMA EscalateTypes ==
    ASSUME BusTypeOK, NEW c \in Convs, NEW reason \in Reasons, Escalate(c, reason)
    PROVE  BusKept
<1>1. /\ events' \in Seq(Event) /\ Len(events') <= MaxEvents /\ DOMAIN events \subseteq DOMAIN events'
    BY PublishTypes DEF Escalate
<1>2. convs' \in [Convs -> Conv]
  <2>1. PICK picked \in BOOLEAN :
            convs' = [convs EXCEPT ![c].status = "waiting", ![c].picked = @ \/ picked]
      BY DEF Escalate
  <2>2. convs \in [Convs -> Conv] /\ convs[c] \in Conv /\ (convs[c].picked \/ picked) \in BOOLEAN
      BY DEF BusTypeOK, Conv
  <2>. DEFINE row == [convs[c] EXCEPT !.status = "waiting", !.picked = convs[c].picked \/ picked]
  <2>3. row \in Conv
      BY <2>2 DEF Conv
  <2>4. convs' = [convs EXCEPT ![c] = row]
      BY <2>1, <2>2
  <2>. HIDE DEF row
  <2>. QED BY <2>2, <2>3, <2>4
<1>. QED BY <1>1, <1>2 DEF Escalate, BusTypeOK, BusKept

LEMMA PickTypes ==
    ASSUME BusTypeOK, NEW c \in Convs, BeginPick(c) \/ PublishPick(c) \/ RecordPick(c)
    PROVE  BusKept
<1>1. CASE BeginPick(c)
    BY <1>1, PickingChanges DEF BeginPick, BusTypeOK, BusKept
<1>2. CASE PublishPick(c)
    <2>1. "category_selected" \in Reasons
        BY DEF Reasons
    <2>2. /\ events' \in Seq(Event) /\ Len(events') <= MaxEvents /\ DOMAIN events \subseteq DOMAIN events'
        BY <1>2, <2>1, PublishTypes DEF PublishPick
    <2>3. convs' \in [Convs -> Conv]
        BY <1>2, ConvChanges DEF PublishPick
    <2>. QED BY <1>2, <2>2, <2>3, PickingChanges DEF PublishPick, BusTypeOK, BusKept
<1>3. CASE RecordPick(c)
    <2>1. convs' \in [Convs -> Conv]
        BY <1>3, ConvChanges DEF RecordPick
    <2>. QED BY <1>3, <2>1, PickingChanges DEF RecordPick, BusTypeOK, BusKept
<1>. QED BY <1>1, <1>2, <1>3

LEMMA ConsoleTypes ==
    ASSUME BusTypeOK, NEW c \in Convs,
           (\E a \in Agents : Accept(c, a)) \/ HandBack(c) \/ End(c) \/ Leave(c) \/ Say(c)
    PROVE  BusKept
<1>1. ASSUME NEW a \in Agents, Accept(c, a) PROVE BusKept
    <2>1. /\ events' \in Seq(Event) /\ Len(events') <= MaxEvents /\ DOMAIN events \subseteq DOMAIN events'
        BY <1>1, CallHookTypes DEF Accept
    <2>2. convs' \in [Convs -> Conv]
        BY <1>1, ConvChanges DEF Accept
    <2>. QED BY <1>1, <2>1, <2>2 DEF Accept, BusTypeOK, BusKept
<1>2. CASE HandBack(c)
    BY <1>2, ConvChanges DEF HandBack, BusTypeOK, BusKept
<1>3. CASE End(c)
    <2>1. /\ events' \in Seq(Event) /\ Len(events') <= MaxEvents /\ DOMAIN events \subseteq DOMAIN events'
        BY <1>3, CallHookTypes DEF End
    <2>2. convs' \in [Convs -> Conv]
        BY <1>3, ConvChanges DEF End
    <2>. QED BY <1>3, <2>1, <2>2 DEF End, BusTypeOK, BusKept
<1>4. CASE Leave(c)
    <2>1. /\ events' \in Seq(Event) /\ Len(events') <= MaxEvents /\ DOMAIN events \subseteq DOMAIN events'
        BY <1>4, CallHookTypes DEF Leave
    <2>2. convs' \in [Convs -> Conv]
        BY <1>4, ConvChanges DEF Leave
    <2>. QED BY <1>4, <2>1, <2>2 DEF Leave, BusTypeOK, BusKept
<1>5. CASE Say(c)
    <2>1. convs' \in [Convs -> Conv] /\ spent' \in Nat
        BY <1>5, ConvChanges, SpentTypes DEF Say
    <2>. QED BY <1>5, <2>1 DEF Say, BusTypeOK, BusKept
<1>. QED BY <1>1, <1>2, <1>3, <1>4, <1>5

LEMMA BusNextTypes ==
    ASSUME BusTypeOK, BusNext
    PROVE  BusKept
<1>1. PICK c \in setup.convs :
        \/ \E reason \in Reasons : Escalate(c, reason)
        \/ BeginPick(c) \/ PublishPick(c) \/ RecordPick(c)
        \/ \E a \in Agents : Accept(c, a)
        \/ HandBack(c) \/ End(c) \/ Leave(c) \/ Say(c)
    BY DEF BusNext
<1>2. c \in Convs
    BY SetupIsSetup
<1>. QED BY <1>1, <1>2, EscalateTypes, PickTypes, ConsoleTypes

\* A subscriber's step that spends a move, or nothing, of the bus.
LEMMA SpendTypes ==
    ASSUME BusTypeOK, spent' \in Nat, UNCHANGED <<setup, convs, picking, events>>
    PROVE  BusKept
BY DEF BusTypeOK, BusKept

LEMMA BusSame == ASSUME BusTypeOK, UNCHANGED bus PROVE BusKept
BY DEF BusTypeOK, BusKept, bus

LEMMA AlertsNextBus ==
    ASSUME BusTypeOK, AlertsNext
    PROVE  BusKept
<1>1. ASSUME NEW i \in Tasks, RingStep(i) PROVE BusKept
    BY <1>1, BusSame DEF RingStep, CheckAlarm, StandDown, Ring
<1>2. ASSUME NEW i \in Tasks, RingFails(i) PROVE BusKept
    BY <1>2, SpentTypes, SpendTypes DEF RingFails
<1>3. ASSUME NEW a \in Agents, AckStep(a) \/ \E id \in DOMAIN alarms : ReadAlarm(a, id)
      PROVE  BusKept
    BY <1>3, BusSame DEF AckStep, AckRow, AckSiblings, ReadAlarm
<1>4. CASE FindDue \/ SweepStep
    BY <1>4, BusSame DEF FindDue, SweepStep, LookWaiting, Stamp, MailAgents, PageLeads
<1>5. CASE SweepFails
    BY <1>5, SpentTypes, SpendTypes DEF SweepFails
<1>. QED BY <1>1, <1>2, <1>3, <1>4, <1>5 DEF AlertsNext

LEMMA DeskNextBus ==
    ASSUME BusTypeOK, DeskTyped, DeskNext
    PROVE  BusKept
<1>1. ASSUME NEW i \in Tasks, ReadIssue(i) PROVE BusKept
    BY <1>1, BusSame DEF ReadIssue
<1>2. ASSUME NEW j \in Callers, TakeNumber(j) \/ InsertIssue(j) \/ FindIssue(j) \/ NumberTaken(j)
                                \/ SaveCopy(j) \/ RecordEntry(j)
      PROVE  BusKept
    BY <1>2, BusSame DEF TakeNumber, InsertIssue, FindIssue, NumberTaken, SaveCopy, RecordEntry
<1>3. ASSUME NEW j \in Callers, PointAgent(j) PROVE BusKept
    <2>1. Head(jobs[j].plan).agent \in Agents /\ jobs[j].conv \in Convs
        BY <1>3, PointAgentTypes
    <2>2. convs' \in [Convs -> Conv]
        BY <1>3, <2>1, ConvChanges DEF PointAgent
    <2>. QED BY <1>3, <2>2 DEF PointAgent, BusTypeOK, BusKept
<1>4. ASSUME NEW j \in Callers, JobFails(j) PROVE BusKept
    BY <1>4, SpentTypes, SpendTypes DEF JobFails
<1>5. ASSUME NEW a \in Agents, NEW c \in Convs,
             \/ \E to \in Statuses : AskTransition(a, c, to)
             \/ \E target \in Agents : AskAssign(a, c, target)
             \/ AskPriority(a, c) \/ AskFile(a, c)
      PROVE  BusKept
    BY <1>5, SpentTypes, SpendTypes DEF AskTransition, AskAssign, AskPriority, AskFile, Ask
<1>. QED BY <1>1, <1>2, <1>3, <1>4, <1>5 DEF DeskNext, JobStep

LEMMA BridgeNextBus ==
    ASSUME BusTypeOK, BridgeNext
    PROVE  BusKept
<1>1. ASSUME NEW i \in Tasks, RelayStep(i) PROVE BusKept
    BY <1>1, BusSame DEF RelayStep, SkipRelay, ReadRef, Gather, Send, SaveRef, RefTaken
<1>2. ASSUME NEW i \in Tasks, SendFails(i) PROVE BusKept
    BY <1>2, SpentTypes, SpendTypes DEF SendFails
<1>3. ASSUME NEW t \in DOMAIN tickets, TurnTicket(t) \/ ReplyTo(t) PROVE BusKept
    BY <1>3, BusSame DEF TurnTicket, ReplyTo
<1>4. ASSUME NEW k \in DOMAIN hooks, HookStep(k) PROVE BusKept
    BY <1>4, BusSame DEF HookStep, FindRef, Mirror, CheckReply, StoreReply, MarkHeard
<1>5. ASSUME NEW k \in DOMAIN hooks, Redeliver(k) PROVE BusKept
    BY <1>5, SpentTypes, SpendTypes DEF Redeliver
<1>. QED BY <1>1, <1>2, <1>3, <1>4, <1>5 DEF BridgeNext

LEMMA LoopNextBus ==
    ASSUME BusTypeOK, LoopNext
    PROVE  BusKept
<1>1. ASSUME NEW c \in Convs, Rate(c) PROVE BusKept
    BY <1>1, SpentTypes, SpendTypes DEF Rate
<1>2. CASE RunBatch
    BY <1>2, SpentTypes, SpendTypes DEF RunBatch
<1>3. ASSUME NEW kind \in {"approve", "dismiss"}, NEW r \in Refs, Decide(kind, r) PROVE BusKept
    BY <1>3, SpentTypes, SpendTypes DEF Decide
<1>4. ASSUME NEW i \in DOMAIN calls, LoopStep(i) PROVE BusKept
    BY <1>4, BusSame DEF LoopStep, FindMessages, FindTask, InsertTask, InsertRefused,
                         CreateDocument, SaveTask
<1>5. ASSUME NEW i \in DOMAIN calls, CallFails(i) PROVE BusKept
    BY <1>5, SpentTypes, SpendTypes DEF CallFails
<1>. QED BY <1>1, <1>2, <1>3, <1>4, <1>5 DEF LoopNext

LEMMA BusRestartTypes ==
    ASSUME BusTypeOK, BusRestart
    PROVE  BusKept
<1>1. picking' \in [Convs -> Nat]
    BY DEF BusRestart
<1>2. PICK S \in SUBSET setup.convs : convs' = Queue(S)
    BY DEF BusRestart
<1>3. \A c \in Convs : convs[c] \in Conv /\ [convs[c] EXCEPT !.status = "waiting"] \in Conv
    BY DEF BusTypeOK, Conv
<1>4. convs' \in [Convs -> Conv]
    BY <1>2, <1>3 DEF Queue
<1>. QED BY <1>1, <1>4, SpentTypes DEF BusRestart, BusTypeOK, BusKept

(***************************************************************************)
(* A subscriber stands still.                                               *)
(***************************************************************************)
LEMMA AlertsStill ==
    ASSUME AlertsTyped, RemindedInv, UNCHANGED alerts
    PROVE  AlertsTyped' /\ RemindedInv'
<1>1. UNCHANGED <<alarms, ringing, acking, sweep, reminders, crossed, unrung>>
    BY DEF alerts
<1>2. AlertsTyped'
    BY <1>1 DEF AlertsTyped, AlertsTypeOK, AlertsPlaced
<1>3. Mine' = Mine
    BY <1>1 DEF Mine, Current, Next1
<1>. QED BY <1>1, <1>2, <1>3 DEF RemindedInv, MailedDone, DueUnmailed, MineDone

LEMMA DeskStill ==
    ASSUME DeskTyped, LawfulInv, UNCHANGED desk
    PROVE  DeskTyped' /\ LawfulInv'
<1>1. UNCHANGED <<issues, timeline, jobs, stale, cut, opened>>
    BY DEF desk
<1>2. DeskTyped'
    BY <1>1 DEF DeskTyped, DeskTypeOK, Working, Numbers
<1>3. \A j \in Callers : LawfulJob(jobs'[j], issues'[jobs'[j].conv].status)
    BY <1>1 DEF LawfulInv
<1>. QED BY <1>1, <1>2, <1>3 DEF LawfulInv, Unfiled

LEMMA BridgeStill ==
    ASSUME BridgeTyped, UntoldInv, UNCHANGED bridge, DOMAIN events \subseteq DOMAIN events'
    PROVE  BridgeTyped' /\ UntoldInv'
<1>1. UNCHANGED <<refs, tickets, relays, notices, hooks, shown, tangled, dropped>>
    BY DEF bridge
<1>. QED BY <1>1 DEF BridgeTyped, BridgeTypeOK, Placed, UntoldInv

LEMMA LoopStill ==
    ASSUME LoopTyped, DocumentsAccounted, UNCHANGED loop
    PROVE  LoopTyped' /\ DocumentsAccounted'
<1>1. UNCHANGED <<gaps, docs, calls, torn>>
    BY DEF loop
<1>. QED BY <1>1 DEF LoopTyped, LoopTypeOK, DocumentsAccounted

\* A resolution moves a call of the desk on, and begins one of the loop.
LEMMA ResolutionKeeps ==
    ASSUME BusTypeOK, DeskTyped, LawfulInv, LoopTyped, DocumentsAccounted, Resolution
    PROVE  BusKept /\ DeskTyped' /\ LawfulInv' /\ LoopTyped' /\ DocumentsAccounted'
<1>1. PICK j \in Callers : PublishResolved(j) /\ Hear(jobs[j].conv)
    BY DEF Resolution
<1>2. jobs[j].conv \in Convs
    BY JobIsJob
<1>3. BusKept
    BY <1>1, BusSame DEF PublishResolved
<1>4. DeskTyped' /\ LawfulInv'
    BY <1>1, PublishResolvedTypes, OtherStepLawful
<1>. QED BY <1>1, <1>2, <1>3, <1>4, HearTypes, HearBalance

(***************************************************************************)
(* Calls are made and never taken back, and whoever waits was escalated.     *)
(***************************************************************************)
BusGrows ==
    /\ UNCHANGED setup
    /\ \A i \in DOMAIN events : i \in DOMAIN events' /\ events'[i] = events[i]
Waits ==
    \A c \in Convs : convs[c].status = "waiting" =>
        c \in unrung \/ \E i \in Tasks : Escalated(i) /\ events[i].conv = c

LEMMA WaitsStart == BusInit => Waits
BY DEF BusInit, Waits

LEMMA SameGrow == ASSUME UNCHANGED <<setup, events>> PROVE BusGrows
BY DEF BusGrows

LEMMA PublishGrows ==
    ASSUME BusTypeOK, NEW kind, NEW c, NEW reason, NEW a, Publish(kind, c, reason, a), UNCHANGED setup
    PROVE  /\ BusGrows
           /\ \E i \in Tasks : i \in DOMAIN events' /\ events'[i].kind = kind /\ events'[i].conv = c
<1>. DEFINE e == [kind |-> kind, conv |-> c, reason |-> reason, agent |-> a]
<1>1. events \in Seq(Event) /\ events' = Append(events, e) /\ Len(events) < setup.limit
    BY DEF BusTypeOK, Publish
<1>2. e.kind = kind /\ e.conv = c
    OBVIOUS
<1>. HIDE DEF e
<1>3. Len(events) + 1 \in Tasks
    BY <1>1, SetupIsSetup, BusAssumption DEF Tasks
<1>4. Len(events) + 1 \in DOMAIN events' /\ events'[Len(events) + 1] = e
    BY <1>1
<1>5. \A i \in DOMAIN events : i \in DOMAIN events' /\ events'[i] = events[i]
    BY <1>1
<1>. QED BY <1>2, <1>3, <1>4, <1>5 DEF BusGrows

LEMMA WaitsOn ==
    ASSUME BusTypeOK, Waits, BusGrows, unrung \subseteq unrung',
           \A c \in Convs : convs'[c].status = "waiting" => convs[c].status = "waiting"
    PROVE  Waits'
BY DEF Waits, BusGrows, Escalated

LEMMA EscalateWaits ==
    ASSUME BusTypeOK, Waits, unrung \subseteq unrung', NEW c \in Convs, NEW reason \in Reasons,
           Escalate(c, reason)
    PROVE  BusGrows /\ Waits'
<1>1. BusGrows /\ \E i \in Tasks : i \in DOMAIN events' /\ events'[i].kind = "escalated"
                                   /\ events'[i].conv = c
    BY PublishGrows DEF Escalate
<1>2. \A d \in Convs \ {c} : convs'[d].status = convs[d].status
    BY DEF Escalate, BusTypeOK
<1>. QED BY <1>1, <1>2 DEF Waits, BusGrows, Escalated

LEMMA PickWaits ==
    ASSUME BusTypeOK, Waits, unrung \subseteq unrung', NEW c \in Convs,
           BeginPick(c) \/ PublishPick(c) \/ RecordPick(c)
    PROVE  BusGrows /\ Waits'
<1>1. BusGrows
    BY PublishGrows, SameGrow DEF BeginPick, PublishPick, RecordPick
<1>2. \A d \in Convs : convs'[d].status = convs[d].status
    <2>1. CASE BeginPick(c) BY <2>1 DEF BeginPick, BusTypeOK, Conv
    <2>2. CASE PublishPick(c) BY <2>2 DEF PublishPick
    <2>3. CASE RecordPick(c) BY <2>3, SMTT(30) DEF RecordPick, BusTypeOK, Conv
    <2>. QED BY <2>1, <2>2, <2>3
<1>. QED BY <1>1, <1>2, WaitsOn

LEMMA ConsoleWaits ==
    ASSUME BusTypeOK, Waits, unrung \subseteq unrung', NEW c \in Convs,
           (\E a \in Agents : Accept(c, a)) \/ HandBack(c) \/ End(c) \/ Leave(c) \/ Say(c)
    PROVE  BusGrows /\ Waits'
<1>1. BusGrows
    BY PublishGrows, SameGrow DEF Accept, HandBack, End, Leave, Say, CallHook
<1>2. \A d \in Convs : convs'[d].status = "waiting" => convs[d].status = "waiting"
    <2>1. ASSUME NEW a \in Agents, Accept(c, a) PROVE \A d \in Convs : convs'[d].status = "waiting" => convs[d].status = "waiting"
        BY <2>1 DEF Accept, BusTypeOK, Conv
    <2>2. CASE HandBack(c)
        BY <2>2 DEF HandBack, BusTypeOK, Conv
    <2>3. CASE End(c) \/ Leave(c)
        BY <2>3 DEF End, Leave, BusTypeOK, Conv
    <2>4. CASE Say(c)
        BY <2>4 DEF Say, BusTypeOK, Conv
    <2>. QED BY <2>1, <2>2, <2>3, <2>4
<1>. QED BY <1>1, <1>2, WaitsOn

\* No handler is forgotten that did not finish.
LEMMA NextUnrung == ASSUME [Next]_vars PROVE unrung \subseteq unrung'
<1>1. AlertsNext => unrung \subseteq unrung'
    BY DEF AlertsNext, RingStep, CheckAlarm, StandDown, Ring, RingFails, AckStep, AckRow,
           AckSiblings, ReadAlarm, FindDue, SweepStep, LookWaiting, Stamp, MailAgents, PageLeads,
           SweepFails
<1>2. Restart => unrung \subseteq unrung'
    BY DEF Restart, AlertsRestart
<1>3. UNCHANGED alerts => unrung \subseteq unrung'
    BY DEF alerts
<1>. QED BY <1>1, <1>2, <1>3 DEF Next, vars

\* A restart lets wait whom a hand-off that it cut off had queued.
LEMMA RestartWaits ==
    ASSUME BusTypeOK, Waits, Restart
    PROVE  BusGrows /\ Waits'
<1>1. BusRestart /\ UNCHANGED <<setup, events>> /\ unrung \cup QueuedUnheard \subseteq unrung'
    BY DEF Restart, BusRestart, AlertsRestart
<1>2. BusGrows
    BY <1>1, SameGrow
<1>3. ASSUME NEW c \in Convs, convs'[c].status = "waiting"
      PROVE  c \in unrung' \/ convs[c].status = "waiting"
    BY <1>1, <1>3 DEF QueuedUnheard
<1>. QED BY <1>1, <1>2, <1>3 DEF Waits, Escalated

\* No step takes a call back, or lets a conversation wait that was not escalated.
LEMMA NextWaits ==
    ASSUME BusTypeOK, DeskTyped, Waits, [Next]_vars
    PROVE  BusGrows /\ Waits'
<1>0. unrung \subseteq unrung'
    BY NextUnrung
<1>1. CASE BusNext
    <2>1. PICK c \in setup.convs :
            \/ \E reason \in Reasons : Escalate(c, reason)
            \/ BeginPick(c) \/ PublishPick(c) \/ RecordPick(c)
            \/ \E a \in Agents : Accept(c, a)
            \/ HandBack(c) \/ End(c) \/ Leave(c) \/ Say(c)
        BY <1>1 DEF BusNext
    <2>2. c \in Convs
        BY SetupIsSetup
    <2>. QED BY <1>0, <2>1, <2>2, EscalateWaits, PickWaits, ConsoleWaits
<1>2. CASE DeskNext
    <2>1. ASSUME NEW j \in Callers, PointAgent(j) PROVE BusGrows /\ Waits'
        <3>1. \A d \in Convs : convs'[d].status = convs[d].status
            BY <2>1 DEF PointAgent, BusTypeOK, Conv
        <3>2. BusGrows
            BY <2>1, SameGrow DEF PointAgent
        <3>. QED BY <1>0, <3>1, <3>2, WaitsOn
    <2>2. CASE UNCHANGED <<setup, convs, events>>
        BY <1>0, <2>2, SameGrow, WaitsOn
    <2>3. (\E j \in Callers : PointAgent(j)) \/ UNCHANGED <<setup, convs, events>>
        BY <1>2, ZenonT(60) DEF DeskNext, JobStep, ReadIssue, TakeNumber, InsertIssue, FindIssue, NumberTaken,
                    SaveCopy, RecordEntry, JobFails, AskTransition, AskAssign, AskPriority, AskFile,
                    Ask, bus
    <2>. QED BY <2>1, <2>2, <2>3
<1>3. CASE AlertsNext \/ BridgeNext \/ LoopNext \/ Resolution \/ Restart \/ UNCHANGED vars
    <2>1. AlertsNext => UNCHANGED <<setup, convs, events>>
        BY DEF AlertsNext, RingStep, CheckAlarm, StandDown, Ring, RingFails, AckStep, AckRow,
               AckSiblings, ReadAlarm, FindDue, SweepStep, LookWaiting, Stamp, MailAgents, PageLeads,
               SweepFails, bus
    <2>2. BridgeNext => UNCHANGED <<setup, convs, events>>
        BY DEF BridgeNext, RelayStep, SkipRelay, ReadRef, Gather, Send, SaveRef, RefTaken, SendFails, TurnTicket,
               ReplyTo, HookStep, FindRef, Mirror, CheckReply, StoreReply, MarkHeard, Redeliver, bus
    <2>3. LoopNext => UNCHANGED <<setup, convs, events>>
        BY DEF LoopNext, Rate, RunBatch, Decide, LoopStep, FindMessages, FindTask, InsertTask,
               InsertRefused, CreateDocument, SaveTask, CallFails, bus
    <2>4. Resolution \/ UNCHANGED vars => UNCHANGED <<setup, convs, events>>
        BY DEF Resolution, PublishResolved, vars, bus
    <2>. QED BY <1>0, <1>3, <2>1, <2>2, <2>3, <2>4, RestartWaits, SameGrow, WaitsOn
<1>. QED BY <1>1, <1>2, <1>3 DEF Next

\* A call the pager has yet to look at finds the pager as it was.
LEMMA PagerStill ==
    ASSUME BusTypeOK, AlertsTyped, AlertsTyped', PagerInv, QueuedInv, BusGrows, UNCHANGED alerts
    PROVE  PagerInv' /\ QueuedInv'
<1>1. UNCHANGED <<alarms, ringing, crossed, unrung>>
    BY DEF alerts
<1>2. Underway'
    BY <1>1 DEF PagerInv, Underway, BusGrows
<1>3. \A i \in Tasks : Past(i)' => Past(i) /\ ringing'[i] = ringing[i] /\ events'[i] = events[i]
    BY <1>1 DEF PagerInv, Underway, BusGrows, Past, Escalated
<1>4. PagerInv'
    BY <1>1, <1>2, <1>3, SameQuieter, QuieterPager
<1>5. ASSUME NEW c \in Convs, Summoned(c)' PROVE Answered(c)'
    <2>1. PICK i \in Tasks : Handles(i)' /\ events'[i].conv = c
        BY <1>5 DEF Summoned
    <2>2. CASE i \in DOMAIN events
        <3>1. Handles(i) /\ events[i].conv = c
            BY <2>1, <2>2 DEF Handles, Escalated, BusGrows
        <3>2. Answered(c)
            BY <3>1 DEF QueuedInv, Summoned
        <3>3. Settling(c) => Settling(c)'
            BY <1>1 DEF Settling, Escalated, BusGrows
        <3>. QED BY <1>1, <3>2, <3>3 DEF Answered, Rings, New
    <2>3. CASE i \notin DOMAIN events
        <3>1. ringing[i] = "check"
            BY <2>3 DEF PagerInv, Underway
        <3>2. ringing'[i] # "done"
            BY <1>1, <3>1
        <3>3. Settling(c)'
            BY <2>1, <3>2 DEF Settling, Handles
        <3>. QED BY <3>3 DEF Answered
    <2>. QED BY <2>2, <2>3
<1>. QED BY <1>4, <1>5 DEF QueuedInv

(***************************************************************************)
(* The whole.                                                               *)
(***************************************************************************)
OfEach ==
    /\ BusTypeOK
    /\ AlertsTyped /\ RemindedInv
    /\ DeskTyped /\ LawfulInv
    /\ BridgeTyped /\ UntoldInv
    /\ LoopTyped /\ DocumentsAccounted
OfThePager == Waits /\ PagerInv /\ QueuedInv
Invariant == OfEach /\ OfThePager /\ BridgeInv /\ TimelineInv

LEMMA InvariantStarts == Init => Invariant
BY BusStarts, AlertsStart, RemindedStarts, DeskStarts, LawfulStarts, TimelineStarts,
   BridgeStarts, UntoldStarts, BridgeInvStarts, LoopStarts, BalanceStarts, WaitsStart, PagerStarts, QueuedStarts
   DEF Init, Invariant, OfEach, OfThePager

LEMMA OfEachStays ==
    ASSUME OfEach, [Next]_vars
    PROVE  OfEach'
<1>. USE DEF OfEach
<1>1. CASE BusNext /\ UNCHANGED <<alerts, desk, bridge, loop>>
    BY <1>1, BusNextTypes, AlertsStill, DeskStill, BridgeStill, LoopStill DEF BusKept
<1>2. CASE AlertsNext /\ UNCHANGED <<desk, bridge, loop>>
    BY <1>2, AlertsNextBus, AlertsNextTypes, AlertsNextReminded, DeskStill, BridgeStill, LoopStill
       DEF BusKept
<1>3. CASE DeskNext /\ UNCHANGED <<alerts, bridge, loop>>
    BY <1>3, DeskNextBus, DeskNextTypes, DeskNextLawful, AlertsStill, BridgeStill, LoopStill
       DEF BusKept
<1>4. CASE BridgeNext /\ UNCHANGED <<alerts, desk, loop>>
    BY <1>4, BridgeNextBus, BridgeNextTypes, BridgeNextUntold, AlertsStill, DeskStill, LoopStill
       DEF BusKept
<1>5. CASE LoopNext /\ UNCHANGED <<alerts, desk, bridge>>
    BY <1>5, LoopNextBus, LoopNextTypes, LoopNextBalance, AlertsStill, DeskStill, BridgeStill
       DEF BusKept
<1>6. CASE Resolution /\ UNCHANGED <<alerts, bridge>>
    BY <1>6, ResolutionKeeps, AlertsStill, BridgeStill DEF BusKept
<1>7. CASE Restart
    <2>1. /\ BusRestart /\ AlertsRestart /\ DeskRestart /\ BridgeRestart /\ LoopRestart
          /\ UNCHANGED events
        BY <1>7 DEF Restart, BusRestart
    <2>. QED BY <2>1, BusRestartTypes, AlertsRestartTypes, RestsReminded, DeskRestartTypes,
                DeskRestartLawful, BridgeRestartTypes, BridgeRestartUntold, LoopRestartTypes,
                LoopRestartBalance DEF BusKept
<1>8. CASE UNCHANGED vars
    BY <1>8, BusSame, AlertsStill, DeskStill, BridgeStill, LoopStill DEF vars, BusKept
<1>. QED BY <1>1, <1>2, <1>3, <1>4, <1>5, <1>6, <1>7, <1>8 DEF Next

LEMMA OfThePagerStays ==
    ASSUME OfEach, OfEach', OfThePager, [Next]_vars
    PROVE  OfThePager'
<1>0. /\ BusTypeOK /\ AlertsTyped /\ AlertsTyped' /\ DeskTyped /\ Waits /\ PagerInv /\ QueuedInv
      /\ BusGrows /\ Waits'
    BY NextWaits DEF OfEach, OfThePager
<1>1. CASE AlertsNext
    BY <1>0, <1>1, AlertsNextPager, AlertsNextQueued DEF OfThePager
<1>2. CASE Restart
    <2>1. AlertsRestart /\ UNCHANGED <<setup, events>>
        BY <1>2 DEF Restart, BusRestart
    <2>. QED BY <1>0, <2>1, AlertsRestartPager, AlertsRestartQueued DEF OfThePager
<1>3. CASE UNCHANGED alerts
    BY <1>0, <1>3, PagerStill DEF OfThePager
<1>. QED BY <1>1, <1>2, <1>3 DEF Next, vars

LEMMA BridgeInvStays ==
    ASSUME OfEach, Waits, BridgeInv, [Next]_vars
    PROVE  BridgeInv'
<1>0. BusTypeOK /\ BridgeTyped /\ BusGrows
    BY NextWaits DEF OfEach
<1>1. CASE BridgeNext
    BY <1>0, <1>1, BridgeNextInv
<1>2. CASE Restart
    BY <1>0, <1>2, BridgeRestartInv DEF Restart, BusRestart
<1>3. CASE UNCHANGED bridge
    BY <1>0, <1>3, BridgeInvRests DEF BusGrows
<1>. QED BY <1>1, <1>2, <1>3 DEF Next, vars

LEMMA TimelineInvStays ==
    ASSUME OfEach, OfEach', Waits, TimelineInv, [Next]_vars
    PROVE  TimelineInv'
<1>0. BusTypeOK /\ DeskTyped /\ DeskTyped' /\ BusGrows
    BY NextWaits DEF OfEach
<1>1. CASE DeskNext
    BY <1>0, <1>1, DeskNextTimeline
<1>2. CASE Resolution
    BY <1>0, <1>2, OtherStepTimeline DEF Resolution
<1>3. CASE Restart
    BY <1>0, <1>3, DeskRestartTimeline DEF Restart, BusRestart
<1>4. CASE UNCHANGED desk
    BY <1>0, <1>4, TimelineRests DEF BusGrows
<1>. QED BY <1>1, <1>2, <1>3, <1>4 DEF Next, vars

LEMMA InvariantStays ==
    ASSUME Invariant, [Next]_vars
    PROVE  Invariant'
BY OfEachStays, OfThePagerStays, BridgeInvStays, TimelineInvStays DEF Invariant, OfThePager

LEMMA InvariantHolds == Spec => []Invariant
<1>1. Init => Invariant
    BY InvariantStarts
<1>2. Invariant /\ [Next]_vars => Invariant'
    BY InvariantStays
<1>. QED BY <1>1, <1>2, PTL DEF Spec

\* Type correctness of the escalation and of its subscribers, for every
\* situation: any conversations, agents, audiences, caps and bounds.
THEOREM SubscribersTyped == Spec => []TypeOK
<1>1. Invariant => TypeOK
    BY DEF Invariant, OfEach, TypeOK, AlertsTyped, DeskTyped, BridgeTyped, LoopTyped
<1>. QED BY <1>1, InvariantHolds, PTL

\* The cursor of a conversation's helpdesk ticket never runs ahead of what the
\* helpdesk received, whatever handlers overlap, save old copies, are cut off, or
\* have their calls refused or answered too late.
THEOREM CursorBehindTicket == Spec => []NothingUntold
<1>1. Invariant => NothingUntold
    BY UntoldSuffices DEF Invariant, OfEach
<1>. QED BY <1>1, InvariantHolds, PTL

\* No alarm row is mailed a reminder twice, whatever is acknowledged, saved back
\* stale, cut off or swept meanwhile.
THEOREM OneReminder == Spec => []RemindedOnce
<1>1. Invariant => RemindedOnce
    BY RemindedSuffices DEF Invariant, OfEach
<1>. QED BY <1>1, InvariantHolds, PTL

\* A conversation does not ring twice for one reason: its un-acknowledged alarm rows
\* of a reason are of one escalation, unless two handlers crossed.
THEOREM RingsOnce == Spec => []OneAlarm
<1>1. Invariant => OneAlarm
    BY DEF Invariant, OfThePager, PagerInv
<1>. QED BY <1>1, InvariantHolds, PTL

\* Once a conversation has been routed again for its category, no older alarm of it
\* rings any more, unless handlers crossed.
THEOREM FirstPageStands == Spec => []FirstPageStandsDown
<1>1. Invariant => FirstPageStandsDown
    BY DEF Invariant, OfThePager, PagerInv
<1>. QED BY <1>1, InvariantHolds, PTL

\* Whoever waits in the queue has an alarm that rings or that an agent acknowledged
\* once its handlers are through, unless one of them failed or was cut off.
THEOREM NobodyWaitsUnheard == Spec => []QueuedIsPaged
<1>1. Invariant => QueuedIsPaged
    <2>. SUFFICES ASSUME Invariant, "alerts" \in setup.parts, NEW c \in Convs \ unrung,
                         convs[c].status = "waiting", ~Settling(c)
                  PROVE  Rings(c)
        BY DEF QueuedIsPaged, Rings
    <2>1. Summoned(c)
        BY DEF Invariant, OfThePager, Waits, Summoned, Handles
    <2>. QED BY <2>1 DEF Invariant, OfThePager, QueuedInv, Answered
<1>. QED BY <1>1, InvariantHolds, PTL

\* A helpdesk reply is stored for the shopper once, however often and in whatever order
\* its webhook comes, unless two handlers of the conversation overlapped or one was cut off.
THEOREM OneReply == Spec => []ReplyOnce
<1>1. Invariant => ReplyOnce
    BY BridgeInvSuffices DEF Invariant, OfEach
<1>. QED BY <1>1, InvariantHolds, PTL

\* A conversation gets another ticket only once the helpdesk has said that the one before
\* was closed, unless two handlers of it overlapped, or one failed or was cut off.
THEOREM OneTicketAtATime == Spec => []NewTicketAfterClose
<1>1. Invariant => NewTicketAfterClose
    BY BridgeInvSuffices DEF Invariant, OfEach
<1>. QED BY <1>1, InvariantHolds, PTL

\* The timeline of an issue accounts for the status it has and for every reopening it
\* counts, with the entries its calls have yet to record, however many calls are on it
\* at once, unless one saved over another, was cut off or was doubled.
THEOREM TimelineTells == Spec => []TimelineBalances
<1>1. Invariant => TimelineBalances
    BY TimelineSuffices DEF Invariant, OfEach
<1>. QED BY <1>1, InvariantHolds, PTL

\* However the hooks and the console overlap on an issue, it only moves along the
\* transitions of the workflow, unless a call saves a copy it read before another's save.
THEOREM IssuesMoveLawfully == Spec => LegalMoves
<1>. DEFINE Legal == \A c \in Convs \ stale' :
                         Has(c) /\ issues'[c].status # issues[c].status
                             => issues'[c].status \in Transitions[issues[c].status]
<1>1. ASSUME Invariant, [Next]_vars PROVE [Legal]_<<issues, stale>>
    <2>1. CASE DeskNext
        BY <1>1, <2>1, MovesAreLegal DEF Invariant, OfEach
    <2>2. CASE UNCHANGED issues
        BY <2>2
    <2>3. DeskNext \/ UNCHANGED issues
        BY <1>1 DEF Next, Restart, DeskRestart, Resolution, PublishResolved, desk, vars
    <2>. QED BY <2>1, <2>2, <2>3
<1>. HIDE DEF Legal
<1>2. Spec => [][Legal]_<<issues, stale>>
    BY <1>1, InvariantHolds, PTL DEF Spec
<1>. QED BY <1>2 DEF LegalMoves, Legal

\* Each document the loop made is accounted for by one acceptance, of those on record
\* or cut short, however decisions overlap, unless one was saved over another.
THEOREM DocumentsBalance == Spec => []DocumentsAccounted
<1>1. Invariant => DocumentsAccounted
    BY DEF Invariant, OfEach
<1>. QED BY <1>1, InvariantHolds, PTL

\* A proposal that was accepted or dismissed stays so, whatever is heard, rated or
\* counted again, unless a call saves over a decision taken after it read the task.
THEOREM DecisionsStand == Spec => DecidedStays
<1>. DEFINE Stay == \A r \in Refs \ torn' : gaps[r] \in Decided => gaps'[r] = gaps[r]
<1>1. ASSUME Invariant, [Next]_vars PROVE [Stay]_<<gaps, torn>>
    <2>1. CASE LoopNext
        BY <1>1, <2>1, DecisionsStay DEF Invariant, OfEach
    <2>2. CASE UNCHANGED gaps
        BY <2>2
    <2>3. LoopNext \/ UNCHANGED gaps
        BY <1>1 DEF Next, Restart, LoopRestart, Resolution, Hear, Begin, loop, vars
    <2>. QED BY <2>1, <2>2, <2>3
<1>. HIDE DEF Stay
<1>2. Spec => [][Stay]_<<gaps, torn>>
    BY <1>1, InvariantHolds, PTL DEF Spec
<1>. QED BY <1>2 DEF DecidedStays, Stay
=============================================================================
