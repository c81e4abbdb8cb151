---------------------------- MODULE EscalationBus ----------------------------
(***************************************************************************)
(* What the subscribers of an escalation share: the conversations, as far   *)
(* as these look at them, and the calls that reach them.  The event bus     *)
(* (infrastructure/queue/event-bus.service.ts) hands a published escalation *)
(* to each subscriber in a task of its own, detached from the publisher;    *)
(* the hooks of an accept and of an end are detached calls as well.  So a   *)
(* subscriber has one task for each entry of events, all of them run at     *)
(* once, and a restart cuts them off: nothing subscribes to the broker.     *)
(*                                                                          *)
(* AgentAlerts, IssueDesk and TicketBridge are the subscribers; they meet   *)
(* in EscalationDesk.  Who answers a conversation is Conversation.tla's.    *)
(***************************************************************************)
EXTENDS Integers, Sequences, FiniteSets

CONSTANTS
    Convs, Agents, NoAgent,
    MaxEvents,        \* bound: calls published in one behaviour
    Setups            \* the situations to look at

Parts == {"alerts", "issues", "tickets", "knowledge"}
Reasons == {"user_request", "low_confidence", "moderation_blocked", "policy",
            "category_selected"}
Moves == {"pick", "accept", "handBack", "end", "leave", "say", "restart", "error",
          "ack", "sweep", "transition", "assign", "file", "memo", "close", "reply",
          "redeliver", "lose", "guest", "rate", "batch", "approve", "dismiss"}

\* The subscribers looked at, the conversations and reasons in play, what may
\* happen besides (moves), how many calls there are (limit), how many of the moves
\* that are counted (bound), and how many webhooks the helpdesk sends (notices).
Setup == [parts : SUBSET Parts, convs : SUBSET Convs, reasons : SUBSET Reasons,
          moves : SUBSET Moves, limit : 0..MaxEvents, bound : Nat, notices : Nat]

ASSUME BusAssumption ==
    /\ MaxEvents \in Nat
    /\ Convs # {}
    /\ NoAgent \notin Agents
    /\ Setups \subseteq Setup

VARIABLES
    setup,      \* the situation, chosen at the start
    convs,      \* conversations: status, agent, category picked, messages said
    picking,    \* category picks under way that read "route it again"
    events,     \* the calls made so far, oldest first
    spent       \* how many counted moves there have been
bus == <<setup, convs, picking, events, spent>>

Tasks == 1..MaxEvents
Conv == [status : {"ai", "waiting", "agent", "ended"}, agent : Agents \cup {NoAgent},
         picked : BOOLEAN, said : Nat]
Event == [kind : {"escalated", "accepted", "ended", "left"}, conv : Convs,
          reason : Reasons, agent : Agents \cup {NoAgent}]

BusTypeOK ==
    /\ setup \in Setups
    /\ convs \in [Convs -> Conv]
    /\ picking \in [Convs -> Nat]
    /\ events \in Seq(Event) /\ Len(events) <= MaxEvents
    /\ spent \in Nat

BusInit ==
    /\ setup \in Setups
    /\ convs = [c \in Convs |-> [status |-> "ai", agent |-> NoAgent, picked |-> FALSE, said |-> 1]]
    /\ picking = [c \in Convs |-> 0]
    /\ events = <<>>
    /\ spent = 0

Escalated(i) == i \in DOMAIN events /\ events[i].kind = "escalated"
May(move) == move \in setup.moves
Spend(move) == May(move) /\ spent < setup.bound /\ spent' = spent + 1

Publish(kind, c, reason, a) ==
    /\ Len(events) < setup.limit
    /\ events' = Append(events, [kind |-> kind, conv |-> c, reason |-> reason, agent |-> a])

\* The hooks of the issue desk; the other subscribers know nothing of them.
CallHook(kind, c, a) ==
    IF "issues" \in setup.parts THEN Publish(kind, c, "user_request", a) ELSE UNCHANGED events

(***************************************************************************)
(* The chat and the console.                                                *)
(***************************************************************************)
\* handoff() and escalate(): queue the conversation, whatever it has become, and
\* publish.  What happens to the conversation between the two may as well happen
\* before its tasks run, so they are one step, or half of it (see BusRestart).
\* escalate() may come with the category already picked.
Escalate(c, reason) ==
    /\ reason \in setup.reasons \ {"category_selected"}
    /\ Publish("escalated", c, reason, NoAgent)
    /\ \E picked \in BOOLEAN :
        /\ picked => reason = "user_request" /\ May("pick")
        /\ convs' = [convs EXCEPT ![c].status = "waiting", ![c].picked = @ \/ picked]
    /\ UNCHANGED <<setup, picking, spent>>

\* chooseConsultCategory: the first pick of a conversation that waits with nobody
\* on it is routed again; the pick is recorded and published awaits later.
Reroutes(c) == ~convs[c].picked /\ convs[c].status = "waiting" /\ convs[c].agent = NoAgent
BeginPick(c) ==
    /\ May("pick") /\ Reroutes(c) /\ picking[c] < 2
    /\ picking' = [picking EXCEPT ![c] = @ + 1]
    /\ UNCHANGED <<setup, convs, events, spent>>

\* Mutant: a pick is published that was never begun.
PublishAnyway(c) ==
    /\ Publish("escalated", c, "category_selected", NoAgent)
    /\ picking' = [picking EXCEPT ![c] = @ - 1]
    /\ convs' = [convs EXCEPT ![c].picked = TRUE]
    /\ UNCHANGED <<setup, spent>>

PublishPick(c) ==
    /\ picking[c] > 0
    /\ Publish("escalated", c, "category_selected", NoAgent)
    /\ picking' = [picking EXCEPT ![c] = @ - 1]
    /\ convs' = [convs EXCEPT ![c].picked = TRUE]
    /\ UNCHANGED <<setup, spent>>
\* A pick that is only recorded: off hours, or with nothing to route.
RecordPick(c) ==
    /\ May("pick") /\ ~convs[c].picked
    /\ (picking[c] > 0 \/ ~Reroutes(c))
    /\ convs' = [convs EXCEPT ![c].picked = TRUE]
    /\ picking' = [picking EXCEPT ![c] = IF @ > 0 THEN @ - 1 ELSE 0]
    /\ UNCHANGED <<setup, events, spent>>

Accept(c, a) ==
    /\ May("accept")
    /\ convs' = [convs EXCEPT ![c].status = "agent", ![c].agent = a]
    /\ CallHook("accepted", c, a)
    /\ UNCHANGED <<setup, picking, spent>>
HandBack(c) ==
    /\ May("handBack") /\ convs[c].status = "agent"
    /\ convs' = [convs EXCEPT ![c].status = "ai", ![c].agent = NoAgent]
    /\ UNCHANGED <<setup, picking, events, spent>>
\* AgentService.end, and ChatService.endBySession of an open conversation.
End(c) ==
    /\ May("end")
    /\ convs' = [convs EXCEPT ![c].status = "ended"]
    /\ CallHook("ended", c, NoAgent)
    /\ UNCHANGED <<setup, picking, spent>>
Leave(c) ==
    /\ May("leave") /\ convs[c].status # "ended"
    /\ convs' = [convs EXCEPT ![c].status = "ended"]
    /\ CallHook("left", c, NoAgent)
    /\ UNCHANGED <<setup, picking, spent>>
Say(c) ==
    /\ Spend("say") /\ convs[c].status # "ended"
    /\ convs' = [convs EXCEPT ![c].said = @ + 1]
    /\ UNCHANGED <<setup, picking, events>>

\* A restart forgets the picks under way, and the hand-offs it cuts off between
\* markWaiting and the publish: those conversations are queued with no call made.
Queue(S) == [c \in Convs |-> IF c \in S THEN [convs[c] EXCEPT !.status = "waiting"] ELSE convs[c]]
BusRestart ==
    /\ Spend("restart")
    /\ picking' = [c \in Convs |-> 0]
    /\ \E S \in SUBSET setup.convs : (S = {} \/ setup.reasons # {}) /\ convs' = Queue(S)
    /\ UNCHANGED <<setup, events>>

BusNext ==
    \E c \in setup.convs :
        \/ \E reason \in Reasons : Escalate(c, reason)
        \/ BeginPick(c) \/ PublishPick(c) \/ RecordPick(c)
        \/ \E a \in Agents : Accept(c, a)
        \/ HandBack(c) \/ End(c) \/ Leave(c) \/ Say(c)
=============================================================================
