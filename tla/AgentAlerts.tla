----------------------------- MODULE AgentAlerts -----------------------------
(***************************************************************************)
(* Paging: AgentAlertService stores an alarm for an escalation, one row per *)
(* agent it is addressed to, agents acknowledge it, and the minute sweep of *)
(* AgentAlertReminderService reminds of those nobody acknowledged.          *)
(* Slack and the first mail follow the stored rows, best effort, and change *)
(* no state; only the reminder mails are counted.                           *)
(***************************************************************************)
EXTENDS EscalationBus

CONSTANTS
    Audiences,        \* who an alarm may be addressed to; NoAgent: broadcast
    Leads,            \* the tenant's escalateToUserIds
    SweepBatch             \* rows one sweep takes

ASSUME AlertsAssumption ==
    /\ \A A \in Audiences : A \subseteq Agents \cup {NoAgent} /\ A # {} /\ IsFiniteSet(A)
    /\ Leads \subseteq Agents /\ IsFiniteSet(Leads)
    /\ SweepBatch \in Nat \ {0}

VARIABLES
    alarms,     \* agent_alerts, by id
    ringing,    \* the handler of each escalation
    acking,     \* what each agent's acknowledgement is doing
    sweep,      \* what the reminder sweep is doing
    reminders,  \* observer: reminder mails sent for each row
    crossed,    \* observer: conversations whose handlers and sweeps crossed
    unrung      \* observer: conversations with a handler that did not finish, or
                \* queued by a hand-off that was cut off before it published
alerts == <<alarms, ringing, acking, sweep, reminders, crossed, unrung>>

\* event: the event key; 0 for the rows of a lead, which have none.
Alarm == [conv : Convs, reason : Reasons, event : Nat, target : Agents \cup {NoAgent},
          status : {"new", "acked"}, by : Agents \cup {NoAgent}, reminded : BOOLEAN]
Ringer == {"check", "stand", "ring", "done"}
Acker == [pc : {"idle", "save", "siblings"}, id : Nat, reminded : BOOLEAN]
NotAcking == [pc |-> "idle", id |-> 0, reminded |-> FALSE]
Sweeper == [pc : {"idle", "look", "stamp", "mail", "lead"}, due : SUBSET Nat,
            waiting : SUBSET Convs]
Resting == [pc |-> "idle", due |-> {}, waiting |-> {}]

AlertsTypeOK ==
    /\ alarms \in Seq(Alarm)
    /\ ringing \in [Tasks -> Ringer]
    /\ acking \in [Agents -> Acker]
    /\ sweep \in Sweeper
    /\ reminders \in Seq(Nat)
    /\ crossed \subseteq Convs /\ unrung \subseteq Convs

AlertsInit ==
    /\ alarms = <<>> /\ reminders = <<>>
    /\ ringing = [i \in Tasks |-> "check"]
    /\ acking = [a \in Agents |-> NotAcking]
    /\ sweep = Resting
    /\ crossed = {} /\ unrung = {}

(***************************************************************************)
(* onEscalation.                                                            *)
(***************************************************************************)
New(c) == {id \in DOMAIN alarms : alarms[id].conv = c /\ alarms[id].status = "new"}
Handles(i) == "alerts" \in setup.parts /\ Escalated(i)

\* The rows of S are acknowledged by a; NoAgent when a new page replaces them.
Acked(S, a) ==
    [id \in DOMAIN alarms |->
        IF id \in S THEN [alarms[id] EXCEPT !.status = "acked", !.by = a] ELSE alarms[id]]

\* Rows are stored while another handler of the conversation is past its check.
Crossing(i, c) ==
    \E j \in Tasks \ {i} : Escalated(j) /\ events[j].conv = c /\ ringing[j] \in {"stand", "ring"}
Insert(i, c, rows) ==
    /\ alarms' = alarms \o rows
    /\ crossed' = IF Crossing(i, c) THEN crossed \cup {c} ELSE crossed
Enumeration(S) ==
    CHOOSE f \in [1..Cardinality(S) -> S] : \A i, j \in DOMAIN f : f[i] = f[j] => i = j

\* Mutant: an alarm of any reason will do.
RingsAlready(i) == New(events[i].conv) # {}

\* "Skip if an un-acked alert already exists ... with the same reason."
Rung(i) == \E id \in New(events[i].conv) : alarms[id].reason = events[i].reason

\* Mutant: an alarm that rings does not keep another one back.
RingsOver(i) == IF events[i].reason = "category_selected" THEN "stand" ELSE "ring"

\* Mutant: the first page is left to ring.
KeepsRinging(i) == IF Rung(i) THEN "done" ELSE "ring"

AfterCheck(i) ==
    IF Rung(i) THEN "done" ELSE IF events[i].reason = "category_selected" THEN "stand" ELSE "ring"
CheckAlarm(i) ==
    /\ Handles(i) /\ ringing[i] = "check"
    /\ ringing' = [ringing EXCEPT ![i] = AfterCheck(i)]
    /\ UNCHANGED <<bus, alarms, acking, sweep, reminders, crossed, unrung>>

\* Mutant: the page that replaces the first is not written.
StandDownOnly(i) ==
    /\ Handles(i) /\ ringing[i] = "stand"
    /\ alarms' = Acked(New(events[i].conv), NoAgent)
    /\ ringing' = [ringing EXCEPT ![i] = "done"]
    /\ UNCHANGED <<bus, acking, sweep, reminders, crossed, unrung>>

\* "The first page stands down, so the first group's alarm and reminders stop."
StandDown(i) ==
    /\ Handles(i) /\ ringing[i] = "stand"
    /\ alarms' = Acked(New(events[i].conv), NoAgent)
    /\ ringing' = [ringing EXCEPT ![i] = "ring"]
    /\ UNCHANGED <<bus, acking, sweep, reminders, crossed, unrung>>

\* resolveTargets: "every path ends in at least one row".
RowsOf(i, A) ==
    [k \in 1..Cardinality(A) |->
        [conv |-> events[i].conv, reason |-> events[i].reason, event |-> i,
         target |-> Enumeration(A)[k], status |-> "new", by |-> NoAgent, reminded |-> FALSE]]
Ring(i) ==
    /\ Handles(i) /\ ringing[i] = "ring"
    /\ \E A \in Audiences :
        /\ Insert(i, events[i].conv, RowsOf(i, A))
        /\ reminders' = reminders \o [k \in 1..Cardinality(A) |-> 0]
    /\ ringing' = [ringing EXCEPT ![i] = "done"]
    /\ UNCHANGED <<bus, acking, sweep, unrung>>

\* The database fails a handler: the bus logs it and forgets the escalation.
RingFails(i) ==
    /\ Handles(i) /\ ringing[i] # "done" /\ Spend("error")
    /\ ringing' = [ringing EXCEPT ![i] = "done"]
    /\ unrung' = unrung \cup {events[i].conv}
    /\ UNCHANGED <<setup, convs, picking, events, alarms, acking, sweep, reminders, crossed>>

(***************************************************************************)
(* ack: reads, saves the row it read, acknowledges the siblings.            *)
(***************************************************************************)
Group(id) == IF alarms[id].event = 0 THEN {id}
             ELSE {k \in DOMAIN alarms : alarms[k].event = alarms[id].event}
CanAck(id, a) == \E k \in Group(id) : alarms[k].target \in {NoAgent, a}
ReadAlarm(a, id) ==
    /\ May("ack") /\ acking[a].pc = "idle"
    /\ CanAck(id, a) /\ alarms[id].status = "new"
    /\ acking' = [acking EXCEPT ![a] = [pc |-> "save", id |-> id, reminded |-> alarms[id].reminded]]
    /\ UNCHANGED <<bus, alarms, ringing, sweep, reminders, crossed, unrung>>

\* The whole entity is saved: a stamp written since it was read is undone.
AckRow(a) ==
    /\ acking[a].pc = "save"
    /\ alarms' = [alarms EXCEPT ![acking[a].id].status = "acked", ![acking[a].id].by = a,
                                ![acking[a].id].reminded = acking[a].reminded]
    /\ acking' = [acking EXCEPT ![a].pc = "siblings"]
    /\ UNCHANGED <<bus, ringing, sweep, reminders, crossed, unrung>>

Siblings(id) == {k \in New(alarms[id].conv) : alarms[k].reason = alarms[id].reason}
AckSiblings(a) ==
    /\ acking[a].pc = "siblings"
    /\ alarms' = Acked(Siblings(acking[a].id), a)
    /\ acking' = [acking EXCEPT ![a] = NotAcking]
    /\ UNCHANGED <<bus, ringing, sweep, reminders, crossed, unrung>>

(***************************************************************************)
(* The reminder sweep; it never overlaps itself.                            *)
(***************************************************************************)
\* Mutant: reminded rows are taken again.
DueAgain(age) == {id \in 1..age : alarms[id].status = "new"}

\* The rows old enough for a reminder: ids grow with time, age is the newest.
Due(age) == {id \in 1..age : alarms[id].status = "new" /\ ~alarms[id].reminded}
FirstOf(S) == {id \in S : Cardinality({k \in S : k < id}) < SweepBatch}
FindDue ==
    /\ "alerts" \in setup.parts /\ May("sweep") /\ sweep.pc = "idle"
    /\ \E age \in DOMAIN alarms :
        /\ Due(age) # {}
        /\ sweep' = [pc |-> "look", due |-> FirstOf(Due(age)), waiting |-> {}]
    /\ UNCHANGED <<bus, alarms, ringing, acking, reminders, crossed, unrung>>

LookWaiting ==
    /\ sweep.pc = "look"
    /\ sweep' = [sweep EXCEPT !.pc = "stamp",
                     !.waiting = {c \in Convs : /\ convs[c].status = "waiting"
                                                /\ \E id \in sweep.due : alarms[id].conv = c}]
    /\ UNCHANGED <<bus, alarms, ringing, acking, reminders, crossed, unrung>>

\* The conversations are taken in the order of their first row.
Next1 == CHOOSE id \in sweep.due : \A k \in sweep.due : id <= k
Current == alarms[Next1].conv
Mine == {id \in sweep.due : alarms[id].conv = Current}
DropCurrent == IF sweep.due = Mine THEN Resting
               ELSE [sweep EXCEPT !.pc = "stamp", !.due = @ \ Mine]

\* "Stamp first: a mail failure must not turn into a mail every minute."  Every
\* row of the conversation is stamped, found or not.
Stamp ==
    /\ sweep.pc = "stamp"
    /\ alarms' = [id \in DOMAIN alarms |->
                     IF id \in New(Current) THEN [alarms[id] EXCEPT !.reminded = TRUE]
                     ELSE alarms[id]]
    /\ sweep' = IF Current \in sweep.waiting THEN [sweep EXCEPT !.pc = "mail"] ELSE DropCurrent
    /\ UNCHANGED <<bus, ringing, acking, reminders, crossed, unrung>>

MailAgents ==
    /\ sweep.pc = "mail"
    /\ reminders' = [id \in DOMAIN reminders |-> IF id \in Mine THEN reminders[id] + 1 ELSE reminders[id]]
    /\ sweep' = [sweep EXCEPT !.pc = "lead"]
    /\ UNCHANGED <<bus, alarms, ringing, acking, crossed, unrung>>

\* The leads get a row of their own, already a reminder, and a mail.
NewLeads == Leads \ {alarms[id].target : id \in Mine}
LeadRows ==
    [k \in 1..Cardinality(NewLeads) |->
        [conv |-> Current, reason |-> alarms[Next1].reason, event |-> 0,
         target |-> Enumeration(NewLeads)[k], status |-> "new", by |-> NoAgent, reminded |-> TRUE]]
PageLeads ==
    /\ sweep.pc = "lead"
    /\ Insert(0, Current, LeadRows)
    /\ reminders' = reminders \o [k \in 1..Cardinality(NewLeads) |-> 1]
    /\ sweep' = DropCurrent
    /\ UNCHANGED <<bus, ringing, acking, unrung>>

SweepFails ==
    /\ sweep.pc # "idle" /\ Spend("error")
    /\ sweep' = Resting
    /\ UNCHANGED <<setup, convs, picking, events, alarms, ringing, acking, reminders, crossed, unrung>>

\* A restart cuts the handlers, the acknowledgements and the sweep off; who was
\* queued by it was not published.
QueuedUnheard == {c \in Convs : convs[c].status # "waiting" /\ convs'[c].status = "waiting"}
AlertsRestart ==
    /\ unrung' = unrung \cup QueuedUnheard
                  \cup {events[i].conv : i \in {j \in Tasks : Escalated(j) /\ ringing[j] # "done"}}
    /\ ringing' = [i \in Tasks |-> IF i \in DOMAIN events THEN "done" ELSE "check"]
    /\ acking' = [a \in Agents |-> NotAcking]
    /\ sweep' = Resting
    /\ UNCHANGED <<alarms, reminders, crossed>>

RingStep(i) == CheckAlarm(i) \/ StandDown(i) \/ Ring(i)
AckStep(a) == AckRow(a) \/ AckSiblings(a)
SweepStep == LookWaiting \/ Stamp \/ MailAgents \/ PageLeads
AlertsNext ==
    \/ \E i \in Tasks : RingStep(i) \/ RingFails(i)
    \/ \E a \in Agents : AckStep(a) \/ \E id \in DOMAIN alarms : ReadAlarm(a, id)
    \/ FindDue \/ SweepStep \/ SweepFails

(***************************************************************************)
(* Properties.                                                              *)
(***************************************************************************)
\* A conversation does not ring twice for one reason: its un-acknowledged alarm
\* rows of a reason are of one escalation, unless two handlers crossed.
OneAlarm ==
    \A c \in Convs \ crossed : \A j, k \in New(c) :
        alarms[j].reason = alarms[k].reason /\ alarms[j].event # 0 /\ alarms[k].event # 0
            => alarms[j].event = alarms[k].event

\* Whoever waits in the queue has an alarm that still rings, or one that an agent
\* has acknowledged, once the handlers are through, however they interleave with
\* picks, acknowledgements and sweeps.
Settling(c) == \E i \in Tasks : Escalated(i) /\ events[i].conv = c /\ ringing[i] # "done"
QueuedIsPaged ==
    "alerts" \in setup.parts =>
        \A c \in Convs \ unrung : convs[c].status = "waiting" /\ ~Settling(c) =>
            New(c) # {} \/ \E id \in DOMAIN alarms : alarms[id].conv = c /\ alarms[id].by # NoAgent

\* Once a conversation has been routed again for its category, no older alarm of
\* it rings any more, unless handlers crossed.
FirstPageStandsDown ==
    \A j, k \in DOMAIN alarms :
        /\ alarms[k].event # 0 /\ alarms[k].reason = "category_selected"
        /\ alarms[j].conv = alarms[k].conv /\ alarms[j].event # alarms[k].event
        /\ j < k /\ alarms[j].conv \notin crossed
        => alarms[j].status = "acked"

\* No row is mailed a reminder twice, whatever is acknowledged, saved back stale,
\* cut off or swept meanwhile.
RemindedOnce == \A id \in DOMAIN reminders : reminders[id] <= 1

\* Every published escalation comes to ring: its conversation gets an alarm that
\* gives its reason, this one's own or another's, and keeps it.
Alarmed(c, reason) ==
    c \in unrung \/ \E id \in DOMAIN alarms : alarms[id].conv = c /\ alarms[id].reason = reason
EscalationRings ==
    []<>("alerts" \in setup.parts =>
            \A i \in Tasks : Escalated(i) => Alarmed(events[i].conv, events[i].reason))
=============================================================================
