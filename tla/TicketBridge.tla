----------------------------- MODULE TicketBridge -----------------------------
(***************************************************************************)
(* The bridge to an external helpdesk (ExternalTicketService): an escalation *)
(* files the conversation as a ticket, or appends what is new to the open    *)
(* one; the helpdesk's webhooks mirror the ticket's status and bring its     *)
(* agents' replies into the conversation.  The reference row of a            *)
(* conversation is read first and its whole copy saved last, the helpdesk    *)
(* and the message table are called in between.                             *)
(*                                                                          *)
(* Messages are the shopper's, numbered as they are said.                   *)
(***************************************************************************)
EXTENDS EscalationBus

CONSTANTS
    TranscriptCap,    \* messages a new ticket carries (100)
    AppendCap         \* messages one append carries (20)

ASSUME BridgeAssumption ==
    TranscriptCap \in Nat \ {0} /\ AppendCap \in Nat \ {0}

VARIABLES
    refs,       \* external_tickets, one row at most per conversation (uk_ext_conv)
    tickets,    \* the helpdesk's tickets, by id
    relays,     \* the handler of each escalation
    notices,    \* webhooks sent, in order; a redelivered one is sent again
    hooks,      \* the handler of each webhook
    shown,      \* how many times each helpdesk reply was stored for the shopper
    tangled,    \* observer: conversations whose handlers worked on old copies
    dropped     \* observer: conversations with a handler that did not finish
bridge == <<refs, tickets, relays, notices, hooks, shown, tangled, dropped>>

\* ext: the ticket it points at, 0 for no row.  told: last_relayed_message_id.
\* heard: last_inbound_message_id.
Ref == [ext : Nat, status : {"open", "closed"}, told : Nat, heard : Nat]
NoRef == [ext |-> 0, status |-> "open", told |-> 0, heard |-> 0]
Ticket == [conv : Convs, open : BOOLEAN, msgs : SUBSET Nat]
\* status: what the webhook says of the ticket, if anything; reply: the message it
\* brings by its id, 0 for none.  A reply that comes without an id is relayed each
\* time it comes, until one with an id was, and never moves the cursor: to the row
\* its webhook is one that brings none.
Notice == [ext : Nat, status : {"open", "closed", "none"}, reply : Nat]

\* copy: the row as it was read, with what the handler set since.  last: the newest
\* message gathered.  fresh: nobody has saved the row since it was read.
Relay == [pc : {"read", "skipped", "gather", "send", "again", "save", "done"}, copy : Ref, last : Nat,
          ext : Nat, fresh : BOOLEAN]
Hook == [pc : {"sent", "mirror", "check", "store", "mark", "done"}, conv : Convs, copy : Ref,
         fresh : BOOLEAN]
Waiting == [pc |-> "read", copy |-> NoRef, last |-> 0, ext |-> 0, fresh |-> TRUE]
Sent == [pc |-> "sent", conv |-> CHOOSE c \in Convs : TRUE, copy |-> NoRef, fresh |-> TRUE]

BridgeTypeOK ==
    /\ refs \in [Convs -> Ref]
    /\ tickets \in Seq(Ticket)
    /\ relays \in [Tasks -> Relay]
    /\ notices \in Seq(Notice)
    /\ hooks \in Seq(Hook)
    /\ shown \in Seq(Nat)
    /\ tangled \subseteq Convs /\ dropped \subseteq Convs

BridgeInit ==
    /\ refs = [c \in Convs |-> NoRef]
    /\ tickets = <<>> /\ notices = <<>> /\ hooks = <<>> /\ shown = <<>>
    /\ relays = [i \in Tasks |-> Waiting]
    /\ tangled = {} /\ dropped = {}

(***************************************************************************)
(* relayEscalation.                                                         *)
(***************************************************************************)
Relays(i) == "tickets" \in setup.parts /\ Escalated(i)
ConvAt(i) == events[i].conv

\* "Relay skipped": the tenant has no usable credentials, or the shopper's email is
\* not known.  Read afresh for each escalation, so the next one may be relayed.
SkipRelay(i) ==
    /\ Relays(i) /\ relays[i].pc = "read" /\ May("guest")
    /\ relays' = [relays EXCEPT ![i].pc = "skipped"]
    /\ UNCHANGED <<bus, refs, tickets, notices, hooks, shown, tangled, dropped>>

ReadRef(i) ==
    /\ Relays(i) /\ relays[i].pc = "read"
    /\ relays' = [relays EXCEPT ![i].pc = "gather", ![i].copy = refs[ConvAt(i)]]
    /\ UNCHANGED <<bus, refs, tickets, notices, hooks, shown, tangled, dropped>>

\* Mutant: the two statuses swapped.
AppendsClosed(copy) == copy.ext # 0 /\ copy.status = "closed"

\* An open ticket is appended to; without one, or once it is closed, a new ticket
\* carries the transcript.
Appends(copy) == copy.ext # 0 /\ copy.status = "open"

\* Mutant: the newest messages are taken, and the cursor moved to the last of them.
SkippingOutgoing(copy, said) ==
    IF Appends(copy) THEN {m \in 1..said : m > copy.told /\ m > said - AppendCap}
    ELSE {m \in 1..said : m <= TranscriptCap}

\* What goes out: the oldest messages of the conversation, or those after the cursor.
Outgoing(copy, said) ==
    IF Appends(copy) THEN {m \in 1..said : m > copy.told /\ m <= copy.told + AppendCap}
    ELSE {m \in 1..said : m <= TranscriptCap}
Newest(S) == CHOOSE m \in S : \A n \in S : n <= m
Gather(i) ==
    LET batch == Outgoing(relays[i].copy, convs[ConvAt(i)].said)
    IN  /\ relays[i].pc = "gather"
        /\ relays' = IF batch = {} THEN [relays EXCEPT ![i].pc = "done"]
                     ELSE [relays EXCEPT ![i].pc = "send", ![i].last = Newest(batch)]
        /\ UNCHANGED <<bus, refs, tickets, notices, hooks, shown, tangled, dropped>>

\* The helpdesk gets the messages gathered: a new ticket, or more of the old one.
Gathered(i) == Outgoing(relays[i].copy, relays[i].last)
Receive(i) ==
    IF Appends(relays[i].copy)
    THEN [tickets EXCEPT ![relays[i].copy.ext].msgs = @ \cup Gathered(i)]
    ELSE Append(tickets, [conv |-> ConvAt(i), open |-> TRUE, msgs |-> Gathered(i)])

\* Its copy is old, or another handler of the conversation is past its reading.
Overlaps(i) ==
    \/ ~relays[i].fresh
    \/ \E j \in Tasks \ {i} :
          Escalated(j) /\ ConvAt(j) = ConvAt(i) /\ relays[j].pc \notin {"read", "skipped", "done"}

Sending(i) == relays[i].pc \in {"send", "again"}
Send(i) ==
    /\ Sending(i)
    /\ tickets' = Receive(i)
    /\ tangled' = IF Overlaps(i) THEN tangled \cup {ConvAt(i)} ELSE tangled
    /\ relays' = [relays EXCEPT ![i].pc = "save",
                     ![i].ext = IF Appends(relays[i].copy) THEN relays[i].copy.ext
                                ELSE Len(tickets) + 1]
    /\ UNCHANGED <<bus, refs, notices, hooks, shown, dropped>>

\* Mutant: a call that failed is not tried again.
NoRetry(i) == [relays EXCEPT ![i].pc = "done"]

\* withRetry: the same call once more.
Retry(i) == [relays EXCEPT ![i].pc = IF relays[i].pc = "send" THEN "again" ELSE "done"]
GivenUp(i) == relays[i].pc = "again"

\* The call fails: refused, or carried out with its answer lost.
SendFails(i) ==
    /\ Sending(i) /\ Spend("lose")
    /\ \/ tickets' = tickets /\ tangled' = tangled
       \/ tickets' = Receive(i) /\ tangled' = tangled \cup {ConvAt(i)}
    /\ relays' = Retry(i)
    /\ dropped' = IF GivenUp(i) THEN dropped \cup {ConvAt(i)} ELSE dropped
    /\ UNCHANGED <<setup, convs, picking, events, refs, notices, hooks, shown>>

\* The row a relay saves: its copy, pointed at the ticket and moved to the newest
\* message sent.
RowOf(i) == [relays[i].copy EXCEPT !.ext = relays[i].ext, !.told = relays[i].last, !.status = "open"]

\* A save of c's row makes every copy of it old.
OldRelays(c) ==
    [i \in Tasks |-> IF i \in DOMAIN events /\ ConvAt(i) = c /\ relays[i].pc # "read"
                     THEN [relays[i] EXCEPT !.fresh = FALSE] ELSE relays[i]]
OldHooks(c) ==
    [k \in DOMAIN hooks |-> IF hooks[k].pc # "sent" /\ hooks[k].conv = c
                            THEN [hooks[k] EXCEPT !.fresh = FALSE] ELSE hooks[k]]
Tangle(c, fresh) == tangled' = IF fresh THEN tangled ELSE tangled \cup {c}

SaveRef(i) ==
    LET c == ConvAt(i)
    IN  /\ relays[i].pc = "save" /\ ~(relays[i].copy.ext = 0 /\ refs[c].ext # 0)
        /\ refs' = [refs EXCEPT ![c] = RowOf(i)]
        /\ relays' = [OldRelays(c) EXCEPT ![i].pc = "done"]
        /\ hooks' = OldHooks(c)
        /\ Tangle(c, relays[i].fresh)
        /\ UNCHANGED <<bus, tickets, notices, shown, dropped>>

\* uk_ext_conv: another handler's row is there; this one's ticket belongs to nobody.
RefTaken(i) ==
    /\ relays[i].pc = "save" /\ relays[i].copy.ext = 0 /\ refs[ConvAt(i)].ext # 0
    /\ relays' = [relays EXCEPT ![i].pc = "done"]
    /\ tangled' = tangled \cup {ConvAt(i)}
    /\ UNCHANGED <<bus, refs, tickets, notices, hooks, shown, dropped>>

(***************************************************************************)
(* The helpdesk: its agents close tickets, open them again and reply.       *)
(***************************************************************************)
Post(notice) ==
    /\ Len(notices) < setup.notices
    /\ notices' = Append(notices, notice)
    /\ hooks' = Append(hooks, Sent)
Turned(t) == IF tickets[t].open THEN "closed" ELSE "open"
TurnTicket(t) ==
    /\ May("close")
    /\ tickets' = [tickets EXCEPT ![t].open = ~@]
    /\ Post([ext |-> t, status |-> Turned(t), reply |-> 0])
    /\ UNCHANGED <<bus, refs, relays, shown, tangled, dropped>>
\* "A message-created event without status" says nothing of the ticket.
ReplyTo(t) ==
    /\ May("reply")
    /\ \E status \in {"none", IF tickets[t].open THEN "open" ELSE "closed"} :
           Post([ext |-> t, status |-> status, reply |-> Len(shown) + 1])
    /\ shown' = Append(shown, 0)
    /\ UNCHANGED <<bus, refs, tickets, relays, tangled, dropped>>
Redeliver(k) ==
    /\ Spend("redeliver") /\ Post(notices[k])
    /\ UNCHANGED <<setup, convs, picking, events, refs, tickets, relays, shown, tangled, dropped>>

(***************************************************************************)
(* handleWebhook: the ticket's status, then its agent's reply.              *)
(***************************************************************************)
Owners(ext) == {c \in Convs : refs[c].ext = ext}
FindRef(k) ==
    /\ hooks[k].pc = "sent"
    /\ hooks' = IF Owners(notices[k].ext) = {} THEN [hooks EXCEPT ![k].pc = "done"]
                ELSE LET c == CHOOSE d \in Owners(notices[k].ext) : TRUE
                     IN  [hooks EXCEPT ![k] = [pc |-> "mirror", conv |-> c, copy |-> refs[c],
                                               fresh |-> TRUE]]
    /\ UNCHANGED <<bus, refs, tickets, relays, notices, shown, tangled, dropped>>

SaveHook(k, pc, copy) ==
    LET c == hooks[k].conv
    IN  /\ refs' = [refs EXCEPT ![c] = copy]
        /\ relays' = OldRelays(c)
        /\ hooks' = [OldHooks(c) EXCEPT ![k] = [hooks[k] EXCEPT !.pc = pc, !.copy = copy]]
        /\ Tangle(c, hooks[k].fresh)
\* "Status mirror only when the event carries one."
Mirror(k) ==
    /\ hooks[k].pc = "mirror" /\ notices[k].status # "none"
    /\ SaveHook(k, "check", [hooks[k].copy EXCEPT !.status = notices[k].status])
    /\ UNCHANGED <<bus, tickets, notices, shown, dropped>>

\* Mutant: the cursor is not looked at.
AnyReply(k) == notices[k].reply # 0

\* There is a reply, and the cursor of the copy has not passed it.
Relayable(k) == notices[k].reply > hooks[k].copy.heard
\* Moderation may block the reply; nothing is kept of it then.
CheckReply(k) ==
    /\ hooks[k].pc = "check" \/ (hooks[k].pc = "mirror" /\ notices[k].status = "none")
    /\ \E pc \in IF Relayable(k) THEN {"store", "done"} ELSE {"done"} :
           hooks' = [hooks EXCEPT ![k].pc = pc]
    /\ UNCHANGED <<bus, refs, tickets, relays, notices, shown, tangled, dropped>>

\* Stored while another delivery is past its check, both may store it.
StoreReply(k) ==
    LET c == hooks[k].conv
    IN  /\ hooks[k].pc = "store"
        /\ shown' = [shown EXCEPT ![notices[k].reply] = @ + 1]
        /\ hooks' = [hooks EXCEPT ![k].pc = "mark"]
        /\ tangled' = IF \/ ~hooks[k].fresh
                         \/ \E n \in DOMAIN hooks \ {k} :
                               hooks[n].conv = c /\ hooks[n].pc \notin {"sent", "done"}
                      THEN tangled \cup {c} ELSE tangled
        /\ UNCHANGED <<bus, refs, tickets, relays, notices, dropped>>
MarkHeard(k) ==
    /\ hooks[k].pc = "mark"
    /\ SaveHook(k, "done", [hooks[k].copy EXCEPT !.heard = notices[k].reply])
    /\ UNCHANGED <<bus, tickets, notices, shown, dropped>>

RelayBusy(i) == i \in DOMAIN events /\ relays[i].pc \notin {"skipped", "done"}
HookBusy(k) == hooks[k].pc # "done"
\* A restart cuts the handlers of escalations and of webhooks off.
BridgeRestart ==
    /\ dropped' = dropped \cup {ConvAt(i) : i \in {j \in Tasks : RelayBusy(j)}}
                     \cup {tickets[notices[k].ext].conv : k \in {n \in DOMAIN hooks : HookBusy(n)}}
    /\ relays' = [i \in Tasks |-> IF RelayBusy(i) THEN [relays[i] EXCEPT !.pc = "done"] ELSE relays[i]]
    /\ hooks' = [k \in DOMAIN hooks |-> [hooks[k] EXCEPT !.pc = "done"]]
    /\ UNCHANGED <<refs, tickets, notices, shown, tangled>>

RelayStep(i) == SkipRelay(i) \/ ReadRef(i) \/ Gather(i) \/ Send(i) \/ SaveRef(i) \/ RefTaken(i)
HookStep(k) == FindRef(k) \/ Mirror(k) \/ CheckReply(k) \/ StoreReply(k) \/ MarkHeard(k)
BridgeNext ==
    \/ \E i \in Tasks : RelayStep(i) \/ SendFails(i)
    \/ \E t \in DOMAIN tickets : TurnTicket(t) \/ ReplyTo(t)
    \/ \E k \in DOMAIN hooks : HookStep(k) \/ Redeliver(k)

(***************************************************************************)
(* Properties.                                                              *)
(***************************************************************************)
\* The cursor never runs ahead of the helpdesk: every message up to it is in the
\* ticket the conversation points at, whatever handlers overlap, save old copies,
\* are cut off, or have their calls refused or answered too late.
NothingUntold ==
    \A c \in Convs : refs[c].ext # 0 =>
        /\ refs[c].ext \in DOMAIN tickets
        /\ 1..refs[c].told \subseteq tickets[refs[c].ext].msgs

\* A helpdesk reply with an id is stored for the shopper once, however often and in whatever
\* order its webhook comes, unless two handlers of the conversation overlapped or
\* one was cut off between the reply and its cursor.
ReplyOnce ==
    \A k \in DOMAIN notices : notices[k].reply # 0 =>
        \/ shown[notices[k].reply] <= 1
        \/ tickets[notices[k].ext].conv \in tangled \cup dropped

\* A conversation gets another ticket only once the helpdesk has said that the one
\* before was closed, unless two handlers of it overlapped or an answer was lost.
NewTicketAfterClose ==
    \A s, t \in DOMAIN tickets :
        s < t /\ tickets[s].conv = tickets[t].conv /\ tickets[s].conv \notin tangled \cup dropped
            => \E k \in DOMAIN notices : notices[k].ext = s /\ notices[k].status = "closed"

\* Every conversation comes to have a ticket that is escalated while its shopper's
\* email and the helpdesk's credentials are known, though one call to the helpdesk
\* fails, other handlers of it overlap and other escalations of it are skipped.
EscalationReachesHelpdesk ==
    []<>("tickets" \in setup.parts =>
            \A i \in Tasks : Escalated(i) =>
                \/ relays[i].pc = "skipped"
                \/ ConvAt(i) \in dropped
                \/ refs[ConvAt(i)].ext # 0)
=============================================================================
