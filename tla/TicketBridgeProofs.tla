-------------------------- MODULE TicketBridgeProofs --------------------------
(***************************************************************************)
(* The steps of the helpdesk bridge keep its types, keep the cursor of every *)
(* conversation behind what its ticket holds, store a reply once, and open   *)
(* another ticket only after a close.                                       *)
(***************************************************************************)
EXTENDS TicketBridge, TLAPS

(***************************************************************************)
(* Types.                                                                   *)
(***************************************************************************)
LEMMA SentIsHook == Sent \in Hook
BY BusAssumption DEF Sent, Hook, NoRef, Ref

LEMMA NoRefIsRef == NoRef \in Ref
BY DEF NoRef, Ref

LEMMA EventConv ==
    ASSUME BusTypeOK, NEW i \in DOMAIN events
    PROVE  ConvAt(i) \in Convs /\ convs[ConvAt(i)].said \in Nat
<1>1. events \in Seq(Event) /\ convs \in [Convs -> Conv]
    BY DEF BusTypeOK
<1>0. events[i] \in Event
    BY <1>1
<1>2. events[i].conv \in Convs
    BY <1>0 DEF Event
<1>3. convs[events[i].conv] \in Conv
    BY <1>1, <1>2
<1>. QED BY <1>2, <1>3 DEF ConvAt, Conv

\* The newest of what goes out is one of it.
LEMMA NewestGoesOut ==
    ASSUME NEW copy \in Ref, NEW said \in Nat, Outgoing(copy, said) # {}
    PROVE  /\ Newest(Outgoing(copy, said)) \in Outgoing(copy, said)
           /\ Newest(Outgoing(copy, said)) \in Nat
<1>. DEFINE limit == IF Appends(copy) THEN copy.told + AppendCap ELSE TranscriptCap
            top == IF said <= limit THEN said ELSE limit
            S == Outgoing(copy, said)
<1>0. copy.told \in Nat /\ AppendCap \in Nat \ {0} /\ TranscriptCap \in Nat \ {0}
    BY BridgeAssumption DEF Ref
<1>1. \A m \in S : m \in 1..said /\ m <= limit
    BY <1>0 DEF Outgoing
<1>2. top \in S
    BY <1>0, <1>1 DEF Outgoing
<1>3. \A n \in S : n <= top
    BY <1>0, <1>1
<1>4. \E m \in S : \A n \in S : n <= m
    BY <1>2, <1>3
<1>5. Newest(S) \in S
    BY <1>4 DEF Newest
<1>. QED BY <1>1, <1>5

\* A handler that has begun has its escalation, a webhook's handler its webhook, and
\* a webhook its ticket.
Placed ==
    /\ \A i \in Tasks : relays[i].pc # "read" => i \in DOMAIN events
    /\ Len(hooks) = Len(notices)
    /\ \A k \in DOMAIN notices : notices[k].ext \in DOMAIN tickets
BridgeTyped == BridgeTypeOK /\ Placed

LEMMA BridgeStarts == BridgeInit => BridgeTyped
<1>. SUFFICES ASSUME BridgeInit PROVE BridgeTyped
    OBVIOUS
<1>1. Waiting \in Relay
    BY NoRefIsRef DEF Waiting, Relay
<1>. QED BY <1>1, NoRefIsRef DEF BridgeInit, BridgeTyped, BridgeTypeOK, Placed, Waiting

\* A step that changes relays alone, and only those with an escalation.
LEMMA RelaysMove ==
    ASSUME BusTypeOK, BridgeTyped, NEW i \in Tasks, NEW r \in Relay,
           r.pc = "read" \/ i \in DOMAIN events,
           relays' = [relays EXCEPT ![i] = r], tangled' \subseteq Convs, dropped' \subseteq Convs,
           UNCHANGED <<events, refs, tickets, notices, hooks, shown>>
    PROVE  BridgeTyped'
<1>1. relays' \in [Tasks -> Relay]
    BY DEF BridgeTyped, BridgeTypeOK
<1>2. \A j \in Tasks : relays'[j].pc # "read" => j \in DOMAIN events
    BY DEF BridgeTyped, BridgeTypeOK, Placed
<1>. QED BY <1>1, <1>2 DEF BridgeTyped, BridgeTypeOK, Placed

LEMMA RelayIsRelay ==
    ASSUME BridgeTyped, NEW i \in Tasks
    PROVE  /\ relays[i] \in Relay /\ relays[i].copy \in Ref /\ relays[i].last \in Nat
           /\ relays[i].ext \in Nat
           /\ relays[i] = [pc |-> relays[i].pc, copy |-> relays[i].copy, last |-> relays[i].last,
                           ext |-> relays[i].ext, fresh |-> relays[i].fresh]
<1>1. relays[i] \in Relay
    BY DEF BridgeTyped, BridgeTypeOK
<1>. QED BY <1>1 DEF Relay

LEMMA SkipRelayTypes ==
    ASSUME BusTypeOK, BridgeTyped, NEW i \in Tasks, SkipRelay(i)
    PROVE  BridgeTyped'
<1>1. i \in DOMAIN events
    BY DEF SkipRelay, Relays, Escalated
<1>. DEFINE r == [relays[i] EXCEPT !.pc = "skipped"]
<1>2. r \in Relay
    BY RelayIsRelay DEF Relay
<1>3. relays' = [relays EXCEPT ![i] = r]
    BY DEF SkipRelay
<1>. HIDE DEF r
<1>. QED BY <1>1, <1>2, <1>3, RelaysMove DEF SkipRelay, bus, BridgeTyped, BridgeTypeOK

LEMMA ReadRefTypes ==
    ASSUME BusTypeOK, BridgeTyped, NEW i \in Tasks, ReadRef(i)
    PROVE  BridgeTyped'
<1>1. i \in DOMAIN events
    BY DEF ReadRef, Relays, Escalated
<1>2. refs[ConvAt(i)] \in Ref
    BY <1>1, EventConv DEF BridgeTyped, BridgeTypeOK
<1>. DEFINE r == [relays[i] EXCEPT !.pc = "gather", !.copy = refs[ConvAt(i)]]
<1>3. r \in Relay
    BY <1>2, RelayIsRelay DEF Relay
<1>4. relays' = [relays EXCEPT ![i] = r]
    BY DEF ReadRef
<1>. HIDE DEF r
<1>. QED BY <1>1, <1>3, <1>4, RelaysMove DEF ReadRef, bus, BridgeTyped, BridgeTypeOK

LEMMA GatherTypes ==
    ASSUME BusTypeOK, BridgeTyped, NEW i \in Tasks, Gather(i)
    PROVE  BridgeTyped'
<1>1. i \in DOMAIN events
    BY DEF Gather, BridgeTyped, Placed
<1>. DEFINE out == Outgoing(relays[i].copy, convs[ConvAt(i)].said)
            r == IF out = {} THEN [relays[i] EXCEPT !.pc = "done"]
                 ELSE [relays[i] EXCEPT !.pc = "send", !.last = Newest(out)]
<1>2. out # {} => Newest(out) \in Nat
    BY <1>1, EventConv, RelayIsRelay, NewestGoesOut
<1>. HIDE DEF out
<1>3. r \in Relay
    BY <1>2, RelayIsRelay DEF Relay
<1>4. relays' = [relays EXCEPT ![i] = r]
    BY DEF Gather, out
<1>. HIDE DEF r
<1>. QED BY <1>1, <1>3, <1>4, RelaysMove DEF Gather, bus, BridgeTyped, BridgeTypeOK

\* A sequence with one entry replaced.
LEMMA EntryReplaced ==
    ASSUME NEW T, NEW s \in Seq(T), NEW x, NEW v, x \in DOMAIN s => v \in T
    PROVE  /\ [s EXCEPT ![x] = v] \in Seq(T)
           /\ DOMAIN [s EXCEPT ![x] = v] = DOMAIN s
           /\ Len([s EXCEPT ![x] = v]) = Len(s)
<1>. DEFINE u == [s EXCEPT ![x] = v]
<1>1. s \in [1..Len(s) -> T] /\ Len(s) \in Nat
    OBVIOUS
<1>2. u \in [1..Len(s) -> T]
    BY <1>1
<1>3. u \in Seq(T)
    BY <1>1, <1>2
<1>4. DOMAIN u = DOMAIN s
    OBVIOUS
<1>5. Len(u) = Len(s)
    BY <1>1, <1>3, <1>4
<1>. QED BY <1>3, <1>4, <1>5

\* What the helpdesk has received: its tickets, none of them gone.
LEMMA ReceiveTypes ==
    ASSUME BusTypeOK, BridgeTyped, NEW i \in Tasks, i \in DOMAIN events
    PROVE  /\ Receive(i) \in Seq(Ticket)
           /\ DOMAIN tickets \subseteq DOMAIN Receive(i)
           /\ Gathered(i) \in SUBSET Nat
<1>0. tickets \in Seq(Ticket) /\ ConvAt(i) \in Convs
    BY EventConv DEF BridgeTyped, BridgeTypeOK
<1>1. Gathered(i) \in SUBSET Nat
    BY RelayIsRelay DEF Gathered, Outgoing
<1>2. CASE Appends(relays[i].copy)
    <2>. DEFINE x == relays[i].copy.ext
                u == [tickets EXCEPT ![x].msgs = @ \cup Gathered(i)]
    <2>1. Receive(i) = u
        BY <1>2 DEF Receive
    <2>2. ASSUME x \in DOMAIN tickets PROVE [tickets[x] EXCEPT !.msgs = @ \cup Gathered(i)] \in Ticket
        <3>1. tickets[x] \in Ticket
            BY <1>0, <2>2
        <3>. QED BY <3>1, <1>1 DEF Ticket
    <2>. DEFINE v == [tickets[x] EXCEPT !.msgs = @ \cup Gathered(i)]
    <2>3. u = [tickets EXCEPT ![x] = v]
        OBVIOUS
    <2>. HIDE DEF u, v
    <2>4. u \in Seq(Ticket) /\ DOMAIN u = DOMAIN tickets
        BY <1>0, <2>2, <2>3, EntryReplaced DEF v
    <2>. QED BY <1>1, <2>1, <2>4
<1>3. CASE ~Appends(relays[i].copy)
    <2>. DEFINE t == [conv |-> ConvAt(i), open |-> TRUE, msgs |-> Gathered(i)]
    <2>1. t \in Ticket
        BY <1>0, <1>1 DEF Ticket
    <2>2. Receive(i) = Append(tickets, t)
        BY <1>3 DEF Receive
    <2>. HIDE DEF t
    <2>. QED BY <1>0, <1>1, <2>1, <2>2
<1>. QED BY <1>2, <1>3

\* A step of a relay that also calls the helpdesk.
LEMMA RelayCalls ==
    ASSUME BusTypeOK, BridgeTyped, NEW i \in Tasks, NEW r \in Relay, i \in DOMAIN events,
           relays' = [relays EXCEPT ![i] = r], tickets' = Receive(i),
           tangled' \subseteq Convs, dropped' \subseteq Convs,
           UNCHANGED <<events, refs, notices, hooks, shown>>
    PROVE  BridgeTyped'
<1>1. relays' \in [Tasks -> Relay]
    BY DEF BridgeTyped, BridgeTypeOK
<1>2. \A j \in Tasks : relays'[j].pc # "read" => j \in DOMAIN events
    BY DEF BridgeTyped, BridgeTypeOK, Placed
<1>3. tickets' \in Seq(Ticket) /\ DOMAIN tickets \subseteq DOMAIN tickets'
    BY ReceiveTypes
<1>. QED BY <1>1, <1>2, <1>3 DEF BridgeTyped, BridgeTypeOK, Placed

LEMMA SendTypes ==
    ASSUME BusTypeOK, BridgeTyped, NEW i \in Tasks, Send(i)
    PROVE  BridgeTyped'
<1>1. i \in DOMAIN events
    BY DEF Send, Sending, BridgeTyped, Placed
<1>. DEFINE x == IF Appends(relays[i].copy) THEN relays[i].copy.ext ELSE Len(tickets) + 1
            r == [relays[i] EXCEPT !.pc = "save", !.ext = x]
<1>2. x \in Nat
    BY RelayIsRelay DEF Ref, BridgeTyped, BridgeTypeOK
<1>. HIDE DEF x
<1>3. r \in Relay
    BY <1>2, RelayIsRelay DEF Relay
<1>4. relays' = [relays EXCEPT ![i] = r]
    BY DEF Send, x
<1>5. tangled' \subseteq Convs
    BY <1>1, EventConv DEF Send, BridgeTyped, BridgeTypeOK
<1>. HIDE DEF r
<1>. QED BY <1>1, <1>3, <1>4, <1>5, RelayCalls DEF Send, bus, BridgeTyped, BridgeTypeOK

LEMMA SendFailsTypes ==
    ASSUME BusTypeOK, BridgeTyped, NEW i \in Tasks, SendFails(i)
    PROVE  BridgeTyped'
<1>1. i \in DOMAIN events
    BY DEF SendFails, Sending, BridgeTyped, Placed
<1>. DEFINE r == [relays[i] EXCEPT !.pc = IF relays[i].pc = "send" THEN "again" ELSE "done"]
<1>3. r \in Relay
    BY RelayIsRelay DEF Relay
<1>4. relays' = [relays EXCEPT ![i] = r]
    BY DEF SendFails, Retry
<1>5. tangled' \subseteq Convs /\ dropped' \subseteq Convs
    BY <1>1, EventConv DEF SendFails, BridgeTyped, BridgeTypeOK
<1>. HIDE DEF r
<1>6. CASE tickets' = tickets
    BY <1>1, <1>3, <1>4, <1>5, <1>6, RelaysMove DEF SendFails
<1>7. CASE tickets' = Receive(i)
    BY <1>1, <1>3, <1>4, <1>5, <1>7, RelayCalls DEF SendFails
<1>. QED BY <1>6, <1>7 DEF SendFails

LEMMA RefTakenTypes ==
    ASSUME BusTypeOK, BridgeTyped, NEW i \in Tasks, RefTaken(i)
    PROVE  BridgeTyped'
<1>1. i \in DOMAIN events
    BY DEF RefTaken, BridgeTyped, Placed
<1>. DEFINE r == [relays[i] EXCEPT !.pc = "done"]
<1>3. r \in Relay
    BY RelayIsRelay DEF Relay
<1>4. relays' = [relays EXCEPT ![i] = r]
    BY DEF RefTaken
<1>5. tangled' \subseteq Convs
    BY <1>1, EventConv DEF RefTaken, BridgeTyped, BridgeTypeOK
<1>. HIDE DEF r
<1>. QED BY <1>1, <1>3, <1>4, <1>5, RelaysMove DEF RefTaken, bus, BridgeTyped, BridgeTypeOK

\* Making copies old changes no handler but for its freshness.
LEMMA OldIsTyped ==
    ASSUME BusTypeOK, BridgeTyped, NEW c \in Convs
    PROVE  /\ OldRelays(c) \in [Tasks -> Relay]
           /\ \A i \in Tasks : /\ OldRelays(c)[i].pc = relays[i].pc
                               /\ OldRelays(c)[i].copy = relays[i].copy
                               /\ OldRelays(c)[i].last = relays[i].last
                               /\ OldRelays(c)[i].ext = relays[i].ext
           /\ OldHooks(c) \in Seq(Hook)
           /\ DOMAIN OldHooks(c) = DOMAIN hooks /\ Len(OldHooks(c)) = Len(hooks)
           /\ \A k \in DOMAIN hooks : OldHooks(c)[k].copy = hooks[k].copy
<1>1. \A i \in Tasks : [relays[i] EXCEPT !.fresh = FALSE] \in Relay /\ relays[i] \in Relay
    BY RelayIsRelay DEF Relay
<1>2. OldRelays(c) \in [Tasks -> Relay]
    BY <1>1 DEF OldRelays
<1>3. \A i \in Tasks : /\ OldRelays(c)[i].pc = relays[i].pc
                       /\ OldRelays(c)[i].copy = relays[i].copy
                       /\ OldRelays(c)[i].last = relays[i].last
                       /\ OldRelays(c)[i].ext = relays[i].ext
    BY <1>1 DEF OldRelays, Relay
<1>4. hooks \in Seq(Hook) /\ DOMAIN hooks = 1..Len(hooks) /\ Len(hooks) \in Nat
    BY DEF BridgeTyped, BridgeTypeOK
<1>5. \A k \in DOMAIN hooks : hooks[k] \in Hook
    BY <1>4
<1>6. \A k \in DOMAIN hooks : [hooks[k] EXCEPT !.fresh = FALSE] \in Hook
    BY <1>5 DEF Hook
<1>7. OldHooks(c) \in [1..Len(hooks) -> Hook]
    BY <1>4, <1>5, <1>6 DEF OldHooks
<1>8. OldHooks(c) \in Seq(Hook)
    BY <1>4, <1>7
<1>9. DOMAIN OldHooks(c) = DOMAIN hooks
    BY DEF OldHooks
<1>10. Len(OldHooks(c)) = Len(hooks)
    BY <1>4, <1>8, <1>9
<1>11. \A k \in DOMAIN hooks : OldHooks(c)[k].copy = hooks[k].copy
    BY <1>5 DEF OldHooks, Hook
<1>. QED BY <1>2, <1>3, <1>8, <1>9, <1>10, <1>11

LEMMA SaveRefTypes ==
    ASSUME BusTypeOK, BridgeTyped, NEW i \in Tasks, SaveRef(i)
    PROVE  BridgeTyped'
<1>. DEFINE c == ConvAt(i)
<1>1. i \in DOMAIN events
    BY DEF SaveRef, BridgeTyped, Placed
<1>2. c \in Convs
    BY <1>1, EventConv
<1>3. RowOf(i) \in Ref
    BY RelayIsRelay DEF RowOf, Ref
<1>4. [OldRelays(c)[i] EXCEPT !.pc = "done"] \in Relay
    <2>1. OldRelays(c)[i] \in Relay
        BY <1>2, OldIsTyped
    <2>. QED BY <2>1 DEF Relay
<1>5. relays' \in [Tasks -> Relay]
    <2>1. relays' = [OldRelays(c) EXCEPT ![i] = [OldRelays(c)[i] EXCEPT !.pc = "done"]]
        BY DEF SaveRef
    <2>. QED BY <2>1, <1>2, <1>4, OldIsTyped
<1>6. \A j \in Tasks : relays'[j].pc # "read" => j \in DOMAIN events'
    BY <1>1, <1>2, OldIsTyped DEF SaveRef, bus, BridgeTyped, Placed
<1>7. hooks' \in Seq(Hook) /\ Len(hooks') = Len(notices')
    BY <1>2, OldIsTyped DEF SaveRef, BridgeTyped, Placed
<1>8. refs' \in [Convs -> Ref] /\ tangled' \subseteq Convs
    BY <1>2, <1>3 DEF SaveRef, Tangle, BridgeTyped, BridgeTypeOK
<1>. QED BY <1>5, <1>6, <1>7, <1>8 DEF SaveRef, BridgeTyped, BridgeTypeOK, Placed

LEMMA HookIsHook ==
    ASSUME BridgeTyped, NEW k \in DOMAIN hooks
    PROVE  /\ hooks[k] \in Hook /\ hooks[k].copy \in Ref /\ hooks[k].conv \in Convs
           /\ k \in DOMAIN notices /\ notices[k] \in Notice /\ notices[k].ext \in DOMAIN tickets
           /\ notices[k].reply \in Nat
<1>1. hooks \in Seq(Hook) /\ notices \in Seq(Notice) /\ Len(hooks) = Len(notices)
    BY DEF BridgeTyped, BridgeTypeOK, Placed
<1>2. hooks[k] \in Hook /\ k \in DOMAIN notices
    BY <1>1
<1>3. notices[k] \in Notice
    BY <1>1, <1>2
<1>4. notices[k].ext \in DOMAIN tickets
    BY <1>2 DEF BridgeTyped, Placed
<1>. QED BY <1>2, <1>3, <1>4 DEF Hook, Notice

\* A step of a webhook's handler that saves nothing.
LEMMA HookMoves ==
    ASSUME BusTypeOK, BridgeTyped, NEW k \in DOMAIN hooks, NEW h \in Hook,
           hooks' = [hooks EXCEPT ![k] = h], shown' \in Seq(Nat),
           tangled' \subseteq Convs, dropped' \subseteq Convs,
           UNCHANGED <<events, refs, tickets, relays, notices>>
    PROVE  BridgeTyped'
<1>1. hooks \in Seq(Hook)
    BY DEF BridgeTyped, BridgeTypeOK
<1>2. hooks' \in Seq(Hook) /\ Len(hooks') = Len(hooks)
    BY <1>1, EntryReplaced
<1>. QED BY <1>2 DEF BridgeTyped, BridgeTypeOK, Placed

LEMMA FindRefTypes ==
    ASSUME BusTypeOK, BridgeTyped, NEW k \in DOMAIN hooks, FindRef(k)
    PROVE  BridgeTyped'
<1>1. CASE Owners(notices[k].ext) = {}
    <2>. DEFINE h == [hooks[k] EXCEPT !.pc = "done"]
    <2>1. h \in Hook
        BY HookIsHook DEF Hook
    <2>2. hooks' = [hooks EXCEPT ![k] = h]
        BY <1>1 DEF FindRef
    <2>. HIDE DEF h
    <2>. QED BY <2>1, <2>2, HookMoves DEF FindRef, bus, BridgeTyped, BridgeTypeOK
<1>2. CASE Owners(notices[k].ext) # {}
    <2>. DEFINE c == CHOOSE d \in Owners(notices[k].ext) : TRUE
                h == [pc |-> "mirror", conv |-> c, copy |-> refs[c], fresh |-> TRUE]
    <2>0. c \in Owners(notices[k].ext)
        BY <1>2
    <2>1. c \in Convs /\ refs[c] \in Ref
        BY <2>0 DEF Owners, BridgeTyped, BridgeTypeOK
    <2>2. hooks' = [hooks EXCEPT ![k] = h]
        BY <1>2 DEF FindRef
    <2>. HIDE DEF c
    <2>3. h \in Hook
        BY <2>1 DEF Hook
    <2>. HIDE DEF h
    <2>. QED BY <2>2, <2>3, HookMoves DEF FindRef, bus, BridgeTyped, BridgeTypeOK
<1>. QED BY <1>1, <1>2

LEMMA CheckReplyTypes ==
    ASSUME BusTypeOK, BridgeTyped, NEW k \in DOMAIN hooks, CheckReply(k)
    PROVE  BridgeTyped'
<1>1. PICK pc \in {"store", "done"} : hooks' = [hooks EXCEPT ![k].pc = pc]
    BY DEF CheckReply
<1>. DEFINE h == [hooks[k] EXCEPT !.pc = pc]
<1>2. h \in Hook
    BY HookIsHook DEF Hook
<1>3. hooks' = [hooks EXCEPT ![k] = h]
    BY <1>1
<1>. HIDE DEF h
<1>. QED BY <1>2, <1>3, HookMoves DEF CheckReply, bus, BridgeTyped, BridgeTypeOK

LEMMA StoreReplyTypes ==
    ASSUME BusTypeOK, BridgeTyped, NEW k \in DOMAIN hooks, StoreReply(k)
    PROVE  BridgeTyped'
<1>. DEFINE h == [hooks[k] EXCEPT !.pc = "mark"]
<1>2. h \in Hook
    BY HookIsHook DEF Hook
<1>3. hooks' = [hooks EXCEPT ![k] = h]
    BY DEF StoreReply
<1>. DEFINE n == notices[k].reply
<1>4. shown \in Seq(Nat)
    BY DEF BridgeTyped, BridgeTypeOK
<1>5. shown' \in Seq(Nat)
    <2>1. n \in DOMAIN shown => shown[n] + 1 \in Nat
        BY <1>4
    <2>2. shown' = [shown EXCEPT ![n] = shown[n] + 1]
        BY DEF StoreReply
    <2>. HIDE DEF n
    <2>. QED BY <1>4, <2>1, <2>2, EntryReplaced
<1>6. tangled' \subseteq Convs
    BY HookIsHook DEF StoreReply, BridgeTyped, BridgeTypeOK
<1>. HIDE DEF h
<1>. QED BY <1>2, <1>3, <1>5, <1>6, HookMoves DEF StoreReply, bus, BridgeTyped, BridgeTypeOK

\* A webhook's handler that saves its copy.
LEMMA SaveHookTypes ==
    ASSUME BusTypeOK, BridgeTyped, NEW k \in DOMAIN hooks, NEW pc \in {"check", "done"},
           NEW copy \in Ref, SaveHook(k, pc, copy),
           UNCHANGED <<events, tickets, notices, shown, dropped>>
    PROVE  BridgeTyped'
<1>. DEFINE c == hooks[k].conv
            h == [hooks[k] EXCEPT !.pc = pc, !.copy = copy]
<1>1. c \in Convs /\ h \in Hook
    BY HookIsHook DEF Hook
<1>2. refs' \in [Convs -> Ref]
    BY <1>1 DEF SaveHook, BridgeTyped, BridgeTypeOK
<1>3. relays' \in [Tasks -> Relay] /\ \A i \in Tasks : relays'[i].pc = relays[i].pc
    BY <1>1, OldIsTyped DEF SaveHook
<1>4. hooks' \in Seq(Hook) /\ Len(hooks') = Len(hooks)
    <2>1. hooks' = [OldHooks(c) EXCEPT ![k] = h]
        BY DEF SaveHook
    <2>2. OldHooks(c) \in Seq(Hook) /\ Len(OldHooks(c)) = Len(hooks)
        BY <1>1, OldIsTyped
    <2>. HIDE DEF h, c
    <2>. QED BY <1>1, <2>1, <2>2, EntryReplaced
<1>5. tangled' \subseteq Convs
    BY <1>1 DEF SaveHook, Tangle, BridgeTyped, BridgeTypeOK
<1>. QED BY <1>2, <1>3, <1>4, <1>5 DEF BridgeTyped, BridgeTypeOK, Placed

LEMMA MirrorTypes ==
    ASSUME BusTypeOK, BridgeTyped, NEW k \in DOMAIN hooks, Mirror(k)
    PROVE  BridgeTyped'
<1>. DEFINE copy == [hooks[k].copy EXCEPT !.status = notices[k].status]
<1>1. copy \in Ref
    BY HookIsHook DEF Ref, Notice, Mirror
<1>2. SaveHook(k, "check", copy)
    BY DEF Mirror
<1>. HIDE DEF copy
<1>. QED BY <1>1, <1>2, SaveHookTypes DEF Mirror, bus

LEMMA MarkHeardTypes ==
    ASSUME BusTypeOK, BridgeTyped, NEW k \in DOMAIN hooks, MarkHeard(k)
    PROVE  BridgeTyped'
<1>. DEFINE copy == [hooks[k].copy EXCEPT !.heard = notices[k].reply]
<1>1. copy \in Ref
    BY HookIsHook DEF Ref
<1>2. SaveHook(k, "done", copy)
    BY DEF MarkHeard
<1>. HIDE DEF copy
<1>. QED BY <1>1, <1>2, SaveHookTypes DEF MarkHeard, bus

\* The helpdesk sends a webhook about a ticket.
LEMMA PostTypes ==
    ASSUME BusTypeOK, BridgeTyped, NEW notice \in Notice, notice.ext \in DOMAIN tickets,
           Post(notice), tickets' \in Seq(Ticket), DOMAIN tickets \subseteq DOMAIN tickets',
           shown' \in Seq(Nat), UNCHANGED <<events, refs, relays, tangled, dropped>>
    PROVE  BridgeTyped'
<1>1. hooks \in Seq(Hook) /\ notices \in Seq(Notice) /\ Len(hooks) = Len(notices)
    BY DEF BridgeTyped, BridgeTypeOK, Placed
<1>2. hooks' = Append(hooks, Sent) /\ notices' = Append(notices, notice)
    BY DEF Post
<1>3. hooks' \in Seq(Hook) /\ notices' \in Seq(Notice) /\ Len(hooks') = Len(notices')
    BY <1>1, <1>2, SentIsHook
<1>4. \A k \in DOMAIN notices' : notices'[k].ext \in DOMAIN tickets'
    <2>. SUFFICES ASSUME NEW k \in DOMAIN notices' PROVE notices'[k].ext \in DOMAIN tickets'
        OBVIOUS
    <2>1. k \in DOMAIN notices => notices'[k] = notices[k]
        BY <1>1, <1>2
    <2>2. k \notin DOMAIN notices => notices'[k] = notice
        BY <1>1, <1>2
    <2>. QED BY <2>1, <2>2 DEF BridgeTyped, Placed
<1>. QED BY <1>3, <1>4 DEF BridgeTyped, BridgeTypeOK, Placed

LEMMA TurnTicketTypes ==
    ASSUME BusTypeOK, BridgeTyped, NEW t \in DOMAIN tickets, TurnTicket(t)
    PROVE  BridgeTyped'
<1>0. tickets \in Seq(Ticket)
    BY DEF BridgeTyped, BridgeTypeOK
<1>1. tickets[t] \in Ticket /\ t \in Nat
    BY <1>0
<1>. DEFINE v == [tickets[t] EXCEPT !.open = ~@]
            notice == [ext |-> t, status |-> Turned(t), reply |-> 0]
<1>2. v \in Ticket
    BY <1>1 DEF Ticket
<1>3. tickets' = [tickets EXCEPT ![t] = v]
    BY DEF TurnTicket
<1>4. notice \in Notice /\ notice.ext = t
    BY <1>1 DEF Notice, Turned
<1>5. Post(notice)
    BY DEF TurnTicket
<1>. HIDE DEF v, notice
<1>6. tickets' \in Seq(Ticket) /\ DOMAIN tickets' = DOMAIN tickets
    BY <1>0, <1>2, <1>3, EntryReplaced
<1>. QED BY <1>4, <1>5, <1>6, PostTypes DEF TurnTicket, bus, BridgeTyped, BridgeTypeOK

LEMMA ReplyToTypes ==
    ASSUME BusTypeOK, BridgeTyped, NEW t \in DOMAIN tickets, ReplyTo(t)
    PROVE  BridgeTyped'
<1>0. tickets \in Seq(Ticket) /\ shown \in Seq(Nat)
    BY DEF BridgeTyped, BridgeTypeOK
<1>1. t \in Nat /\ Len(shown) + 1 \in Nat
    BY <1>0
<1>2. PICK status \in {"none", "open", "closed"} :
          Post([ext |-> t, status |-> status, reply |-> Len(shown) + 1])
    BY DEF ReplyTo
<1>. DEFINE notice == [ext |-> t, status |-> status, reply |-> Len(shown) + 1]
<1>3. notice \in Notice /\ notice.ext = t
    BY <1>1 DEF Notice
<1>4. Post(notice)
    BY <1>2
<1>5. shown' \in Seq(Nat)
    BY <1>0 DEF ReplyTo
<1>. HIDE DEF notice
<1>. QED BY <1>0, <1>3, <1>4, <1>5, PostTypes DEF ReplyTo, bus

LEMMA RedeliverTypes ==
    ASSUME BusTypeOK, BridgeTyped, NEW k \in DOMAIN hooks, Redeliver(k)
    PROVE  BridgeTyped'
BY HookIsHook, PostTypes DEF Redeliver, Spend, BridgeTyped, BridgeTypeOK

LEMMA BridgeRestartTypes ==
    ASSUME BusTypeOK, BridgeTyped, BridgeRestart, UNCHANGED events
    PROVE  BridgeTyped'
<1>1. relays' \in [Tasks -> Relay]
    <2>1. \A i \in Tasks : relays[i] \in Relay /\ [relays[i] EXCEPT !.pc = "done"] \in Relay
        BY RelayIsRelay DEF Relay
    <2>. QED BY <2>1 DEF BridgeRestart
<1>2. \A i \in Tasks : relays'[i].pc # "read" => i \in DOMAIN events
    BY RelayIsRelay DEF BridgeRestart, RelayBusy, BridgeTyped, Placed
<1>3. hooks' \in Seq(Hook) /\ Len(hooks') = Len(hooks)
    <2>0. hooks \in Seq(Hook) /\ DOMAIN hooks = 1..Len(hooks) /\ Len(hooks) \in Nat
        BY DEF BridgeTyped, BridgeTypeOK
    <2>1. \A k \in DOMAIN hooks : [hooks[k] EXCEPT !.pc = "done"] \in Hook
        BY HookIsHook DEF Hook
    <2>2. hooks' \in [1..Len(hooks) -> Hook]
        BY <2>0, <2>1 DEF BridgeRestart
    <2>. QED BY <2>0, <2>2
<1>4. dropped' \subseteq Convs
    <2>1. \A i \in Tasks : RelayBusy(i) => ConvAt(i) \in Convs
        BY EventConv DEF RelayBusy
    <2>2. \A k \in DOMAIN hooks : tickets[notices[k].ext].conv \in Convs
        <3>. SUFFICES ASSUME NEW k \in DOMAIN hooks PROVE tickets[notices[k].ext].conv \in Convs
            OBVIOUS
        <3>1. tickets \in Seq(Ticket) /\ notices[k].ext \in DOMAIN tickets
            BY HookIsHook DEF BridgeTyped, BridgeTypeOK
        <3>2. tickets[notices[k].ext] \in Ticket
            BY <3>1
        <3>. QED BY <3>2 DEF Ticket
    <2>. QED BY <2>1, <2>2 DEF BridgeRestart, BridgeTyped, BridgeTypeOK
<1>. QED BY <1>1, <1>2, <1>3, <1>4 DEF BridgeRestart, BridgeTyped, BridgeTypeOK, Placed

\* Every step of the bridge keeps its types.
LEMMA BridgeNextTypes ==
    ASSUME BusTypeOK, BridgeTyped, BridgeNext
    PROVE  BridgeTyped'
<1>1. ASSUME NEW i \in Tasks, RelayStep(i) PROVE BridgeTyped'
    BY <1>1, SkipRelayTypes, ReadRefTypes, GatherTypes, SendTypes, SaveRefTypes, RefTakenTypes DEF RelayStep
<1>2. ASSUME NEW i \in Tasks, SendFails(i) PROVE BridgeTyped'
    BY <1>2, SendFailsTypes
<1>3. ASSUME NEW t \in DOMAIN tickets, TurnTicket(t) \/ ReplyTo(t) PROVE BridgeTyped'
    BY <1>3, TurnTicketTypes, ReplyToTypes
<1>4. ASSUME NEW k \in DOMAIN hooks, HookStep(k) PROVE BridgeTyped'
    BY <1>4, FindRefTypes, MirrorTypes, CheckReplyTypes, StoreReplyTypes, MarkHeardTypes
       DEF HookStep
<1>5. ASSUME NEW k \in DOMAIN hooks, Redeliver(k) PROVE BridgeTyped'
    BY <1>5, RedeliverTypes
<1>. QED BY <1>1, <1>2, <1>3, <1>4, <1>5 DEF BridgeNext

(***************************************************************************)
(* The cursor.  What a row says was told, the ticket it points at holds; so  *)
(* does every copy of a row, for a copy is saved whole; and a handler that   *)
(* is about to save has had its messages received.                          *)
(***************************************************************************)
Told(row, t) == row.ext # 0 => row.ext \in DOMAIN t /\ 1..row.told \subseteq t[row.ext].msgs
Outbound(r) == r.pc \in {"send", "again"} => r.last \in Outgoing(r.copy, r.last)
Received(r, t) == r.pc = "save" => r.ext \in DOMAIN t /\ 1..r.last \subseteq t[r.ext].msgs
RelayTold(r, t) == Told(r.copy, t) /\ Outbound(r) /\ Received(r, t)

UntoldInv ==
    /\ \A c \in Convs : Told(refs[c], tickets)
    /\ \A i \in Tasks : RelayTold(relays[i], tickets)
    /\ \A k \in DOMAIN hooks : Told(hooks[k].copy, tickets)

LEMMA UntoldSuffices == UntoldInv => NothingUntold
BY DEF UntoldInv, NothingUntold, Told

LEMMA UntoldStarts == BridgeInit => UntoldInv
BY DEF BridgeInit, UntoldInv, RelayTold, Told, Outbound, Received, Waiting, NoRef

\* Tickets lose nothing.
Grow(t, u) == DOMAIN t \subseteq DOMAIN u /\ \A x \in DOMAIN t : t[x].msgs \subseteq u[x].msgs
LEMMA GrownTold ==
    ASSUME NEW t, NEW u, Grow(t, u)
    PROVE  /\ \A row : Told(row, t) => Told(row, u)
           /\ \A r : RelayTold(r, t) => RelayTold(r, u)
<1>1. \A row : Told(row, t) => Told(row, u)
    BY DEF Told, Grow
<1>2. \A r : Received(r, t) => Received(r, u)
    BY DEF Received, Grow
<1>. QED BY <1>1, <1>2 DEF RelayTold

\* A step that moves one relay and lets the tickets grow.
LEMMA RelayMoveUntold ==
    ASSUME BridgeTyped, UntoldInv, NEW i \in Tasks, NEW r, relays' = [relays EXCEPT ![i] = r],
           Grow(tickets, tickets'), RelayTold(r, tickets'), UNCHANGED <<refs, hooks>>
    PROVE  UntoldInv'
<1>1. \A j \in Tasks : RelayTold(relays'[j], tickets')
    <2>. SUFFICES ASSUME NEW j \in Tasks PROVE RelayTold(relays'[j], tickets')
        OBVIOUS
    <2>1. CASE j = i
        BY <2>1 DEF BridgeTyped, BridgeTypeOK
    <2>2. CASE j # i
        <3>1. relays'[j] = relays[j]
            BY <2>2 DEF BridgeTyped, BridgeTypeOK
        <3>. QED BY <3>1, GrownTold DEF UntoldInv
    <2>. QED BY <2>1, <2>2
<1>2. \A c \in Convs : Told(refs'[c], tickets')
    BY GrownTold DEF UntoldInv
<1>3. \A k \in DOMAIN hooks' : Told(hooks'[k].copy, tickets')
    BY GrownTold DEF UntoldInv
<1>. QED BY <1>1, <1>2, <1>3 DEF UntoldInv

LEMMA SameGrows == ASSUME UNCHANGED tickets PROVE Grow(tickets, tickets')
BY DEF Grow

LEMMA SkipRelayUntold ==
    ASSUME BusTypeOK, BridgeTyped, UntoldInv, NEW i \in Tasks, SkipRelay(i)
    PROVE  UntoldInv'
<1>. DEFINE r == [relays[i] EXCEPT !.pc = "skipped"]
<1>1. relays' = [relays EXCEPT ![i] = r]
    BY DEF SkipRelay
<1>2. r.pc = "skipped" /\ r.copy = relays[i].copy
    BY RelayIsRelay DEF Relay
<1>. HIDE DEF r
<1>3. RelayTold(r, tickets)
    BY <1>2 DEF RelayTold, UntoldInv, Outbound, Received
<1>. QED BY <1>1, <1>3, RelayMoveUntold, SameGrows DEF SkipRelay

LEMMA ReadRefUntold ==
    ASSUME BusTypeOK, BridgeTyped, UntoldInv, NEW i \in Tasks, ReadRef(i)
    PROVE  UntoldInv'
<1>1. ConvAt(i) \in Convs
    BY EventConv DEF ReadRef, Relays, Escalated
<1>. DEFINE r == [relays[i] EXCEPT !.pc = "gather", !.copy = refs[ConvAt(i)]]
<1>2. relays' = [relays EXCEPT ![i] = r]
    BY DEF ReadRef
<1>3. r.pc = "gather" /\ r.copy = refs[ConvAt(i)]
    BY RelayIsRelay DEF Relay
<1>4. RelayTold(r, tickets)
    BY <1>1, <1>3 DEF RelayTold, UntoldInv, Outbound, Received
<1>. HIDE DEF r
<1>. QED BY <1>2, <1>4, RelayMoveUntold, SameGrows DEF ReadRef

\* What goes out of a conversation goes out of it as it was when that was said.
LEMMA OutgoingThen ==
    ASSUME NEW copy \in Ref, NEW said \in Nat, NEW m \in Outgoing(copy, said)
    PROVE  m \in Outgoing(copy, m)
<1>1. m \in 1..said /\ m \in 1..m
    BY DEF Outgoing
<1>. QED BY <1>1 DEF Outgoing

LEMMA GatherUntold ==
    ASSUME BusTypeOK, BridgeTyped, UntoldInv, NEW i \in Tasks, Gather(i)
    PROVE  UntoldInv'
<1>1. i \in DOMAIN events
    BY DEF Gather, BridgeTyped, Placed
<1>. DEFINE said == convs[ConvAt(i)].said
            out == Outgoing(relays[i].copy, said)
            r == IF out = {} THEN [relays[i] EXCEPT !.pc = "done"]
                 ELSE [relays[i] EXCEPT !.pc = "send", !.last = Newest(out)]
<1>2. out # {} => Newest(out) \in out
    BY <1>1, EventConv, RelayIsRelay, NewestGoesOut
<1>3. out # {} => Newest(out) \in Outgoing(relays[i].copy, Newest(out))
    BY <1>1, <1>2, EventConv, RelayIsRelay, OutgoingThen
<1>. HIDE DEF out
<1>4. relays' = [relays EXCEPT ![i] = r]
    BY DEF Gather, out
<1>5. /\ r.copy = relays[i].copy
      /\ (r.pc = "done" \/ (r.pc = "send" /\ r.last = Newest(out) /\ out # {}))
    BY RelayIsRelay DEF Relay
<1>6. RelayTold(r, tickets)
    BY <1>3, <1>5 DEF RelayTold, UntoldInv, Outbound, Received
<1>. HIDE DEF r
<1>. QED BY <1>4, <1>6, RelayMoveUntold, SameGrows DEF Gather

\* The helpdesk has what went out, on top of what the copy says was told.
LEMMA ReceivedAll ==
    ASSUME BusTypeOK, BridgeTyped, UntoldInv, NEW i \in Tasks, Sending(i)
    PROVE  /\ Grow(tickets, Receive(i))
           /\ LET x == IF Appends(relays[i].copy) THEN relays[i].copy.ext ELSE Len(tickets) + 1
              IN  x \in DOMAIN Receive(i) /\ 1..relays[i].last \subseteq Receive(i)[x].msgs
<1>0. /\ tickets \in Seq(Ticket) /\ relays[i].copy \in Ref /\ relays[i].last \in Nat
      /\ relays[i].copy.told \in Nat /\ AppendCap \in Nat /\ TranscriptCap \in Nat
    BY RelayIsRelay, BridgeAssumption DEF BridgeTyped, BridgeTypeOK, Ref
<1>1. RelayTold(relays[i], tickets) /\ relays[i].last \in Gathered(i)
    BY DEF UntoldInv, RelayTold, Outbound, Sending, Gathered
<1>. DEFINE last == relays[i].last
            copy == relays[i].copy
<1>2. CASE Appends(copy)
    <2>. DEFINE x == copy.ext
                v == [tickets[x] EXCEPT !.msgs = @ \cup Gathered(i)]
                u == [tickets EXCEPT ![x] = v]
    <2>1. x \in DOMAIN tickets /\ 1..copy.told \subseteq tickets[x].msgs
        BY <1>1, <1>2 DEF RelayTold, Told, Appends
    <2>2. tickets[x] \in Ticket
        BY <1>0, <2>1
    <2>3. v.msgs = tickets[x].msgs \cup Gathered(i)
        BY <2>2 DEF Ticket
    <2>4. Receive(i) = u
        BY <1>2 DEF Receive
    <2>5. \A m \in 1..last : m <= copy.told \/ m \in Gathered(i)
        BY <1>0, <1>1, <1>2 DEF Gathered, Outgoing
    <2>6. 1..last \subseteq v.msgs
        BY <1>0, <2>1, <2>3, <2>5
    <2>7. u[x] = v /\ DOMAIN u = DOMAIN tickets /\ \A y \in DOMAIN tickets : y # x => u[y] = tickets[y]
        BY <2>1
    <2>. HIDE DEF u, v
    <2>8. Grow(tickets, u)
        BY <2>3, <2>7 DEF Grow
    <2>. QED BY <1>2, <2>1, <2>4, <2>6, <2>7, <2>8
<1>3. CASE ~Appends(copy)
    <2>. DEFINE t == [conv |-> ConvAt(i), open |-> TRUE, msgs |-> Gathered(i)]
                u == Append(tickets, t)
                x == Len(tickets) + 1
    <2>1. Receive(i) = u /\ t.msgs = Gathered(i)
        BY <1>3 DEF Receive
    <2>2. 1..last \subseteq Gathered(i)
        BY <1>0, <1>1, <1>3 DEF Gathered, Outgoing
    <2>. HIDE DEF t
    <2>3. u[x] = t /\ x \in DOMAIN u /\ DOMAIN tickets \subseteq DOMAIN u
          /\ \A y \in DOMAIN tickets : u[y] = tickets[y]
        BY <1>0
    <2>. HIDE DEF u
    <2>4. Grow(tickets, u)
        BY <2>3 DEF Grow
    <2>. QED BY <1>3, <2>1, <2>2, <2>3, <2>4
<1>. QED BY <1>2, <1>3

LEMMA SendUntold ==
    ASSUME BusTypeOK, BridgeTyped, UntoldInv, NEW i \in Tasks, Send(i)
    PROVE  UntoldInv'
<1>. DEFINE x == IF Appends(relays[i].copy) THEN relays[i].copy.ext ELSE Len(tickets) + 1
            r == [relays[i] EXCEPT !.pc = "save", !.ext = x]
<1>1. Sending(i) /\ tickets' = Receive(i) /\ relays' = [relays EXCEPT ![i] = r]
    BY DEF Send
<1>2. Grow(tickets, tickets') /\ x \in DOMAIN tickets' /\ 1..relays[i].last \subseteq tickets'[x].msgs
    BY <1>1, ReceivedAll
<1>. HIDE DEF x
<1>3. r.pc = "save" /\ r.copy = relays[i].copy /\ r.last = relays[i].last /\ r.ext = x
    BY RelayIsRelay DEF Relay
<1>4. Told(r.copy, tickets')
    BY <1>2, <1>3, GrownTold DEF UntoldInv, RelayTold
<1>5. RelayTold(r, tickets')
    BY <1>2, <1>3, <1>4 DEF RelayTold, Outbound, Received
<1>. HIDE DEF r
<1>. QED BY <1>1, <1>2, <1>5, RelayMoveUntold DEF Send

LEMMA SendFailsUntold ==
    ASSUME BusTypeOK, BridgeTyped, UntoldInv, NEW i \in Tasks, SendFails(i)
    PROVE  UntoldInv'
<1>. DEFINE r == [relays[i] EXCEPT !.pc = IF relays[i].pc = "send" THEN "again" ELSE "done"]
<1>1. Sending(i) /\ relays' = [relays EXCEPT ![i] = r]
    BY DEF SendFails, Retry
<1>2. Grow(tickets, tickets')
    BY <1>1, ReceivedAll, SameGrows DEF SendFails
<1>3. /\ r.copy = relays[i].copy /\ r.last = relays[i].last /\ r.pc \in {"again", "done"}
    BY RelayIsRelay DEF Relay
<1>4. Told(r.copy, tickets')
    BY <1>2, <1>3, GrownTold DEF UntoldInv, RelayTold
<1>5. RelayTold(r, tickets')
    BY <1>1, <1>3, <1>4 DEF UntoldInv, RelayTold, Outbound, Received, Sending
<1>. HIDE DEF r
<1>. QED BY <1>1, <1>2, <1>5, RelayMoveUntold DEF SendFails

LEMMA RefTakenUntold ==
    ASSUME BusTypeOK, BridgeTyped, UntoldInv, NEW i \in Tasks, RefTaken(i)
    PROVE  UntoldInv'
<1>. DEFINE r == [relays[i] EXCEPT !.pc = "done"]
<1>1. relays' = [relays EXCEPT ![i] = r] /\ r.copy = relays[i].copy /\ r.pc = "done"
    BY RelayIsRelay DEF RefTaken, Relay
<1>2. RelayTold(r, tickets)
    BY <1>1 DEF UntoldInv, RelayTold, Outbound, Received
<1>. HIDE DEF r
<1>. QED BY <1>1, <1>2, RelayMoveUntold, SameGrows DEF RefTaken

LEMMA SaveRefUntold ==
    ASSUME BusTypeOK, BridgeTyped, UntoldInv, NEW i \in Tasks, SaveRef(i)
    PROVE  UntoldInv'
<1>. DEFINE c == ConvAt(i)
<1>1. c \in Convs
    BY EventConv DEF SaveRef, BridgeTyped, Placed
<1>2. RowOf(i).ext = relays[i].ext /\ RowOf(i).told = relays[i].last
    BY RelayIsRelay DEF RowOf, Ref
<1>3. Told(RowOf(i), tickets)
    BY <1>2 DEF SaveRef, Told, UntoldInv, RelayTold, Received
<1>4. \A d \in Convs : Told(refs'[d], tickets)
    BY <1>1, <1>3 DEF SaveRef, UntoldInv, BridgeTyped, BridgeTypeOK
<1>5. \A j \in Tasks : /\ relays'[j].copy = relays[j].copy /\ relays'[j].last = relays[j].last
                       /\ relays'[j].ext = relays[j].ext
                       /\ relays'[j].pc \in {relays[j].pc, "done"}
    <2>. SUFFICES ASSUME NEW j \in Tasks
                  PROVE  /\ relays'[j].copy = relays[j].copy /\ relays'[j].last = relays[j].last
                         /\ relays'[j].ext = relays[j].ext
                         /\ relays'[j].pc \in {relays[j].pc, "done"}
        OBVIOUS
    <2>1. OldRelays(c) \in [Tasks -> Relay] /\ OldRelays(c)[j] \in Relay
        BY <1>1, OldIsTyped
    <2>2. relays' = [OldRelays(c) EXCEPT ![i] = [OldRelays(c)[i] EXCEPT !.pc = "done"]]
        BY DEF SaveRef
    <2>. DEFINE o == OldRelays(c)[j]
                d == [o EXCEPT !.pc = "done"]
    <2>3. relays'[j] = o \/ relays'[j] = d
        BY <2>1, <2>2
    <2>4. d.pc = "done" /\ d.copy = o.copy /\ d.last = o.last /\ d.ext = o.ext
        BY <2>1 DEF Relay
    <2>5. o.pc = relays[j].pc /\ o.copy = relays[j].copy /\ o.last = relays[j].last
          /\ o.ext = relays[j].ext
        BY <1>1, OldIsTyped
    <2>. HIDE DEF o, d
    <2>. QED BY <2>3, <2>4, <2>5
<1>6. \A j \in Tasks : RelayTold(relays'[j], tickets)
    BY <1>5 DEF UntoldInv, RelayTold, Outbound, Received
<1>7. \A k \in DOMAIN hooks' : Told(hooks'[k].copy, tickets)
    BY <1>1, OldIsTyped DEF SaveRef, UntoldInv
<1>. QED BY <1>4, <1>6, <1>7 DEF SaveRef, UntoldInv

\* A step of the webhooks' handlers, or of the helpdesk, that lets the tickets grow
\* and leaves the relays' copies alone.
LEMMA HooksUntold ==
    ASSUME UntoldInv, Grow(tickets, tickets'), UNCHANGED refs, UNCHANGED relays,
           \A k \in DOMAIN hooks' : Told(hooks'[k].copy, tickets')
    PROVE  UntoldInv'
<1>1. \A i \in Tasks : RelayTold(relays'[i], tickets')
    BY GrownTold DEF UntoldInv
<1>2. \A c \in Convs : Told(refs'[c], tickets')
    BY GrownTold DEF UntoldInv
<1>. QED BY <1>1, <1>2 DEF UntoldInv

\* A step of one webhook's handler that saves nothing.
LEMMA HookMoveUntold ==
    ASSUME BridgeTyped, UntoldInv, NEW k \in DOMAIN hooks, NEW h, hooks' = [hooks EXCEPT ![k] = h],
           Told(h.copy, tickets), UNCHANGED <<refs, relays, tickets>>
    PROVE  UntoldInv'
<1>1. hooks \in Seq(Hook)
    BY DEF BridgeTyped, BridgeTypeOK
<1>2. DOMAIN hooks' = DOMAIN hooks
    BY <1>1
<1>3. \A n \in DOMAIN hooks : Told(hooks'[n].copy, tickets')
    <2>. SUFFICES ASSUME NEW n \in DOMAIN hooks PROVE Told(hooks'[n].copy, tickets)
        BY DEF UntoldInv
    <2>1. CASE n = k
        BY <2>1, <1>1
    <2>2. CASE n # k
        <3>1. hooks'[n] = hooks[n]
            BY <2>2, <1>1
        <3>. QED BY <3>1 DEF UntoldInv
    <2>. QED BY <2>1, <2>2
<1>. QED BY <1>2, <1>3, SameGrows, HooksUntold

LEMMA FindRefUntold ==
    ASSUME BusTypeOK, BridgeTyped, UntoldInv, NEW k \in DOMAIN hooks, FindRef(k)
    PROVE  UntoldInv'
<1>1. CASE Owners(notices[k].ext) = {}
    <2>. DEFINE h == [hooks[k] EXCEPT !.pc = "done"]
    <2>1. h.copy = hooks[k].copy
        BY HookIsHook DEF Hook
    <2>2. hooks' = [hooks EXCEPT ![k] = h]
        BY <1>1 DEF FindRef
    <2>. HIDE DEF h
    <2>3. Told(h.copy, tickets)
        BY <2>1 DEF UntoldInv
    <2>. QED BY <2>2, <2>3, HookMoveUntold DEF FindRef
<1>2. CASE Owners(notices[k].ext) # {}
    <2>. DEFINE c == CHOOSE d \in Owners(notices[k].ext) : TRUE
                h == [pc |-> "mirror", conv |-> c, copy |-> refs[c], fresh |-> TRUE]
    <2>0. c \in Owners(notices[k].ext)
        BY <1>2
    <2>1. c \in Convs
        BY <2>0 DEF Owners
    <2>2. hooks' = [hooks EXCEPT ![k] = h]
        BY <1>2 DEF FindRef
    <2>. HIDE DEF c
    <2>3. Told(h.copy, tickets)
        BY <2>1 DEF UntoldInv
    <2>. HIDE DEF h
    <2>. QED BY <2>2, <2>3, HookMoveUntold DEF FindRef
<1>. QED BY <1>1, <1>2

LEMMA CheckReplyUntold ==
    ASSUME BusTypeOK, BridgeTyped, UntoldInv, NEW k \in DOMAIN hooks, CheckReply(k)
    PROVE  UntoldInv'
<1>1. PICK pc \in {"store", "done"} : hooks' = [hooks EXCEPT ![k].pc = pc]
    BY DEF CheckReply
<1>. DEFINE h == [hooks[k] EXCEPT !.pc = pc]
<1>2. hooks' = [hooks EXCEPT ![k] = h] /\ h.copy = hooks[k].copy
    BY <1>1, HookIsHook DEF Hook
<1>. HIDE DEF h
<1>3. Told(h.copy, tickets)
    BY <1>2 DEF UntoldInv
<1>. QED BY <1>2, <1>3, HookMoveUntold DEF CheckReply

LEMMA StoreReplyUntold ==
    ASSUME BusTypeOK, BridgeTyped, UntoldInv, NEW k \in DOMAIN hooks, StoreReply(k)
    PROVE  UntoldInv'
<1>. DEFINE h == [hooks[k] EXCEPT !.pc = "mark"]
<1>2. hooks' = [hooks EXCEPT ![k] = h] /\ h.copy = hooks[k].copy
    BY HookIsHook DEF Hook, StoreReply
<1>. HIDE DEF h
<1>3. Told(h.copy, tickets)
    BY <1>2 DEF UntoldInv
<1>. QED BY <1>2, <1>3, HookMoveUntold DEF StoreReply

\* A save by a webhook's handler: the copy it saves points where it did, and says no
\* more was told.
LEMMA SaveHookUntold ==
    ASSUME BusTypeOK, BridgeTyped, UntoldInv, NEW k \in DOMAIN hooks, NEW pc, NEW copy \in Ref,
           copy.ext = hooks[k].copy.ext, copy.told = hooks[k].copy.told,
           SaveHook(k, pc, copy), UNCHANGED tickets
    PROVE  UntoldInv'
<1>. DEFINE c == hooks[k].conv
            h == [hooks[k] EXCEPT !.pc = pc, !.copy = copy]
<1>1. c \in Convs /\ Told(copy, tickets)
    BY HookIsHook DEF UntoldInv, Told
<1>2. \A d \in Convs : Told(refs'[d], tickets)
    BY <1>1 DEF SaveHook, UntoldInv, BridgeTyped, BridgeTypeOK
<1>3. \A i \in Tasks : RelayTold(relays'[i], tickets)
    BY <1>1, OldIsTyped DEF SaveHook, UntoldInv, RelayTold, Outbound, Received
<1>4. /\ hooks' = [OldHooks(c) EXCEPT ![k] = h] /\ h.copy = copy
      /\ OldHooks(c) \in Seq(Hook) /\ DOMAIN OldHooks(c) = DOMAIN hooks
    BY <1>1, HookIsHook, OldIsTyped DEF SaveHook, Hook
<1>. HIDE DEF h
<1>5. DOMAIN hooks' = DOMAIN hooks
    BY <1>4
<1>6. \A n \in DOMAIN hooks : Told(hooks'[n].copy, tickets)
    <2>. SUFFICES ASSUME NEW n \in DOMAIN hooks PROVE Told(hooks'[n].copy, tickets)
        OBVIOUS
    <2>1. CASE n = k
        BY <2>1, <1>1, <1>4
    <2>2. CASE n # k
        <3>1. hooks'[n] = OldHooks(c)[n]
            BY <2>2, <1>4
        <3>2. hooks'[n].copy = hooks[n].copy
            BY <1>1, <3>1, OldIsTyped
        <3>. QED BY <3>2 DEF UntoldInv
    <2>. QED BY <2>1, <2>2
<1>. QED BY <1>2, <1>3, <1>5, <1>6 DEF UntoldInv

LEMMA MirrorUntold ==
    ASSUME BusTypeOK, BridgeTyped, UntoldInv, NEW k \in DOMAIN hooks, Mirror(k)
    PROVE  UntoldInv'
<1>. DEFINE copy == [hooks[k].copy EXCEPT !.status = notices[k].status]
<1>1. SaveHook(k, "check", copy)
    BY DEF Mirror
<1>2. copy \in Ref /\ copy.ext = hooks[k].copy.ext /\ copy.told = hooks[k].copy.told
    BY HookIsHook DEF Mirror, Ref, Notice
<1>. HIDE DEF copy
<1>. QED BY <1>1, <1>2, SaveHookUntold DEF Mirror

LEMMA MarkHeardUntold ==
    ASSUME BusTypeOK, BridgeTyped, UntoldInv, NEW k \in DOMAIN hooks, MarkHeard(k)
    PROVE  UntoldInv'
<1>. DEFINE copy == [hooks[k].copy EXCEPT !.heard = notices[k].reply]
<1>1. SaveHook(k, "done", copy)
    BY DEF MarkHeard
<1>2. copy \in Ref /\ copy.ext = hooks[k].copy.ext /\ copy.told = hooks[k].copy.told
    BY HookIsHook DEF Ref, Notice
<1>. HIDE DEF copy
<1>. QED BY <1>1, <1>2, SaveHookUntold DEF MarkHeard

\* A webhook is sent.
LEMMA PostUntold ==
    ASSUME BusTypeOK, BridgeTyped, UntoldInv, NEW notice, Post(notice),
           Grow(tickets, tickets'), UNCHANGED <<refs, relays>>
    PROVE  UntoldInv'
<1>1. hooks \in Seq(Hook) /\ hooks' = Append(hooks, Sent) /\ Len(hooks) \in Nat
    BY DEF Post, BridgeTyped, BridgeTypeOK
<1>2. Told(Sent.copy, tickets')
    BY DEF Sent, NoRef, Told
<1>3. \A k \in DOMAIN hooks' : Told(hooks'[k].copy, tickets')
    <2>. SUFFICES ASSUME NEW k \in DOMAIN hooks' PROVE Told(hooks'[k].copy, tickets')
        OBVIOUS
    <2>1. (k \in DOMAIN hooks /\ hooks'[k] = hooks[k]) \/ hooks'[k] = Sent
        BY <1>1
    <2>. QED BY <2>1, <1>2, GrownTold DEF UntoldInv
<1>. QED BY <1>3, HooksUntold

LEMMA TurnTicketUntold ==
    ASSUME BusTypeOK, BridgeTyped, UntoldInv, NEW t \in DOMAIN tickets, TurnTicket(t)
    PROVE  UntoldInv'
<1>0. tickets \in Seq(Ticket)
    BY DEF BridgeTyped, BridgeTypeOK
<1>1. tickets[t] \in Ticket
    BY <1>0
<1>. DEFINE v == [tickets[t] EXCEPT !.open = ~@]
<1>2. tickets' = [tickets EXCEPT ![t] = v] /\ v.msgs = tickets[t].msgs
    BY <1>1 DEF TurnTicket, Ticket
<1>. HIDE DEF v
<1>3. Grow(tickets, tickets')
    BY <1>0, <1>2 DEF Grow
<1>. QED BY <1>3, PostUntold DEF TurnTicket

LEMMA BridgeRestartUntold ==
    ASSUME BridgeTyped, UntoldInv, BridgeRestart
    PROVE  UntoldInv'
<1>1. \A i \in Tasks : RelayTold(relays'[i], tickets)
    <2>. SUFFICES ASSUME NEW i \in Tasks PROVE RelayTold(relays'[i], tickets)
        OBVIOUS
    <2>. DEFINE d == [relays[i] EXCEPT !.pc = "done"]
    <2>1. relays'[i] = relays[i] \/ relays'[i] = d
        BY DEF BridgeRestart
    <2>2. d.pc = "done" /\ d.copy = relays[i].copy
        BY RelayIsRelay DEF Relay
    <2>. HIDE DEF d
    <2>. QED BY <2>1, <2>2 DEF UntoldInv, RelayTold, Outbound, Received
<1>2. \A k \in DOMAIN hooks' : Told(hooks'[k].copy, tickets)
    BY HookIsHook DEF BridgeRestart, UntoldInv, Hook
<1>. QED BY <1>1, <1>2 DEF BridgeRestart, UntoldInv

\* Every step of the bridge keeps the cursors behind the tickets.
LEMMA BridgeNextUntold ==
    ASSUME BusTypeOK, BridgeTyped, UntoldInv, BridgeNext
    PROVE  UntoldInv'
<1>1. ASSUME NEW i \in Tasks, RelayStep(i) PROVE UntoldInv'
    BY <1>1, SkipRelayUntold, ReadRefUntold, GatherUntold, SendUntold, SaveRefUntold, RefTakenUntold DEF RelayStep
<1>2. ASSUME NEW i \in Tasks, SendFails(i) PROVE UntoldInv'
    BY <1>2, SendFailsUntold
<1>3. ASSUME NEW t \in DOMAIN tickets, TurnTicket(t) PROVE UntoldInv'
    BY <1>3, TurnTicketUntold
<1>4. ASSUME NEW t \in DOMAIN tickets, ReplyTo(t) PROVE UntoldInv'
    BY <1>4, PostUntold, SameGrows DEF ReplyTo
<1>5. ASSUME NEW k \in DOMAIN hooks, HookStep(k) PROVE UntoldInv'
    BY <1>5, FindRefUntold, MirrorUntold, CheckReplyUntold, StoreReplyUntold, MarkHeardUntold
       DEF HookStep
<1>6. ASSUME NEW k \in DOMAIN hooks, Redeliver(k) PROVE UntoldInv'
    BY <1>6, PostUntold, SameGrows DEF Redeliver
<1>. QED BY <1>1, <1>2, <1>3, <1>4, <1>5, <1>6 DEF BridgeNext

(***************************************************************************)
(* Rows, copies and tickets.  A row and its copies point at tickets of their *)
(* own conversation, read closed only once the helpdesk has said so, and a   *)
(* copy nobody saved over is the row.                                       *)
(***************************************************************************)
ClosedSaid(x, ns) == \E k \in DOMAIN ns : ns[k].ext = x /\ ns[k].status = "closed"
Linked(row, c, t, ns) ==
    row.ext # 0 => /\ row.ext \in DOMAIN t /\ t[row.ext].conv = c
                   /\ row.status = "closed" => ClosedSaid(row.ext, ns)

\* What a relay is about to save points at the ticket its copy does, or another once
\* that one was closed.
Saving(r, c, t, ns) ==
    /\ r.ext \in DOMAIN t /\ t[r.ext].conv = c
    /\ r.ext = r.copy.ext \/ r.copy.ext = 0 \/ ClosedSaid(r.copy.ext, ns)
RelayLinked(r, c, row, t, ns) ==
    r.pc \notin {"read", "skipped", "done"} =>
        /\ Linked(r.copy, c, t, ns)
        /\ r.fresh => r.copy = row
        /\ r.pc = "save" => Saving(r, c, t, ns)

\* A webhook's handler works on the row of its ticket; past its check, its reply is
\* ahead of the copy's cursor.
HookLinked(h, n, row, t, ns) ==
    h.pc \notin {"sent", "done"} =>
        /\ Linked(h.copy, h.conv, t, ns) /\ h.copy.ext = n.ext
        /\ h.fresh => h.copy = row
        /\ h.pc \in {"store", "mark"} => n.reply > h.copy.heard

\* A reply is of one ticket, and counted.
ReplyKnown ==
    /\ \A k \in DOMAIN notices : notices[k].reply <= Len(shown)
    /\ \A j, k \in DOMAIN notices :
          notices[j].reply = notices[k].reply /\ notices[j].reply # 0 => notices[j].ext = notices[k].ext
LinkedInv ==
    /\ \A c \in Convs : Linked(refs[c], c, tickets, notices)
    /\ \A i \in Tasks : RelayLinked(relays[i], ConvAt(i), refs[ConvAt(i)], tickets, notices)
    /\ \A k \in DOMAIN hooks : HookLinked(hooks[k], notices[k], refs[hooks[k].conv], tickets, notices)
    /\ ReplyKnown

LEMMA LinkedStarts == BridgeInit => LinkedInv
<1>. SUFFICES ASSUME BridgeInit PROVE LinkedInv
    OBVIOUS
<1>1. \A c \in Convs : refs[c].ext = 0
    BY DEF BridgeInit, NoRef
<1>2. \A i \in Tasks : relays[i].pc = "read"
    BY DEF BridgeInit, Waiting
<1>3. DOMAIN hooks = {} /\ DOMAIN notices = {}
    BY DEF BridgeInit
<1>. QED BY <1>1, <1>2, <1>3 DEF LinkedInv, Linked, RelayLinked, ReplyKnown

\* Tickets and webhooks are added, and no ticket changes hands.
Later(t, u, ns, ms) ==
    /\ \A x \in DOMAIN t : x \in DOMAIN u /\ u[x].conv = t[x].conv
    /\ \A k \in DOMAIN ns : k \in DOMAIN ms /\ ms[k] = ns[k]

LEMMA LaterLinked ==
    ASSUME NEW t, NEW u, NEW ns, NEW ms, Later(t, u, ns, ms)
    PROVE  /\ \A x : ClosedSaid(x, ns) => ClosedSaid(x, ms)
           /\ \A row, c : Linked(row, c, t, ns) => Linked(row, c, u, ms)
           /\ \A r, c, row : RelayLinked(r, c, row, t, ns) => RelayLinked(r, c, row, u, ms)
           /\ \A h, n, row : HookLinked(h, n, row, t, ns) => HookLinked(h, n, row, u, ms)
<1>1. \A x : ClosedSaid(x, ns) => ClosedSaid(x, ms)
    BY DEF ClosedSaid, Later
<1>2. \A row, c : Linked(row, c, t, ns) => Linked(row, c, u, ms)
    BY <1>1 DEF Linked, Later
<1>3. \A r, c : Saving(r, c, t, ns) => Saving(r, c, u, ms)
    BY <1>1 DEF Saving, Later
<1>4. \A r, c, row : RelayLinked(r, c, row, t, ns) => RelayLinked(r, c, row, u, ms)
    BY <1>2, <1>3 DEF RelayLinked
<1>5. \A h, n, row : HookLinked(h, n, row, t, ns) => HookLinked(h, n, row, u, ms)
    BY <1>2 DEF HookLinked
<1>. QED BY <1>1, <1>2, <1>4, <1>5

LEMMA SameLater ==
    ASSUME UNCHANGED <<tickets, notices>>
    PROVE  Later(tickets, tickets', notices, notices')
BY DEF Later

\* A step that moves one relay.
LEMMA RelayMoveLinked ==
    ASSUME BridgeTyped, LinkedInv, NEW i \in Tasks, NEW r, relays' = [relays EXCEPT ![i] = r],
           Later(tickets, tickets', notices, notices'),
           RelayLinked(r, ConvAt(i), refs[ConvAt(i)], tickets', notices'),
           UNCHANGED <<events, refs, hooks, notices, shown>>
    PROVE  LinkedInv'
<1>1. \A c \in Convs : Linked(refs[c], c, tickets', notices')
    BY LaterLinked DEF LinkedInv
<1>2. \A k \in DOMAIN hooks : HookLinked(hooks[k], notices[k], refs[hooks[k].conv], tickets', notices')
    BY LaterLinked DEF LinkedInv
<1>3. ASSUME NEW j \in Tasks
      PROVE  RelayLinked(relays'[j], ConvAt(j), refs[ConvAt(j)], tickets', notices')
    <2>1. CASE j = i
        BY <2>1 DEF BridgeTyped, BridgeTypeOK
    <2>2. CASE j # i
        <3>1. relays'[j] = relays[j]
            BY <2>2 DEF BridgeTyped, BridgeTypeOK
        <3>2. RelayLinked(relays[j], ConvAt(j), refs[ConvAt(j)], tickets, notices)
            BY DEF LinkedInv
        <3>. QED BY <3>1, <3>2, LaterLinked
    <2>. QED BY <2>1, <2>2
<1>4. \A j \in Tasks : ConvAt(j)' = ConvAt(j)
    BY DEF ConvAt
<1>. QED BY <1>1, <1>2, <1>3, <1>4 DEF LinkedInv, ReplyKnown

LEMMA SkipRelayLinked ==
    ASSUME BusTypeOK, BridgeTyped, LinkedInv, NEW i \in Tasks, SkipRelay(i)
    PROVE  LinkedInv'
<1>. DEFINE r == [relays[i] EXCEPT !.pc = "skipped"]
<1>1. relays' = [relays EXCEPT ![i] = r]
    BY DEF SkipRelay
<1>2. r.pc = "skipped"
    BY RelayIsRelay DEF Relay
<1>. HIDE DEF r
<1>3. RelayLinked(r, ConvAt(i), refs[ConvAt(i)], tickets, notices)
    BY <1>2 DEF RelayLinked
<1>. QED BY <1>1, <1>3, RelayMoveLinked, SameLater DEF SkipRelay, bus

LEMMA ReadRefLinked ==
    ASSUME BusTypeOK, BridgeTyped, LinkedInv, NEW i \in Tasks, ReadRef(i)
    PROVE  LinkedInv'
<1>1. ConvAt(i) \in Convs
    BY EventConv DEF ReadRef, Relays, Escalated
<1>. DEFINE r == [relays[i] EXCEPT !.pc = "gather", !.copy = refs[ConvAt(i)]]
<1>2. relays' = [relays EXCEPT ![i] = r]
    BY DEF ReadRef
<1>3. r.pc = "gather" /\ r.copy = refs[ConvAt(i)]
    BY RelayIsRelay DEF Relay
<1>4. RelayLinked(r, ConvAt(i), refs[ConvAt(i)], tickets, notices)
    BY <1>1, <1>3 DEF RelayLinked, LinkedInv
<1>. HIDE DEF r
<1>. QED BY <1>2, <1>4, RelayMoveLinked, SameLater DEF ReadRef, bus

\* A relay that keeps its copy, and is not about to save.
LEMMA RelayOnLinked ==
    ASSUME BridgeTyped, LinkedInv, NEW i \in Tasks, NEW r, relays[i].pc \notin {"read", "skipped", "done"},
           r.copy = relays[i].copy, r.fresh = relays[i].fresh, r.pc # "save"
    PROVE  RelayLinked(r, ConvAt(i), refs[ConvAt(i)], tickets, notices)
<1>1. RelayLinked(relays[i], ConvAt(i), refs[ConvAt(i)], tickets, notices)
    BY DEF LinkedInv
<1>. QED BY <1>1 DEF RelayLinked

LEMMA GatherLinked ==
    ASSUME BusTypeOK, BridgeTyped, LinkedInv, NEW i \in Tasks, Gather(i)
    PROVE  LinkedInv'
<1>. DEFINE out == Outgoing(relays[i].copy, convs[ConvAt(i)].said)
            r == IF out = {} THEN [relays[i] EXCEPT !.pc = "done"]
                 ELSE [relays[i] EXCEPT !.pc = "send", !.last = Newest(out)]
<1>1. relays' = [relays EXCEPT ![i] = r] /\ relays[i].pc = "gather"
    BY DEF Gather
<1>. HIDE DEF out
<1>2. r.copy = relays[i].copy /\ r.fresh = relays[i].fresh /\ r.pc \in {"done", "send"}
    BY RelayIsRelay DEF Relay
<1>. HIDE DEF r
<1>3. RelayLinked(r, ConvAt(i), refs[ConvAt(i)], tickets, notices)
    BY <1>1, <1>2, RelayOnLinked
<1>. QED BY <1>1, <1>3, RelayMoveLinked, SameLater DEF Gather, bus

LEMMA RefTakenLinked ==
    ASSUME BusTypeOK, BridgeTyped, LinkedInv, NEW i \in Tasks, RefTaken(i)
    PROVE  LinkedInv'
<1>. DEFINE r == [relays[i] EXCEPT !.pc = "done"]
<1>1. relays' = [relays EXCEPT ![i] = r] /\ r.pc = "done"
    BY RelayIsRelay DEF RefTaken, Relay
<1>2. RelayLinked(r, ConvAt(i), refs[ConvAt(i)], tickets, notices)
    BY <1>1 DEF RelayLinked
<1>. HIDE DEF r
<1>. QED BY <1>1, <1>2, RelayMoveLinked, SameLater DEF RefTaken, bus

\* The helpdesk receives a call: no ticket changes hands, and the ticket it went to
\* is the conversation's.
LEMMA ReceiveLater ==
    ASSUME BusTypeOK, BridgeTyped, LinkedInv, NEW i \in Tasks, Sending(i), tickets' = Receive(i),
           UNCHANGED notices
    PROVE  /\ Later(tickets, tickets', notices, notices')
           /\ LET x == IF Appends(relays[i].copy) THEN relays[i].copy.ext ELSE Len(tickets) + 1
              IN  x \in DOMAIN tickets' /\ tickets'[x].conv = ConvAt(i)
           /\ \A y \in DOMAIN tickets' \ DOMAIN tickets :
                 y = Len(tickets) + 1 /\ ~Appends(relays[i].copy)
           /\ Appends(relays[i].copy) => DOMAIN tickets' = DOMAIN tickets
<1>0. /\ tickets \in Seq(Ticket) /\ relays[i].copy \in Ref
      /\ RelayLinked(relays[i], ConvAt(i), refs[ConvAt(i)], tickets, notices)
    BY RelayIsRelay DEF BridgeTyped, BridgeTypeOK, LinkedInv
<1>1. CASE Appends(relays[i].copy)
    <2>. DEFINE x == relays[i].copy.ext
                v == [tickets[x] EXCEPT !.msgs = @ \cup Gathered(i)]
    <2>1. x \in DOMAIN tickets /\ tickets[x].conv = ConvAt(i)
        BY <1>0, <1>1 DEF RelayLinked, Linked, Appends, Sending
    <2>2. tickets[x] \in Ticket
        BY <1>0, <2>1
    <2>3. v.conv = tickets[x].conv
        BY <2>2 DEF Ticket
    <2>4. tickets' = [tickets EXCEPT ![x] = v]
        BY <1>1 DEF Receive
    <2>. HIDE DEF v
    <2>5. DOMAIN tickets' = DOMAIN tickets /\ tickets'[x].conv = ConvAt(i)
          /\ \A y \in DOMAIN tickets : tickets'[y].conv = tickets[y].conv
        BY <2>1, <2>3, <2>4
    <2>. QED BY <1>1, <2>1, <2>5 DEF Later
<1>2. CASE ~Appends(relays[i].copy)
    <2>. DEFINE t == [conv |-> ConvAt(i), open |-> TRUE, msgs |-> Gathered(i)]
    <2>1. tickets' = Append(tickets, t) /\ t.conv = ConvAt(i)
        BY <1>2 DEF Receive
    <2>. HIDE DEF t
    <2>2. /\ tickets'[Len(tickets) + 1] = t /\ Len(tickets) + 1 \in DOMAIN tickets'
          /\ \A y \in DOMAIN tickets : y \in DOMAIN tickets' /\ tickets'[y] = tickets[y]
          /\ \A y \in DOMAIN tickets' \ DOMAIN tickets : y = Len(tickets) + 1
        BY <1>0, <2>1
    <2>. QED BY <1>2, <2>1, <2>2 DEF Later
<1>. QED BY <1>1, <1>2

LEMMA SendLinked ==
    ASSUME BusTypeOK, BridgeTyped, LinkedInv, NEW i \in Tasks, Send(i)
    PROVE  LinkedInv'
<1>. DEFINE x == IF Appends(relays[i].copy) THEN relays[i].copy.ext ELSE Len(tickets) + 1
            r == [relays[i] EXCEPT !.pc = "save", !.ext = x]
<1>1. Sending(i) /\ tickets' = Receive(i) /\ relays' = [relays EXCEPT ![i] = r] /\ UNCHANGED notices
    BY DEF Send
<1>2. Later(tickets, tickets', notices, notices') /\ x \in DOMAIN tickets' /\ tickets'[x].conv = ConvAt(i)
    BY <1>1, ReceiveLater
<1>3. x = relays[i].copy.ext \/ relays[i].copy.ext = 0 \/ relays[i].copy.status = "closed"
    BY RelayIsRelay DEF Appends, Ref
<1>. HIDE DEF x
<1>4. r.pc = "save" /\ r.copy = relays[i].copy /\ r.ext = x /\ r.fresh = relays[i].fresh
    BY RelayIsRelay DEF Relay
<1>. HIDE DEF r
<1>5. RelayLinked(relays[i], ConvAt(i), refs[ConvAt(i)], tickets', notices')
    BY <1>2, LaterLinked DEF LinkedInv
<1>6. RelayLinked(r, ConvAt(i), refs[ConvAt(i)], tickets', notices')
    BY <1>1, <1>2, <1>3, <1>4, <1>5 DEF RelayLinked, Saving, Linked, Sending
<1>. QED BY <1>1, <1>2, <1>6, RelayMoveLinked DEF Send, bus

LEMMA SendFailsLinked ==
    ASSUME BusTypeOK, BridgeTyped, LinkedInv, NEW i \in Tasks, SendFails(i)
    PROVE  LinkedInv'
<1>. DEFINE r == [relays[i] EXCEPT !.pc = IF relays[i].pc = "send" THEN "again" ELSE "done"]
<1>1. Sending(i) /\ relays' = [relays EXCEPT ![i] = r] /\ UNCHANGED notices
    BY DEF SendFails, Retry
<1>2. Later(tickets, tickets', notices, notices')
    BY <1>1, ReceiveLater, SameLater DEF SendFails
<1>3. r.copy = relays[i].copy /\ r.fresh = relays[i].fresh /\ r.pc \in {"again", "done"}
    BY RelayIsRelay DEF Relay
<1>. HIDE DEF r
<1>4. RelayLinked(r, ConvAt(i), refs[ConvAt(i)], tickets, notices)
    BY <1>1, <1>3, RelayOnLinked DEF Sending
<1>5. RelayLinked(r, ConvAt(i), refs[ConvAt(i)], tickets', notices')
    BY <1>2, <1>4, LaterLinked
<1>. QED BY <1>1, <1>2, <1>5, RelayMoveLinked DEF SendFails

\* Making copies old changes a handler's freshness alone, and leaves none of c's fresh.
LEMMA OldKeeps ==
    ASSUME BusTypeOK, BridgeTyped, NEW c \in Convs
    PROVE  /\ \A i \in Tasks : OldRelays(c)[i].fresh =>
                  relays[i].fresh /\ (relays[i].pc = "read" \/ ConvAt(i) # c)
           /\ \A k \in DOMAIN hooks :
                  /\ OldHooks(c)[k].pc = hooks[k].pc /\ OldHooks(c)[k].conv = hooks[k].conv
                  /\ OldHooks(c)[k].fresh =>
                         hooks[k].fresh /\ (hooks[k].pc = "sent" \/ hooks[k].conv # c)
<1>1. ASSUME NEW i \in Tasks, OldRelays(c)[i].fresh
      PROVE  relays[i].fresh /\ (relays[i].pc = "read" \/ ConvAt(i) # c)
    <2>1. [relays[i] EXCEPT !.fresh = FALSE].fresh = FALSE
        BY RelayIsRelay DEF Relay
    <2>2. relays[i].pc # "read" => i \in DOMAIN events
        BY DEF BridgeTyped, Placed
    <2>. QED BY <1>1, <2>1, <2>2 DEF OldRelays
<1>2. \A k \in DOMAIN hooks :
          /\ OldHooks(c)[k].pc = hooks[k].pc /\ OldHooks(c)[k].conv = hooks[k].conv
          /\ OldHooks(c)[k].fresh =>
                 hooks[k].fresh /\ (hooks[k].pc = "sent" \/ hooks[k].conv # c)
    BY HookIsHook DEF OldHooks, Hook
<1>. QED BY <1>1, <1>2

\* A relay or a webhook's handler after c's row was saved by another.
RelayAged(r, s, d, c) ==
    \/ s.pc = "done"
    \/ /\ s.pc = r.pc /\ s.copy = r.copy /\ s.ext = r.ext
       /\ s.fresh => r.fresh /\ (r.pc = "read" \/ d # c)
HookAged(h, g, c) ==
    \/ g.pc = "done"
    \/ /\ g.pc = h.pc /\ g.copy = h.copy /\ g.conv = h.conv
       /\ g.fresh => h.fresh /\ (h.pc = "sent" \/ h.conv # c)

\* A row is saved.
LEMMA SaveLinked ==
    ASSUME BridgeTyped, LinkedInv, NEW c \in Convs, NEW row, Linked(row, c, tickets, notices),
           refs' = [refs EXCEPT ![c] = row], DOMAIN hooks' = DOMAIN hooks,
           \A i \in Tasks : RelayAged(relays[i], relays'[i], ConvAt(i), c),
           \A k \in DOMAIN hooks :
               \/ HookAged(hooks[k], hooks'[k], c)
               \/ /\ hooks'[k].pc = "check" /\ hooks'[k].copy = row /\ hooks'[k].conv = c
                  /\ row.ext = notices[k].ext,
           UNCHANGED <<events, tickets, notices, shown>>
    PROVE  LinkedInv'
<1>0. \A d \in Convs : refs'[d] = IF d = c THEN row ELSE refs[d]
    BY DEF BridgeTyped, BridgeTypeOK
<1>1. \A d \in Convs : Linked(refs'[d], d, tickets, notices)
    BY <1>0 DEF LinkedInv
<1>2. ASSUME NEW i \in Tasks
      PROVE  RelayLinked(relays'[i], ConvAt(i), refs'[ConvAt(i)], tickets, notices)
    <2>1. RelayLinked(relays[i], ConvAt(i), refs[ConvAt(i)], tickets, notices)
        BY DEF LinkedInv
    <2>2. RelayAged(relays[i], relays'[i], ConvAt(i), c)
        OBVIOUS
    <2>3. ConvAt(i) # c => refs'[ConvAt(i)] = refs[ConvAt(i)]
        BY DEF BridgeTyped, BridgeTypeOK
    <2>. QED BY <2>1, <2>2, <2>3 DEF RelayLinked, RelayAged, Saving
<1>3. ASSUME NEW k \in DOMAIN hooks
      PROVE  HookLinked(hooks'[k], notices[k], refs'[hooks'[k].conv], tickets, notices)
    <2>1. HookLinked(hooks[k], notices[k], refs[hooks[k].conv], tickets, notices) /\ hooks[k].conv \in Convs
        BY HookIsHook DEF LinkedInv
    <2>2. CASE HookAged(hooks[k], hooks'[k], c)
        BY <1>0, <2>1, <2>2 DEF HookLinked, HookAged
    <2>3. CASE /\ hooks'[k].pc = "check" /\ hooks'[k].copy = row /\ hooks'[k].conv = c
               /\ row.ext = notices[k].ext
        BY <1>0, <2>3 DEF HookLinked
    <2>. QED BY <2>2, <2>3
<1>4. \A j \in Tasks : ConvAt(j)' = ConvAt(j)
    BY DEF ConvAt
<1>. QED BY <1>1, <1>2, <1>3, <1>4 DEF LinkedInv, ReplyKnown

LEMMA SaveRefLinked ==
    ASSUME BusTypeOK, BridgeTyped, LinkedInv, NEW i \in Tasks, SaveRef(i)
    PROVE  LinkedInv'
<1>. DEFINE c == ConvAt(i)
<1>1. c \in Convs
    BY EventConv DEF SaveRef, BridgeTyped, Placed
<1>2. RelayLinked(relays[i], c, refs[c], tickets, notices) /\ relays[i].pc = "save"
    BY DEF LinkedInv, SaveRef
<1>3. RowOf(i).ext = relays[i].ext /\ RowOf(i).status = "open"
    BY RelayIsRelay DEF RowOf, Ref
<1>4. Linked(RowOf(i), c, tickets, notices)
    BY <1>2, <1>3 DEF Linked, RelayLinked, Saving
<1>5. ASSUME NEW j \in Tasks PROVE RelayAged(relays[j], relays'[j], ConvAt(j), c)
    <2>1. relays' = [OldRelays(c) EXCEPT ![i].pc = "done"]
        BY DEF SaveRef
    <2>2. OldRelays(c)[j] \in Relay /\ OldRelays(c) \in [Tasks -> Relay]
        BY <1>1, OldIsTyped
    <2>3. relays'[j] = OldRelays(c)[j] \/ relays'[j].pc = "done"
        BY <2>1, <2>2 DEF Relay
    <2>. QED BY <1>1, <2>3, OldIsTyped, OldKeeps DEF RelayAged
<1>6. hooks' = OldHooks(c)
    BY DEF SaveRef
<1>7. \A k \in DOMAIN hooks : HookAged(hooks[k], hooks'[k], c)
    BY <1>1, <1>6, OldIsTyped, OldKeeps DEF HookAged
<1>8. DOMAIN hooks' = DOMAIN hooks
    BY <1>1, <1>6, OldIsTyped
<1>9. refs' = [refs EXCEPT ![c] = RowOf(i)] /\ UNCHANGED <<events, tickets, notices, shown>>
    BY DEF SaveRef, bus
<1>. HIDE DEF c
<1>10. \A j \in Tasks : RelayAged(relays[j], relays'[j], ConvAt(j), c)
    BY <1>5
<1>. QED BY <1>1, <1>4, <1>7, <1>8, <1>9, <1>10, SaveLinked

LEMMA SaveHookLinked ==
    ASSUME BusTypeOK, BridgeTyped, LinkedInv, NEW k \in DOMAIN hooks, NEW copy, NEW pc,
           SaveHook(k, pc, copy), pc \in {"check", "done"}, copy.ext = hooks[k].copy.ext,
           hooks[k].pc \notin {"sent", "done"},
           copy.status = hooks[k].copy.status \/ copy.status = notices[k].status,
           UNCHANGED <<events, tickets, notices, shown>>
    PROVE  LinkedInv'
<1>. DEFINE c == hooks[k].conv
<1>1. /\ c \in Convs /\ HookLinked(hooks[k], notices[k], refs[c], tickets, notices)
      /\ k \in DOMAIN notices /\ hooks[k] \in Hook
    BY HookIsHook DEF LinkedInv
<1>2. copy.ext = notices[k].ext /\ Linked(copy, c, tickets, notices)
    BY <1>1 DEF HookLinked, Linked, ClosedSaid
<1>3. \A i \in Tasks : RelayAged(relays[i], relays'[i], ConvAt(i), c)
    BY <1>1, OldIsTyped, OldKeeps DEF SaveHook, RelayAged
<1>. DEFINE h == [hooks[k] EXCEPT !.pc = pc, !.copy = copy]
<1>4. h.pc = pc /\ h.copy = copy /\ h.conv = c
    BY <1>1 DEF Hook
<1>5. hooks' = [OldHooks(c) EXCEPT ![k] = h]
    BY DEF SaveHook
<1>. HIDE DEF h
<1>6. DOMAIN hooks' = DOMAIN hooks
    BY <1>1, <1>5, OldIsTyped
<1>7. ASSUME NEW n \in DOMAIN hooks
      PROVE  \/ HookAged(hooks[n], hooks'[n], c)
             \/ /\ hooks'[n].pc = "check" /\ hooks'[n].copy = copy /\ hooks'[n].conv = c
                /\ copy.ext = notices[n].ext
    <2>1. CASE n = k
        <3>1. hooks'[n] = h
            BY <1>1, <1>5, <2>1, OldIsTyped
        <3>. QED BY <1>2, <1>4, <2>1, <3>1 DEF HookAged
    <2>2. CASE n # k
        <3>1. hooks'[n] = OldHooks(c)[n]
            BY <1>1, <1>5, <2>2, OldIsTyped
        <3>. QED BY <1>1, <3>1, OldIsTyped, OldKeeps DEF HookAged
    <2>. QED BY <2>1, <2>2
<1>8. refs' = [refs EXCEPT ![c] = copy]
    BY DEF SaveHook
<1>. HIDE DEF c
<1>9. \A n \in DOMAIN hooks : \/ HookAged(hooks[n], hooks'[n], c)
                              \/ /\ hooks'[n].pc = "check" /\ hooks'[n].copy = copy /\ hooks'[n].conv = c
                                 /\ copy.ext = notices[n].ext
    BY <1>7
<1>. QED BY <1>1, <1>2, <1>3, <1>6, <1>8, <1>9, SaveLinked

LEMMA MirrorLinked ==
    ASSUME BusTypeOK, BridgeTyped, LinkedInv, NEW k \in DOMAIN hooks, Mirror(k)
    PROVE  LinkedInv'
<1>. DEFINE copy == [hooks[k].copy EXCEPT !.status = notices[k].status]
<1>1. SaveHook(k, "check", copy) /\ hooks[k].pc = "mirror" /\ UNCHANGED <<events, tickets, notices, shown>>
    BY DEF Mirror, bus
<1>2. copy.ext = hooks[k].copy.ext /\ copy.status = notices[k].status
    BY HookIsHook DEF Ref
<1>. HIDE DEF copy
<1>. QED BY <1>1, <1>2, SaveHookLinked

LEMMA MarkHeardLinked ==
    ASSUME BusTypeOK, BridgeTyped, LinkedInv, NEW k \in DOMAIN hooks, MarkHeard(k)
    PROVE  LinkedInv'
<1>. DEFINE copy == [hooks[k].copy EXCEPT !.heard = notices[k].reply]
<1>1. SaveHook(k, "done", copy) /\ hooks[k].pc = "mark" /\ UNCHANGED <<events, tickets, notices, shown>>
    BY DEF MarkHeard, bus
<1>2. copy.ext = hooks[k].copy.ext /\ copy.status = hooks[k].copy.status
    BY HookIsHook DEF Ref
<1>. HIDE DEF copy
<1>. QED BY <1>1, <1>2, SaveHookLinked

\* A step of a webhook's handler that saves nothing.
LEMMA HookMoveLinked ==
    ASSUME BusTypeOK, BridgeTyped, LinkedInv, NEW k \in DOMAIN hooks, NEW h,
           hooks' = [hooks EXCEPT ![k] = h],
           HookLinked(h, notices[k], refs[h.conv], tickets, notices), Len(shown') = Len(shown),
           UNCHANGED <<events, refs, tickets, relays, notices>>
    PROVE  LinkedInv'
<1>1. \A n \in DOMAIN hooks' : HookLinked(hooks'[n], notices[n], refs[hooks'[n].conv], tickets, notices)
    BY DEF LinkedInv
<1>2. \A j \in Tasks : ConvAt(j)' = ConvAt(j)
    BY DEF ConvAt
<1>. QED BY <1>1, <1>2 DEF LinkedInv, ReplyKnown

LEMMA FindRefLinked ==
    ASSUME BusTypeOK, BridgeTyped, LinkedInv, NEW k \in DOMAIN hooks, FindRef(k)
    PROVE  LinkedInv'
<1>1. CASE Owners(notices[k].ext) = {}
    <2>. DEFINE h == [hooks[k] EXCEPT !.pc = "done"]
    <2>1. hooks' = [hooks EXCEPT ![k] = h] /\ h.pc = "done"
        BY <1>1, HookIsHook DEF FindRef, Hook
    <2>2. HookLinked(h, notices[k], refs[h.conv], tickets, notices)
        BY <2>1 DEF HookLinked
    <2>. HIDE DEF h
    <2>. QED BY <2>1, <2>2, HookMoveLinked DEF FindRef, bus
<1>2. CASE Owners(notices[k].ext) # {}
    <2>. DEFINE c == CHOOSE d \in Owners(notices[k].ext) : TRUE
                h == [pc |-> "mirror", conv |-> c, copy |-> refs[c], fresh |-> TRUE]
    <2>1. c \in Convs /\ refs[c].ext = notices[k].ext
        BY <1>2 DEF Owners
    <2>2. hooks' = [hooks EXCEPT ![k] = h]
        BY <1>2 DEF FindRef
    <2>. HIDE DEF c
    <2>3. HookLinked(h, notices[k], refs[h.conv], tickets, notices)
        BY <2>1 DEF HookLinked, LinkedInv
    <2>. HIDE DEF h
    <2>. QED BY <2>2, <2>3, HookMoveLinked DEF FindRef, bus
<1>. QED BY <1>1, <1>2

LEMMA CheckReplyLinked ==
    ASSUME BusTypeOK, BridgeTyped, LinkedInv, NEW k \in DOMAIN hooks, CheckReply(k)
    PROVE  LinkedInv'
<1>1. PICK pc \in IF Relayable(k) THEN {"store", "done"} ELSE {"done"} :
            hooks' = [hooks EXCEPT ![k].pc = pc]
    BY DEF CheckReply
<1>. DEFINE h == [hooks[k] EXCEPT !.pc = pc]
<1>2. h.pc = pc /\ h.copy = hooks[k].copy /\ h.conv = hooks[k].conv /\ h.fresh = hooks[k].fresh
    BY HookIsHook DEF Hook
<1>3. hooks' = [hooks EXCEPT ![k] = h]
    BY <1>1
<1>. HIDE DEF h
<1>4. HookLinked(hooks[k], notices[k], refs[hooks[k].conv], tickets, notices)
      /\ hooks[k].pc \notin {"sent", "done"}
    BY DEF LinkedInv, CheckReply
<1>5. HookLinked(h, notices[k], refs[h.conv], tickets, notices)
    BY <1>1, <1>2, <1>4 DEF HookLinked, Relayable
<1>. QED BY <1>3, <1>5, HookMoveLinked DEF CheckReply, bus

LEMMA StoreReplyLinked ==
    ASSUME BusTypeOK, BridgeTyped, LinkedInv, NEW k \in DOMAIN hooks, StoreReply(k)
    PROVE  LinkedInv'
<1>. DEFINE h == [hooks[k] EXCEPT !.pc = "mark"]
<1>1. hooks' = [hooks EXCEPT ![k] = h] /\ hooks[k].pc = "store"
    BY DEF StoreReply
<1>2. h.pc = "mark" /\ h.copy = hooks[k].copy /\ h.conv = hooks[k].conv /\ h.fresh = hooks[k].fresh
    BY HookIsHook DEF Hook
<1>. HIDE DEF h
<1>3. HookLinked(hooks[k], notices[k], refs[hooks[k].conv], tickets, notices)
    BY DEF LinkedInv
<1>4. HookLinked(h, notices[k], refs[h.conv], tickets, notices)
    BY <1>1, <1>2, <1>3 DEF HookLinked
<1>5. Len(shown') = Len(shown)
    <2>. DEFINE v == shown[notices[k].reply] + 1
    <2>1. shown \in Seq(Nat) /\ shown' = [shown EXCEPT ![notices[k].reply] = v]
        BY DEF StoreReply, BridgeTyped, BridgeTypeOK
    <2>2. notices[k].reply \in DOMAIN shown => v \in Nat
        BY <2>1
    <2>. HIDE DEF v
    <2>. QED BY <2>1, <2>2, EntryReplaced
<1>. QED BY <1>1, <1>4, <1>5, HookMoveLinked DEF StoreReply, bus

\* A webhook is sent: of what the helpdesk did, or of a reply it brought before.
LEMMA PostLinked ==
    ASSUME BusTypeOK, BridgeTyped, LinkedInv, NEW notice, Post(notice),
           Later(tickets, tickets', <<>>, <<>>), ReplyKnown',
           UNCHANGED <<events, refs, relays>>
    PROVE  LinkedInv'
<1>1. /\ hooks \in Seq(Hook) /\ notices \in Seq(Notice) /\ Len(hooks) = Len(notices)
      /\ hooks' = Append(hooks, Sent) /\ notices' = Append(notices, notice)
    BY DEF Post, BridgeTyped, BridgeTypeOK, Placed
<1>2. /\ \A k \in DOMAIN notices : k \in DOMAIN notices' /\ notices'[k] = notices[k]
      /\ \A k \in DOMAIN hooks' : (k \in DOMAIN hooks /\ hooks'[k] = hooks[k] /\ k \in DOMAIN notices)
                                  \/ hooks'[k] = Sent
    BY <1>1
<1>3. Later(tickets, tickets', notices, notices')
    BY <1>2 DEF Later
<1>4. \A c \in Convs : Linked(refs[c], c, tickets', notices')
    BY <1>3, LaterLinked DEF LinkedInv
<1>5. \A i \in Tasks : RelayLinked(relays[i], ConvAt(i), refs[ConvAt(i)], tickets', notices')
    BY <1>3, LaterLinked DEF LinkedInv
<1>6. ASSUME NEW k \in DOMAIN hooks'
      PROVE  HookLinked(hooks'[k], notices'[k], refs[hooks'[k].conv], tickets', notices')
    <2>1. CASE hooks'[k] = Sent
        BY <2>1 DEF HookLinked, Sent
    <2>2. CASE k \in DOMAIN hooks /\ hooks'[k] = hooks[k] /\ k \in DOMAIN notices
        <3>1. HookLinked(hooks[k], notices[k], refs[hooks[k].conv], tickets, notices)
            BY <2>2 DEF LinkedInv
        <3>2. HookLinked(hooks[k], notices[k], refs[hooks[k].conv], tickets', notices')
            BY <1>3, <3>1, LaterLinked
        <3>. QED BY <1>2, <2>2, <3>2
    <2>. QED BY <1>2, <2>1, <2>2
<1>7. \A j \in Tasks : ConvAt(j)' = ConvAt(j)
    BY DEF ConvAt
<1>. QED BY <1>4, <1>5, <1>6, <1>7 DEF LinkedInv

\* A webhook that brings no reply, a new one, or one that was brought before.
LEMMA PostKnown ==
    ASSUME BridgeTyped, ReplyKnown, NEW notice, Post(notice),
           Len(shown') \in Nat, Len(shown) <= Len(shown'), notice.reply <= Len(shown'),
           \/ notice.reply = 0
           \/ notice.reply = Len(shown) + 1
           \/ \E k \in DOMAIN notices : notice = notices[k]
    PROVE  ReplyKnown'
<1>1. /\ notices \in Seq(Notice) /\ notices' = Append(notices, notice) /\ Len(shown) \in Nat
    BY DEF Post, BridgeTyped, BridgeTypeOK
<1>0. \A k \in DOMAIN notices : notices[k] \in Notice
    BY <1>1
<1>2. \A k \in DOMAIN notices : notices[k].reply \in Nat /\ notices[k].reply <= Len(shown)
    BY <1>0 DEF Notice, ReplyKnown
<1>3. \A k \in DOMAIN notices' : (k \in DOMAIN notices /\ notices'[k] = notices[k]) \/ notices'[k] = notice
    BY <1>1
<1>4. \A k \in DOMAIN notices' : notices'[k].reply <= Len(shown')
    BY <1>1, <1>2, <1>3
<1>5. ASSUME NEW k \in DOMAIN notices, notices[k].reply = notice.reply, notice.reply # 0
      PROVE  notices[k].ext = notice.ext
    BY <1>1, <1>2, <1>5 DEF ReplyKnown
<1>6. \A j, k \in DOMAIN notices' :
          notices'[j].reply = notices'[k].reply /\ notices'[j].reply # 0
              => notices'[j].ext = notices'[k].ext
    BY <1>3, <1>5 DEF ReplyKnown
<1>. QED BY <1>4, <1>6 DEF ReplyKnown

LEMMA TurnTicketLinked ==
    ASSUME BusTypeOK, BridgeTyped, LinkedInv, NEW t \in DOMAIN tickets, TurnTicket(t)
    PROVE  LinkedInv'
<1>1. tickets \in Seq(Ticket) /\ tickets[t] \in Ticket
    BY DEF BridgeTyped, BridgeTypeOK
<1>. DEFINE v == [tickets[t] EXCEPT !.open = ~@]
            notice == [ext |-> t, status |-> Turned(t), reply |-> 0]
<1>2. tickets' = [tickets EXCEPT ![t] = v] /\ v.conv = tickets[t].conv
    BY <1>1 DEF TurnTicket, Ticket
<1>. HIDE DEF v
<1>3. Later(tickets, tickets', <<>>, <<>>)
    BY <1>2 DEF Later
<1>4. Post(notice) /\ notice.reply = 0 /\ shown' = shown /\ Len(shown) \in Nat
    BY DEF TurnTicket, BridgeTyped, BridgeTypeOK
<1>. HIDE DEF notice
<1>5. ReplyKnown'
    BY <1>4, PostKnown DEF LinkedInv
<1>. QED BY <1>3, <1>4, <1>5, PostLinked DEF TurnTicket, bus

LEMMA ReplyToLinked ==
    ASSUME BusTypeOK, BridgeTyped, LinkedInv, NEW t \in DOMAIN tickets, ReplyTo(t)
    PROVE  LinkedInv'
<1>1. PICK status \in {"none", IF tickets[t].open THEN "open" ELSE "closed"} :
           Post([ext |-> t, status |-> status, reply |-> Len(shown) + 1])
    BY DEF ReplyTo
<1>. DEFINE notice == [ext |-> t, status |-> status, reply |-> Len(shown) + 1]
<1>2. Post(notice) /\ notice.reply = Len(shown) + 1
    BY <1>1
<1>. HIDE DEF notice
<1>3. Len(shown) \in Nat /\ Len(shown') = Len(shown) + 1
    BY DEF ReplyTo, BridgeTyped, BridgeTypeOK
<1>4. ReplyKnown'
    BY <1>2, <1>3, PostKnown DEF LinkedInv
<1>5. Later(tickets, tickets', <<>>, <<>>)
    BY DEF ReplyTo, Later
<1>. QED BY <1>2, <1>4, <1>5, PostLinked DEF ReplyTo, bus

LEMMA RedeliverLinked ==
    ASSUME BusTypeOK, BridgeTyped, LinkedInv, NEW k \in DOMAIN hooks, Redeliver(k)
    PROVE  LinkedInv'
<1>1. Post(notices[k]) /\ k \in DOMAIN notices /\ shown' = shown /\ Len(shown) \in Nat
    BY HookIsHook DEF Redeliver, BridgeTyped, BridgeTypeOK
<1>2. notices[k].reply <= Len(shown)
    BY <1>1 DEF LinkedInv, ReplyKnown
<1>3. ReplyKnown'
    BY <1>1, <1>2, PostKnown DEF LinkedInv
<1>4. Later(tickets, tickets', <<>>, <<>>)
    BY DEF Redeliver, Later
<1>. QED BY <1>1, <1>3, <1>4, PostLinked DEF Redeliver

LEMMA BridgeNextLinked ==
    ASSUME BusTypeOK, BridgeTyped, LinkedInv, BridgeNext
    PROVE  LinkedInv'
<1>1. ASSUME NEW i \in Tasks, RelayStep(i) PROVE LinkedInv'
    BY <1>1, SkipRelayLinked, ReadRefLinked, GatherLinked, SendLinked, SaveRefLinked, RefTakenLinked DEF RelayStep
<1>2. ASSUME NEW i \in Tasks, SendFails(i) PROVE LinkedInv'
    BY <1>2, SendFailsLinked
<1>3. ASSUME NEW t \in DOMAIN tickets, TurnTicket(t) \/ ReplyTo(t) PROVE LinkedInv'
    BY <1>3, TurnTicketLinked, ReplyToLinked
<1>4. ASSUME NEW k \in DOMAIN hooks, HookStep(k) PROVE LinkedInv'
    BY <1>4, FindRefLinked, MirrorLinked, CheckReplyLinked, StoreReplyLinked, MarkHeardLinked
       DEF HookStep
<1>5. ASSUME NEW k \in DOMAIN hooks, Redeliver(k) PROVE LinkedInv'
    BY <1>5, RedeliverLinked
<1>. QED BY <1>1, <1>2, <1>3, <1>4, <1>5 DEF BridgeNext

LEMMA BridgeRestartLinked ==
    ASSUME BridgeTyped, LinkedInv, BridgeRestart, UNCHANGED events
    PROVE  LinkedInv'
<1>1. \A i \in Tasks : ConvAt(i)' = ConvAt(i)
    BY DEF ConvAt
<1>2. ASSUME NEW i \in Tasks
      PROVE  RelayLinked(relays'[i], ConvAt(i), refs[ConvAt(i)], tickets, notices)
    <2>. DEFINE d == [relays[i] EXCEPT !.pc = "done"]
    <2>1. relays'[i] = relays[i] \/ relays'[i] = d
        BY DEF BridgeRestart
    <2>2. d.pc = "done"
        BY RelayIsRelay DEF Relay
    <2>. HIDE DEF d
    <2>. QED BY <2>1, <2>2 DEF LinkedInv, RelayLinked
<1>3. DOMAIN hooks' = DOMAIN hooks /\ \A k \in DOMAIN hooks : hooks'[k].pc = "done"
    BY HookIsHook DEF BridgeRestart, Hook
<1>4. \A k \in DOMAIN hooks' : HookLinked(hooks'[k], notices[k], refs[hooks'[k].conv], tickets, notices)
    BY <1>3 DEF HookLinked
<1>5. UNCHANGED <<refs, tickets, notices, shown>>
    BY DEF BridgeRestart
<1>. QED BY <1>1, <1>2, <1>4, <1>5 DEF LinkedInv, ReplyKnown

\* Calls are made, and nothing of the bridge changes.
LEMMA BridgeRestsLinked ==
    ASSUME BridgeTyped, LinkedInv, \A i \in DOMAIN events : events'[i] = events[i],
           UNCHANGED bridge
    PROVE  LinkedInv'
<1>1. \A i \in Tasks : relays[i].pc # "read" => ConvAt(i)' = ConvAt(i)
    BY DEF ConvAt, BridgeTyped, Placed
<1>2. UNCHANGED <<refs, tickets, relays, notices, hooks, shown>>
    BY DEF bridge
<1>3. \A i \in Tasks : RelayLinked(relays[i], ConvAt(i)', refs[ConvAt(i)'], tickets, notices)
    BY <1>1 DEF LinkedInv, RelayLinked
<1>. QED BY <1>2, <1>3 DEF LinkedInv, ReplyKnown

(***************************************************************************)
(* A reply is stored once.  A reply that was stored is behind the cursor of  *)
(* the row, or the handler that stored it is about to move the cursor.      *)
(***************************************************************************)
Marking(n, c, r) == hooks[n].pc = "mark" /\ hooks[n].conv = c /\ notices[n].reply = r
OnceInv ==
    \A k \in DOMAIN notices :
        LET r == notices[k].reply
            c == tickets[notices[k].ext].conv
        IN  r # 0 /\ c \notin tangled \cup dropped =>
                /\ shown[r] <= 1
                /\ shown[r] # 0 => refs[c].heard >= r \/ \E n \in DOMAIN hooks : Marking(n, c, r)

LEMMA OnceStarts == BridgeInit => OnceInv
BY DEF BridgeInit, OnceInv

\* A handler that works on a row has the conversation of its webhook's ticket.
LEMMA HookConv ==
    ASSUME BridgeTyped, LinkedInv, NEW k \in DOMAIN hooks, hooks[k].pc \notin {"sent", "done"}
    PROVE  /\ tickets[notices[k].ext].conv = hooks[k].conv
           /\ hooks[k].fresh => hooks[k].copy = refs[hooks[k].conv]
           /\ hooks[k].pc \in {"store", "mark"} => notices[k].reply > hooks[k].copy.heard
<1>1. HookLinked(hooks[k], notices[k], refs[hooks[k].conv], tickets, notices)
    BY DEF LinkedInv
<1>2. notices[k].ext # 0
    <2>1. tickets \in Seq(Ticket) /\ notices[k].ext \in DOMAIN tickets
        BY HookIsHook DEF BridgeTyped, BridgeTypeOK
    <2>. QED BY <2>1
<1>. QED BY <1>1, <1>2 DEF HookLinked, Linked

\* A webhook is one there was, brings a reply there was, or brings none that is stored.
Known(n, ns, sh) ==
    \/ \E k \in DOMAIN ns : n.reply = ns[k].reply /\ n.ext = ns[k].ext
    \/ n.reply = 0
    \/ sh[n.reply] = 0

\* A step that stores no reply, moves no cursor back, and lets no handler go that is
\* about to move it.
LEMMA OnceKept ==
    ASSUME BridgeTyped, LinkedInv, OnceInv, Later(tickets, tickets', <<>>, <<>>),
           \A k \in DOMAIN notices' : Known(notices'[k], notices, shown'),
           \A r \in DOMAIN shown : shown'[r] = shown[r],
           tangled \subseteq tangled', dropped \subseteq dropped',
           \A c \in Convs \ (tangled' \cup dropped') :
               /\ refs'[c].heard >= refs[c].heard
               /\ \A n \in DOMAIN hooks : hooks[n].pc = "mark" /\ hooks[n].conv = c =>
                      \/ refs'[c].heard >= notices[n].reply
                      \/ /\ n \in DOMAIN hooks' /\ hooks'[n].pc = "mark" /\ hooks'[n].conv = c
                         /\ notices'[n].reply = notices[n].reply,
           refs' \in [Convs -> Ref]
    PROVE  OnceInv'
<1>. SUFFICES ASSUME NEW k \in DOMAIN notices', NEW r, r = notices'[k].reply, r # 0,
                     NEW c, c = tickets'[notices'[k].ext].conv, c \notin tangled' \cup dropped'
              PROVE  /\ shown'[r] <= 1
                     /\ shown'[r] # 0 => refs'[c].heard >= r \/ \E n \in DOMAIN hooks' : Marking(n, c, r)'
    BY DEF OnceInv
<1>1. Known(notices'[k], notices, shown')
    OBVIOUS
<1>2. CASE shown'[r] = 0
    BY <1>2
<1>3. CASE shown'[r] # 0
    <2>1. PICK j \in DOMAIN notices : r = notices[j].reply /\ notices'[k].ext = notices[j].ext
        BY <1>1, <1>3 DEF Known
    <2>2. notices[j].ext \in DOMAIN tickets /\ tickets \in Seq(Ticket) /\ notices \in Seq(Notice)
          /\ shown \in Seq(Nat) /\ refs \in [Convs -> Ref]
        BY DEF BridgeTyped, BridgeTypeOK, Placed
    <2>3. tickets[notices[j].ext] \in Ticket /\ notices[j] \in Notice
        BY <2>2
    <2>4. tickets[notices[j].ext].conv = c /\ c \in Convs
        BY <2>1, <2>2, <2>3 DEF Later, Ticket
    <2>5. r \in Nat /\ r \in DOMAIN shown
        BY <2>1, <2>2, <2>3 DEF Notice, LinkedInv, ReplyKnown
    <2>6. /\ shown[r] <= 1
          /\ refs[c].heard >= r \/ \E n \in DOMAIN hooks : Marking(n, c, r)
        BY <1>3, <2>1, <2>4, <2>5 DEF OnceInv
    <2>7. refs[c].heard \in Nat /\ refs'[c].heard \in Nat
        BY <2>2, <2>4 DEF Ref
    <2>8. CASE refs[c].heard >= r
        BY <2>4, <2>5, <2>6, <2>7, <2>8
    <2>9. ASSUME NEW n \in DOMAIN hooks, Marking(n, c, r)
          PROVE  refs'[c].heard >= r \/ \E m \in DOMAIN hooks' : Marking(m, c, r)'
        BY <2>4, <2>9 DEF Marking
    <2>. QED BY <2>5, <2>6, <2>8, <2>9
<1>. QED BY <1>2, <1>3

LEMMA SameKnown ==
    ASSUME NEW ns, NEW sh
    PROVE  \A k \in DOMAIN ns : Known(ns[k], ns, sh)
BY DEF Known

\* A step of a relay that saves nothing.
LEMMA RelayMoveOnce ==
    ASSUME BridgeTyped, LinkedInv, OnceInv, Later(tickets, tickets', notices, notices'),
           tangled \subseteq tangled', dropped \subseteq dropped',
           UNCHANGED <<refs, notices, hooks, shown>>
    PROVE  OnceInv'
<1>1. Later(tickets, tickets', <<>>, <<>>)
    BY DEF Later
<1>2. \A k \in DOMAIN notices' : Known(notices'[k], notices, shown')
    BY SameKnown
<1>3. refs \in [Convs -> Ref]
    BY DEF BridgeTyped, BridgeTypeOK
<1>4. \A c \in Convs : refs'[c].heard >= refs[c].heard
    BY <1>3 DEF Ref
<1>. QED BY <1>1, <1>2, <1>3, <1>4, OnceKept

LEMMA RelayStepOnce ==
    ASSUME BusTypeOK, BridgeTyped, LinkedInv, OnceInv, NEW i \in Tasks,
           \/ SkipRelay(i) \/ ReadRef(i) \/ Gather(i) \/ Send(i) \/ RefTaken(i) \/ SendFails(i)
    PROVE  OnceInv'
<1>1. CASE SkipRelay(i) \/ ReadRef(i) \/ Gather(i) \/ RefTaken(i)
    BY <1>1, SameLater, RelayMoveOnce DEF SkipRelay, ReadRef, Gather, RefTaken
<1>2. CASE Send(i)
    BY <1>2, ReceiveLater, RelayMoveOnce DEF Send
<1>3. CASE SendFails(i)
    <2>1. Later(tickets, tickets', notices, notices')
        BY <1>3, ReceiveLater, SameLater DEF SendFails
    <2>. QED BY <1>3, <2>1, RelayMoveOnce DEF SendFails
<1>. QED BY <1>1, <1>2, <1>3

\* A row is saved: its cursor is not moved back, unless the copy was old.
LEMMA SaveOnce ==
    ASSUME BridgeTyped, LinkedInv, OnceInv, NEW c \in Convs, NEW row \in Ref,
           refs' = [refs EXCEPT ![c] = row],
           c \in tangled' \/ row.heard >= refs[c].heard,
           tangled \subseteq tangled', DOMAIN hooks' = DOMAIN hooks,
           \A n \in DOMAIN hooks : hooks[n].pc = "mark" =>
               \/ hooks'[n].pc = "mark" /\ hooks'[n].conv = hooks[n].conv
               \/ hooks[n].conv = c /\ row.heard >= notices[n].reply,
           UNCHANGED <<tickets, notices, shown, dropped>>
    PROVE  OnceInv'
<1>1. Later(tickets, tickets', <<>>, <<>>)
    BY DEF Later
<1>2. \A k \in DOMAIN notices' : Known(notices'[k], notices, shown')
    BY SameKnown
<1>3. refs \in [Convs -> Ref] /\ refs' \in [Convs -> Ref]
    BY DEF BridgeTyped, BridgeTypeOK
<1>4. \A d \in Convs : refs'[d] = IF d = c THEN row ELSE refs[d]
    BY <1>3
<1>5. \A d \in Convs : refs[d].heard \in Nat
    BY <1>3 DEF Ref
<1>6. \A d \in Convs \ (tangled' \cup dropped') :
          /\ refs'[d].heard >= refs[d].heard
          /\ \A n \in DOMAIN hooks : hooks[n].pc = "mark" /\ hooks[n].conv = d =>
                 \/ refs'[d].heard >= notices[n].reply
                 \/ n \in DOMAIN hooks' /\ hooks'[n].pc = "mark" /\ hooks'[n].conv = d
                    /\ notices'[n].reply = notices[n].reply
    BY <1>4, <1>5
<1>. QED BY <1>1, <1>2, <1>3, <1>6, OnceKept

LEMMA SaveRefOnce ==
    ASSUME BusTypeOK, BridgeTyped, LinkedInv, OnceInv, NEW i \in Tasks, SaveRef(i)
    PROVE  OnceInv'
<1>. DEFINE c == ConvAt(i)
<1>1. c \in Convs
    BY EventConv DEF SaveRef, BridgeTyped, Placed
<1>2. RowOf(i) \in Ref /\ RowOf(i).heard = relays[i].copy.heard
    BY RelayIsRelay DEF RowOf, Ref
<1>3. relays[i].fresh => relays[i].copy = refs[c]
    BY DEF LinkedInv, RelayLinked, SaveRef
<1>4. refs[c].heard \in Nat
    BY <1>1 DEF BridgeTyped, BridgeTypeOK, Ref
<1>5. c \in tangled' \/ RowOf(i).heard >= refs[c].heard
    BY <1>2, <1>3, <1>4 DEF SaveRef, Tangle
<1>6. DOMAIN hooks' = DOMAIN hooks
      /\ \A n \in DOMAIN hooks : hooks'[n].pc = hooks[n].pc /\ hooks'[n].conv = hooks[n].conv
    BY <1>1, OldIsTyped, OldKeeps DEF SaveRef
<1>7. refs' = [refs EXCEPT ![c] = RowOf(i)] /\ tangled \subseteq tangled'
      /\ UNCHANGED <<tickets, notices, shown, dropped>>
    BY DEF SaveRef, Tangle
<1>. HIDE DEF c
<1>. QED BY <1>1, <1>2, <1>5, <1>6, <1>7, SaveOnce

LEMMA SaveHookOnce ==
    ASSUME BusTypeOK, BridgeTyped, LinkedInv, OnceInv, NEW k \in DOMAIN hooks, NEW copy \in Ref,
           NEW pc, SaveHook(k, pc, copy), hooks[k].pc \notin {"sent", "done"},
           copy.heard >= hooks[k].copy.heard,
           hooks[k].pc = "mark" => copy.heard >= notices[k].reply,
           UNCHANGED <<tickets, notices, shown, dropped>>
    PROVE  OnceInv'
<1>. DEFINE c == hooks[k].conv
<1>1. c \in Convs /\ (hooks[k].fresh => hooks[k].copy = refs[c])
    BY HookIsHook, HookConv
<1>2. c \in tangled' \/ copy.heard >= refs[c].heard
    BY <1>1 DEF SaveHook, Tangle
<1>3. refs' = [refs EXCEPT ![c] = copy] /\ tangled \subseteq tangled'
    BY DEF SaveHook, Tangle
<1>. DEFINE h == [hooks[k] EXCEPT !.pc = pc, !.copy = copy]
<1>4. hooks' = [OldHooks(c) EXCEPT ![k] = h]
    BY DEF SaveHook
<1>. HIDE DEF h
<1>5. DOMAIN hooks' = DOMAIN hooks
    BY <1>1, <1>4, OldIsTyped
<1>6. ASSUME NEW n \in DOMAIN hooks, hooks[n].pc = "mark"
      PROVE  \/ hooks'[n].pc = "mark" /\ hooks'[n].conv = hooks[n].conv
             \/ hooks[n].conv = c /\ copy.heard >= notices[n].reply
    <2>1. CASE n = k
        BY <1>6, <2>1
    <2>2. CASE n # k
        <3>1. hooks'[n] = OldHooks(c)[n]
            BY <1>1, <1>4, <2>2, OldIsTyped
        <3>. QED BY <1>1, <1>6, <3>1, OldKeeps
    <2>. QED BY <2>1, <2>2
<1>. HIDE DEF c
<1>. QED BY <1>1, <1>2, <1>3, <1>5, <1>6, SaveOnce

LEMMA HookSavesOnce ==
    ASSUME BusTypeOK, BridgeTyped, LinkedInv, OnceInv, NEW k \in DOMAIN hooks,
           Mirror(k) \/ MarkHeard(k)
    PROVE  OnceInv'
<1>1. hooks[k].copy \in Ref /\ notices[k] \in Notice
    BY HookIsHook
<1>2. CASE Mirror(k)
    <2>. DEFINE copy == [hooks[k].copy EXCEPT !.status = notices[k].status]
    <2>1. SaveHook(k, "check", copy) /\ hooks[k].pc = "mirror" /\ UNCHANGED <<tickets, notices, shown, dropped>>
        BY <1>2 DEF Mirror
    <2>2. copy \in Ref /\ copy.heard = hooks[k].copy.heard /\ copy.heard \in Nat
        BY <1>1, <1>2 DEF Mirror, Ref, Notice
    <2>. HIDE DEF copy
    <2>3. copy.heard >= hooks[k].copy.heard
        BY <2>2
    <2>. QED BY <2>1, <2>2, <2>3, SaveHookOnce
<1>3. CASE MarkHeard(k)
    <2>. DEFINE copy == [hooks[k].copy EXCEPT !.heard = notices[k].reply]
    <2>1. SaveHook(k, "done", copy) /\ hooks[k].pc = "mark" /\ UNCHANGED <<tickets, notices, shown, dropped>>
        BY <1>3 DEF MarkHeard
    <2>2. copy \in Ref /\ copy.heard = notices[k].reply
        BY <1>1 DEF Ref, Notice
    <2>. HIDE DEF copy
    <2>3. copy.heard >= hooks[k].copy.heard /\ copy.heard >= notices[k].reply
        BY <1>1, <2>1, <2>2, HookConv DEF Ref, Notice
    <2>. QED BY <2>1, <2>2, <2>3, SaveHookOnce
<1>. QED BY <1>2, <1>3

LEMMA HookMovesOnce ==
    ASSUME BusTypeOK, BridgeTyped, LinkedInv, OnceInv, NEW k \in DOMAIN hooks,
           FindRef(k) \/ CheckReply(k)
    PROVE  OnceInv'
<1>1. UNCHANGED <<refs, tickets, notices, shown, tangled, dropped>> /\ hooks[k].pc # "mark"
    BY DEF FindRef, CheckReply
<1>2. DOMAIN hooks' = DOMAIN hooks /\ \A n \in DOMAIN hooks \ {k} : hooks'[n] = hooks[n]
    BY DEF FindRef, CheckReply
<1>3. Later(tickets, tickets', <<>>, <<>>)
    BY <1>1 DEF Later
<1>4. \A n \in DOMAIN notices' : Known(notices'[n], notices, shown')
    BY <1>1, SameKnown
<1>5. refs \in [Convs -> Ref] /\ \A c \in Convs : refs[c].heard >= refs[c].heard
    BY DEF BridgeTyped, BridgeTypeOK, Ref
<1>. QED BY <1>1, <1>2, <1>3, <1>4, <1>5, OnceKept

\* A reply is stored by the one handler at work, ahead of the cursor: for the first time.
LEMMA StoreReplyOnce ==
    ASSUME BusTypeOK, BridgeTyped, LinkedInv, OnceInv, NEW k \in DOMAIN hooks, StoreReply(k)
    PROVE  OnceInv'
<1>. DEFINE r == notices[k].reply
            c == hooks[k].conv
<1>0. /\ hooks \in Seq(Hook) /\ shown \in Seq(Nat) /\ refs \in [Convs -> Ref] /\ notices \in Seq(Notice)
      /\ hooks[k].pc = "store" /\ hooks[k] \in Hook /\ c \in Convs /\ k \in DOMAIN notices /\ r \in Nat
    BY HookIsHook DEF BridgeTyped, BridgeTypeOK, StoreReply
<1>1. /\ tickets[notices[k].ext].conv = c /\ r > hooks[k].copy.heard
      /\ hooks[k].fresh => hooks[k].copy = refs[c]
    BY <1>0, HookConv
<1>2. refs[c].heard \in Nat /\ hooks[k].copy.heard \in Nat
    BY <1>0, HookIsHook DEF Ref
<1>3. r \in DOMAIN shown /\ r # 0
    BY <1>0, <1>1, <1>2 DEF LinkedInv, ReplyKnown
<1>4. /\ shown'[r] = shown[r] + 1 /\ \A q : q # r => shown'[q] = shown[q]
      /\ hooks'[k].pc = "mark" /\ hooks'[k].conv = c /\ DOMAIN hooks' = DOMAIN hooks
      /\ \A n \in DOMAIN hooks \ {k} : hooks'[n] = hooks[n]
    <2>1. shown' = [shown EXCEPT ![r] = @ + 1] /\ hooks' = [hooks EXCEPT ![k].pc = "mark"]
        BY DEF StoreReply
    <2>2. \A q : q # r => shown'[q] = shown[q]
        BY <2>1
    <2>3. hooks'[k].pc = "mark" /\ hooks'[k].conv = c
        BY <1>0, <2>1 DEF Hook
    <2>. QED BY <1>3, <2>1, <2>2, <2>3
<1>5. UNCHANGED <<refs, tickets, notices, dropped>> /\ tangled \subseteq tangled'
    BY DEF StoreReply
<1>6. ASSUME c \notin tangled' \cup dropped'
      PROVE  shown[r] = 0
    <2>1. /\ hooks[k].fresh
          /\ \A n \in DOMAIN hooks \ {k} : hooks[n].conv # c \/ hooks[n].pc \in {"sent", "done"}
        BY <1>6 DEF StoreReply
    <2>2. ~(refs[c].heard >= r)
        BY <1>0, <1>1, <1>2, <2>1
    <2>3. ~\E n \in DOMAIN hooks : Marking(n, c, r)
        BY <1>0, <2>1 DEF Marking
    <2>4. c \notin tangled \cup dropped
        BY <1>5, <1>6
    <2>5. shown[r] # 0 => refs[c].heard >= r \/ \E n \in DOMAIN hooks : Marking(n, c, r)
        BY <1>0, <1>1, <1>3, <2>4 DEF OnceInv
    <2>. QED BY <2>2, <2>3, <2>5
<1>. HIDE DEF r, c
<1>. SUFFICES ASSUME NEW j \in DOMAIN notices, NEW q, q = notices[j].reply, q # 0,
                     NEW d, d = tickets[notices[j].ext].conv, d \notin tangled' \cup dropped'
              PROVE  /\ shown'[q] <= 1
                     /\ shown'[q] # 0 => refs[d].heard >= q \/ \E n \in DOMAIN hooks' : Marking(n, d, q)'
    BY <1>5 DEF OnceInv
<1>7. CASE q = r
    <2>1. notices[j].ext = notices[k].ext
        BY <1>0, <1>7 DEF LinkedInv, ReplyKnown, r
    <2>2. d = c
        BY <1>1, <2>1
    <2>3. shown'[q] = 1
        BY <1>4, <1>6, <1>7, <2>2
    <2>4. Marking(k, d, q)'
        BY <1>4, <1>5, <1>7, <2>2 DEF Marking, r
    <2>. QED BY <1>4, <2>3, <2>4
<1>8. CASE q # r
    <2>1. /\ shown[q] <= 1
          /\ shown[q] # 0 => refs[d].heard >= q \/ \E n \in DOMAIN hooks : Marking(n, d, q)
        BY <1>5 DEF OnceInv
    <2>2. ASSUME NEW n \in DOMAIN hooks, Marking(n, d, q) PROVE Marking(n, d, q)'
        <3>1. n # k
            BY <1>0, <2>2 DEF Marking
        <3>. QED BY <1>4, <1>5, <2>2, <3>1 DEF Marking
    <2>. QED BY <1>4, <1>8, <2>1, <2>2
<1>. QED BY <1>7, <1>8

\* A webhook is sent.
LEMMA PostOnce ==
    ASSUME BridgeTyped, LinkedInv, OnceInv, NEW notice, Post(notice), Known(notice, notices, shown'),
           Later(tickets, tickets', <<>>, <<>>), \A r \in DOMAIN shown : shown'[r] = shown[r],
           UNCHANGED <<refs, tangled, dropped>>
    PROVE  OnceInv'
<1>1. /\ hooks \in Seq(Hook) /\ notices \in Seq(Notice) /\ Len(hooks) = Len(notices)
      /\ hooks' = Append(hooks, Sent) /\ notices' = Append(notices, notice)
    BY DEF Post, BridgeTyped, BridgeTypeOK, Placed
<1>2. \A k \in DOMAIN notices' : (k \in DOMAIN notices /\ notices'[k] = notices[k]) \/ notices'[k] = notice
    BY <1>1
<1>3. \A k \in DOMAIN notices' : Known(notices'[k], notices, shown')
    BY <1>2 DEF Known
<1>4. \A n \in DOMAIN hooks : /\ n \in DOMAIN hooks' /\ hooks'[n] = hooks[n]
                              /\ notices'[n] = notices[n]
    BY <1>1
<1>5. refs \in [Convs -> Ref] /\ \A c \in Convs : refs[c].heard >= refs[c].heard
    BY DEF BridgeTyped, BridgeTypeOK, Ref
<1>. QED BY <1>3, <1>4, <1>5, OnceKept

LEMMA HelpdeskOnce ==
    ASSUME BusTypeOK, BridgeTyped, LinkedInv, OnceInv,
           (\E t \in DOMAIN tickets : TurnTicket(t) \/ ReplyTo(t)) \/ \E k \in DOMAIN hooks : Redeliver(k)
    PROVE  OnceInv'
<1>0. tickets \in Seq(Ticket) /\ shown \in Seq(Nat)
    BY DEF BridgeTyped, BridgeTypeOK
<1>1. ASSUME NEW t \in DOMAIN tickets, TurnTicket(t) PROVE OnceInv'
    <2>. DEFINE notice == [ext |-> t, status |-> Turned(t), reply |-> 0]
                v == [tickets[t] EXCEPT !.open = ~@]
    <2>1. Post(notice) /\ notice.reply = 0
        BY <1>1 DEF TurnTicket
    <2>2. tickets[t] \in Ticket
        BY <1>0
    <2>3. tickets' = [tickets EXCEPT ![t] = v] /\ v.conv = tickets[t].conv
        BY <1>1, <2>2 DEF TurnTicket, Ticket
    <2>. HIDE DEF notice, v
    <2>4. Later(tickets, tickets', <<>>, <<>>)
        BY <2>3 DEF Later
    <2>5. Known(notice, notices, shown')
        BY <2>1 DEF Known
    <2>. QED BY <1>1, <2>1, <2>4, <2>5, PostOnce DEF TurnTicket
<1>2. ASSUME NEW t \in DOMAIN tickets, ReplyTo(t) PROVE OnceInv'
    <2>1. PICK status \in {"none", IF tickets[t].open THEN "open" ELSE "closed"} :
               Post([ext |-> t, status |-> status, reply |-> Len(shown) + 1])
        BY <1>2 DEF ReplyTo
    <2>. DEFINE notice == [ext |-> t, status |-> status, reply |-> Len(shown) + 1]
    <2>2. Post(notice) /\ notice.reply = Len(shown) + 1
        BY <2>1
    <2>. HIDE DEF notice
    <2>3. shown'[Len(shown) + 1] = 0 /\ \A r \in DOMAIN shown : shown'[r] = shown[r]
        BY <1>0, <1>2 DEF ReplyTo
    <2>4. Known(notice, notices, shown')
        BY <2>2, <2>3 DEF Known
    <2>5. Later(tickets, tickets', <<>>, <<>>)
        BY <1>2 DEF ReplyTo, Later
    <2>. QED BY <1>2, <2>2, <2>3, <2>4, <2>5, PostOnce DEF ReplyTo
<1>3. ASSUME NEW k \in DOMAIN hooks, Redeliver(k) PROVE OnceInv'
    <2>1. Known(notices[k], notices, shown')
        BY HookIsHook DEF Known
    <2>2. Later(tickets, tickets', <<>>, <<>>)
        BY <1>3 DEF Redeliver, Later
    <2>. QED BY <1>3, <2>1, <2>2, PostOnce DEF Redeliver
<1>. QED BY <1>1, <1>2, <1>3

LEMMA BridgeNextOnce ==
    ASSUME BusTypeOK, BridgeTyped, LinkedInv, OnceInv, BridgeNext
    PROVE  OnceInv'
<1>1. ASSUME NEW i \in Tasks, RelayStep(i) \/ SendFails(i) PROVE OnceInv'
    BY <1>1, RelayStepOnce, SaveRefOnce DEF RelayStep
<1>2. ASSUME NEW t \in DOMAIN tickets, TurnTicket(t) \/ ReplyTo(t) PROVE OnceInv'
    BY <1>2, HelpdeskOnce
<1>3. ASSUME NEW k \in DOMAIN hooks, HookStep(k) \/ Redeliver(k) PROVE OnceInv'
    BY <1>3, HookMovesOnce, HookSavesOnce, StoreReplyOnce, HelpdeskOnce DEF HookStep
<1>. QED BY <1>1, <1>2, <1>3 DEF BridgeNext

LEMMA BridgeRestartOnce ==
    ASSUME BusTypeOK, BridgeTyped, LinkedInv, OnceInv, BridgeRestart
    PROVE  OnceInv'
<1>1. UNCHANGED <<refs, tickets, notices, shown, tangled>> /\ dropped \subseteq dropped'
    BY DEF BridgeRestart
<1>2. Later(tickets, tickets', <<>>, <<>>)
    BY <1>1 DEF Later
<1>3. \A n \in DOMAIN notices' : Known(notices'[n], notices, shown')
    BY <1>1, SameKnown
<1>4. refs \in [Convs -> Ref] /\ \A c \in Convs : refs[c].heard >= refs[c].heard
    BY DEF BridgeTyped, BridgeTypeOK, Ref
<1>5. ASSUME NEW n \in DOMAIN hooks, hooks[n].pc = "mark" PROVE hooks[n].conv \in dropped'
    <2>1. tickets[notices[n].ext].conv = hooks[n].conv
        BY <1>5, HookConv
    <2>. QED BY <1>5, <2>1 DEF BridgeRestart, HookBusy
<1>. QED BY <1>1, <1>2, <1>3, <1>4, <1>5, OnceKept

LEMMA OnceSuffices ==
    ASSUME BridgeTyped, LinkedInv, OnceInv
    PROVE  ReplyOnce
BY DEF OnceInv, ReplyOnce

(***************************************************************************)
(* Another ticket only after a close.  A ticket that was not closed is the   *)
(* one its conversation points at, or a relay is about to point it there.   *)
(***************************************************************************)
\* A relay at work was called for by an escalation.
CalledFor == \A i \in Tasks : relays[i].pc \notin {"read", "skipped", "done"} => Escalated(i)
Heir(i, x) == relays[i].pc = "save" /\ relays[i].ext = x
Standing(x) ==
    \/ ClosedSaid(x, notices)
    \/ refs[tickets[x].conv].ext = x
    \/ \E i \in Tasks : Heir(i, x)
SuccessionInv ==
    /\ CalledFor
    /\ \A x \in DOMAIN tickets : tickets[x].conv \notin tangled \cup dropped => Standing(x)
    /\ NewTicketAfterClose

LEMMA SuccessionStarts == BridgeInit => SuccessionInv
BY DEF BridgeInit, SuccessionInv, CalledFor, NewTicketAfterClose, Waiting

LEMMA CalledOn ==
    ASSUME CalledFor, UNCHANGED events,
           \A i \in Tasks : relays'[i].pc \notin {"read", "skipped", "done"} =>
               relays[i].pc \notin {"read", "skipped", "done"} \/ Escalated(i)
    PROVE  CalledFor'
BY DEF CalledFor, Escalated

\* A relay that is about to save points its conversation at a ticket of it.
LEMMA HeirConv ==
    ASSUME LinkedInv, NEW i \in Tasks, NEW x, Heir(i, x)
    PROVE  /\ x \in DOMAIN tickets /\ tickets[x].conv = ConvAt(i)
           /\ x = relays[i].copy.ext \/ relays[i].copy.ext = 0 \/ ClosedSaid(relays[i].copy.ext, notices)
           /\ relays[i].fresh => relays[i].copy = refs[ConvAt(i)]
BY DEF LinkedInv, RelayLinked, Saving, Heir

LEMMA TicketConv ==
    ASSUME BridgeTyped, NEW x \in DOMAIN tickets
    PROVE  tickets[x].conv \in Convs /\ x \in Nat /\ x # 0
<1>1. tickets \in Seq(Ticket)
    BY DEF BridgeTyped, BridgeTypeOK
<1>2. tickets[x] \in Ticket
    BY <1>1
<1>. QED BY <1>1, <1>2 DEF Ticket

\* A step that points no conversation away from a ticket that was not closed, lets no
\* relay go that is about to point one there, and opens no ticket but by a call answered
\* too late.
LEMMA SuccessionKept ==
    ASSUME BridgeTyped, LinkedInv, SuccessionInv, CalledFor',
           Later(tickets, tickets', notices, notices'),
           tangled \subseteq tangled', dropped \subseteq dropped',
           \A y \in DOMAIN tickets' : y \in DOMAIN tickets \/ tickets'[y].conv \in tangled',
           \A c \in Convs \ (tangled' \cup dropped') :
               /\ refs[c].ext # 0 => refs'[c].ext = refs[c].ext \/ ClosedSaid(refs[c].ext, notices)
               /\ \A i \in Tasks : relays[i].pc = "save" /\ ConvAt(i) = c =>
                      \/ relays'[i].pc = "save" /\ relays'[i].ext = relays[i].ext
                      \/ refs'[c].ext = relays[i].ext
    PROVE  SuccessionInv'
<1>1. \A x : ClosedSaid(x, notices) => ClosedSaid(x, notices')
    BY LaterLinked
<1>2. ASSUME NEW x \in DOMAIN tickets', tickets'[x].conv \notin tangled' \cup dropped'
      PROVE  Standing(x)'
    <2>. DEFINE c == tickets[x].conv
    <2>1. x \in DOMAIN tickets /\ tickets'[x].conv = c /\ c \in Convs /\ x # 0
        BY <1>2, TicketConv DEF Later
    <2>2. Standing(x) /\ c \notin tangled' \cup dropped'
        BY <1>2, <2>1 DEF SuccessionInv
    <2>3. CASE ClosedSaid(x, notices)
        BY <1>1, <2>3 DEF Standing
    <2>4. CASE refs[c].ext = x
        BY <1>1, <2>1, <2>2, <2>4 DEF Standing
    <2>5. ASSUME NEW i \in Tasks, Heir(i, x) PROVE Standing(x)'
        <3>1. ConvAt(i) = c
            BY <2>5, HeirConv
        <3>2. \/ relays'[i].pc = "save" /\ relays'[i].ext = relays[i].ext
              \/ refs'[c].ext = relays[i].ext
            BY <2>1, <2>2, <2>5, <3>1 DEF Heir
        <3>. QED BY <2>1, <2>5, <3>2 DEF Standing, Heir
    <2>. QED BY <2>2, <2>3, <2>4, <2>5 DEF Standing
<1>3. NewTicketAfterClose'
    <2>. SUFFICES ASSUME NEW s \in DOMAIN tickets', NEW t \in DOMAIN tickets', s < t,
                         tickets'[s].conv = tickets'[t].conv, tickets'[s].conv \notin tangled' \cup dropped'
                  PROVE  ClosedSaid(s, notices')
        BY DEF NewTicketAfterClose, ClosedSaid
    <2>1. s \in DOMAIN tickets /\ t \in DOMAIN tickets /\ tickets[s].conv = tickets[t].conv
          /\ tickets[s].conv \notin tangled \cup dropped
        BY DEF Later
    <2>2. ClosedSaid(s, notices)
        BY <2>1 DEF SuccessionInv, NewTicketAfterClose, ClosedSaid
    <2>. QED BY <1>1, <2>2
<1>. QED BY <1>2, <1>3 DEF SuccessionInv

\* A step that leaves the rows and whoever is about to save one.
LEMMA SuccessionSame ==
    ASSUME BridgeTyped, LinkedInv, SuccessionInv, CalledFor',
           Later(tickets, tickets', notices, notices'), DOMAIN tickets' = DOMAIN tickets,
           tangled \subseteq tangled', dropped \subseteq dropped', UNCHANGED refs,
           \A i \in Tasks : relays[i].pc = "save" /\ ConvAt(i) \notin tangled' \cup dropped' =>
               relays'[i].pc = "save" /\ relays'[i].ext = relays[i].ext
    PROVE  SuccessionInv'
BY SuccessionKept

\* A relay's step that neither calls nor saves.
LEMMA RelayMoveSuccession ==
    ASSUME BusTypeOK, BridgeTyped, LinkedInv, SuccessionInv, NEW i \in Tasks,
           SkipRelay(i) \/ ReadRef(i) \/ Gather(i) \/ RefTaken(i)
    PROVE  SuccessionInv'
<1>1. /\ UNCHANGED <<events, refs, tickets, notices, dropped>> /\ tangled \subseteq tangled'
      /\ relays[i].pc = "save" => ConvAt(i) \in tangled'
      /\ relays[i].pc \in {"read", "skipped", "done"} => Escalated(i)
    BY DEF SkipRelay, ReadRef, Gather, RefTaken, bus, Relays
<1>2. \A j \in Tasks \ {i} : relays'[j] = relays[j]
    BY DEF SkipRelay, ReadRef, Gather, RefTaken, BridgeTyped, BridgeTypeOK
<1>3. CalledFor'
    BY <1>1, <1>2, CalledOn DEF SuccessionInv
<1>. QED BY <1>1, <1>2, <1>3, SameLater, SuccessionSame

\* The helpdesk answers: with a new ticket only once the one before was closed.
LEMMA SendSuccession ==
    ASSUME BusTypeOK, BridgeTyped, LinkedInv, SuccessionInv, NEW i \in Tasks, Send(i)
    PROVE  SuccessionInv'
<1>. DEFINE x == IF Appends(relays[i].copy) THEN relays[i].copy.ext ELSE Len(tickets) + 1
            c == ConvAt(i)
<1>1. /\ Sending(i) /\ tickets' = Receive(i) /\ UNCHANGED <<events, refs, notices, dropped>>
      /\ tangled' = IF Overlaps(i) THEN tangled \cup {c} ELSE tangled
    BY DEF Send, bus
<1>2. /\ Later(tickets, tickets', notices, notices') /\ x \in DOMAIN tickets' /\ tickets'[x].conv = c
      /\ \A y \in DOMAIN tickets' \ DOMAIN tickets : y = Len(tickets) + 1 /\ ~Appends(relays[i].copy)
      /\ Appends(relays[i].copy) => DOMAIN tickets' = DOMAIN tickets
    BY <1>1, ReceiveLater
<1>3. relays'[i].pc = "save" /\ relays'[i].ext = x /\ \A j \in Tasks \ {i} : relays'[j] = relays[j]
    BY RelayIsRelay DEF Send, Relay, BridgeTyped, BridgeTypeOK
<1>4. CalledFor'
    BY <1>1, <1>3, CalledOn DEF Sending, SuccessionInv, CalledFor
<1>5. relays[i].pc # "save" /\ relays[i].pc \notin {"read", "skipped", "done"}
    BY <1>1 DEF Sending
<1>6. CASE DOMAIN tickets' = DOMAIN tickets \/ c \in tangled'
    <2>1. \A y \in DOMAIN tickets' : y \in DOMAIN tickets \/ tickets'[y].conv \in tangled'
        BY <1>2, <1>6
    <2>. QED BY <1>1, <1>2, <1>3, <1>4, <1>5, <2>1, SuccessionKept
<1>7. CASE ~Appends(relays[i].copy) /\ c \notin tangled'
    <2>1. /\ relays[i].fresh /\ c \notin tangled
          /\ \A j \in Tasks \ {i} :
                Escalated(j) /\ ConvAt(j) = c => relays[j].pc \in {"read", "skipped", "done"}
        BY <1>1, <1>7 DEF Overlaps
    <2>2. relays[i].copy = refs[c] /\ Linked(refs[c], c, tickets, notices) /\ relays[i].copy \in Ref
        BY <1>5, <2>1, RelayIsRelay DEF LinkedInv, RelayLinked
    <2>3. refs[c].ext # 0 => ClosedSaid(refs[c].ext, notices)
        BY <1>7, <2>2 DEF Appends, Linked, Ref
    <2>4. ASSUME NEW s \in DOMAIN tickets, tickets[s].conv = c, c \notin dropped
          PROVE  ClosedSaid(s, notices)
        <3>1. Standing(s) /\ s # 0
            BY <2>1, <2>4, TicketConv DEF SuccessionInv
        <3>2. ASSUME NEW j \in Tasks, Heir(j, s) PROVE FALSE
            <4>1. ConvAt(j) = c /\ j # i /\ relays[j].pc = "save"
                BY <1>5, <2>4, <3>2, HeirConv DEF Heir
            <4>2. Escalated(j)
                BY <4>1 DEF SuccessionInv, CalledFor
            <4>. QED BY <2>1, <4>1, <4>2
        <3>. QED BY <2>3, <2>4, <3>1, <3>2 DEF Standing
    <2>5. tickets \in Seq(Ticket) /\ \A y \in DOMAIN tickets : y < Len(tickets) + 1
        BY DEF BridgeTyped, BridgeTypeOK
    <2>6. x = Len(tickets) + 1
        BY <1>7
    <2>7. \A y : ClosedSaid(y, notices) => ClosedSaid(y, notices')
        BY <1>2, LaterLinked
    <2>. HIDE DEF x, c
    <2>8. ASSUME NEW y \in DOMAIN tickets', tickets'[y].conv \notin tangled' \cup dropped'
          PROVE  Standing(y)'
        <3>1. CASE y \in DOMAIN tickets
            <4>1. tickets'[y].conv = tickets[y].conv /\ Standing(y)
                BY <1>1, <1>2, <2>8, <3>1 DEF Later, SuccessionInv
            <4>2. \A j \in Tasks : Heir(j, y) => Heir(j, y)'
                BY <1>3, <1>5 DEF Heir
            <4>. QED BY <1>1, <2>7, <4>1, <4>2 DEF Standing
        <3>2. CASE y \notin DOMAIN tickets
            <4>1. Heir(i, y)'
                BY <1>2, <1>3, <2>6, <2>8, <3>2 DEF Heir
            <4>. QED BY <4>1 DEF Standing
        <3>. QED BY <3>1, <3>2
    <2>9. NewTicketAfterClose'
        <3>. SUFFICES ASSUME NEW s \in DOMAIN tickets', NEW t \in DOMAIN tickets', s < t,
                             tickets'[s].conv = tickets'[t].conv,
                             tickets'[s].conv \notin tangled' \cup dropped'
                      PROVE  ClosedSaid(s, notices')
            BY DEF NewTicketAfterClose, ClosedSaid
        <3>1. s \in DOMAIN tickets
            <4>1. t <= Len(tickets) + 1
                BY <1>2, <2>5
            <4>2. s # Len(tickets) + 1
                BY <1>2, <2>5, <4>1
            <4>. QED BY <1>2, <4>2
        <3>2. tickets[s].conv = tickets'[s].conv /\ tickets[s].conv \notin tangled \cup dropped
            BY <1>1, <1>2, <3>1 DEF Later
        <3>3. CASE t \in DOMAIN tickets
            <4>1. tickets[t].conv = tickets[s].conv
                BY <1>2, <3>2, <3>3 DEF Later
            <4>2. ClosedSaid(s, notices)
                BY <3>1, <3>2, <3>3, <4>1 DEF SuccessionInv, NewTicketAfterClose, ClosedSaid
            <4>. QED BY <2>7, <4>2
        <3>4. CASE t \notin DOMAIN tickets
            <4>1. t = x
                BY <1>2, <2>6, <3>4
            <4>2. tickets[s].conv = c
                BY <1>2, <3>2, <4>1
            <4>. QED BY <2>4, <2>7, <3>1, <3>2, <4>2
        <3>. QED BY <3>3, <3>4
    <2>. QED BY <1>4, <2>8, <2>9 DEF SuccessionInv
<1>. QED BY <1>2, <1>6, <1>7

LEMMA SendFailsSuccession ==
    ASSUME BusTypeOK, BridgeTyped, LinkedInv, SuccessionInv, NEW i \in Tasks, SendFails(i)
    PROVE  SuccessionInv'
<1>1. /\ Sending(i) /\ UNCHANGED <<events, refs, notices>> /\ dropped \subseteq dropped'
      /\ relays' = Retry(i)
      /\ \/ tickets' = tickets /\ tangled' = tangled
         \/ tickets' = Receive(i) /\ tangled' = tangled \cup {ConvAt(i)}
    BY DEF SendFails
<1>2. \A j \in Tasks \ {i} : relays'[j] = relays[j]
    BY <1>1 DEF Retry, BridgeTyped, BridgeTypeOK
<1>3. CalledFor'
    BY <1>1, <1>2, CalledOn DEF Sending, SuccessionInv, CalledFor
<1>4. relays[i].pc # "save"
    BY <1>1 DEF Sending
<1>5. CASE tickets' = tickets /\ tangled' = tangled
    BY <1>1, <1>2, <1>3, <1>4, <1>5, SameLater, SuccessionSame
<1>6. CASE tickets' = Receive(i) /\ tangled' = tangled \cup {ConvAt(i)}
    <2>1. /\ Later(tickets, tickets', notices, notices')
          /\ LET x == IF Appends(relays[i].copy) THEN relays[i].copy.ext ELSE Len(tickets) + 1
             IN  x \in DOMAIN tickets' /\ tickets'[x].conv = ConvAt(i)
          /\ \A y \in DOMAIN tickets' \ DOMAIN tickets :
                y = Len(tickets) + 1 /\ ~Appends(relays[i].copy)
        BY <1>1, <1>6, ReceiveLater
    <2>2. \A y \in DOMAIN tickets' : y \in DOMAIN tickets \/ tickets'[y].conv \in tangled'
        BY <1>6, <2>1
    <2>. QED BY <1>1, <1>2, <1>3, <1>4, <1>6, <2>1, <2>2, SuccessionKept
<1>. QED BY <1>1, <1>5, <1>6

\* A row is saved: it points where its copy did, or where it is time to, unless the
\* copy was old.
LEMMA SaveSuccession ==
    ASSUME BridgeTyped, LinkedInv, SuccessionInv, CalledFor', NEW c \in Convs, NEW row \in Ref,
           refs' = [refs EXCEPT ![c] = row], UNCHANGED <<tickets, notices, dropped>>,
           tangled \subseteq tangled',
           \/ c \in tangled'
           \/ refs[c].ext = 0 \/ row.ext = refs[c].ext \/ ClosedSaid(refs[c].ext, notices),
           \A i \in Tasks : relays[i].pc = "save" =>
               \/ relays'[i].pc = "save" /\ relays'[i].ext = relays[i].ext
               \/ ConvAt(i) = c /\ row.ext = relays[i].ext
    PROVE  SuccessionInv'
<1>1. \A d \in Convs : refs'[d] = IF d = c THEN row ELSE refs[d]
    BY DEF BridgeTyped, BridgeTypeOK
<1>2. Later(tickets, tickets', notices, notices')
    BY SameLater
<1>3. \A d \in Convs \ (tangled' \cup dropped') :
          /\ refs[d].ext # 0 => refs'[d].ext = refs[d].ext \/ ClosedSaid(refs[d].ext, notices)
          /\ \A i \in Tasks : relays[i].pc = "save" /\ ConvAt(i) = d =>
                 \/ relays'[i].pc = "save" /\ relays'[i].ext = relays[i].ext
                 \/ refs'[d].ext = relays[i].ext
    BY <1>1
<1>. QED BY <1>2, <1>3, SuccessionKept

LEMMA SaveRefSuccession ==
    ASSUME BusTypeOK, BridgeTyped, LinkedInv, SuccessionInv, NEW i \in Tasks, SaveRef(i)
    PROVE  SuccessionInv'
<1>. DEFINE c == ConvAt(i)
<1>1. c \in Convs
    BY EventConv DEF SaveRef, BridgeTyped, Placed
<1>2. RowOf(i) \in Ref /\ RowOf(i).ext = relays[i].ext
    BY RelayIsRelay DEF RowOf, Ref
<1>3. relays[i].pc = "save" /\ Heir(i, relays[i].ext)
    BY DEF SaveRef, Heir
<1>4. /\ relays[i].ext = relays[i].copy.ext \/ relays[i].copy.ext = 0
          \/ ClosedSaid(relays[i].copy.ext, notices)
      /\ relays[i].fresh => relays[i].copy = refs[c]
    BY <1>3, HeirConv
<1>5. \/ c \in tangled'
      \/ refs[c].ext = 0 \/ RowOf(i).ext = refs[c].ext \/ ClosedSaid(refs[c].ext, notices)
    BY <1>2, <1>4 DEF SaveRef, Tangle
<1>6. \A j \in Tasks \ {i} : relays'[j] = OldRelays(c)[j]
    BY <1>1, OldIsTyped DEF SaveRef
<1>7. \A j \in Tasks \ {i} : relays'[j].pc = relays[j].pc /\ relays'[j].ext = relays[j].ext
    BY <1>1, <1>6, OldIsTyped
<1>8. /\ refs' = [refs EXCEPT ![c] = RowOf(i)] /\ tangled \subseteq tangled'
      /\ UNCHANGED <<events, tickets, notices, dropped>>
    BY DEF SaveRef, Tangle, bus
<1>9. CalledFor'
    BY <1>3, <1>7, <1>8, CalledOn DEF SuccessionInv
<1>10. \A j \in Tasks : relays[j].pc = "save" =>
           \/ relays'[j].pc = "save" /\ relays'[j].ext = relays[j].ext
           \/ ConvAt(j) = c /\ RowOf(i).ext = relays[j].ext
    BY <1>2, <1>7
<1>. HIDE DEF c
<1>. QED BY <1>1, <1>2, <1>5, <1>8, <1>9, <1>10, SaveSuccession

LEMMA SaveHookSuccession ==
    ASSUME BusTypeOK, BridgeTyped, LinkedInv, SuccessionInv, NEW k \in DOMAIN hooks,
           Mirror(k) \/ MarkHeard(k)
    PROVE  SuccessionInv'
<1>. DEFINE c == hooks[k].conv
<1>1. PICK pc, copy : /\ SaveHook(k, pc, copy) /\ copy \in Ref /\ copy.ext = hooks[k].copy.ext
                      /\ hooks[k].pc \notin {"sent", "done"}
                      /\ UNCHANGED <<events, tickets, notices, dropped>>
    <2>0. hooks[k].copy \in Ref /\ notices[k] \in Notice
        BY HookIsHook
    <2>1. CASE Mirror(k)
        <3>. DEFINE copy == [hooks[k].copy EXCEPT !.status = notices[k].status]
        <3>1. copy \in Ref /\ copy.ext = hooks[k].copy.ext
            BY <2>0, <2>1 DEF Mirror, Ref, Notice
        <3>2. SaveHook(k, "check", copy) /\ hooks[k].pc = "mirror"
              /\ UNCHANGED <<events, tickets, notices, dropped>>
            BY <2>1 DEF Mirror, bus
        <3>. QED BY <3>1, <3>2
    <2>2. CASE MarkHeard(k)
        <3>. DEFINE copy == [hooks[k].copy EXCEPT !.heard = notices[k].reply]
        <3>1. copy \in Ref /\ copy.ext = hooks[k].copy.ext
            BY <2>0 DEF Ref, Notice
        <3>2. SaveHook(k, "done", copy) /\ hooks[k].pc = "mark"
              /\ UNCHANGED <<events, tickets, notices, dropped>>
            BY <2>2 DEF MarkHeard, bus
        <3>. QED BY <3>1, <3>2
    <2>. QED BY <2>1, <2>2
<1>2. c \in Convs /\ (hooks[k].fresh => hooks[k].copy = refs[c])
    BY <1>1, HookIsHook, HookConv
<1>3. /\ refs' = [refs EXCEPT ![c] = copy] /\ tangled \subseteq tangled'
      /\ (c \in tangled' \/ copy.ext = refs[c].ext)
      /\ relays' = OldRelays(c)
    BY <1>1, <1>2 DEF SaveHook, Tangle
<1>4. \A j \in Tasks : relays'[j].pc = relays[j].pc /\ relays'[j].ext = relays[j].ext
    BY <1>2, <1>3, OldIsTyped
<1>5. CalledFor'
    BY <1>1, <1>4, CalledOn DEF SuccessionInv
<1>. HIDE DEF c
<1>. QED BY <1>1, <1>2, <1>3, <1>4, <1>5, SaveSuccession

\* Neither a webhook nor a handler of one that saves nothing touches the rows or the relays.
LEMMA ElsewhereSuccession ==
    ASSUME BusTypeOK, BridgeTyped, LinkedInv, SuccessionInv,
           \/ \E k \in DOMAIN hooks : FindRef(k) \/ CheckReply(k) \/ StoreReply(k) \/ Redeliver(k)
           \/ \E t \in DOMAIN tickets : TurnTicket(t) \/ ReplyTo(t)
    PROVE  SuccessionInv'
<1>1. UNCHANGED <<events, refs, relays, dropped>> /\ tangled \subseteq tangled'
    BY DEF FindRef, CheckReply, StoreReply, Redeliver, TurnTicket, ReplyTo, bus
<1>2. CalledFor'
    BY <1>1, CalledOn DEF SuccessionInv
<1>3. notices \in Seq(Notice) /\ tickets \in Seq(Ticket)
    BY DEF BridgeTyped, BridgeTypeOK
<1>4. \A notice : Post(notice) => \A k \in DOMAIN notices : k \in DOMAIN notices' /\ notices'[k] = notices[k]
    BY <1>3 DEF Post
<1>5. \A k \in DOMAIN notices : k \in DOMAIN notices' /\ notices'[k] = notices[k]
    BY <1>4 DEF FindRef, CheckReply, StoreReply, Redeliver, TurnTicket, ReplyTo
<1>6. DOMAIN tickets' = DOMAIN tickets /\ \A x \in DOMAIN tickets : tickets'[x].conv = tickets[x].conv
    <2>1. ASSUME NEW t \in DOMAIN tickets, TurnTicket(t)
          PROVE  DOMAIN tickets' = DOMAIN tickets /\ \A x \in DOMAIN tickets : tickets'[x].conv = tickets[x].conv
        <3>. DEFINE v == [tickets[t] EXCEPT !.open = ~@]
        <3>1. tickets[t] \in Ticket
            BY <1>3
        <3>2. tickets' = [tickets EXCEPT ![t] = v] /\ v.conv = tickets[t].conv
            BY <2>1, <3>1 DEF TurnTicket, Ticket
        <3>. HIDE DEF v
        <3>. QED BY <3>2
    <2>2. (\E t \in DOMAIN tickets : TurnTicket(t)) \/ UNCHANGED tickets
        BY DEF FindRef, CheckReply, StoreReply, Redeliver, ReplyTo
    <2>. QED BY <2>1, <2>2
<1>7. Later(tickets, tickets', notices, notices')
    BY <1>5, <1>6 DEF Later
<1>. QED BY <1>1, <1>2, <1>6, <1>7, SuccessionSame

LEMMA BridgeNextSuccession ==
    ASSUME BusTypeOK, BridgeTyped, LinkedInv, SuccessionInv, BridgeNext
    PROVE  SuccessionInv'
<1>1. ASSUME NEW i \in Tasks, RelayStep(i) \/ SendFails(i) PROVE SuccessionInv'
    BY <1>1, RelayMoveSuccession, SendSuccession, SaveRefSuccession, SendFailsSuccession
       DEF RelayStep
<1>2. ASSUME NEW t \in DOMAIN tickets, TurnTicket(t) \/ ReplyTo(t) PROVE SuccessionInv'
    BY <1>2, ElsewhereSuccession
<1>3. ASSUME NEW k \in DOMAIN hooks, HookStep(k) \/ Redeliver(k) PROVE SuccessionInv'
    BY <1>3, ElsewhereSuccession, SaveHookSuccession DEF HookStep
<1>. QED BY <1>1, <1>2, <1>3 DEF BridgeNext

LEMMA BridgeRestartSuccession ==
    ASSUME BusTypeOK, BridgeTyped, LinkedInv, SuccessionInv, BridgeRestart, UNCHANGED events
    PROVE  SuccessionInv'
<1>1. UNCHANGED <<refs, tickets, notices, tangled>> /\ dropped \subseteq dropped'
    BY DEF BridgeRestart
<1>2. \A i \in Tasks : relays[i].pc # "read" => i \in DOMAIN events
    BY DEF BridgeTyped, Placed
<1>4. ASSUME NEW i \in Tasks, relays[i].pc = "save" PROVE ConvAt(i) \in dropped'
    <2>1. RelayBusy(i)
        BY <1>2, <1>4 DEF RelayBusy
    <2>. QED BY <2>1 DEF BridgeRestart
<1>5. \A i \in Tasks : relays'[i].pc = "done" \/ relays'[i] = relays[i]
    BY RelayIsRelay DEF BridgeRestart, Relay
<1>6. CalledFor'
    BY <1>5, CalledOn DEF SuccessionInv
<1>. QED BY <1>1, <1>4, <1>6, SameLater, SuccessionSame

(***************************************************************************)
(* The bridge's account of its rows, its replies and its tickets.           *)
(***************************************************************************)
BridgeInv == LinkedInv /\ OnceInv /\ SuccessionInv

LEMMA BridgeInvStarts == BridgeInit => BridgeInv
BY LinkedStarts, OnceStarts, SuccessionStarts DEF BridgeInv

LEMMA BridgeNextInv ==
    ASSUME BusTypeOK, BridgeTyped, BridgeInv, BridgeNext
    PROVE  BridgeInv'
BY BridgeNextLinked, BridgeNextOnce, BridgeNextSuccession DEF BridgeInv

LEMMA BridgeRestartInv ==
    ASSUME BusTypeOK, BridgeTyped, BridgeInv, BridgeRestart, UNCHANGED events
    PROVE  BridgeInv'
BY BridgeRestartLinked, BridgeRestartOnce, BridgeRestartSuccession DEF BridgeInv

\* Calls are made, and nothing of the bridge changes.
LEMMA BridgeInvRests ==
    ASSUME BridgeTyped, BridgeInv, UNCHANGED bridge,
           \A i \in DOMAIN events : i \in DOMAIN events' /\ events'[i] = events[i]
    PROVE  BridgeInv'
<1>1. LinkedInv'
    BY BridgeRestsLinked DEF BridgeInv
<1>2. UNCHANGED <<refs, tickets, relays, notices, hooks, shown, tangled, dropped>>
    BY DEF bridge
<1>3. OnceInv'
    BY <1>2 DEF BridgeInv, OnceInv, Marking
<1>4. SuccessionInv'
    BY <1>2 DEF BridgeInv, SuccessionInv, CalledFor, Escalated, Standing, Heir, NewTicketAfterClose
<1>. QED BY <1>1, <1>3, <1>4 DEF BridgeInv

LEMMA BridgeInvSuffices ==
    ASSUME BridgeTyped, BridgeInv
    PROVE  ReplyOnce /\ NewTicketAfterClose
BY OnceSuffices DEF BridgeInv, SuccessionInv
=============================================================================
