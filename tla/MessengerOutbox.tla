--------------------------- MODULE MessengerOutbox ---------------------------
(***************************************************************************)
(* The outbound relay of apps/api/src/domain/messenger: the outbox service  *)
(* (messenger-outbox.service.ts), its worker (messenger-outbox.worker.ts)   *)
(* and the rows they share (channel_threads, channel_outbox,                *)
(* channel_message_map).                                                    *)
(*                                                                          *)
(* Several deliverers run these handlers at the same time: the worker's     *)
(* tick, which never overlaps itself, and every inbound message, whose      *)
(* handler flushes its own thread inline when it is done.  An action is     *)
(* what one of them does between two awaits, so every interleaving the      *)
(* event loop (or a second replica) can produce is a behaviour.             *)
(***************************************************************************)
EXTENDS Integers, FiniteSets

CONSTANTS
    MsgIds,           \* message.id: autoincrement, handed out in order
    Kinds,            \* the kinds of message that are written
    Convs,            \* conversations
    Threads,          \* channel_threads rows, all of one channel
    Owner,            \* Owner[c]: the thread conversation c belongs to
    NoConv,           \* thread.conversationId = NULL
    Worker,           \* the outbox worker's tick
    Flushers,         \* inbound handlers that may be flushing at once
    MaxAttempts,      \* MAX_ATTEMPTS
    Batch,            \* BATCH
    ScanLimit,        \* SCAN_LIMIT
    SweepLimit,       \* threads one sweep takes (100)
    OverlappingSaves, \* may two message inserts be in flight together?
    AsyncProvider,    \* does the provider hand replies to a device agent?
    Faults,           \* the kinds of disturbance that may happen (FaultKinds)
    MaxFaults         \* bound: how many of them, all kinds together

ASSUME OutboxAssumption ==
    /\ MsgIds \subseteq Nat \ {0}
    /\ Kinds \subseteq {"user", "text", "file", "empty"}
    /\ NoConv \notin Convs
    /\ Threads # {}
    /\ Owner \in [Convs -> Threads]
    /\ Worker \notin Flushers
    /\ MaxAttempts \in Nat \ {0}
    /\ Batch \in Nat \ {0}
    /\ ScanLimit \in Nat \ {0}
    /\ SweepLimit \in Nat \ {0}
    /\ OverlappingSaves \in BOOLEAN
    /\ AsyncProvider \in BOOLEAN
    /\ MaxFaults \in Nat

VARIABLES
    opened,     \* conversations that have been opened
    msgs,       \* the messages table, as far as the relay looks at it
    threads,    \* channel_threads
    channelUp,  \* the channel row exists and is active
    outbox,     \* channel_outbox, by messageId (uk_co_message)
    nextRowId,  \* autoincrement of channel_outbox
    mapIn,      \* messages with an INBOUND channel_message_map row
    mapOut,     \* messages with an OUTBOUND channel_message_map row
    proc,       \* what each deliverer is doing
    faults,     \* how many disturbances there have been
    copies,     \* observer: sends of each message the provider accepted
    proved,     \* observer: messages the provider reported delivered
    waived      \* observer: messages walked past on a receive-only thread

observers == <<copies, proved, waived>>
rows == <<outbox, nextRowId>>
maps == <<mapIn, mapOut>>
vars == <<opened, msgs, threads, channelUp, outbox, nextRowId, mapIn, mapOut,
          proc, faults, copies, proved, waived>>

Deliverers == Flushers \cup {Worker}
FaultKinds == {"crash", "rebind", "reply", "channel", "dbError", "lostReply"}
NoMsg == 0
MsgOrNone == MsgIds \cup {NoMsg}

(***************************************************************************)
(* Rows and local state.                                                    *)
(***************************************************************************)
\* "user": the shopper's own words; "text": an AI answer, agent reply or
\* system notice; "file": a reply that is only an attachment; "empty": neither.
Relayable == {"text", "file"}
Message == [conv : Convs \cup {NoConv}, kind : Kinds \cup {"empty"},
            state : {"none", "saving", "saved"}]
Thread == [conv : Convs \cup {NoConv}, reply : BOOLEAN, cursor : MsgOrNone]

RowStatus == {"pending", "sent", "unconfirmed", "failed"}
Errors == {"none", "inactive", "receiveOnly", "provider", "missing", "agent"}
Row == [id : Nat, thread : Threads, status : RowStatus \cup {"none"},
        attempts : Nat, backoff : BOOLEAN, lastError : Errors]

Steps == {"idle", "sweep", "read", "scan", "queue", "cursor", "select",
          "deliver", "lookup", "send", "map", "mark", "promote", "fail",
          "due", "poll", "confirm", "settle"}
Outcome == {"none", "sent", "unconfirmed", "failed"}

\* One deliverer.  snap is the thread row it read, scan the messages it still
\* has to queue and last the cursor it has reached; batch holds the outbox rows
\* it selected and seen the attempts it read with them.  The worker is due when
\* the batch comes from deliverDue, and todo is what flushAllThreads has left.
Deliverer ==
    [pc : Steps, due : BOOLEAN, todo : SUBSET Threads, thread : Threads,
     snap : Thread, scan : SUBSET MsgIds, last : MsgOrNone,
     batch : SUBSET MsgIds, seen : [MsgIds -> Nat], msg : MsgOrNone,
     outcome : Outcome, error : Errors]

NoThread == [conv |-> NoConv, reply |-> TRUE, cursor |-> NoMsg]
NoRow(t) == [id |-> 0, thread |-> t, status |-> "none", attempts |-> 0,
             backoff |-> FALSE, lastError |-> "none"]
Home == CHOOSE t \in Threads : TRUE
Idle == [pc |-> "idle", due |-> FALSE, todo |-> {}, thread |-> Home,
         snap |-> NoThread, scan |-> {}, last |-> NoMsg, batch |-> {},
         seen |-> [m \in MsgIds |-> 0], msg |-> NoMsg, outcome |-> "none",
         error |-> "none"]

TypeOK ==
    /\ opened \subseteq Convs
    /\ msgs \in [MsgIds -> Message]
    /\ threads \in [Threads -> Thread]
    /\ channelUp \in BOOLEAN
    /\ outbox \in [MsgIds -> Row]
    /\ nextRowId \in Nat \ {0}
    /\ mapIn \subseteq MsgIds
    /\ mapOut \subseteq MsgIds
    /\ proc \in [Deliverers -> Deliverer]
    /\ faults \in Nat
    /\ copies \in [MsgIds -> Nat]
    /\ proved \subseteq MsgIds
    /\ waived \subseteq MsgIds

Init ==
    /\ msgs = [m \in MsgIds |->
                 [conv |-> NoConv, kind |-> "empty", state |-> "none"]]
    /\ threads \in [Threads -> [conv : Convs \cup {NoConv},
                                reply : BOOLEAN, cursor : {NoMsg}]]
    /\ \A t \in Threads : threads[t].conv # NoConv =>
                            Owner[threads[t].conv] = t
    /\ opened = {threads[t].conv : t \in Threads} \ {NoConv}
    /\ channelUp = TRUE
    /\ outbox = [m \in MsgIds |-> NoRow(Home)]
    /\ nextRowId = 1
    /\ mapIn = {}
    /\ mapOut = {}
    /\ proc = [d \in Deliverers |-> Idle]
    /\ faults = 0
    /\ copies = [m \in MsgIds |-> 0]
    /\ proved = {}
    /\ waived = {}

(***************************************************************************)
(* Helpers.                                                                 *)
(***************************************************************************)
Saved(m) == msgs[m].state = "saved"
Queued(m) == outbox[m].status # "none"
Pending(m) == outbox[m].status = "pending"

\* Mutant: the scan also sees inserts that have not committed.
UnscannedDirty(c, after) ==
    {m \in MsgIds : msgs[m].state # "none" /\ msgs[m].conv = c /\ m > after}

\* where conversationId = c and id > after
Unscanned(c, after) ==
    {m \in MsgIds : Saved(m) /\ msgs[m].conv = c /\ m > after}

\* Mutant: order by id desc.
LastIds(S, k) ==
    {m \in S : Cardinality({n \in S : n > m}) < k}

\* order by id asc, take k -- of messages, and of outbox rows
FirstIds(S, k) ==
    {m \in S : Cardinality({n \in S : n < m}) < k}
FirstRows(S, k) ==
    {m \in S : Cardinality({n \in S : outbox[n].id < outbox[m].id}) < k}

IsFirstId(m, S) == m \in S /\ \A n \in S : m <= n
IsFirstRow(m, S) == m \in S /\ \A n \in S : outbox[m].id <= outbox[n].id

At(d, step) == proc[d].pc = step
Become(d, state) == proc' = [proc EXCEPT ![d] = state]

\* The deliverer turns to its selected rows.
Deliver(d, batch) ==
    Become(d, [proc[d] EXCEPT !.pc = "deliver", !.batch = batch,
                 !.seen = [m \in MsgIds |->
                             IF m \in batch THEN outbox[m].attempts ELSE 0]])

\* It is done with the row it was working on and takes the next one.
Drop(d) ==
    LET m == proc[d].msg
    IN  Become(d, [proc[d] EXCEPT
           !.pc = IF proc[d].pc = "settle" THEN "confirm" ELSE "deliver",
           !.batch = @ \ {m}, !.seen = [@ EXCEPT ![m] = 0],
           !.msg = NoMsg, !.outcome = "none", !.error = "none"])

GoTo(d, step) == Become(d, [proc[d] EXCEPT !.pc = step])

\* A disturbance of this kind happens now.
Fault(kind) ==
    /\ kind \in Faults /\ faults < MaxFaults
    /\ faults' = faults + 1

\* The failures deliver() calls terminal.
Terminal == {"receiveOnly", "missing"}

(***************************************************************************)
(* Everyone else: the paths that persist messages, the ingest handler's     *)
(* own writes, the operator and the clock.                                  *)
(***************************************************************************)
\* msgRepo.save is a transaction: the id is taken first, the row is seen later.
BeginSave(m, c, kind) ==
    /\ msgs[m].state = "none"
    /\ \A n \in MsgIds : n < m => msgs[n].state # "none"
    /\ OverlappingSaves \/ \A n \in MsgIds : msgs[n].state # "saving"
    /\ c \in opened
    /\ msgs' = [msgs EXCEPT ![m] = [conv |-> c, kind |-> kind,
                                     state |-> "saving"]]
    /\ UNCHANGED <<opened, threads, channelUp, rows, maps, proc, faults,
                   observers>>

CommitSave(m) ==
    /\ msgs[m].state = "saving"
    /\ msgs' = [msgs EXCEPT ![m].state = "saved"]
    /\ UNCHANGED <<opened, threads, channelUp, rows, maps, proc, faults,
                   observers>>

\* The ingest handler maps the shopper's turn once the whole turn is handled.
MapInbound(m) ==
    /\ Saved(m) /\ msgs[m].kind = "user" /\ m \notin mapIn
    /\ mapIn' = mapIn \cup {m}
    /\ UNCHANGED <<opened, msgs, threads, channelUp, rows, mapOut, proc, faults,
                   observers>>

\* resolveConversation points the thread at the open conversation.
Rebind(t, c) ==
    /\ Owner[c] = t /\ threads[t].conv # c
    /\ Fault("rebind")
    /\ threads' = [threads EXCEPT ![t].conv = c]
    /\ opened' = opened \cup {c}
    /\ UNCHANGED <<msgs, channelUp, rows, maps, proc, observers>>

\* findOrCreateThread refreshes the reply permission from each inbound message.
SetReply(t) ==
    /\ Fault("reply")
    /\ threads' = [threads EXCEPT ![t].reply = ~@]
    /\ UNCHANGED <<opened, msgs, channelUp, rows, maps, proc, observers>>

\* An operator disables (or deletes) the channel, or enables it again.
SetChannel ==
    /\ Fault("channel")
    /\ channelUp' = ~channelUp
    /\ UNCHANGED <<opened, msgs, threads, rows, maps, proc, observers>>

\* nextAttemptAt has come.
BackoffElapses(m) ==
    /\ outbox[m].backoff
    /\ outbox' = [outbox EXCEPT ![m].backoff = FALSE]
    /\ UNCHANGED <<opened, msgs, threads, channelUp, nextRowId, maps, proc,
                   faults, observers>>

\* The process restarts: whatever its handlers were doing is gone.
Crash ==
    /\ Fault("crash")
    /\ \E d \in Deliverers : ~At(d, "idle")
    /\ proc' = [d \in Deliverers |-> Idle]
    /\ UNCHANGED <<opened, msgs, threads, channelUp, rows, maps, observers>>

(***************************************************************************)
(* flushThread: queue what is new on a thread.                              *)
(***************************************************************************)
outside == <<opened, msgs, channelUp, mapIn>>

\* An inbound handler reaches its inline flush.
BeginFlush(f, t) ==
    /\ At(f, "idle")
    /\ Become(f, [Idle EXCEPT !.pc = "read", !.thread = t])
    /\ UNCHANGED <<outside, threads, rows, mapOut, faults, observers>>

\* Read the thread; without a conversation there is nothing to do.
ReadThread(d) ==
    LET t == proc[d].thread
    IN  /\ At(d, "read")
        /\ IF threads[t].conv = NoConv
           THEN Become(d, IF d = Worker THEN [proc[d] EXCEPT !.pc = "sweep"]
                                        ELSE Idle)
           ELSE Become(d, [proc[d] EXCEPT !.pc = "scan",
                             !.snap = threads[t], !.last = threads[t].cursor])
        /\ UNCHANGED <<outside, threads, rows, mapOut, faults, observers>>

ScanMessages(d) ==
    LET snap == proc[d].snap
    IN  /\ At(d, "scan")
        /\ Become(d, [proc[d] EXCEPT !.pc = "queue",
             !.scan = FirstIds(Unscanned(snap.conv, snap.cursor), ScanLimit)])
        /\ UNCHANGED <<outside, threads, rows, mapOut, faults, observers>>

\* Mutant: the check on the sender is gone.
SkippedBlindly(d, m) ==
    ~proc[d].snap.reply \/ m \in mapIn \/ msgs[m].kind = "empty"

\* The four reasons to walk past a message.
Skipped(d, m) ==
    \/ ~proc[d].snap.reply
    \/ msgs[m].kind = "user"
    \/ m \in mapIn
    \/ msgs[m].kind = "empty"

Walk(d, m) ==
    Become(d, [proc[d] EXCEPT !.scan = @ \ {m}, !.last = m])

SkipMessage(d) ==
    \E m \in proc[d].scan :
        /\ At(d, "queue") /\ IsFirstId(m, proc[d].scan)
        /\ Skipped(d, m)
        /\ Walk(d, m)
        /\ waived' = IF proc[d].snap.reply THEN waived ELSE waived \cup {m}
        /\ UNCHANGED <<outside, threads, rows, mapOut, faults, copies, proved>>

\* Insert the outbox row; uk_co_message turns a second insert into a no-op.
QueueMessage(d) ==
    \E m \in proc[d].scan :
        /\ At(d, "queue") /\ IsFirstId(m, proc[d].scan)
        /\ ~Skipped(d, m)
        /\ Walk(d, m)
        /\ IF Queued(m)
           THEN UNCHANGED rows
           ELSE /\ outbox' = [outbox EXCEPT ![m] =
                                [id |-> nextRowId, thread |-> proc[d].thread,
                                 status |-> "pending", attempts |-> 0,
                                 backoff |-> FALSE, lastError |-> "none"]]
                /\ nextRowId' = nextRowId + 1
        /\ UNCHANGED <<outside, threads, mapOut, faults, observers>>

\* The insert fails for another reason: .catch(() => undefined) hides it too.
LoseInsert(d) ==
    \E m \in proc[d].scan :
        /\ At(d, "queue") /\ IsFirstId(m, proc[d].scan)
        /\ ~Skipped(d, m) /\ ~Queued(m)
        /\ Fault("dbError")
        /\ Walk(d, m)
        /\ UNCHANGED <<outside, threads, rows, mapOut, observers>>

\* The cursor reached, compared with the thread row read at the start.
NewCursor(p) ==
    IF p.last # p.snap.cursor THEN p.last ELSE threads[p.thread].cursor

StoreCursor(d) ==
    LET p == proc[d]
    IN  /\ At(d, "queue") /\ p.scan = {}
        /\ threads' = [threads EXCEPT ![p.thread].cursor = NewCursor(p)]
        /\ Become(d, [p EXCEPT !.pc = "select", !.snap = NoThread,
                                !.last = NoMsg])
        /\ UNCHANGED <<outside, rows, mapOut, faults, observers>>

\* deliverPendingForThread: pending rows of the thread, whatever their backoff.
SelectPending(d) ==
    /\ At(d, "select")
    /\ Deliver(d, FirstRows({m \in MsgIds : /\ Pending(m)
                                            /\ outbox[m].thread = proc[d].thread},
                            ScanLimit))
    /\ UNCHANGED <<outside, threads, rows, mapOut, faults, observers>>

(***************************************************************************)
(* deliver and fail: one row at a time.                                     *)
(***************************************************************************)
\* Take the next selected row, read its thread and its channel.
TakeRow(d) ==
    \E m \in proc[d].batch :
        LET t == outbox[m].thread
            Fail(reason) == [proc[d] EXCEPT !.pc = "fail", !.msg = m,
                                            !.error = reason]
        IN  /\ At(d, "deliver") /\ IsFirstRow(m, proc[d].batch)
            /\ Become(d, IF ~threads[t].reply THEN Fail("receiveOnly")
                         ELSE IF ~channelUp THEN Fail("inactive")
                         ELSE [proc[d] EXCEPT !.pc = "lookup", !.msg = m])
            /\ UNCHANGED <<outside, threads, rows, mapOut, faults, observers>>

\* Mutant: a row that was tried before is taken for delivered.
TriedBefore(m) == m \in mapOut \/ outbox[m].attempts > 0

\* A message already mapped outbound is not sent again.
Already(m) == m \in mapOut

LookUpMap(d) ==
    /\ At(d, "lookup")
    /\ GoTo(d, IF Already(proc[d].msg) THEN "promote" ELSE "send")
    /\ UNCHANGED <<outside, threads, rows, mapOut, faults, observers>>

Promote(d) ==
    LET m == proc[d].msg
    IN  /\ At(d, "promote")
        /\ outbox' = [outbox EXCEPT ![m].status = "sent",
                                    ![m].lastError = "none"]
        /\ Drop(d)
        /\ UNCHANGED <<outside, threads, nextRowId, mapOut, faults, observers>>

\* Only files, and no link to them can be made: nothing to send.
NothingToSend(d) ==
    /\ At(d, "send") /\ msgs[proc[d].msg].kind = "file"
    /\ Become(d, [proc[d] EXCEPT !.pc = "fail", !.error = "missing"])
    /\ UNCHANGED <<outside, threads, rows, mapOut, faults, observers>>

\* Mutant: a reply handed to the device agent counts as sent.
AlwaysSent == "sent"

\* Mutant: the provider's own word for it is stored.
ProviderWord == IF AsyncProvider THEN "SENT_UNCONFIRMED" ELSE "sent"

\* What deliver() writes after a send that returned.
AfterSend == IF AsyncProvider THEN "unconfirmed" ELSE "sent"

\* adapter.send returns: delivered, or handed to the device agent.
SendAccepted(d) ==
    LET m == proc[d].msg
    IN  /\ At(d, "send")
        /\ copies' = [copies EXCEPT ![m] = @ + 1]
        /\ proved' = IF AsyncProvider THEN proved ELSE proved \cup {m}
        /\ Become(d, [proc[d] EXCEPT !.pc = "map", !.outcome = AfterSend])
        /\ UNCHANGED <<outside, threads, rows, mapOut, faults, waived>>

\* adapter.send throws, before or ("lostReply") after the provider took it.
SendThrows(d) ==
    LET m == proc[d].msg
    IN  /\ At(d, "send")
        /\ \/ UNCHANGED <<copies, faults>>
           \/ Fault("lostReply") /\ copies' = [copies EXCEPT ![m] = @ + 1]
        /\ Become(d, [proc[d] EXCEPT !.pc = "fail", !.error = "provider"])
        /\ UNCHANGED <<outside, threads, rows, mapOut, proved, waived>>

\* Save the OUTBOUND map row; an error of this save is swallowed as well.
SaveMap(d) ==
    /\ At(d, "map")
    /\ GoTo(d, "mark")
    /\ \/ /\ mapOut' = mapOut \cup {proc[d].msg}
          /\ UNCHANGED faults
       \/ /\ Fault("dbError")
          /\ UNCHANGED mapOut
    /\ UNCHANGED <<outside, threads, rows, observers>>

Mark(d) ==
    LET m == proc[d].msg
    IN  /\ At(d, "mark")
        /\ outbox' = [outbox EXCEPT ![m].status = proc[d].outcome,
                                    ![m].lastError = "none"]
        /\ Drop(d)
        /\ UNCHANGED <<outside, threads, nextRowId, mapOut, faults, observers>>

\* The update fails after the send and the map row: the catch records a failed
\* send, and the retry finds the map row.
MarkFails(d) ==
    /\ At(d, "mark")
    /\ Fault("dbError")
    /\ Become(d, [proc[d] EXCEPT !.pc = "fail", !.error = "provider"])
    /\ UNCHANGED <<outside, threads, rows, mapOut, observers>>

\* The row is updated and the channel's own update fails: the catch is the same,
\* and records a failed send over what was just written.
ChannelFails(d) ==
    LET m == proc[d].msg
    IN  /\ At(d, "mark")
        /\ Fault("dbError")
        /\ outbox' = [outbox EXCEPT ![m].status = proc[d].outcome,
                                    ![m].lastError = "none"]
        /\ Become(d, [proc[d] EXCEPT !.pc = "fail", !.error = "provider"])
        /\ UNCHANGED <<outside, threads, nextRowId, mapOut, observers>>

\* Mutant: a failure does not use up an attempt.
SameAttempts(d, m) == proc[d].seen[m]

\* The attempts come from the row as it was selected.
NextAttempts(d, m) == proc[d].seen[m] + 1

\* Mutant: one attempt too many.
ExhaustedLate(reason, attempts) ==
    reason \in Terminal \/ attempts > MaxAttempts

Exhausted(reason, attempts) ==
    reason \in Terminal \/ attempts >= MaxAttempts

\* fail()
RecordFailure(d) ==
    LET m == proc[d].msg
        attempts == NextAttempts(d, m)
        exhausted == Exhausted(proc[d].error, attempts)
    IN  /\ At(d, "fail")
        /\ outbox' = [outbox EXCEPT ![m].status = IF exhausted THEN "failed"
                                                  ELSE "pending",
                                    ![m].attempts = attempts,
                                    ![m].lastError = proc[d].error,
                                    ![m].backoff = ~exhausted]
        /\ Drop(d)
        /\ UNCHANGED <<outside, threads, nextRowId, mapOut, faults, observers>>

\* Every selected row has been tried.
EndDelivery(d) ==
    /\ At(d, "deliver") /\ proc[d].batch = {}
    /\ Become(d, IF d # Worker THEN Idle
                 ELSE IF proc[d].due THEN [Idle EXCEPT !.pc = "poll"]
                 ELSE [proc[d] EXCEPT !.pc = "sweep"])
    /\ UNCHANGED <<outside, threads, rows, mapOut, faults, observers>>

(***************************************************************************)
(* The worker's tick: flushAllThreads, deliverDue, confirmUnconfirmed.      *)
(***************************************************************************)
\* Mutant: the message right after the cursor does not count.
HasMoreNews(t) ==
    threads[t].conv # NoConv
      /\ Unscanned(threads[t].conv, threads[t].cursor + 1) # {}

\* Threads whose conversation has messages past the cursor.
HasNews(t) ==
    threads[t].conv # NoConv
      /\ Unscanned(threads[t].conv, threads[t].cursor) # {}

\* Mutant: the running flag is gone.
TicksStack == TRUE

\* The running flag: a tick starts only when the last one has ended.
NotRunning == At(Worker, "idle")

\* Limited and not ordered: any of them, as many as a sweep takes.
Swept(S) ==
    LET news == {t \in Threads : HasNews(t)}
    IN  S \subseteq news /\ (S = news \/ Cardinality(S) = SweepLimit)
          /\ Cardinality(S) <= SweepLimit

BeginTick ==
    /\ NotRunning
    /\ \E S \in SUBSET Threads :
          Swept(S) /\ Become(Worker, [Idle EXCEPT !.pc = "sweep", !.todo = S])
    /\ UNCHANGED <<outside, threads, rows, mapOut, faults, observers>>

SweepThread ==
    \E t \in proc[Worker].todo :
        /\ At(Worker, "sweep")
        /\ Become(Worker, [proc[Worker] EXCEPT !.pc = "read", !.thread = t,
                                               !.todo = @ \ {t}])
        /\ UNCHANGED <<outside, threads, rows, mapOut, faults, observers>>

SelectDue ==
    /\ At(Worker, "sweep") /\ proc[Worker].todo = {}
    /\ LET due == {m \in MsgIds : Pending(m) /\ ~outbox[m].backoff}
       IN  Become(Worker, [Idle EXCEPT !.pc = "deliver", !.due = TRUE,
             !.batch = FirstRows(due, Batch),
             !.seen = [m \in MsgIds |-> IF m \in FirstRows(due, Batch)
                                        THEN outbox[m].attempts ELSE 0]])
    /\ UNCHANGED <<outside, threads, rows, mapOut, faults, observers>>

\* Mutant: every row that left is asked about again.
Departed == {m \in MsgIds : outbox[m].status \in {"unconfirmed", "sent"}}

Unconfirmed == {m \in MsgIds : outbox[m].status = "unconfirmed"}

SelectUnconfirmed ==
    /\ At(Worker, "poll")
    /\ Become(Worker, [Idle EXCEPT !.pc = "confirm",
                                   !.batch = FirstRows(Unconfirmed, Batch)])
    /\ UNCHANGED <<outside, threads, rows, mapOut, faults, observers>>

\* adapter.confirm: still open (or it throws), or the device agent's verdict.
AskProvider ==
    \E m \in proc[Worker].batch, verdict \in {"none", "sent", "failed"} :
        /\ At(Worker, "confirm") /\ IsFirstRow(m, proc[Worker].batch)
        /\ Become(Worker,
             IF verdict = "none"
             THEN [proc[Worker] EXCEPT !.batch = @ \ {m}]
             ELSE [proc[Worker] EXCEPT !.pc = "settle", !.msg = m,
                                       !.outcome = verdict])
        /\ proved' = IF verdict = "sent" THEN proved \cup {m} ELSE proved
        /\ UNCHANGED <<outside, threads, rows, mapOut, faults, copies, waived>>

Settle ==
    LET m == proc[Worker].msg
    IN  /\ At(Worker, "settle")
        /\ outbox' = [outbox EXCEPT ![m].status = proc[Worker].outcome,
             ![m].lastError = IF proc[Worker].outcome = "sent" THEN "none"
                                                               ELSE "agent"]
        /\ Drop(Worker)
        /\ UNCHANGED <<outside, threads, nextRowId, mapOut, faults, observers>>

EndTick ==
    /\ At(Worker, "confirm") /\ proc[Worker].batch = {}
    /\ Become(Worker, Idle)
    /\ UNCHANGED <<outside, threads, rows, mapOut, faults, observers>>

(***************************************************************************)
(* The specification.                                                       *)
(***************************************************************************)
Flush(d) ==
    \/ ReadThread(d) \/ ScanMessages(d) \/ SkipMessage(d) \/ QueueMessage(d)
    \/ LoseInsert(d) \/ StoreCursor(d) \/ SelectPending(d)

DeliverStep(d) ==
    \/ TakeRow(d) \/ LookUpMap(d) \/ Promote(d) \/ NothingToSend(d)
    \/ SendAccepted(d) \/ SendThrows(d) \/ SaveMap(d) \/ Mark(d)
    \/ MarkFails(d) \/ ChannelFails(d) \/ RecordFailure(d) \/ EndDelivery(d)

Tick ==
    \/ BeginTick \/ SweepThread \/ SelectDue \/ SelectUnconfirmed
    \/ AskProvider \/ Settle \/ EndTick

Environment ==
    \/ \E m \in MsgIds, c \in Convs, kind \in Kinds : BeginSave(m, c, kind)
    \/ \E m \in MsgIds : CommitSave(m) \/ MapInbound(m) \/ BackoffElapses(m)
    \/ \E t \in Threads, c \in Convs : Rebind(t, c)
    \/ \E t \in Threads : SetReply(t)
    \/ \E f \in Flushers, t \in Threads : BeginFlush(f, t)
    \/ SetChannel
    \/ Crash

Next ==
    \/ Environment
    \/ \E d \in Deliverers : Flush(d) \/ DeliverStep(d)
    \/ Tick

Spec == Init /\ [][Next]_vars

\* setInterval keeps ticking and an awaited call settles; a backoff elapses; a
\* transaction that has begun commits.  Nothing else has to happen.
Fairness ==
    /\ \A d \in Deliverers : WF_vars(Flush(d) \/ DeliverStep(d))
    /\ WF_vars(Tick)
    /\ \A m \in MsgIds : WF_vars(BackoffElapses(m)) /\ WF_vars(CommitSave(m))

FairSpec == Spec /\ Fairness

(***************************************************************************)
(* Properties that hold under every interleaving, crash and swallowed error. *)
(***************************************************************************)
\* Loop prevention #3: the shopper's own words are never queued or sent back,
\* even while the INBOUND map row of the turn has not been written yet.
NeverEchoed ==
    \A m \in MsgIds : Queued(m) \/ copies[m] > 0 =>
        Saved(m) /\ msgs[m].kind \in Relayable /\ m \notin mapIn

\* The console never claims more than happened: a row reads sent or
\* unconfirmed, and an OUTBOUND map row exists, only for a message the provider
\* accepted at least once.
ClaimsBacked ==
    \A m \in MsgIds :
        outbox[m].status \in {"sent", "unconfirmed"} \/ m \in mapOut =>
            copies[m] > 0

\* fail() and the attempt budget agree, although attempts are written from a
\* row selected earlier: a pending row has attempts left, and a row that gave up
\* for a passing reason has used them all.
BudgetKept ==
    \A m \in MsgIds :
        /\ Pending(m) => outbox[m].attempts < MaxAttempts
        /\ outbox[m].status = "failed"
              /\ outbox[m].lastError \in {"provider", "inactive"}
                => outbox[m].attempts >= MaxAttempts

\* No row waits for ever: retries, backoff and a stale attempts count together
\* still end in sent, unconfirmed or failed.
EveryRowSettles == \A m \in MsgIds : Pending(m) ~> ~Pending(m)

(***************************************************************************)
(* Properties of a relay whose only deliverer is the worker.                *)
(***************************************************************************)
\* channel-message-map.entity.ts: "a retried send cannot deliver twice".
NeverTwice == \A m \in MsgIds : copies[m] <= 1

\* A row reads sent only once the provider has reported the delivery; an
\* unconfirmed row is never silently promoted.
SentIsProven ==
    \A m \in MsgIds : outbox[m].status = "sent" => m \in proved

\* Sent and failed are final.
FinalStaysFinal ==
    [][\A m \in MsgIds : outbox[m].status \in {"sent", "failed"} =>
            outbox'[m].status = outbox[m].status]_vars

\* Every message the cursor has passed was queued, was not to be relayed, or
\* was met while the thread was receive-only.
NothingPassedOver ==
    \A m \in MsgIds :
        Saved(m) /\ msgs[m].kind \in Relayable
          /\ m <= threads[Owner[msgs[m].conv]].cursor
            => Queued(m) \/ m \in waived

\* messenger-outbox.service.ts:34: any message persisted for the thread reaches
\* the queue.
EveryReplyQueued ==
    \A m \in MsgIds : Saved(m) /\ msgs[m].kind \in Relayable
                         ~> Queued(m) \/ m \in waived

(***************************************************************************)
(* What the code's comments say and the code does not keep.                 *)
(***************************************************************************)
\* messenger-outbox.service.ts:246, of a disabled channel: "Not terminal: an
\* operator re-enabling the channel should drain the queue."
InactiveIsNotTerminal ==
    \A m \in MsgIds : outbox[m].status = "failed" =>
                         outbox[m].lastError # "inactive"

(***************************************************************************)
(* The relay implements the contract of RelayContract.                      *)
(***************************************************************************)
Contract == INSTANCE RelayContract WITH
    Messages <- MsgIds,
    sayable  <- {m \in MsgIds : Saved(m) /\ msgs[m].kind \in Relayable},
    claim    <- [m \in MsgIds |-> outbox[m].status],
    copies   <- copies
ContractSpec == Contract!Spec

=============================================================================
