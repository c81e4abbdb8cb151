--------------------------- MODULE MessengerIngest ---------------------------
(***************************************************************************)
(* The inbound side of apps/api/src/domain/messenger: what a shopper writes *)
(* in a messenger room is taken from its platform (webhook delivery, mail   *)
(* box, signed relay stream or relay/hub inbox) and ingested into a thread, *)
(* a session, a conversation and the AI turn (messenger-ingest.service.ts). *)
(*                                                                          *)
(* One room, which replies can be sent to; rooms share only a batch.        *)
(* Several handlers run at once: the sync tick, which never overlaps        *)
(* itself, a "fetch now" of the console, and one setImmediate task for each *)
(* webhook delivery.  An action is what a handler does between two awaits.  *)
(* The AI turn (ChatService.handleUserMessage), which Conversation.tla      *)
(* follows await by await, is two steps here: it is let in, and it ends.    *)
(* System lines about files and office hours are left out.                  *)
(***************************************************************************)
EXTENDS Integers, Sequences, FiniteSets

CONSTANTS
    MaxMsgs,          \* bound: the shopper's messages are 1..MaxMsgs
    Handlers,         \* ingest batches that may be in progress at once
    Tick,             \* the handler that is the sync service's timer
    Setups            \* the situations to look at

Modes == {"auto", "approve", "off"}
Sources == {"webhook", "mailbox", "stream", "inbox"}
Kinds == {"error", "restart", "mapLost", "redelivery", "take", "end",
          "handBack", "version", "override"}

\* The channel's provider, replyMode and consentMode; the handlers that take
\* messages; how many messages are written (limit), and how many disturbances
\* of which kinds there may be (bound, events).
Setup == [source : Sources, mode : Modes, notice : BOOLEAN, handlers : SUBSET Handlers,
          limit : 0..MaxMsgs, events : SUBSET Kinds, bound : Nat]

ASSUME IngestAssumption ==
    /\ MaxMsgs \in Nat
    /\ Tick \in Handlers
    /\ Setups \subseteq {s \in Setup : Tick \in s.handlers}

VARIABLES
    setup,      \* the situation, chosen at the start
    version,    \* the tenant's effective notice version
    written,    \* the shopper has written messages 1..written
    mark,       \* how far the source has been taken: delivered, the stream's
                \* cursor or the room's watermark in redis
    flagged,    \* mail that is \Seen in the mailbox
    skipped,    \* observer: messages a pull dropped that its source was past
    thread,     \* the room's channel_threads row
    sessions,   \* sessions, by id
    convs,      \* conversations, by id
    rows,       \* messages, by id
    mapped,     \* INBOUND channel_message_map: external id to message id
    drafts,     \* message_drafts: [conv, msg]
    proc,       \* what each handler is doing
    disturbed,  \* how many disturbances there have been
    hurt,       \* observer: messages whose ingest failed half way
    twinned,    \* observer: messages two handlers had at the same time
    stray,      \* observer: messages stored outside the room's conversation
    refused,    \* observer: messages the consent gate turned away
    returned,   \* observer: conversations a human handed back to the bot, or
                \* accepted after they had ended
    paged,      \* observer: how often the ingest queued each conversation
    overlapped  \* observer: two ingests have been in progress at once

observers == <<hurt, twinned, stray, refused, returned, paged, overlapped>>
marks == <<mark, flagged, skipped>>
tables == <<thread, sessions, convs, rows, mapped, drafts>>
world == <<setup, version, written, disturbed>>
vars == <<setup, version, written, mark, flagged, skipped, thread, sessions, convs, rows, mapped,
          drafts, proc, disturbed, hurt, twinned, stray, refused, returned,
          paged, overlapped>>

(***************************************************************************)
(* Rows and local state; id 0 is NULL.                                      *)
(***************************************************************************)
Msgs == 1..MaxMsgs
MsgOrNone == 0..MaxMsgs
NoThread == [exists |-> FALSE, session |-> 0, conv |-> 0, cursor |-> 0, notice |-> 0]
Open == {"ai", "waiting", "agent"}

Thread == [exists : BOOLEAN, session : Nat, conv : Nat, cursor : MsgOrNone, notice : Nat]
Session == [version : Nat, mode : Modes \cup {"inherit"}]
Conv == [session : Nat, status : Open \cup {"ended"}, agent : BOOLEAN, escalated : BOOLEAN]
\* "user": the shopper's words; "notice": the privacy notice of a version;
\* "answer": what the AI turn said, let in under a version.
Row == [conv : Nat, kind : {"user", "notice", "answer"}, msg : MsgOrNone, version : Nat]

Steps == {"idle", "fetch", "read", "commit", "handover", "lookup", "create", "session",
          "bind", "converse", "open", "attach", "notice", "stamp", "gate", "think",
          "store", "page", "map", "cursor"}
\* listed: where the source stood when it was listed, or its cursor was read;
\* todo: the mail found unseen and not fetched yet; batch: the messages in hand;
\* copy: the thread row read; conv, human, queued: the conversation read;
\* turn, owner, granted: the conversation of the AI turn, who it belonged to
\* and the notice version the gate passed; since: the last row id before it.
Handler == [pc : Steps, listed : MsgOrNone, todo : SUBSET Msgs, batch : Seq(Msgs), copy : Thread,
            conv : Nat, human : BOOLEAN, queued : BOOLEAN, since : Nat,
            mode : Modes, turn : Nat, owner : {"bot", "queue", "human"},
            granted : Nat]
Idle == [pc |-> "idle", listed |-> 0, todo |-> {}, batch |-> <<>>, copy |-> NoThread,
         conv |-> 0, human |-> FALSE, queued |-> FALSE, since |-> 0,
         mode |-> "off", turn |-> 0, owner |-> "bot", granted |-> 0]

TypeOK ==
    /\ setup \in Setups
    /\ version \in Nat
    /\ written \in MsgOrNone
    /\ mark \in MsgOrNone /\ flagged \subseteq Msgs /\ skipped \subseteq Msgs
    /\ thread \in Thread
    /\ sessions \in Seq(Session)
    /\ convs \in Seq(Conv)
    /\ rows \in Seq(Row)
    /\ mapped \in [Msgs -> Nat]
    /\ drafts \subseteq [conv : Nat, msg : Msgs]
    /\ proc \in [Handlers -> Handler]
    /\ disturbed \in Nat
    /\ hurt \subseteq Msgs /\ twinned \subseteq Msgs /\ stray \subseteq Msgs
    /\ refused \subseteq Msgs
    /\ returned \subseteq Nat
    /\ paged \in Seq(Nat)
    /\ overlapped \in BOOLEAN

At(h, pc) == proc[h].pc = pc
Msg(h) == Head(proc[h].batch)
Holds(h, m) == \E i \in DOMAIN proc[h].batch : proc[h].batch[i] = m
\* Busy with a message, as opposed to pulling the source.
Ingesting(h) == proc[h].pc \notin {"idle", "fetch", "read", "commit", "handover"}

Stored(m) == \E i \in DOMAIN rows : rows[i].kind = "user" /\ rows[i].msg = m

\* Mutant: a conversation in the queue is not looked for.
OpenUnqueued(s) == {c \in DOMAIN convs : convs[c].session = s /\ convs[c].status \in {"ai", "agent"}}

\* Sessions never end here; the newest open conversation is the one found.
OpenConvs(s) == {c \in DOMAIN convs : convs[c].session = s /\ convs[c].status \in Open}
Newest(c, S) == c \in S /\ \A d \in S : d <= c
HumanOwns(c) == \/ convs[c].status = "agent"
                \/ convs[c].status = "waiting" /\ convs[c].agent

\* resolveReplyMode: the session's own choice, else the channel's.
ResolveMode(s) == IF sessions[s].mode = "inherit" THEN setup.mode ELSE sessions[s].mode

\* Mutant: the notice is for rooms the AI answers by itself.
NoticeForAutoOnly(h, mode) ==
    LET s == proc[h].copy.session
    IN IF mode = "off" THEN "store"
       ELSE IF mode = "auto" /\ setup.notice /\ proc[h].copy.notice # sessions[s].version
       THEN "notice" ELSE "gate"

\* Where ingestOne goes once it knows the mode: a room that has not been given
\* the notice its session consented to is given it before the AI turn.
NextStep(h, mode) ==
    LET s == proc[h].copy.session
    IN IF mode = "off" THEN "store"
       ELSE IF setup.notice /\ proc[h].copy.notice # sessions[s].version THEN "notice"
       ELSE "gate"

\* The conversation as it is read: from here on this copy decides.  An agent on
\* the thread beats the session's choice, which beats the channel's; since is
\* the high-water mark of the messages.
Resolved(h, c) ==
    LET mode == IF HumanOwns(c) THEN "off" ELSE ResolveMode(proc[h].copy.session)
    IN [proc[h] EXCEPT !.conv = c, !.human = HumanOwns(c), !.queued = convs[c].escalated,
                       !.mode = mode, !.since = Len(rows), !.pc = NextStep(h, mode)]

NewConv(s) == [session |-> s, status |-> "ai", agent |-> FALSE, escalated |-> FALSE]
AnswerRow(h) == [conv |-> proc[h].turn, kind |-> "answer", msg |-> Msg(h),
                 version |-> proc[h].granted]
UserRow(c, m) == [conv |-> c, kind |-> "user", msg |-> m, version |-> 0]

\* markWaiting: whatever the conversation has become since it was read.
MarkWaiting(c) ==
    convs' = [convs EXCEPT ![c].status = "waiting", ![c].escalated = TRUE]

Init ==
    /\ setup \in Setups
    /\ version = 1
    /\ written = 0 /\ mark = 0 /\ flagged = {} /\ skipped = {}
    /\ thread = NoThread
    /\ sessions = <<>> /\ convs = <<>> /\ rows = <<>>
    /\ mapped = [m \in Msgs |-> 0]
    /\ drafts = {}
    /\ proc = [h \in Handlers |-> Idle]
    /\ disturbed = 0
    /\ hurt = {} /\ twinned = {} /\ stray = {} /\ refused = {}
    /\ returned = {}
    /\ paged = <<>>
    /\ overlapped = FALSE

(***************************************************************************)
(* Taking messages from the source.                                         *)
(***************************************************************************)
Goto(h, pc) == proc' = [proc EXCEPT ![h].pc = pc]

\* Mutant: the message at the cursor is fetched again.
RunFromCursor(first, last) == [i \in 1..(IF last < first THEN 0 ELSE last - first + 2) |-> first + i - 2]

\* Messages in the order of their ids, from first to last.
Run(first, last) == [i \in 1..(IF last < first THEN 0 ELSE last - first + 1) |-> first + i - 1]

\* Mutant: a message that is done with ends its batch.
NoRest(h) == <<>>

\* What a batch has left after the message in progress.
Rest(h) == Tail(proc[h].batch)

\* The ingest of a batch begins, or of what is left of it.
Begin(h, batch) ==
    /\ proc' = [proc EXCEPT ![h] = IF batch = <<>> THEN Idle
                                   ELSE [Idle EXCEPT !.pc = "lookup", !.batch = batch]]
    /\ overlapped' = (overlapped \/ (batch # <<>> /\ \E g \in Handlers \ {h} : Ingesting(g)))
    /\ twinned' = twinned \cup {m \in Msgs : /\ \E i \in DOMAIN batch : batch[i] = m
                                             /\ \E g \in Handlers \ {h} : Holds(g, m)}

\* The webhook answers 200 and ingests in a task of its own; the platform sends
\* its updates in order.
Deliver(h) ==
    /\ setup.source = "webhook" /\ At(h, "idle") /\ mark < written
    /\ mark' = mark + 1
    /\ Begin(h, <<mark + 1>>)
    /\ UNCHANGED <<world, flagged, skipped, tables, hurt, stray, refused, returned, paged>>

\* The signed stream is asked for everything past the redis cursor.
Pull(h) ==
    /\ At(h, "idle") /\ setup.source = "stream"
    /\ proc' = [proc EXCEPT ![h].pc = "commit", ![h].listed = written,
                            ![h].batch = Run(mark + 1, written)]
    /\ UNCHANGED <<world, marks, tables, observers>>

\* A mailbox is searched for unseen mail ...
Unseen == 1..written \ flagged
Search(h) ==
    /\ At(h, "idle") /\ setup.source = "mailbox" /\ Unseen # {}
    /\ proc' = [proc EXCEPT ![h].pc = "read", ![h].todo = Unseen]
    /\ UNCHANGED <<world, marks, tables, observers>>

First(i, S) == i \in S /\ \A j \in S : i <= j

\* ... which is fetched into memory and flagged one mail after the other.
Fetched(h, m) ==
    /\ At(h, "read") /\ First(m, proc[h].todo)
    /\ proc' = [proc EXCEPT ![h] =
                    [proc[h] EXCEPT !.pc = IF proc[h].todo = {m} THEN "handover" ELSE "read",
                                    !.todo = proc[h].todo \ {m},
                                    !.batch = Append(proc[h].batch, m)]]

\* Mutant: all the mail that was found is flagged before the first is fetched.
FlagAhead(h, m) ==
    /\ Fetched(h, m)
    /\ flagged' = flagged \cup proc[h].todo
    /\ UNCHANGED <<world, mark, skipped, tables, observers>>

Read(h, m) ==
    /\ Fetched(h, m)
    /\ flagged' = flagged \cup {m}
    /\ UNCHANGED <<world, mark, skipped, tables, observers>>

\* An inbox reads the thread's cursor and lists the rooms; a known room whose
\* last_message_at equals the watermark is passed over.
List(h) ==
    /\ At(h, "idle") /\ setup.source = "inbox"
    /\ written > 0
    /\ ~thread.exists \/ mark # written
    /\ proc' = [proc EXCEPT ![h].pc = "fetch", ![h].listed = written, ![h].copy = thread]
    /\ UNCHANGED <<world, marks, tables, observers>>

\* The room's messages past the cursor, also those written since the listing.
Fetch(h) ==
    /\ At(h, "fetch")
    /\ proc' = [proc EXCEPT ![h].pc = "commit", ![h].copy = NoThread,
                            ![h].batch = Run(proc[h].copy.cursor + 1, written)]
    /\ UNCHANGED <<world, marks, tables, observers>>

\* Mutant: the mark is where the source stands now, not where it was listed.
CommitLatest(h) ==
    /\ At(h, "commit")
    /\ mark' = written
    /\ Goto(h, "handover")
    /\ UNCHANGED <<world, flagged, skipped, tables, observers>>

\* The stream's cursor or the room's watermark is written to redis, before
\* anything is ingested; an inbox goes on to its other rooms.
Commit(h) ==
    /\ At(h, "commit")
    /\ mark' = proc[h].listed
    /\ Goto(h, "handover")
    /\ UNCHANGED <<world, flagged, skipped, tables, observers>>

\* The pull returns, and what it has in hand is ingested.
HandOver(h) ==
    /\ At(h, "handover")
    /\ Begin(h, proc[h].batch)
    /\ UNCHANGED <<world, marks, tables, hurt, stray, refused, returned, paged>>

(***************************************************************************)
(* ingestOne.                                                               *)
(***************************************************************************)
\* Mutant: the look into the map before a message is ingested is gone.
NeverSeen(h) == FALSE

\* The room's thread is read whole, then the mapping of the message: one that is
\* mapped was ingested before, and the delivery ends here.
Seen(h) == mapped[Msg(h)] # 0
AfterSeen(copy) == IF copy.session = 0 THEN "session" ELSE "converse"
Skip(h) ==
    /\ At(h, "lookup") /\ thread.exists /\ Seen(h)
    /\ Begin(h, Rest(h))
    /\ UNCHANGED <<world, marks, tables, hurt, stray, refused, returned, paged>>

Lookup(h) ==
    /\ At(h, "lookup")
    /\ ~thread.exists \/ ~Seen(h)
    /\ proc' = [proc EXCEPT ![h].pc = IF thread.exists THEN AfterSeen(thread) ELSE "create",
                            ![h].copy = thread]
    /\ UNCHANGED <<world, marks, tables, observers>>

\* Insert, or on a unique-key collision re-read the winner's row.
Create(h) ==
    /\ At(h, "create") /\ ~Seen(h)
    /\ thread' = IF thread.exists THEN thread ELSE [NoThread EXCEPT !.exists = TRUE]
    /\ proc' = [proc EXCEPT ![h].pc = AfterSeen(thread'), ![h].copy = thread']
    /\ UNCHANGED <<world, marks, sessions, convs, rows, mapped, drafts, observers>>

SkipCreated(h) ==
    /\ At(h, "create") /\ Seen(h)
    /\ Begin(h, Rest(h))
    /\ UNCHANGED <<world, marks, tables, hurt, stray, refused, returned, paged>>

\* The session is created consenting to the notice version of the moment ...
NewSession(h) ==
    /\ At(h, "session")
    /\ sessions' = Append(sessions, [version |-> version, mode |-> "inherit"])
    /\ proc' = [proc EXCEPT ![h].pc = "bind", ![h].copy.session = Len(sessions) + 1]
    /\ UNCHANGED <<world, marks, thread, convs, rows, mapped, drafts, observers>>

\* ... and then bound to the thread.
Bind(h) ==
    /\ At(h, "bind")
    /\ thread' = [thread EXCEPT !.session = proc[h].copy.session]
    /\ Goto(h, "converse")
    /\ UNCHANGED <<world, marks, sessions, convs, rows, mapped, drafts, observers>>

\* resolveConversation: the session's newest open conversation, or a new one;
\* the thread points at it.
Found(h, c) ==
    /\ At(h, "converse") /\ Newest(c, OpenConvs(proc[h].copy.session))
    /\ proc' = [proc EXCEPT ![h] = IF proc[h].copy.conv = c THEN Resolved(h, c)
                                   ELSE [Resolved(h, c) EXCEPT !.pc = "attach"]]
    /\ UNCHANGED <<world, marks, tables, observers>>

NoneFound(h) ==
    /\ At(h, "converse") /\ OpenConvs(proc[h].copy.session) = {}
    /\ Goto(h, "open")
    /\ UNCHANGED <<world, marks, tables, observers>>

OpenConv(h) ==
    /\ At(h, "open")
    /\ convs' = Append(convs, NewConv(proc[h].copy.session))
    /\ paged' = Append(paged, 0)
    /\ proc' = [proc EXCEPT ![h].pc = "attach", ![h].conv = Len(convs) + 1,
                            ![h].human = FALSE, ![h].queued = FALSE, ![h].since = Len(rows),
                            ![h].mode = ResolveMode(proc[h].copy.session)]
    /\ UNCHANGED <<world, marks, thread, sessions, rows, mapped, drafts, hurt,
                   twinned, stray, refused, returned, overlapped>>

Attach(h) ==
    /\ At(h, "attach")
    /\ thread' = [thread EXCEPT !.conv = proc[h].conv]
    /\ Goto(h, NextStep(h, proc[h].mode))
    /\ UNCHANGED <<world, marks, sessions, convs, rows, mapped, drafts, observers>>

\* ensureNotice: the version is the one the session consented to; the room is
\* stamped with it after the notice is saved.
Notice(h) ==
    /\ At(h, "notice")
    /\ rows' = Append(rows, [conv |-> proc[h].conv, kind |-> "notice", msg |-> 0,
                             version |-> sessions[proc[h].copy.session].version])
    /\ Goto(h, "stamp")
    /\ UNCHANGED <<world, marks, thread, sessions, convs, mapped, drafts, observers>>

Stamp(h) ==
    /\ At(h, "stamp")
    /\ thread' = [thread EXCEPT !.notice = sessions[proc[h].copy.session].version]
    /\ Goto(h, "gate")
    /\ UNCHANGED <<world, marks, sessions, convs, rows, mapped, drafts, observers>>

\* Mutant: a draft queues nothing.
DraftOnly(h) == "map"

\* After the turn: approve mode saves the draft and queues the conversation
\* unless the row read above said that it is queued already.
AfterTurn(h) == IF proc[h].mode = "auto" THEN "map"
                ELSE IF proc[h].queued THEN "map" ELSE "page"

\* handleUserMessage's consent gate reads the session and the tenant's version
\* afresh; an outdated grant is turned away without a trace.
Refuse(h) ==
    /\ At(h, "gate")
    /\ sessions[proc[h].copy.session].version # version
    /\ refused' = refused \cup {Msg(h)}
    /\ Goto(h, AfterTurn(h))
    /\ UNCHANGED <<world, marks, tables, hurt, twinned, stray, returned, paged, overlapped>>

\* Let in: the message is stored in the session's open conversation, which need
\* not be the one read above, or in a new one.
LetIn(h, c, owner) ==
    /\ At(h, "gate") /\ sessions[proc[h].copy.session].version = version
    /\ rows' = Append(rows, UserRow(c, Msg(h)))
    /\ stray' = IF c = proc[h].conv THEN stray ELSE stray \cup {Msg(h)}
    /\ proc' = [proc EXCEPT ![h].pc = "think", ![h].turn = c, ![h].granted = version,
                            ![h].owner = owner]
    /\ UNCHANGED <<world, marks, thread, sessions, mapped, drafts, hurt, twinned,
                   refused, returned, overlapped>>

Enter(h, c) ==
    /\ Newest(c, OpenConvs(proc[h].copy.session))
    /\ LetIn(h, c, IF HumanOwns(c) THEN "human"
                   ELSE IF convs[c].status = "waiting" THEN "queue" ELSE "bot")
    /\ UNCHANGED <<convs, paged>>

EnterNew(h) ==
    /\ OpenConvs(proc[h].copy.session) = {}
    /\ LetIn(h, Len(convs) + 1, "bot")
    /\ convs' = Append(convs, NewConv(proc[h].copy.session))
    /\ paged' = Append(paged, 0)

\* A human owns it, or it is queued and the AI has nothing to add.
Silent(h) ==
    /\ At(h, "think") /\ proc[h].owner # "bot"
    /\ Goto(h, AfterTurn(h))
    /\ UNCHANGED <<world, marks, tables, observers>>

\* The AI answers.  In approve mode its answer stops at a draft, which the ingest
\* saves under the conversation it resolved; small talk and the request to log in
\* are sent in every mode.
Answer(h) ==
    /\ At(h, "think") /\ proc[h].owner # "human"
    /\ rows' = Append(rows, AnswerRow(h))
    /\ Goto(h, AfterTurn(h))
    /\ UNCHANGED <<world, marks, thread, sessions, convs, mapped, drafts, observers>>

Draft(h) ==
    /\ At(h, "think") /\ proc[h].owner # "human" /\ proc[h].mode = "approve"
    /\ drafts' = drafts \cup {[conv |-> proc[h].conv, msg |-> Msg(h)]}
    /\ Goto(h, AfterTurn(h))
    /\ UNCHANGED <<world, marks, thread, sessions, convs, rows, mapped, observers>>

\* The AI hands off: a line to the shopper, and the conversation is queued.  Small
\* talk that moderation refuses is handed off from the queue too.
HandOff(h) ==
    /\ At(h, "think") /\ proc[h].owner # "human"
    /\ rows' = Append(rows, AnswerRow(h))
    /\ MarkWaiting(proc[h].turn)
    /\ Goto(h, AfterTurn(h))
    /\ UNCHANGED <<world, marks, thread, sessions, mapped, drafts, observers>>

\* Mutant: every message of the bot's conversation is escalated.
EveryMessage(h) == IF proc[h].human THEN "map" ELSE "page"

\* A conversation that was read as queued is not queued again.
AfterStore(h) == IF proc[h].human \/ proc[h].queued THEN "map" ELSE "page"

\* Replies off, or a human has the thread: the message is kept as it is, in the
\* conversation read above whatever has become of it.
Store(h) ==
    /\ At(h, "store")
    /\ rows' = Append(rows, UserRow(proc[h].conv, Msg(h)))
    /\ stray' = IF convs[proc[h].conv].status \in Open THEN stray ELSE stray \cup {Msg(h)}
    /\ Goto(h, AfterStore(h))
    /\ UNCHANGED <<world, marks, thread, sessions, convs, mapped, drafts, hurt, twinned,
                   refused, returned, paged, overlapped>>

\* ChatService.escalate: queue the conversation and publish the escalation.
Page(h) ==
    /\ At(h, "page")
    /\ MarkWaiting(proc[h].conv)
    /\ paged' = [paged EXCEPT ![proc[h].conv] = @ + 1]
    /\ Goto(h, "map")
    /\ UNCHANGED <<world, marks, thread, sessions, rows, mapped, drafts, hurt, twinned,
                   stray, refused, returned, overlapped>>

\* The turn just caused is the first user row past the high-water mark in the
\* conversation read above; the unique key keeps an earlier mapping.
Turns(h) == {i \in DOMAIN rows : /\ rows[i].conv = proc[h].conv
                                 /\ rows[i].kind = "user"
                                 /\ i > proc[h].since}
Map(h, i) ==
    /\ At(h, "map") /\ First(i, Turns(h))
    /\ mapped' = IF Seen(h) THEN mapped ELSE [mapped EXCEPT ![Msg(h)] = i]
    /\ Goto(h, "cursor")
    /\ UNCHANGED <<world, marks, thread, sessions, convs, rows, drafts, observers>>

NothingToMap(h) ==
    /\ At(h, "map") /\ Turns(h) = {}
    /\ Goto(h, "cursor")
    /\ UNCHANGED <<world, marks, tables, observers>>

\* The cursor becomes the last message ingested, whatever it was; the room's
\* replies are then flushed (MessengerOutbox.tla).
Cursor(h) ==
    /\ At(h, "cursor")
    /\ thread' = [thread EXCEPT !.cursor = Msg(h)]
    /\ Begin(h, Rest(h))
    /\ UNCHANGED <<world, marks, sessions, convs, rows, mapped, drafts, hurt, stray,
                   refused, returned, paged>>

(***************************************************************************)
(* The world around the handlers.                                           *)
(***************************************************************************)
Write ==
    /\ written < setup.limit
    /\ written' = written + 1
    /\ UNCHANGED <<setup, version, disturbed, marks, tables, proc, observers>>

Disturb(kind) ==
    /\ kind \in setup.events /\ disturbed < setup.bound
    /\ disturbed' = disturbed + 1
    /\ UNCHANGED <<setup, written>>

\* ingestBatch: an error of one message is logged, the next one is ingested.
Fail(h) ==
    /\ Ingesting(h) /\ Disturb("error")
    /\ hurt' = hurt \cup {Msg(h)}
    /\ Begin(h, Rest(h))
    /\ UNCHANGED <<version, marks, tables, stray, refused, returned, paged>>

\* An escalation that fails is logged, and the message carries on.
PageFails(h) ==
    /\ At(h, "page") /\ Disturb("error")
    /\ hurt' = hurt \cup {Msg(h)}
    /\ Goto(h, "map")
    /\ UNCHANGED <<version, marks, tables, twinned, stray, refused, returned, paged, overlapped>>

\* Saving the mapping fails and is ignored.
MapFails(h) ==
    /\ At(h, "map") /\ Disturb("mapLost")
    /\ hurt' = hurt \cup {Msg(h)}
    /\ Goto(h, "cursor")
    /\ UNCHANGED <<version, marks, tables, twinned, stray, refused, returned, paged, overlapped>>

\* The mail was fetched, but flagging it fails, which is ignored: it stays unseen.
FlagFails(h, m) ==
    /\ Fetched(h, m) /\ Disturb("error")
    /\ UNCHANGED <<version, marks, tables, observers>>

\* A pull that ends before it returns takes what it had in hand with it.  What
\* nobody else has is not asked for again when its source, or another pull that
\* is about to move the mark, is past it.
Consumed(m) == IF setup.source = "mailbox" THEN m \in flagged ELSE m <= mark
Passing(h, m) == At(h, "commit") /\ m <= proc[h].listed
DroppedBy(H) ==
    {m \in Msgs : /\ \E h \in H : Holds(h, m)
                  /\ \A g \in Handlers \ H : ~Holds(g, m)
                  /\ Consumed(m) \/ \E g \in Handlers \ H : Passing(g, m)
                  /\ ~Stored(m)}

\* A fetch of the next mail, page or room fails; syncChannel notes the error on
\* the channel.
PullFails(h) ==
    /\ ~Ingesting(h) /\ ~At(h, "idle") /\ Disturb("error")
    /\ skipped' = skipped \cup DroppedBy({h})
    /\ proc' = [proc EXCEPT ![h] = Idle]
    /\ UNCHANGED <<version, mark, flagged, tables, observers>>

\* The process restarts: pulls end before they return, and so do ingests, whose
\* messages are hurt.
InMemory == {m \in Msgs : \E h \in Handlers : Holds(h, m) /\ Ingesting(h)}
Restart ==
    /\ Disturb("restart")
    /\ hurt' = hurt \cup InMemory
    /\ skipped' = skipped \cup (DroppedBy(Handlers) \ InMemory)
    /\ proc' = [h \in Handlers |-> Idle]
    /\ UNCHANGED <<version, mark, flagged, tables, twinned, stray, refused, returned, paged, overlapped>>

\* "The platform redelivers on any doubt about our 200."
Redeliver(h) ==
    /\ setup.source = "webhook" /\ At(h, "idle") /\ Disturb("redelivery")
    /\ \E m \in 1..mark : Begin(h, <<m>>)
    /\ UNCHANGED <<version, marks, tables, hurt, stray, refused, returned, paged>>

\* The desk: an agent accepts a conversation, also one that has ended, or hands
\* it back to the bot, which leaves "escalated" as it is; anybody, or the idle
\* sweep, ends it.
SetConv(c, status, agent) ==
    convs' = [convs EXCEPT ![c].status = status, ![c].agent = agent]
Take(c) ==
    /\ convs[c].status # "agent" /\ Disturb("take")
    /\ SetConv(c, "agent", TRUE)
    /\ returned' = IF convs[c].status = "ended" THEN returned \cup {c} ELSE returned
    /\ UNCHANGED <<version, marks, thread, sessions, rows, mapped, drafts, proc, hurt,
                   twinned, stray, refused, paged, overlapped>>
HandBack(c) ==
    /\ convs[c].status = "agent" /\ Disturb("handBack")
    /\ SetConv(c, "ai", FALSE)
    /\ returned' = returned \cup {c}
    /\ UNCHANGED <<version, marks, thread, sessions, rows, mapped, drafts, proc, hurt,
                   twinned, stray, refused, paged, overlapped>>
End(c) ==
    /\ convs[c].status \in Open /\ Disturb("end")
    /\ SetConv(c, "ended", convs[c].agent)
    /\ UNCHANGED <<version, marks, thread, sessions, rows, mapped, drafts, proc, observers>>

\* The tenant publishes a new notice.
NewVersion ==
    /\ Disturb("version")
    /\ version' = version + 1
    /\ UNCHANGED <<marks, tables, proc, observers>>

\* The console sets the session's own reply mode.
Override(s) ==
    /\ Disturb("override")
    /\ \E mode \in Modes : sessions' = [sessions EXCEPT ![s].mode = mode]
    /\ UNCHANGED <<version, marks, thread, convs, rows, mapped, drafts, proc, observers>>

(***************************************************************************)
(* The specification.                                                       *)
(***************************************************************************)
Collect(h) == Deliver(h) \/ Pull(h) \/ Search(h) \/ List(h)
Proceed(h) ==
    \/ Fetch(h) \/ Commit(h) \/ HandOver(h) \/ Skip(h) \/ Lookup(h) \/ SkipCreated(h) \/ Create(h)
    \/ NewSession(h) \/ Bind(h) \/ NoneFound(h) \/ OpenConv(h) \/ Attach(h)
    \/ Notice(h) \/ Stamp(h) \/ Refuse(h) \/ EnterNew(h) \/ Silent(h)
    \/ Answer(h) \/ Draft(h) \/ HandOff(h) \/ Store(h) \/ Page(h)
    \/ NothingToMap(h) \/ Cursor(h)
    \/ \E c \in DOMAIN convs : Found(h, c) \/ Enter(h, c)
    \/ \E i \in DOMAIN rows : Map(h, i)
    \/ \E m \in proc[h].todo : Read(h, m)

Outside ==
    \/ Write \/ Restart \/ NewVersion
    \/ \E h \in setup.handlers :
          \/ Fail(h) \/ PageFails(h) \/ MapFails(h) \/ Redeliver(h) \/ PullFails(h)
          \/ \E m \in proc[h].todo : FlagFails(h, m)
    \/ \E c \in DOMAIN convs : Take(c) \/ HandBack(c) \/ End(c)
    \/ \E s \in DOMAIN sessions : Override(s)

Next == (\E h \in setup.handlers : Collect(h) \/ Proceed(h)) \/ Outside

Spec == Init /\ [][Next]_vars

\* setInterval keeps pulling, platforms keep delivering what they were not
\* answered for, and an awaited call settles.  "Fetch now" is nobody's duty.
Fairness ==
    /\ WF_vars(Collect(Tick))
    /\ \A h \in Handlers : WF_vars(Proceed(h))
FairSpec == Spec /\ Fairness

(***************************************************************************)
(* Properties.                                                              *)
(***************************************************************************)
Settled(m) == Stored(m) \/ m \in hurt \cup refused
InHand(m) == \E h \in Handlers : Holds(h, m)
\* What the source would still give to a handler that asked for it now.
Offered(m) ==
    IF setup.source = "inbox"
    THEN m > thread.cursor /\ (~thread.exists \/ mark # written)
    ELSE ~Consumed(m)

\* A message is never gone from its source unless somebody has it in hand, it has
\* come in, or the pull that had it ended before it returned: watermark, cursors
\* and read flags, moved by several pulls at once, never pass a message that
\* nobody fetched.
Accounted == \A m \in 1..written : Offered(m) \/ InHand(m) \/ Settled(m) \/ m \in skipped

\* However often it is delivered, a message is stored once, as long as nothing
\* failed in the middle, no two handlers had it together and its turn went to
\* the conversation it was resolved to (the mapping is looked up there).
AtMostOnce ==
    \A m \in Msgs \ (hurt \cup twinned \cup stray) :
        \A i, j \in DOMAIN rows :
            rows[i].kind = "user" /\ rows[j].kind = "user" /\ rows[i].msg = m /\ rows[j].msg = m
                => i = j

\* On a notice channel nothing of the AI's is written under a notice version
\* before the room has been given the notice of that version.
NoticeBeforeAnswer ==
    setup.notice =>
        \A i \in DOMAIN rows : rows[i].kind = "answer" =>
            \E j \in 1..i - 1 : rows[j].kind = "notice" /\ rows[j].version = rows[i].version

\* "Escalate once per conversation, not once per message."
PagedOnce == ~overlapped => \A c \in DOMAIN paged : paged[c] <= 1

\* While ingests do not overlap, nothing fails and no turn goes astray, a room
\* has one session and at most one open conversation, those aside that an agent
\* brought back.
OneConversation ==
    ~overlapped /\ hurt = {} /\ stray = {} =>
        /\ Len(sessions) <= 1
        /\ \A c, d \in DOMAIN convs \ returned :
              convs[c].status \in Open /\ convs[d].status \in Open => c = d

\* A message that nobody is going to answer is in somebody's queue: its
\* conversation is no longer the bot's, or a human gave it back to the bot.
Answered(m) == \E i \in DOMAIN rows : rows[i].kind = "answer" /\ rows[i].msg = m
NobodyForgotten ==
    \A i \in DOMAIN rows :
        /\ rows[i].kind = "user" /\ convs[rows[i].conv].status = "ai"
        /\ rows[i].msg \notin hurt \cup stray /\ ~InHand(rows[i].msg)
        => Answered(rows[i].msg) \/ rows[i].conv \in returned

\* What a shopper writes comes in, fails visibly or is turned away, unless the
\* pull that had it ended before it returned.
WrittenComesIn == \A m \in Msgs : m <= written ~> Settled(m) \/ m \in skipped
=============================================================================
