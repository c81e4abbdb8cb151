----------------------------- MODULE Conversation -----------------------------
(***************************************************************************)
(* Who answers a conversation: the bot, a queue or an agent.                *)
(*                                                                          *)
(* The row of conversations is moved by the shopper's requests              *)
(* (chat.service.ts), the console's (agent.service.ts) and the idle sweeper *)
(* (idle-conversation.service.ts).  None of them locks it: each reads the   *)
(* row, awaits other services and then updates by id.  Every database write *)
(* is therefore a step of its own, and what a handler decides with is what  *)
(* it read.                                                                 *)
(***************************************************************************)
EXTENDS Integers, FiniteSets, FiniteSetsExt

CONSTANTS
    Convs,          \* conversation ids of one session, autoincrement
    Agents,
    Nobody,         \* agent_id = NULL
    Requests,       \* requests that may be in flight at once
    Sweeper,        \* the idle sweeper
    Calls,          \* the endpoints in use (a subset of Endpoints)
    MaxConcurrent,  \* agent_profiles.max_concurrent (large: no profile row)
    Batch,          \* BATCH
    MaxCalls        \* bound: how many requests are made

Endpoints == {"message", "escalate", "leave", "accept", "assign", "handBack",
              "end", "reply"}

ASSUME ConversationAssumption ==
    /\ Convs \subseteq Nat
    /\ Nobody \notin Agents
    /\ Sweeper \notin Requests
    /\ Calls \subseteq Endpoints
    /\ MaxConcurrent \in Nat
    /\ Batch \in Nat \ {0}
    /\ MaxCalls \in Nat

VARIABLES
    convs,     \* conversations, the columns that decide who answers
    last,      \* how long ago the last message of each was
    answered,  \* the shopper has written since idlePromptAt
    held,      \* held[c][a]: active assignments of agent a on c
    proc,      \* what each request, and the sweeper, is doing
    calls,     \* requests made so far
    promised   \* observer: the shopper was told to expect an email

vars == <<convs, last, answered, held, proc, calls, promised>>

Procs == Requests \cup {Sweeper}
Open == {"ai_active", "waiting", "agent"}
Swept == {"waiting", "agent"}

Conv == [status : Open \cup {"none", "ended"}, agent : Agents \cup {Nobody},
         email : BOOLEAN,                    \* replyChannel = 'email'
         latch : {"off", "asked", "due"}]    \* idlePromptAt; due: grace is over

Steps == {"idle", "create", "persist", "latch", "shift", "classify", "answer",
          "reply", "notice", "queue", "mailbox", "close", "release", "insert",
          "own", "transfer", "save", "letgo", "return", "tell", "send",
          "check", "unlatch", "bye", "ask", "look", "prompt", "setlatch"}

\* One handler in flight: conv and agent are its arguments, snap the row it
\* read, email what routing told it, more whether a handoff follows the answer
\* (a request), or whether it is still closing (the sweeper).  todo holds the
\* rows the sweeper has left, count the prompts it has sent, and heard those
\* that had been answered when it selected them (an observer).
Handler ==
    [pc : Steps, call : Endpoints \cup {"sweep"}, conv : Convs \cup {0},
     agent : Agents \cup {Nobody}, snap : Conv, email : BOOLEAN,
     more : BOOLEAN, todo : SUBSET Convs, count : Nat, heard : SUBSET Convs]

NoConv == [status |-> "none", agent |-> Nobody, email |-> FALSE,
           latch |-> "off"]
NewConv == [NoConv EXCEPT !.status = "ai_active"]
Idle == [pc |-> "idle", call |-> "sweep", conv |-> 0, agent |-> Nobody,
         snap |-> NoConv, email |-> FALSE, more |-> FALSE, todo |-> {},
         count |-> 0, heard |-> {}]

TypeOK ==
    /\ convs \in [Convs -> Conv]
    /\ last \in [Convs -> {"fresh", "quiet", "stale"}]
    /\ answered \in [Convs -> BOOLEAN]
    /\ held \in [Convs -> [Agents -> Nat]]
    /\ proc \in [Procs -> Handler]
    /\ calls \in Nat
    /\ promised \subseteq Convs

Init ==
    /\ convs = [c \in Convs |-> NoConv]
    /\ last = [c \in Convs |-> "fresh"]
    /\ answered = [c \in Convs |-> FALSE]
    /\ held = [c \in Convs |-> [a \in Agents |-> 0]]
    /\ proc = [p \in Procs |-> Idle]
    /\ calls = 0
    /\ promised = {}

(***************************************************************************)
(* Helpers.                                                                 *)
(***************************************************************************)
IsOpen(c) == convs[c].status \in Open
Exists(c) == convs[c].status # "none"

\* findOne(open, order id DESC); {} when nothing is open
NewestOpen == {c \in Convs : IsOpen(c) /\ \A b \in Convs : IsOpen(b) => b <= c}
NextId == {c \in Convs : ~Exists(c) /\ \A b \in Convs : b < c => Exists(b)}

\* chat.service.ts, humanOwnsThread
HumanOwns(row) ==
    row.status = "agent" \/ (row.status = "waiting" /\ row.agent # Nobody)

\* active >= profile.maxConcurrent
AtCapacity(a) ==
    MapThenSumSet(LAMBDA c : held[c][a], Convs) >= MaxConcurrent

At(p, step) == proc[p].pc = step
Become(p, handler) == proc' = [proc EXCEPT ![p] = handler]
GoTo(p, step) == Become(p, [proc[p] EXCEPT !.pc = step])
Done(p) == Become(p, Idle)

Update(c, row) == convs' = [convs EXCEPT ![c] = row]
Speak(c) == last' = [last EXCEPT ![c] = "fresh"]

\* A request arrives.
Call(r, call) ==
    /\ call \in Calls /\ At(r, "idle") /\ calls < MaxCalls
    /\ calls' = calls + 1
Start(r, call, c, a, step) ==
    Become(r, [Idle EXCEPT !.pc = step, !.call = call, !.conv = c, !.agent = a,
                           !.snap = IF c = 0 THEN NoConv ELSE convs[c]])

(***************************************************************************)
(* The shopper writes: handleUserMessage.                                   *)
(***************************************************************************)
\* getOrCreateConversation, the lookup
Message(r) ==
    /\ Call(r, "message")
    /\ \/ \E c \in NewestOpen : Start(r, "message", c, Nobody, "persist")
       \/ /\ NewestOpen = {} /\ NextId # {}
          /\ Start(r, "message", 0, Nobody, "create")
    /\ UNCHANGED <<convs, last, answered, held, promised>>

\* ... and the insert; the bound on ids drops the request when none is left
Create(r) ==
    /\ At(r, "create")
    /\ \/ \E c \in NextId :
            /\ Update(c, NewConv) /\ Speak(c)
            /\ Become(r, [proc[r] EXCEPT !.pc = "persist", !.conv = c,
                                         !.snap = NewConv])
       \/ NextId = {} /\ Done(r) /\ UNCHANGED <<convs, last>>
    /\ UNCHANGED <<answered, held, calls, promised>>

\* The turn is saved; the idle latch of the row it read is cleared next.
Persist(r) ==
    LET h == proc[r]
    IN  /\ At(r, "persist")
        /\ Speak(h.conv)
        /\ answered' = [answered EXCEPT ![h.conv] = TRUE]
        /\ GoTo(r, IF h.snap.latch # "off" THEN "latch" ELSE "shift")
        /\ UNCHANGED <<convs, held, calls, promised>>

ClearLatch(r) ==
    /\ At(r, "latch")
    /\ convs' = [convs EXCEPT ![proc[r].conv].latch = "off"]
    /\ GoTo(r, "shift")
    /\ UNCHANGED <<last, answered, held, calls, promised>>

\* A human owns the thread it read: the bot stays silent.  Otherwise a thread
\* to be answered by email returns to the widget while somebody is on shift.
Shift(r) ==
    LET h == proc[r]
    IN  /\ At(r, "shift")
        /\ \/ HumanOwns(h.snap) /\ Done(r) /\ UNCHANGED <<convs, promised>>
           \/ /\ ~HumanOwns(h.snap) /\ GoTo(r, "classify")
              /\ UNCHANGED <<convs, promised>>
           \/ /\ ~HumanOwns(h.snap) /\ h.snap.email /\ GoTo(r, "classify")
              /\ convs' = [convs EXCEPT ![h.conv].email = FALSE]
              /\ promised' = promised \ {h.conv}
        /\ UNCHANGED <<last, answered, held, calls>>

\* Routing decides whether the customer is told to expect an email.
HandOff(r) == \E email \in BOOLEAN :
    Become(r, [proc[r] EXCEPT !.pc = "notice", !.email = email])

WasQueued(r) == proc[r].snap.status = "waiting"

\* The classifier: a denied topic or a wish for a person goes to one, unless the
\* thread is queued already; small talk, a file and an order question without a
\* login get a line; all else goes on to retrieval.  Small talk whose line the
\* moderation refuses is handed off even from the queue.
Classify(r) ==
    /\ At(r, "classify")
    /\ \/ GoTo(r, "answer")
       \/ GoTo(r, "reply")
       \/ HandOff(r)
       \/ WasQueued(r) /\ Done(r)
    /\ UNCHANGED <<convs, last, answered, held, calls, promised>>

\* Retrieval, generation and moderation: an answer, an answer with the handoff
\* of a denied topic behind it, no confident answer, or a draft.
Answer(r) ==
    /\ At(r, "answer")
    /\ \/ GoTo(r, "reply")
       \/ /\ ~WasQueued(r)
          /\ Become(r, [proc[r] EXCEPT !.pc = "reply", !.more = TRUE])
       \/ ~WasQueued(r) /\ HandOff(r)
       \/ Done(r)
    /\ UNCHANGED <<convs, last, answered, held, calls, promised>>

Reply(r) ==
    LET h == proc[r]
    IN  /\ At(r, "reply")
        /\ Speak(h.conv)
        /\ IF h.more THEN HandOff(r) ELSE Done(r)
        /\ UNCHANGED <<convs, answered, held, calls, promised>>

(***************************************************************************)
(* handoff and escalate.                                                    *)
(***************************************************************************)
\* The shopper asks for a person: any conversation of the session will do.
\* Only the off-hours notice is written, and only off hours.
Escalate(r, c) ==
    /\ Call(r, "escalate") /\ Exists(c)
    /\ \E email \in BOOLEAN :
         Become(r, [Idle EXCEPT !.call = "escalate", !.conv = c,
                      !.email = email,
                      !.pc = IF email THEN "notice" ELSE "queue"])
    /\ UNCHANGED <<convs, last, answered, held, promised>>

Notice(r) ==
    LET c == proc[r].conv
    IN  /\ At(r, "notice")
        /\ Speak(c)
        /\ promised' = IF proc[r].email THEN promised \cup {c} ELSE promised
        /\ GoTo(r, "queue")
        /\ UNCHANGED <<convs, answered, held, calls>>

\* markWaiting, whatever the status is by now.  Only handoff() goes on to
\* remember that the answer must travel by email.
Queue(r) ==
    LET h == proc[r]
    IN  /\ At(r, "queue")
        /\ convs' = [convs EXCEPT ![h.conv].status = "waiting"]
        /\ IF h.email /\ h.call = "message" THEN GoTo(r, "mailbox") ELSE Done(r)
        /\ UNCHANGED <<last, answered, held, calls, promised>>

Mailbox(r) ==
    /\ At(r, "mailbox")
    /\ convs' = [convs EXCEPT ![proc[r].conv].email = TRUE]
    /\ Done(r)
    /\ UNCHANGED <<last, answered, held, calls, promised>>

(***************************************************************************)
(* Ending: the shopper, the console and the sweeper write the same rows.    *)
(***************************************************************************)
Leave(r) ==
    /\ Call(r, "leave")
    /\ \E c \in NewestOpen : Start(r, "leave", c, Nobody, "close")
    /\ UNCHANGED <<convs, last, answered, held, promised>>

End(r, c) ==
    /\ Call(r, "end") /\ Exists(c)
    /\ Start(r, "end", c, Nobody, "close")
    /\ UNCHANGED <<convs, last, answered, held, promised>>

\* The sweeper takes the next row of its list.
Onward(p) ==
    Become(p, [proc[p] EXCEPT !.pc = IF proc[p].more THEN "check" ELSE "look",
                              !.conv = 0])

\* status = 'ended'; the sweeper also clears the latch.
Close(p) ==
    LET c == proc[p].conv
    IN  /\ At(p, "close")
        /\ Update(c, [convs[c] EXCEPT !.status = "ended",
                        !.latch = IF p = Sweeper THEN "off" ELSE @])
        /\ GoTo(p, "release")
        /\ UNCHANGED <<last, answered, held, calls, promised>>

\* Mutant: only the agent on the row is released.
ReleaseOwner(c) ==
    held' = [held EXCEPT ![c] = [a \in Agents |->
                IF a = convs[c].agent THEN 0 ELSE held[c][a]]]

\* Every active assignment of the conversation is released.
ReleaseAll(c) == held' = [held EXCEPT ![c] = [a \in Agents |-> 0]]

Release(p) ==
    /\ At(p, "release")
    /\ ReleaseAll(proc[p].conv)
    /\ IF p = Sweeper THEN Onward(p) ELSE Done(p)
    /\ UNCHANGED <<convs, last, answered, calls, promised>>

(***************************************************************************)
(* The console.                                                             *)
(***************************************************************************)
\* accept: the capacity is checked here and the row inserted an await later.
Accept(r, c, a) ==
    /\ Call(r, "accept") /\ Exists(c)
    /\ ~AtCapacity(a)
    /\ Start(r, "accept", c, a, "insert")
    /\ UNCHANGED <<convs, last, answered, held, promised>>

\* assignConversation keeps the row it read and saves all of it at the end.
Assign(r, c, a) ==
    /\ Call(r, "assign") /\ Exists(c)
    /\ Start(r, "assign", c, a, "transfer")
    /\ UNCHANGED <<convs, last, answered, held, promised>>

Transfer(r) ==
    /\ At(r, "transfer")
    /\ ReleaseAll(proc[r].conv)
    /\ GoTo(r, "insert")
    /\ UNCHANGED <<convs, last, answered, calls, promised>>

Insert(r) ==
    LET h == proc[r]
    IN  /\ At(r, "insert")
        /\ held' = [held EXCEPT ![h.conv][h.agent] = @ + 1]
        /\ GoTo(r, IF h.call = "accept" THEN "own" ELSE "save")
        /\ UNCHANGED <<convs, last, answered, calls, promised>>

Own(r) ==
    LET h == proc[r]
    IN  /\ At(r, "own")
        /\ Update(h.conv, [convs[h.conv] EXCEPT !.status = "agent",
                                                !.agent = h.agent])
        /\ Done(r)
        /\ UNCHANGED <<last, answered, held, calls, promised>>

Save(r) ==
    LET h == proc[r]
    IN  /\ At(r, "save")
        /\ Update(h.conv, [h.snap EXCEPT !.status = "agent", !.agent = h.agent])
        /\ Done(r)
        /\ UNCHANGED <<last, answered, held, calls, promised>>

HandBack(r, c) ==
    /\ Call(r, "handBack") /\ convs[c].status = "agent"
    /\ Start(r, "handBack", c, Nobody, "letgo")
    /\ UNCHANGED <<convs, last, answered, held, promised>>

LetGo(r) ==
    /\ At(r, "letgo")
    /\ ReleaseAll(proc[r].conv)
    /\ GoTo(r, "return")
    /\ UNCHANGED <<convs, last, answered, calls, promised>>

\* Mutant: the agent's id stays on the row.
StatusOnly(row) == [row EXCEPT !.status = "ai_active"]

\* Mutant: the id is reset to 0 instead of NULL.
ZeroId(row) == [row EXCEPT !.status = "ai_active", !.agent = 0]

\* status = 'ai_active', agentId = null
BackToBot(row) == [row EXCEPT !.status = "ai_active", !.agent = Nobody]

Return(r) ==
    LET c == proc[r].conv
    IN  /\ At(r, "return")
        /\ Update(c, BackToBot(convs[c]))
        /\ GoTo(r, "tell")
        /\ UNCHANGED <<last, answered, held, calls, promised>>

Tell(r) ==
    /\ At(r, "tell")
    /\ Speak(proc[r].conv)
    /\ Done(r)
    /\ UNCHANGED <<convs, answered, held, calls, promised>>

\* sendMessage: the row is read, the reply moderated and then saved; if the
\* thread it read was an off-hours one, the reply is mailed as well.
AgentReply(r, c) ==
    /\ Call(r, "reply") /\ Exists(c)
    /\ Start(r, "reply", c, Nobody, "send")
    /\ UNCHANGED <<convs, last, answered, held, promised>>

SendReply(r) ==
    LET h == proc[r]
    IN  /\ At(r, "send")
        /\ Speak(h.conv)
        /\ promised' = IF h.snap.email THEN promised \ {h.conv} ELSE promised
        /\ Done(r)
        /\ UNCHANGED <<convs, answered, held, calls>>

(***************************************************************************)
(* The idle sweeper: closeDue, then promptIdle.                             *)
(***************************************************************************)
\* take: at most k of S, in the order the database likes
Take(S, k) == {T \in SUBSET S : /\ Cardinality(T) <= k
                                /\ Cardinality(T) = k \/ T = S}

\* closeDue: asked, and the grace period is over
Due == {c \in Convs : /\ convs[c].status \in Swept
                      /\ convs[c].latch = "due" /\ ~convs[c].email}

BeginSweep ==
    /\ At(Sweeper, "idle")
    /\ \E due \in Take(Due, Batch) :
         Become(Sweeper, [Idle EXCEPT !.pc = "check", !.todo = due,
                            !.more = TRUE,
                            !.heard = {c \in due : answered[c]}])
    /\ UNCHANGED <<convs, last, answered, held, calls, promised>>

\* Mutant: the latch alone is trusted.
NotRechecked(c) == FALSE

\* The re-check: has the shopper written since the question?
Answered(c) == answered[c]

Check ==
    \E c \in proc[Sweeper].todo :
        /\ At(Sweeper, "check")
        /\ Become(Sweeper, [proc[Sweeper] EXCEPT !.conv = c, !.todo = @ \ {c},
                      !.pc = IF Answered(c) THEN "unlatch" ELSE "bye"])
        /\ UNCHANGED <<convs, last, answered, held, calls, promised>>

Unlatch ==
    /\ At(Sweeper, "unlatch")
    /\ convs' = [convs EXCEPT ![proc[Sweeper].conv].latch = "off"]
    /\ Onward(Sweeper)
    /\ UNCHANGED <<last, answered, held, calls, promised>>

\* The closing words, with the satisfaction question.
Bye ==
    /\ At(Sweeper, "bye")
    /\ Speak(proc[Sweeper].conv)
    /\ GoTo(Sweeper, "close")
    /\ UNCHANGED <<convs, answered, held, calls, promised>>

BeginAsk ==
    /\ At(Sweeper, "check") /\ proc[Sweeper].todo = {}
    /\ GoTo(Sweeper, "ask")
    /\ UNCHANGED <<convs, last, answered, held, calls, promised>>

\* Mutant: only the queue is swept, as before threads in agent mode were.
QueuedUnasked ==
    {c \in Convs : /\ convs[c].status = "waiting"
                   /\ convs[c].latch = "off" /\ ~convs[c].email}

\* promptIdle: not asked yet
Unasked == {c \in Convs : /\ convs[c].status \in Swept
                          /\ convs[c].latch = "off" /\ ~convs[c].email}

SelectUnasked ==
    /\ At(Sweeper, "ask")
    /\ \E unasked \in Take(Unasked, Batch * 4) :
         Become(Sweeper, [Idle EXCEPT !.pc = "look", !.todo = unasked])
    /\ UNCHANGED <<convs, last, answered, held, calls, promised>>

\* Skip a thread that is not quiet; close one too old to talk to without a word.
Look ==
    \E c \in proc[Sweeper].todo :
        /\ At(Sweeper, "look") /\ proc[Sweeper].count < Batch
        /\ Become(Sweeper,
             IF last[c] = "fresh"
             THEN [proc[Sweeper] EXCEPT !.todo = @ \ {c}]
             ELSE [proc[Sweeper] EXCEPT !.conv = c, !.todo = @ \ {c},
                     !.pc = IF last[c] = "quiet" THEN "prompt" ELSE "close"])
        /\ UNCHANGED <<convs, last, answered, held, calls, promised>>

Prompt ==
    /\ At(Sweeper, "prompt")
    /\ Speak(proc[Sweeper].conv)
    /\ GoTo(Sweeper, "setlatch")
    /\ UNCHANGED <<convs, answered, held, calls, promised>>

SetLatch ==
    LET c == proc[Sweeper].conv
    IN  /\ At(Sweeper, "setlatch")
        /\ convs' = [convs EXCEPT ![c].latch = "asked"]
        /\ answered' = [answered EXCEPT ![c] = FALSE]
        /\ Become(Sweeper, [proc[Sweeper] EXCEPT !.pc = "look", !.conv = 0,
                                                 !.count = @ + 1])
        /\ UNCHANGED <<last, held, calls, promised>>

EndSweep ==
    /\ At(Sweeper, "look")
    /\ proc[Sweeper].todo = {} \/ proc[Sweeper].count = Batch
    /\ Done(Sweeper)
    /\ UNCHANGED <<convs, last, answered, held, calls, promised>>

(***************************************************************************)
(* Time.  No request is open for 30 minutes; one may outlast the minute of  *)
(* grace.                                                                   *)
(***************************************************************************)
GraceEnds(c) ==
    /\ convs[c].latch = "asked"
    /\ convs' = [convs EXCEPT ![c].latch = "due"]
    /\ UNCHANGED <<last, answered, held, proc, calls, promised>>

GrowsQuiet(c) ==
    /\ IsOpen(c) /\ last[c] # "stale" /\ convs[c].latch # "asked"
    /\ \A r \in Requests : At(r, "idle")
    /\ last' = [last EXCEPT ![c] = IF @ = "fresh" THEN "quiet" ELSE "stale"]
    /\ UNCHANGED <<convs, answered, held, proc, calls, promised>>

(***************************************************************************)
(* The specification.                                                       *)
(***************************************************************************)
Arrive(r) ==
    \/ Message(r) \/ Leave(r)
    \/ \E c \in Convs : Escalate(r, c) \/ End(r, c) \/ HandBack(r, c)
                          \/ AgentReply(r, c)
    \/ \E c \in Convs, a \in Agents : Accept(r, c, a) \/ Assign(r, c, a)

Proceed(r) ==
    \/ Create(r) \/ Persist(r) \/ ClearLatch(r) \/ Shift(r) \/ Classify(r)
    \/ Answer(r) \/ Reply(r) \/ Notice(r) \/ Queue(r) \/ Mailbox(r)
    \/ Close(r) \/ Release(r)
    \/ Transfer(r) \/ Insert(r) \/ Own(r) \/ Save(r)
    \/ LetGo(r) \/ Return(r) \/ Tell(r) \/ SendReply(r)

Sweep ==
    \/ BeginSweep \/ Check \/ Unlatch \/ Bye \/ Close(Sweeper)
    \/ Release(Sweeper) \/ BeginAsk \/ SelectUnasked \/ Look \/ Prompt
    \/ SetLatch \/ EndSweep

Next ==
    \/ \E r \in Requests : Arrive(r) \/ Proceed(r)
    \/ Sweep
    \/ \E c \in Convs : GraceEnds(c) \/ GrowsQuiet(c)

Spec == Init /\ [][Next]_vars

\* An awaited call settles, setInterval keeps sweeping, and time passes.
Fairness ==
    /\ \A r \in Requests : WF_vars(Proceed(r))
    /\ WF_vars(Sweep)
    /\ \A c \in Convs : WF_vars(GraceEnds(c)) /\ WF_vars(GrowsQuiet(c))

FairSpec == Spec /\ Fairness

(***************************************************************************)
(* Properties under every overlap of requests and sweeps.                   *)
(***************************************************************************)
AtWork(p, c) == ~At(p, "idle") /\ proc[p].conv = c

\* The bot's thread carries no agent and an agent's thread carries one: a
\* thread handed back with the id still on it would go mute (agent.service.ts,
\* handBack).
OwnerMatchesStatus ==
    \A c \in Convs :
        /\ convs[c].status = "ai_active" => convs[c].agent = Nobody
        /\ convs[c].status = "agent" => convs[c].agent # Nobody

\* An ended conversation nobody is still working on holds no agent's capacity,
\* however its end raced with accepts, transfers, handbacks and other ends.
EndedIsReleased ==
    \A c \in Convs :
        convs[c].status = "ended" /\ (\A p \in Procs : ~AtWork(p, c)) =>
            \A a \in Agents : held[c][a] = 0

\* "The customer may have replied between the question and this tick": a thread
\* answered before the sweep began is not closed by it, although the request
\* that brought the answer may hold a row read before the question.
AnswerIsHeard ==
    At(Sweeper, "bye") => proc[Sweeper].conv \notin proc[Sweeper].heard

\* Handback and the sweep leave no thread with an absent human for ever: once
\* the shopper stops writing, it ends or goes back to the bot, unless an answer
\* by email is due.
NoThreadAbandoned ==
    \A c \in Convs :
        convs[c].status \in Swept /\ ~convs[c].email
          ~> convs[c].status \notin Swept \/ convs[c].email

(***************************************************************************)
(* What the code's comments say and the code does not keep.                 *)
(***************************************************************************)
\* chat.service.ts: "once a human owns the thread the bot stays silent";
\* auto-reply.util.ts: "the AI never talks over them".
NeverTalksOver ==
    \A r \in Requests : At(r, "reply") => ~HumanOwns(convs[proc[r].conv])

\* chat.service.ts: a queued thread is silent only when somebody is assigned.
MuteMeansHeld ==
    \A c \in Convs :
        HumanOwns(convs[c]) /\ (\A p \in Procs : ~AtWork(p, c)) =>
            \E a \in Agents : held[c][a] > 0

\* idle-conversation.service.ts: closing a thread that waits for a promised
\* email reply "would cancel an answer the customer was told to expect".
PromiseOutlivesSweep ==
    At(Sweeper, "bye") => proc[Sweeper].conv \notin promised

=============================================================================
