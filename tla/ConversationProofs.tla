-------------------------- MODULE ConversationProofs --------------------------
(***************************************************************************)
(* What Conversation keeps for every number of conversations, agents,       *)
(* requests and sweeps.                                                     *)
(*                                                                          *)
(* Fit says what a handler's record may look like at each of its steps;     *)
(* Covered names the handler that will still clean up after an assignment   *)
(* that is active on an ended conversation.                                 *)
(***************************************************************************)
EXTENDS Conversation, TLAPS

(***************************************************************************)
(* The inductive invariant.                                                 *)
(***************************************************************************)
\* Steps that hold no conversation, and steps that bring an agent.
Aimless == {"idle", "create", "check", "ask", "look"}
Bringing == {"transfer", "insert", "own", "save"}

Fit(h) ==
    /\ h \in Handler
    /\ h.pc \notin Aimless => h.conv \in Convs
    /\ h.pc \in Bringing => h.agent \in Agents
    /\ h.pc \in {"look", "prompt", "setlatch"} => ~h.more
    /\ ~h.more => h.heard = {}

\* The types of the tables, without the handlers.
TablesOK ==
    /\ convs \in [Convs -> Conv]
    /\ last \in [Convs -> {"fresh", "quiet", "stale"}]
    /\ answered \in [Convs -> BOOLEAN]
    /\ held \in [Convs -> [Agents -> Nat]]
    /\ calls \in Nat
    /\ promised \subseteq Convs

HandlersFit ==
    /\ proc \in [Procs -> Handler]
    /\ \A p \in Procs : Fit(proc[p])

Covering == {"release", "own", "save"}
Covered(c) ==
    \E p \in Procs : proc[p].conv = c /\ proc[p].pc \in Covering

\* An assignment on an ended conversation has somebody coming for it: the end
\* itself, or an accept or transfer that will reopen the conversation.
LeftoversCovered ==
    \A c \in Convs, a \in Agents :
        convs[c].status = "ended" /\ held[c][a] > 0 => Covered(c)

\* Nobody but the sweeper marks a thread unanswered, and it does so only after
\* it has looked at all the answers it selected.
AnswersKept ==
    /\ \A c \in proc[Sweeper].heard \cap proc[Sweeper].todo : answered[c]
    /\ AnswerIsHeard

IInv ==
    /\ TablesOK
    /\ HandlersFit
    /\ OwnerMatchesStatus
    /\ LeftoversCovered
    /\ AnswersKept

(***************************************************************************)
(* Moving a handler.                                                        *)
(***************************************************************************)
\* A handler with nothing to do fits.
LEMMA IdleFits == Fit(Idle)
BY DEF Fit, Idle, Handler, Steps, NoConv, Conv, Open, Aimless, Bringing

\* A handler that turns to a fitting record leaves all of them fitting.
LEMMA BecomeFits ==
    ASSUME HandlersFit, NEW p \in Procs, NEW h, Fit(h), Become(p, h)
    PROVE  HandlersFit'
<1>1. h \in Handler
  BY DEF Fit
<1>2. proc' \in [Procs -> Handler]
  BY <1>1 DEF HandlersFit, Become
<1>3. \A q \in Procs : Fit(proc'[q])
  BY DEF HandlersFit, Become
<1>4. QED
  BY <1>2, <1>3 DEF HandlersFit

\* A handler that finishes leaves all of them fitting.
LEMMA DoneFits ==
    ASSUME HandlersFit, NEW p \in Procs, Done(p)
    PROVE  HandlersFit'
BY IdleFits, BecomeFits DEF Done

\* The record of a handler that goes on to its next step.
Moved(p, step) == [proc[p] EXCEPT !.pc = step]

\* A handler that has a conversation may go on to a step that needs no more.
LEMMA MovedFits ==
    ASSUME HandlersFit, NEW p \in Procs, NEW step \in Steps,
           proc[p].pc \notin Aimless,
           step \in Bringing => proc[p].agent \in Agents,
           step \in {"look", "prompt", "setlatch"} => ~proc[p].more
    PROVE  Fit(Moved(p, step))
<1>1. Fit(proc[p])
  BY DEF HandlersFit
<1>2. QED
  BY <1>1 DEF Fit, Handler, Moved

\* GoTo turns the handler to the moved record.
LEMMA GoToMoves ==
    ASSUME NEW p \in Procs, NEW step, GoTo(p, step)
    PROVE  Become(p, Moved(p, step))
BY DEF GoTo, Moved

\* The record of a request that starts on the row it has read.
Started(call, c, a, step) ==
    [Idle EXCEPT !.pc = step, !.call = call, !.conv = c, !.agent = a,
                 !.snap = IF c = 0 THEN NoConv ELSE convs[c]]

\* It fits when the step has the conversation and the agent it needs.
LEMMA StartedFits ==
    ASSUME TablesOK, NEW call \in Endpoints, NEW c \in Convs \cup {0},
           NEW a \in Agents \cup {Nobody}, NEW step \in Steps,
           step \notin Aimless => c \in Convs,
           step \in Bringing => a \in Agents
    PROVE  Fit(Started(call, c, a, step))
<1>1. (IF c = 0 THEN NoConv ELSE convs[c]) \in Conv
  BY DEF TablesOK, NoConv, Conv, Open
<1>2. QED
  BY <1>1 DEF Fit, Idle, Handler, Started

(***************************************************************************)
(* The parts of the invariant.                                              *)
(***************************************************************************)
\* OwnerMatchesStatus of one row.
Right(row) ==
    /\ row.status = "ai_active" => row.agent = Nobody
    /\ row.status = "agent" => row.agent # Nobody

\* A right row written over another keeps OwnerMatchesStatus.
LEMMA RowKept ==
    ASSUME TablesOK, OwnerMatchesStatus, NEW c \in Convs, NEW row \in Conv,
           Right(row), Update(c, row)
    PROVE  convs' \in [Convs -> Conv] /\ OwnerMatchesStatus'
BY DEF TablesOK, OwnerMatchesStatus, Update, Right

\* A step keeps the leftovers covered when each that it leaves is covered by
\* the handler that moved, or was there before and covered by another.
LEMMA CoverKept ==
    ASSUME HandlersFit, LeftoversCovered, NEW p \in Procs, NEW h, Become(p, h),
           \A c \in Convs, a \in Agents :
              (convs[c].status = "ended" /\ held[c][a] > 0)' =>
                 \/ h.conv = c /\ h.pc \in Covering
                 \/ /\ convs[c].status = "ended" /\ held[c][a] > 0
                    /\ ~(proc[p].conv = c /\ proc[p].pc \in Covering)
    PROVE  LeftoversCovered'
<1> SUFFICES ASSUME NEW c \in Convs, NEW a \in Agents,
                    (convs[c].status = "ended" /\ held[c][a] > 0)'
             PROVE  Covered(c)'
  BY DEF LeftoversCovered
<1>1. CASE h.conv = c /\ h.pc \in Covering
  <2>1. proc'[p] = h
    BY DEF Become, HandlersFit
  <2>2. QED
    BY <1>1, <2>1 DEF Covered
<1>2. CASE /\ convs[c].status = "ended" /\ held[c][a] > 0
           /\ ~(proc[p].conv = c /\ proc[p].pc \in Covering)
  <2>1. PICK q \in Procs : proc[q].conv = c /\ proc[q].pc \in Covering
    BY <1>2 DEF LeftoversCovered, Covered
  <2>2. q # p
    BY <1>2, <2>1
  <2>3. proc'[q] = proc[q]
    BY <2>2 DEF Become, HandlersFit
  <2>4. QED
    BY <2>1, <2>3 DEF Covered
<1>3. QED
  BY <1>1, <1>2

\* A request cannot spoil what the sweeper has heard.
LEMMA AnswersKeptByRequests ==
    ASSUME HandlersFit, AnswersKept, NEW r \in Requests, NEW h, Become(r, h),
           \A c \in Convs : answered[c] => answered'[c]
    PROVE  AnswersKept'
<1>1. r \in Procs /\ Sweeper \in Procs /\ r # Sweeper
  BY ConversationAssumption DEF Procs
<1>2. proc'[Sweeper] = proc[Sweeper]
  BY <1>1 DEF Become, HandlersFit
<1>3. proc[Sweeper].todo \subseteq Convs
  BY <1>1 DEF HandlersFit, Handler
<1>4. QED
  BY <1>2, <1>3 DEF AnswersKept, AnswerIsHeard, At

\* A request's step that leaves assignments and rows alone.
LEMMA MildStep ==
    ASSUME IInv, NEW r \in Requests, NEW h, Fit(h), Become(r, h),
           UNCHANGED <<convs, held>>, TablesOK',
           \A c \in Convs : answered[c] => answered'[c],
           proc[r].pc \notin Covering
    PROVE  IInv'
<1>1. r \in Procs
  BY DEF Procs
<1>2. HandlersFit'
  BY <1>1, BecomeFits DEF IInv
<1>3. OwnerMatchesStatus'
  BY DEF IInv, OwnerMatchesStatus
<1>4. LeftoversCovered'
  BY <1>1, CoverKept DEF IInv
<1>5. AnswersKept'
  BY AnswersKeptByRequests DEF IInv
<1>6. QED
  BY <1>2, <1>3, <1>4, <1>5 DEF IInv

\* A request's step that writes a row without ending the conversation, and
\* leaves assignments alone.
LEMMA RowStep ==
    ASSUME IInv, NEW r \in Requests, NEW h, Fit(h), Become(r, h),
           NEW c \in Convs, NEW row \in Conv, Update(c, row), Right(row),
           row.status = "ended" => convs[c].status = "ended",
           last' \in [Convs -> {"fresh", "quiet", "stale"}],
           promised' \subseteq Convs, UNCHANGED <<answered, held, calls>>,
           proc[r].pc \in Covering =>
               proc[r].conv = c /\ row.status # "ended"
    PROVE  IInv'
<1>1. r \in Procs
  BY DEF Procs
<1>2. HandlersFit'
  BY <1>1, BecomeFits DEF IInv
<1>3. convs' \in [Convs -> Conv] /\ OwnerMatchesStatus'
  BY RowKept DEF IInv
<1>4. TablesOK'
  BY <1>3 DEF IInv, TablesOK
<1>5. LeftoversCovered'
  <2>1. \A b \in Convs : convs'[b] = IF b = c THEN row ELSE convs[b]
    BY DEF Update, IInv, TablesOK
  <2>2. \A b \in Convs, a \in Agents :
           (convs[b].status = "ended" /\ held[b][a] > 0)' =>
              /\ convs[b].status = "ended" /\ held[b][a] > 0
              /\ ~(proc[r].conv = b /\ proc[r].pc \in Covering)
    BY <2>1
  <2>3. QED
    BY <1>1, <2>2, CoverKept DEF IInv
<1>6. AnswersKept'
  BY AnswersKeptByRequests DEF IInv
<1>7. QED
  BY <1>2, <1>3, <1>4, <1>5, <1>6 DEF IInv

(***************************************************************************)
(* Requests arrive.                                                         *)
(***************************************************************************)
\* A request that arrives with a fitting record keeps the invariant.
LEMMA ArrivalKeeps ==
    ASSUME IInv, NEW r \in Requests, NEW h, Fit(h), Become(r, h),
           At(r, "idle"), calls' = calls + 1,
           UNCHANGED <<convs, last, answered, held, promised>>
    PROVE  IInv'
<1>1. TablesOK'
  BY DEF IInv, TablesOK
<1>2. proc[r].pc \notin Covering
  BY DEF At, Covering
<1>3. QED
  BY <1>1, <1>2, MildStep

\* So does one that starts on the row it has read.
LEMMA StartKeeps ==
    ASSUME IInv, NEW r \in Requests, NEW call \in Endpoints,
           NEW c \in Convs \cup {0}, NEW a \in Agents \cup {Nobody},
           NEW step \in Steps, step \notin Aimless => c \in Convs,
           step \in Bringing => a \in Agents,
           Call(r, call), Start(r, call, c, a, step),
           UNCHANGED <<convs, last, answered, held, promised>>
    PROVE  IInv'
<1>1. Fit(Started(call, c, a, step))
  BY StartedFits DEF IInv
<1>2. Become(r, Started(call, c, a, step))
  BY DEF Start, Started
<1>3. QED
  BY <1>1, <1>2, ArrivalKeeps DEF Call

\* Every endpoint, as its request arrives.
LEMMA ArriveKeeps ==
    ASSUME IInv, NEW r \in Requests, Arrive(r)
    PROVE  IInv'
<1> USE DEF Endpoints, Steps, Aimless, Bringing
<1>1. CASE Message(r)
  <2>1. CASE \E c \in NewestOpen : Start(r, "message", c, Nobody, "persist")
    <3>1. PICK c \in Convs : Start(r, "message", c, Nobody, "persist")
      BY <2>1 DEF NewestOpen
    <3>2. QED
      BY <1>1, <3>1, StartKeeps DEF Message
  <2>2. CASE Start(r, "message", 0, Nobody, "create")
    BY <1>1, <2>2, StartKeeps DEF Message
  <2>3. QED
    BY <1>1, <2>1, <2>2 DEF Message
<1>2. CASE Leave(r)
  <2>1. PICK c \in Convs : Start(r, "leave", c, Nobody, "close")
    BY <1>2 DEF Leave, NewestOpen
  <2>2. QED
    BY <1>2, <2>1, StartKeeps DEF Leave
<1>3. CASE \E c \in Convs : Escalate(r, c)
  <2>1. PICK c \in Convs : Escalate(r, c)
    BY <1>3
  <2>2. PICK email \in BOOLEAN :
          Become(r, [Idle EXCEPT !.call = "escalate", !.conv = c,
                       !.email = email,
                       !.pc = IF email THEN "notice" ELSE "queue"])
    BY <2>1 DEF Escalate
  <2> DEFINE h == [Idle EXCEPT !.call = "escalate", !.conv = c,
                     !.email = email,
                     !.pc = IF email THEN "notice" ELSE "queue"]
  <2>3. Fit(h)
    BY IdleFits, ZenonT(60) DEF Fit, Handler, Idle
  <2>4. Become(r, h)
    BY <2>2
  <2>5. QED
    BY <2>1, <2>3, <2>4, ArrivalKeeps DEF Escalate, Call
<1>4. CASE \E c \in Convs : End(r, c)
  BY <1>4, StartKeeps DEF End
<1>5. CASE \E c \in Convs : HandBack(r, c)
  BY <1>5, StartKeeps DEF HandBack
<1>6. CASE \E c \in Convs : AgentReply(r, c)
  BY <1>6, StartKeeps DEF AgentReply
<1>7. CASE \E c \in Convs, a \in Agents : Accept(r, c, a)
  BY <1>7, StartKeeps DEF Accept
<1>8. CASE \E c \in Convs, a \in Agents : Assign(r, c, a)
  BY <1>8, StartKeeps DEF Assign
<1>9. QED
  BY <1>1, <1>2, <1>3, <1>4, <1>5, <1>6, <1>7, <1>8 DEF Arrive

(***************************************************************************)
(* The shopper's turn.                                                      *)
(***************************************************************************)
\* getOrCreateConversation's insert.
LEMMA CreateKeeps ==
    ASSUME IInv, NEW r \in Requests, Create(r)
    PROVE  IInv'
<1>1. r \in Procs /\ Fit(proc[r]) /\ proc[r].pc = "create"
  BY DEF Procs, IInv, HandlersFit, Create, At
<1>2. CASE \E c \in NextId :
             /\ Update(c, NewConv) /\ Speak(c)
             /\ Become(r, [proc[r] EXCEPT !.pc = "persist", !.conv = c,
                                          !.snap = NewConv])
  <2>1. PICK c \in Convs :
             /\ Update(c, NewConv) /\ Speak(c)
             /\ Become(r, [proc[r] EXCEPT !.pc = "persist", !.conv = c,
                                          !.snap = NewConv])
    BY <1>2 DEF NextId
  <2> DEFINE h == [proc[r] EXCEPT !.pc = "persist", !.conv = c,
                                  !.snap = NewConv]
  <2>2. NewConv \in Conv /\ Right(NewConv) /\ NewConv.status = "ai_active"
    BY DEF NewConv, NoConv, Conv, Open, Right
  <2>3. Fit(h)
    BY <1>1, <2>2 DEF Fit, Handler, Steps, Aimless, Bringing
  <2>4. Become(r, h) /\ Update(c, NewConv)
    BY <2>1
  <2>5. /\ last' \in [Convs -> {"fresh", "quiet", "stale"}]
        /\ promised' \subseteq Convs
        /\ UNCHANGED <<answered, held, calls>>
    BY <2>1 DEF Create, Speak, IInv, TablesOK
  <2>6. QED
    BY <1>1, <2>2, <2>3, <2>4, <2>5, RowStep DEF Covering
<1>3. CASE Done(r) /\ UNCHANGED <<convs, last>>
  <2>1. TablesOK' /\ UNCHANGED <<answered, held, convs>>
    BY <1>3 DEF Create, IInv, TablesOK
  <2>2. QED
    BY <1>1, <1>3, <2>1, IdleFits, MildStep DEF Done, Covering
<1>4. QED
  BY <1>2, <1>3 DEF Create

\* What a request knows of itself at a step that has a conversation.
LEMMA AtStep ==
    ASSUME IInv, NEW r \in Requests, NEW step, At(r, step), step \notin Aimless
    PROVE  /\ r \in Procs /\ proc[r].pc = step /\ Fit(proc[r])
           /\ proc[r] \in Handler /\ proc[r].conv \in Convs
BY DEF IInv, HandlersFit, Fit, At, Procs

\* The steps of a turn that write messages at most.
LEMMA TurnKeeps ==
    ASSUME IInv, NEW r \in Requests,
           Persist(r) \/ Classify(r) \/ Answer(r) \/ Reply(r) \/ Notice(r)
    PROVE  IInv'
<1> DEFINE h == proc[r]
<1> USE DEF Aimless
<1>1. /\ r \in Procs /\ Fit(h) /\ h \in Handler /\ h.conv \in Convs
      /\ h.pc \in {"persist", "classify", "answer", "reply", "notice"}
  BY AtStep DEF Persist, Classify, Answer, Reply, Notice
<1>2. h.pc \notin Covering /\ h.pc \notin Aimless
  BY <1>1 DEF Covering
<1>3. TablesOK' /\ UNCHANGED <<convs, held>>
  BY <1>1 DEF Persist, Classify, Answer, Reply, Notice, Speak, IInv, TablesOK
<1>4. \A c \in Convs : answered[c] => answered'[c]
  BY DEF Persist, Classify, Answer, Reply, Notice, IInv, TablesOK
<1>5. ASSUME NEW step \in {"latch", "shift", "answer", "reply", "queue"},
             GoTo(r, step)
      PROVE  IInv'
  <2>1. Fit(Moved(r, step))
    BY <1>1, <1>2, MovedFits DEF IInv, Steps, Bringing
  <2>2. QED
    BY <1>2, <1>3, <1>4, <1>5, <2>1, GoToMoves, MildStep, <1>1
<1>6. ASSUME HandOff(r) PROVE IInv'
  <2>1. PICK email \in BOOLEAN :
          Become(r, [proc[r] EXCEPT !.pc = "notice", !.email = email])
    BY <1>6 DEF HandOff
  <2>2. Fit([proc[r] EXCEPT !.pc = "notice", !.email = email])
    BY <1>1, ZenonT(60) DEF Fit, Handler, Steps, Bringing
  <2>3. QED
    BY <1>2, <1>3, <1>4, <2>1, <2>2, MildStep
<1>7. ASSUME Done(r) PROVE IInv'
  BY <1>2, <1>3, <1>4, <1>7, IdleFits, MildStep DEF Done
<1>8. CASE Persist(r)
  BY <1>5, <1>8 DEF Persist
<1>9. CASE Classify(r)
  BY <1>5, <1>6, <1>7, <1>9 DEF Classify
<1>10. CASE Answer(r)
  <2>1. CASE Become(r, [proc[r] EXCEPT !.pc = "reply", !.more = TRUE])
    <3>1. Fit([proc[r] EXCEPT !.pc = "reply", !.more = TRUE])
      BY <1>1 DEF Fit, Handler, Steps, Bringing
    <3>2. QED
      BY <1>2, <1>3, <1>4, <2>1, <3>1, MildStep
  <2>2. QED
    BY <1>5, <1>6, <1>7, <1>10, <2>1 DEF Answer
<1>11. CASE Reply(r)
  BY <1>6, <1>7, <1>11 DEF Reply
<1>12. CASE Notice(r)
  BY <1>5, <1>12 DEF Notice
<1>13. QED
  BY <1>8, <1>9, <1>10, <1>11, <1>12

\* The updates of one column of one row.
LEMMA ColumnUpdates ==
    ASSUME TablesOK, OwnerMatchesStatus, NEW c \in Convs
    PROVE  /\ \A v \in {"off", "asked", "due"} :
                LET row == [convs[c] EXCEPT !.latch = v]
                IN  /\ row \in Conv /\ Right(row)
                    /\ row.status = convs[c].status
                    /\ convs' = [convs EXCEPT ![c].latch = v]
                         => Update(c, row)
           /\ \A v \in BOOLEAN :
                LET row == [convs[c] EXCEPT !.email = v]
                IN  /\ row \in Conv /\ Right(row)
                    /\ row.status = convs[c].status
                    /\ convs' = [convs EXCEPT ![c].email = v]
                         => Update(c, row)
           /\ LET row == [convs[c] EXCEPT !.status = "waiting"]
              IN  /\ row \in Conv /\ Right(row) /\ row.status = "waiting"
                  /\ convs' = [convs EXCEPT ![c].status = "waiting"]
                       => Update(c, row)
<1>1. convs[c] \in Conv /\ Right(convs[c])
  BY DEF TablesOK, OwnerMatchesStatus, Right
<1>2. QED
  BY <1>1 DEF Conv, Right, Update, Open

\* The turn clears the idle latch.
LEMMA ClearLatchKeeps ==
    ASSUME IInv, NEW r \in Requests, ClearLatch(r)
    PROVE  IInv'
<1> DEFINE c == proc[r].conv
           row == [convs[c] EXCEPT !.latch = "off"]
<1>1. r \in Procs /\ proc[r].pc = "latch" /\ Fit(proc[r]) /\ c \in Convs
  BY AtStep DEF ClearLatch, Aimless
<1>2. row \in Conv /\ Right(row) /\ Update(c, row)
      /\ row.status = convs[c].status
  BY <1>1, ColumnUpdates DEF ClearLatch, IInv
<1>3. Fit(Moved(r, "shift")) /\ Become(r, Moved(r, "shift"))
  BY <1>1, MovedFits, GoToMoves
     DEF ClearLatch, IInv, Steps, Aimless, Bringing
<1>4. /\ last' \in [Convs -> {"fresh", "quiet", "stale"}]
      /\ promised' \subseteq Convs /\ UNCHANGED <<answered, held, calls>>
  BY DEF ClearLatch, IInv, TablesOK
<1>5. proc[r].pc \notin Covering
  BY <1>1 DEF Covering
<1>6. QED
  BY <1>1, <1>2, <1>3, <1>4, <1>5, RowStep

\* The turn gives an email thread back to the widget.
LEMMA ShiftKeeps ==
    ASSUME IInv, NEW r \in Requests, Shift(r)
    PROVE  IInv'
<1> DEFINE c == proc[r].conv
<1>1. r \in Procs /\ proc[r].pc = "shift" /\ Fit(proc[r]) /\ c \in Convs
  BY AtStep DEF Shift, Aimless
<1>2. proc[r].pc \notin Covering
  BY <1>1 DEF Covering
<1>3. Fit(Moved(r, "classify"))
  BY <1>1, MovedFits DEF IInv, Steps, Aimless, Bringing
<1>4. CASE UNCHANGED <<convs, promised>>
  <2>1. TablesOK' /\ UNCHANGED <<convs, held, answered>>
    BY <1>4 DEF Shift, IInv, TablesOK
  <2>2. CASE Done(r)
    BY <1>2, <2>1, <2>2, IdleFits, MildStep DEF Done
  <2>3. CASE GoTo(r, "classify")
    BY <1>1, <1>2, <1>3, <2>1, <2>3, GoToMoves, MildStep
  <2>4. QED
    BY <2>2, <2>3 DEF Shift
<1>5. CASE /\ GoTo(r, "classify")
           /\ convs' = [convs EXCEPT ![c].email = FALSE]
           /\ promised' = promised \ {c}
  <2> DEFINE row == [convs[c] EXCEPT !.email = FALSE]
  <2>1. row \in Conv /\ Right(row) /\ Update(c, row)
        /\ row.status = convs[c].status
    BY <1>1, <1>5, ColumnUpdates DEF IInv
  <2>2. /\ last' \in [Convs -> {"fresh", "quiet", "stale"}]
        /\ promised' \subseteq Convs /\ UNCHANGED <<answered, held, calls>>
    BY <1>5 DEF Shift, IInv, TablesOK
  <2>3. Become(r, Moved(r, "classify"))
    BY <1>1, <1>5, GoToMoves
  <2>4. QED
    BY <1>1, <1>2, <1>3, <2>1, <2>2, <2>3, RowStep
<1>6. QED
  BY <1>4, <1>5 DEF Shift

\* handoff's and escalate's updates put a thread in the queue, never end it.
LEMMA HandoffKeeps ==
    ASSUME IInv, NEW r \in Requests, Queue(r) \/ Mailbox(r)
    PROVE  IInv'
<1> DEFINE c == proc[r].conv
<1>1. /\ r \in Procs /\ Fit(proc[r]) /\ c \in Convs
      /\ proc[r].pc \in {"queue", "mailbox"}
  BY AtStep DEF Queue, Mailbox, Aimless
<1>2. proc[r].pc \notin Covering
  BY <1>1 DEF Covering
<1>3. /\ last' \in [Convs -> {"fresh", "quiet", "stale"}]
      /\ promised' \subseteq Convs /\ UNCHANGED <<answered, held, calls>>
  BY DEF Queue, Mailbox, IInv, TablesOK
<1>4. \E h : Fit(h) /\ Become(r, h)
  <2>1. CASE Done(r)
    BY <2>1, IdleFits DEF Done
  <2>2. CASE GoTo(r, "mailbox")
    BY <1>1, <2>2, MovedFits, GoToMoves DEF IInv, Steps, Aimless, Bringing
  <2>3. QED
    BY <2>1, <2>2 DEF Queue, Mailbox
<1>5. CASE Queue(r)
  <2> DEFINE row == [convs[c] EXCEPT !.status = "waiting"]
  <2>1. row \in Conv /\ Right(row) /\ Update(c, row) /\ row.status = "waiting"
    BY <1>1, <1>5, ColumnUpdates DEF Queue, IInv
  <2>2. QED
    BY <1>1, <1>2, <1>3, <1>4, <2>1, RowStep
<1>6. CASE Mailbox(r)
  <2> DEFINE row == [convs[c] EXCEPT !.email = TRUE]
  <2>1. row \in Conv /\ Right(row) /\ Update(c, row)
        /\ row.status = convs[c].status
    BY <1>1, <1>6, ColumnUpdates DEF Mailbox, IInv
  <2>2. QED
    BY <1>1, <1>2, <1>3, <1>4, <2>1, RowStep
<1>7. QED
  BY <1>5, <1>6

(***************************************************************************)
(* Ending a conversation, and the console.                                  *)
(***************************************************************************)
\* An end, by anybody, covers whatever is left by its own next step.
LEMMA CloseCovers ==
    ASSUME IInv, NEW p \in Procs, Close(p), proc[p].conv \in Convs,
           proc[p].pc = "close"
    PROVE  /\ TablesOK' /\ OwnerMatchesStatus' /\ HandlersFit'
           /\ LeftoversCovered'
<1> DEFINE c == proc[p].conv
           row == [convs[c] EXCEPT !.status = "ended",
                     !.latch = IF p = Sweeper THEN "off" ELSE @]
           h == Moved(p, "release")
<1>1. convs[c] \in Conv
  BY DEF IInv, TablesOK
<1>2. row \in Conv /\ Right(row)
  BY <1>1 DEF Conv, Right
<1>3. Update(c, row)
  BY DEF Close
<1>4. convs' \in [Convs -> Conv] /\ OwnerMatchesStatus'
  BY <1>2, <1>3, RowKept DEF IInv
<1>5. TablesOK'
  BY <1>4 DEF Close, IInv, TablesOK
<1>6. Fit(h) /\ Become(p, h)
  BY MovedFits, GoToMoves DEF Close, IInv, Steps, Aimless, Bringing
<1>7. HandlersFit'
  BY <1>6, BecomeFits DEF IInv
<1>8. h.conv = c /\ h.pc = "release"
  BY DEF IInv, HandlersFit, Handler, Moved
<1>9. \A b \in Convs : b # c => convs'[b] = convs[b]
  BY <1>3 DEF Update, IInv, TablesOK
<1>10. \A b \in Convs, a \in Agents :
          (convs[b].status = "ended" /\ held[b][a] > 0)' =>
             \/ h.conv = b /\ h.pc \in Covering
             \/ /\ convs[b].status = "ended" /\ held[b][a] > 0
                /\ ~(proc[p].conv = b /\ proc[p].pc \in Covering)
  BY <1>8, <1>9 DEF Close, Covering
<1>11. LeftoversCovered'
  BY <1>6, <1>10, CoverKept DEF IInv
<1>12. QED
  BY <1>4, <1>5, <1>7, <1>11

\* Nothing is left on a released conversation.
LEMMA ReleaseClears ==
    ASSUME IInv, NEW p \in Procs, NEW h, Become(p, h), Fit(h),
           proc[p].conv \in Convs, ReleaseAll(proc[p].conv),
           UNCHANGED <<convs, last, answered, calls, promised>>
    PROVE  /\ TablesOK' /\ OwnerMatchesStatus' /\ HandlersFit'
           /\ LeftoversCovered'
<1> DEFINE c == proc[p].conv
<1>1. /\ held' \in [Convs -> [Agents -> Nat]]
      /\ \A a \in Agents : held'[c][a] = 0
      /\ \A b \in Convs : b # c => held'[b] = held[b]
  BY DEF ReleaseAll, IInv, TablesOK
<1>2. TablesOK' /\ OwnerMatchesStatus'
  BY <1>1 DEF IInv, TablesOK, OwnerMatchesStatus
<1>3. HandlersFit'
  BY BecomeFits DEF IInv
<1>4. \A b \in Convs, a \in Agents :
          (convs[b].status = "ended" /\ held[b][a] > 0)' =>
             /\ convs[b].status = "ended" /\ held[b][a] > 0
             /\ ~(proc[p].conv = b /\ proc[p].pc \in Covering)
  BY <1>1
<1>5. LeftoversCovered'
  BY <1>4, CoverKept DEF IInv
<1>6. QED
  BY <1>2, <1>3, <1>5

\* A shopper's or the console's end.
LEMMA EndKeeps ==
    ASSUME IInv, NEW r \in Requests, Close(r) \/ Release(r)
    PROVE  IInv'
<1>1. /\ r \in Procs /\ r # Sweeper /\ proc[r].conv \in Convs
      /\ proc[r].pc \in {"close", "release"}
  BY AtStep, ConversationAssumption DEF Close, Release, Aimless
<1>2. CASE Close(r)
  <2>1. proc[r].pc = "close" /\ Become(r, Moved(r, "release"))
    BY <1>1, <1>2, GoToMoves DEF Close, At
  <2>2. AnswersKept'
    BY <1>2, <2>1, AnswersKeptByRequests DEF Close, IInv
  <2>3. QED
    BY <1>1, <1>2, <2>1, <2>2, CloseCovers DEF IInv
<1>3. CASE Release(r)
  <2>1. Become(r, Idle)
    BY <1>1, <1>3 DEF Release, Done
  <2>2. AnswersKept'
    BY <1>3, <2>1, AnswersKeptByRequests DEF Release, IInv
  <2>3. QED
    BY <1>1, <1>3, <2>1, <2>2, IdleFits, ReleaseClears DEF Release, IInv
<1>4. QED
  BY <1>2, <1>3

\* assign's and handBack's releases.
LEMMA LetGoKeeps ==
    ASSUME IInv, NEW r \in Requests, Transfer(r) \/ LetGo(r)
    PROVE  IInv'
<1>1. /\ r \in Procs /\ Fit(proc[r]) /\ proc[r].conv \in Convs
      /\ proc[r].pc \in {"transfer", "letgo"}
  BY AtStep DEF Transfer, LetGo, Aimless
<1>2. PICK h : Fit(h) /\ Become(r, h)
  <2>1. CASE Transfer(r)
    <3>1. proc[r].agent \in Agents
      BY <1>1, <2>1 DEF Transfer, At, Fit, Bringing
    <3>2. Fit(Moved(r, "insert"))
      BY <1>1, <3>1, MovedFits DEF IInv, Steps, Aimless
    <3>3. QED
      BY <1>1, <2>1, <3>2, GoToMoves DEF Transfer
  <2>2. CASE LetGo(r)
    <3>1. Fit(Moved(r, "return"))
      BY <1>1, MovedFits DEF IInv, Steps, Aimless, Bringing
    <3>2. QED
      BY <1>1, <2>2, <3>1, GoToMoves DEF LetGo
  <2>3. QED
    BY <2>1, <2>2
<1>3. AnswersKept'
  BY <1>2, AnswersKeptByRequests DEF Transfer, LetGo, IInv
<1>4. QED
  BY <1>1, <1>2, <1>3, ReleaseClears DEF Transfer, LetGo, IInv

\* An agent added to an ended conversation is covered by the handler that adds
\* it: it goes on to reopen the conversation.
LEMMA InsertKeeps ==
    ASSUME IInv, NEW r \in Requests, Insert(r)
    PROVE  IInv'
<1> DEFINE c == proc[r].conv
           step == IF proc[r].call = "accept" THEN "own" ELSE "save"
           h == Moved(r, step)
<1>1. /\ r \in Procs /\ Fit(proc[r]) /\ c \in Convs /\ proc[r] \in Handler
      /\ proc[r].pc = "insert" /\ proc[r].agent \in Agents
  BY AtStep DEF Insert, Aimless, Fit, Bringing
<1>2. Fit(h) /\ Become(r, h)
  BY <1>1, MovedFits, GoToMoves DEF Insert, IInv, Steps, Aimless
<1>3. h.conv = c /\ h.pc \in Covering
  BY <1>1 DEF Moved, Handler, Covering
<1>4. /\ held' \in [Convs -> [Agents -> Nat]]
      /\ \A b \in Convs : b # c => held'[b] = held[b]
  BY <1>1 DEF Insert, IInv, TablesOK
<1>5. TablesOK' /\ OwnerMatchesStatus'
  BY <1>4 DEF Insert, IInv, TablesOK, OwnerMatchesStatus
<1>6. HandlersFit'
  BY <1>1, <1>2, BecomeFits DEF IInv
<1>7. \A b \in Convs, a \in Agents :
          (convs[b].status = "ended" /\ held[b][a] > 0)' =>
             \/ h.conv = b /\ h.pc \in Covering
             \/ /\ convs[b].status = "ended" /\ held[b][a] > 0
                /\ ~(proc[r].conv = b /\ proc[r].pc \in Covering)
  BY <1>3, <1>4 DEF Insert
<1>8. LeftoversCovered'
  BY <1>1, <1>2, <1>7, CoverKept DEF IInv
<1>9. AnswersKept'
  BY <1>2, AnswersKeptByRequests DEF Insert, IInv
<1>10. QED
  BY <1>5, <1>6, <1>8, <1>9 DEF IInv

\* accept's update and assign's save put the agent's id beside 'agent'.
LEMMA OwnKeeps ==
    ASSUME IInv, NEW r \in Requests, Own(r) \/ Save(r)
    PROVE  IInv'
<1> DEFINE c == proc[r].conv
<1>1. /\ r \in Procs /\ Fit(proc[r]) /\ c \in Convs /\ proc[r] \in Handler
      /\ proc[r].agent \in Agents
  BY AtStep DEF Own, Save, At, Aimless, Fit, Bringing
<1>2. convs[c] \in Conv /\ proc[r].snap \in Conv /\ proc[r].agent # Nobody
  BY <1>1, ConversationAssumption DEF IInv, TablesOK, Handler
<1>3. \E row \in Conv : Right(row) /\ Update(c, row) /\ row.status = "agent"
  <2>1. CASE Own(r)
    <3> DEFINE row == [convs[c] EXCEPT !.status = "agent",
                                       !.agent = proc[r].agent]
    <3>1. row \in Conv /\ Right(row) /\ row.status = "agent"
      BY <1>1, <1>2 DEF Conv, Right, Open
    <3>2. Update(c, row)
      BY <2>1 DEF Own
    <3>3. QED
      BY <3>1, <3>2
  <2>2. CASE Save(r)
    <3> DEFINE row == [proc[r].snap EXCEPT !.status = "agent",
                                           !.agent = proc[r].agent]
    <3>1. row \in Conv /\ Right(row) /\ row.status = "agent"
      BY <1>1, <1>2 DEF Conv, Right, Open
    <3>2. Update(c, row)
      BY <2>2 DEF Save
    <3>3. QED
      BY <3>1, <3>2
  <2>3. QED
    BY <2>1, <2>2
<1>4. Become(r, Idle)
  BY DEF Own, Save, Done
<1>5. /\ last' \in [Convs -> {"fresh", "quiet", "stale"}]
      /\ promised' \subseteq Convs /\ UNCHANGED <<answered, held, calls>>
  BY DEF Own, Save, IInv, TablesOK
<1>6. QED
  BY <1>1, <1>3, <1>4, <1>5, IdleFits, RowStep

\* handBack's update clears the agent with the status.
LEMMA ReturnKeeps ==
    ASSUME IInv, NEW r \in Requests, Return(r)
    PROVE  IInv'
<1> DEFINE c == proc[r].conv
<1>1. r \in Procs /\ Fit(proc[r]) /\ c \in Convs /\ proc[r].pc = "return"
  BY AtStep DEF Return, Aimless
<1>2. convs[c] \in Conv
  BY <1>1 DEF IInv, TablesOK
<1>3. /\ BackToBot(convs[c]) \in Conv /\ Right(BackToBot(convs[c]))
      /\ BackToBot(convs[c]).status # "ended"
  BY <1>2 DEF BackToBot, Conv, Right, Open
<1>4. Fit(Moved(r, "tell")) /\ Become(r, Moved(r, "tell"))
  BY <1>1, MovedFits, GoToMoves DEF Return, IInv, Steps, Aimless, Bringing
<1>5. /\ last' \in [Convs -> {"fresh", "quiet", "stale"}]
      /\ promised' \subseteq Convs /\ UNCHANGED <<answered, held, calls>>
  BY DEF Return, IInv, TablesOK
<1>6. proc[r].pc \notin Covering /\ Update(c, BackToBot(convs[c]))
  BY <1>1 DEF Return, Covering
<1>7. QED
  BY <1>1, <1>3, <1>4, <1>5, <1>6, RowStep

\* handBack's notice and the agent's reply.
LEMMA WordsKeep ==
    ASSUME IInv, NEW r \in Requests, Tell(r) \/ SendReply(r)
    PROVE  IInv'
<1>1. /\ r \in Procs /\ Fit(proc[r]) /\ proc[r].conv \in Convs
      /\ proc[r].pc \in {"tell", "send"}
  BY AtStep DEF Tell, SendReply, Aimless
<1>2. TablesOK' /\ UNCHANGED <<convs, held, answered>>
  BY <1>1 DEF Tell, SendReply, Speak, IInv, TablesOK
<1>3. Become(r, Idle) /\ proc[r].pc \notin Covering
  BY <1>1 DEF Tell, SendReply, Done, Covering
<1>4. QED
  BY <1>2, <1>3, IdleFits, MildStep

\* Every step of a request under way.
LEMMA ProceedKeeps ==
    ASSUME IInv, NEW r \in Requests, Proceed(r)
    PROVE  IInv'
BY CreateKeeps, TurnKeeps, ClearLatchKeeps, ShiftKeeps, HandoffKeeps, EndKeeps,
   LetGoKeeps, InsertKeeps, OwnKeeps, ReturnKeeps, WordsKeep DEF Proceed

(***************************************************************************)
(* The sweeper, and time.                                                   *)
(***************************************************************************)
\* The sweeper is a handler like the others.
LEMMA AtSweeper ==
    ASSUME IInv
    PROVE  /\ Sweeper \in Procs /\ Fit(proc[Sweeper])
           /\ proc[Sweeper] \in Handler
BY DEF IInv, HandlersFit, Procs

\* The sweeper turns to a record that has not forgotten an answer.
LEMMA SweeperHeard ==
    ASSUME IInv, NEW h, Become(Sweeper, h),
           \A c \in h.heard \cap h.todo : answered'[c],
           h.pc = "bye" => h.conv \notin h.heard
    PROVE  AnswersKept'
<1>1. proc'[Sweeper] = h
  BY AtSweeper DEF Become, IInv, HandlersFit
<1>2. QED
  BY <1>1 DEF AnswersKept, AnswerIsHeard, At

\* A step of the sweeper that writes nothing but a message.
LEMMA QuietSweepStep ==
    ASSUME IInv, NEW h, Fit(h), Become(Sweeper, h),
           proc[Sweeper].pc \notin Covering,
           \A c \in h.heard \cap h.todo : answered[c],
           h.pc = "bye" => h.conv \notin h.heard,
           last' \in [Convs -> {"fresh", "quiet", "stale"}],
           UNCHANGED <<convs, answered, held, calls, promised>>
    PROVE  IInv'
<1>1. TablesOK' /\ OwnerMatchesStatus'
  BY DEF IInv, TablesOK, OwnerMatchesStatus
<1>2. HandlersFit'
  BY AtSweeper, BecomeFits DEF IInv
<1>3. LeftoversCovered'
  BY AtSweeper, CoverKept DEF IInv
<1>4. AnswersKept'
  BY SweeperHeard
<1>5. QED
  BY <1>1, <1>2, <1>3, <1>4 DEF IInv

\* A step of the sweeper that sets or clears a latch.
LEMMA LatchStep ==
    ASSUME IInv, NEW h, Fit(h), Become(Sweeper, h),
           proc[Sweeper].pc \notin Covering, NEW c \in Convs,
           NEW v \in {"off", "asked", "due"},
           convs' = [convs EXCEPT ![c].latch = v],
           answered' \in [Convs -> BOOLEAN],
           \A b \in h.heard \cap h.todo : answered'[b],
           h.pc = "bye" => h.conv \notin h.heard,
           UNCHANGED <<last, held, calls, promised>>
    PROVE  IInv'
<1> DEFINE row == [convs[c] EXCEPT !.latch = v]
<1>1. row \in Conv /\ Right(row) /\ Update(c, row)
      /\ row.status = convs[c].status
  BY ColumnUpdates DEF IInv
<1>2. convs' \in [Convs -> Conv] /\ OwnerMatchesStatus'
  BY <1>1, RowKept DEF IInv
<1>3. TablesOK'
  BY <1>2 DEF IInv, TablesOK
<1>4. HandlersFit'
  BY AtSweeper, BecomeFits DEF IInv
<1>5. \A b \in Convs : convs'[b].status = convs[b].status
  BY <1>1 DEF Update, IInv, TablesOK
<1>6. LeftoversCovered'
  BY <1>5, AtSweeper, CoverKept DEF IInv
<1>7. AnswersKept'
  BY SweeperHeard
<1>8. QED
  BY <1>2, <1>3, <1>4, <1>6, <1>7 DEF IInv

\* The next row of the list.
LEMMA OnwardFits ==
    ASSUME IInv, Onward(Sweeper)
    PROVE  \E h : /\ Fit(h) /\ Become(Sweeper, h) /\ h.pc # "bye"
                  /\ h.heard = proc[Sweeper].heard
                  /\ h.todo = proc[Sweeper].todo
<1> DEFINE h == [proc[Sweeper] EXCEPT
                   !.pc = IF proc[Sweeper].more THEN "check" ELSE "look",
                   !.conv = 0]
<1>1. proc[Sweeper] \in Handler /\ Fit(proc[Sweeper])
  BY AtSweeper
<1>2. Fit(h)
  BY <1>1, ZenonT(60) DEF Fit, Handler, Steps, Aimless, Bringing
<1>3. h.pc # "bye" /\ h.heard = proc[Sweeper].heard
      /\ h.todo = proc[Sweeper].todo
  BY <1>1 DEF Handler
<1>4. QED
  BY <1>2, <1>3 DEF Onward

\* The sweeper selects its rows, and finishes.
LEMMA SelectKeeps ==
    ASSUME IInv, BeginSweep \/ SelectUnasked \/ BeginAsk \/ EndSweep
    PROVE  IInv'
<1>1. /\ proc[Sweeper] \in Handler /\ Fit(proc[Sweeper])
      /\ proc[Sweeper].pc \notin Covering
  BY AtSweeper DEF BeginSweep, SelectUnasked, BeginAsk, EndSweep, At, Covering
<1>2. /\ last' \in [Convs -> {"fresh", "quiet", "stale"}]
      /\ UNCHANGED <<convs, answered, held, calls, promised>>
  BY DEF BeginSweep, SelectUnasked, BeginAsk, EndSweep, IInv, TablesOK
<1>3. CASE BeginSweep
  <2>1. PICK due \in Take(Due, Batch) :
           Become(Sweeper, [Idle EXCEPT !.pc = "check", !.todo = due,
                              !.more = TRUE,
                              !.heard = {c \in due : answered[c]}])
    BY <1>3 DEF BeginSweep
  <2> DEFINE heard == {c \in due : answered[c]}
             h == [Idle EXCEPT !.pc = "check", !.todo = due, !.more = TRUE,
                               !.heard = heard]
  <2>2. due \subseteq Convs /\ heard \subseteq Convs
    BY DEF Take, Due
  <2>3. Fit(h)
    BY <2>2, IdleFits DEF Fit, Handler, Idle, Steps, Aimless, Bringing
  <2>4. h.heard = heard /\ h.pc = "check"
    BY DEF Idle
  <2>5. Become(Sweeper, h)
    BY <2>1
  <2>6. QED
    BY <1>1, <1>2, <2>3, <2>4, <2>5, QuietSweepStep
<1>4. CASE SelectUnasked
  <2>1. PICK unasked \in Take(Unasked, Batch * 4) :
           Become(Sweeper, [Idle EXCEPT !.pc = "look", !.todo = unasked])
    BY <1>4 DEF SelectUnasked
  <2> DEFINE h == [Idle EXCEPT !.pc = "look", !.todo = unasked]
  <2>2. unasked \subseteq Convs
    BY DEF Take, Unasked
  <2>3. Fit(h)
    BY <2>2, IdleFits DEF Fit, Handler, Idle, Steps, Aimless, Bringing
  <2>4. h.heard = {} /\ h.pc = "look"
    BY DEF Idle
  <2>5. Become(Sweeper, h)
    BY <2>1
  <2>6. QED
    BY <1>1, <1>2, <2>3, <2>4, <2>5, QuietSweepStep
<1>5. CASE BeginAsk
  <2> DEFINE h == Moved(Sweeper, "ask")
  <2>1. Fit(h) /\ h.pc = "ask" /\ h.heard = proc[Sweeper].heard
        /\ h.todo = proc[Sweeper].todo
    BY <1>1 DEF Moved, Fit, Handler, Steps, Aimless, Bringing
  <2>2. Become(Sweeper, h)
    BY <1>5, AtSweeper, GoToMoves DEF BeginAsk
  <2>3. \A c \in h.heard \cap h.todo : answered[c]
    BY <2>1 DEF IInv, AnswersKept
  <2>4. QED
    BY <1>1, <1>2, <2>1, <2>2, <2>3, QuietSweepStep
<1>6. CASE EndSweep
  <2>1. Idle.heard = {} /\ Idle.pc = "idle"
    BY DEF Idle
  <2>2. QED
    BY <1>1, <1>2, <1>6, <2>1, IdleFits, QuietSweepStep DEF EndSweep, Done
<1>7. QED
  BY <1>3, <1>4, <1>5, <1>6

\* Check says goodbye only to a thread it did not hear an answer on.
LEMMA CheckKeeps ==
    ASSUME IInv, Check
    PROVE  IInv'
<1>1. PICK c \in proc[Sweeper].todo :
        /\ At(Sweeper, "check")
        /\ Become(Sweeper, [proc[Sweeper] EXCEPT !.conv = c, !.todo = @ \ {c},
                      !.pc = IF Answered(c) THEN "unlatch" ELSE "bye"])
  BY DEF Check
<1> DEFINE h == [proc[Sweeper] EXCEPT !.conv = c, !.todo = @ \ {c},
                      !.pc = IF Answered(c) THEN "unlatch" ELSE "bye"]
<1>2. proc[Sweeper] \in Handler /\ Fit(proc[Sweeper]) /\ c \in Convs
  BY <1>1, AtSweeper DEF Handler
<1>3. Fit(h)
  BY <1>2, ZenonT(60) DEF Fit, Handler, Steps, Aimless, Bringing
<1>4. /\ h.heard = proc[Sweeper].heard /\ h.conv = c
      /\ h.todo = proc[Sweeper].todo \ {c}
      /\ h.pc = "bye" => ~answered[c]
  BY <1>2 DEF Handler, Answered
<1>5. \A b \in proc[Sweeper].heard \cap proc[Sweeper].todo : answered[b]
  BY DEF IInv, AnswersKept
<1>6. /\ \A b \in h.heard \cap h.todo : answered[b]
      /\ h.pc = "bye" => h.conv \notin h.heard
  BY <1>1, <1>4, <1>5
<1>7. /\ last' \in [Convs -> {"fresh", "quiet", "stale"}]
      /\ UNCHANGED <<convs, answered, held, calls, promised>>
  BY DEF Check, IInv, TablesOK
<1>8. proc[Sweeper].pc \notin Covering /\ Become(Sweeper, h)
  BY <1>1 DEF At, Covering
<1>9. QED
  BY <1>3, <1>6, <1>7, <1>8, QuietSweepStep

\* The sweeper looks at a thread it may prompt or close.
LEMMA LookKeeps ==
    ASSUME IInv, Look
    PROVE  IInv'
<1>1. PICK c \in proc[Sweeper].todo :
        /\ At(Sweeper, "look")
        /\ Become(Sweeper,
             IF last[c] = "fresh"
             THEN [proc[Sweeper] EXCEPT !.todo = @ \ {c}]
             ELSE [proc[Sweeper] EXCEPT !.conv = c, !.todo = @ \ {c},
                     !.pc = IF last[c] = "quiet" THEN "prompt" ELSE "close"])
  BY DEF Look
<1>2. /\ proc[Sweeper] \in Handler /\ Fit(proc[Sweeper]) /\ c \in Convs
      /\ proc[Sweeper].pc = "look" /\ proc[Sweeper].heard = {}
  BY <1>1, AtSweeper DEF Handler, Fit, At
<1>3. PICK h : Fit(h) /\ Become(Sweeper, h) /\ h.heard = {} /\ h.pc # "bye"
  <2>1. CASE last[c] = "fresh"
    <3> DEFINE h == [proc[Sweeper] EXCEPT !.todo = @ \ {c}]
    <3>1. Fit(h) /\ h.heard = {} /\ h.pc # "bye"
      BY <1>2 DEF Fit, Handler, Steps, Aimless, Bringing
    <3>2. QED
      BY <1>1, <2>1, <3>1
  <2>2. CASE last[c] # "fresh"
    <3> DEFINE h == [proc[Sweeper] EXCEPT !.conv = c, !.todo = @ \ {c},
                       !.pc = IF last[c] = "quiet" THEN "prompt" ELSE "close"]
    <3>1. Fit(h) /\ h.heard = {} /\ h.pc # "bye"
      BY <1>2, ZenonT(60) DEF Fit, Handler, Steps, Aimless, Bringing
    <3>2. QED
      BY <1>1, <2>2, <3>1
  <2>3. QED
    BY <2>1, <2>2
<1>4. /\ last' \in [Convs -> {"fresh", "quiet", "stale"}]
      /\ UNCHANGED <<convs, answered, held, calls, promised>>
  BY DEF Look, IInv, TablesOK
<1>5. proc[Sweeper].pc \notin Covering
  BY <1>2 DEF Covering
<1>6. QED
  BY <1>3, <1>4, <1>5, QuietSweepStep

\* The sweeper says something.
LEMMA SayKeeps ==
    ASSUME IInv, Bye \/ Prompt
    PROVE  IInv'
<1> DEFINE p == proc[Sweeper]
<1>1. /\ Sweeper \in Procs /\ p \in Handler /\ Fit(p)
      /\ p.pc \in {"bye", "prompt"}
  BY AtSweeper DEF Bye, Prompt, At
<1>2. p.conv \in Convs /\ p.pc \notin Covering
  BY <1>1 DEF Fit, Aimless, Covering
<1>3. PICK step \in {"close", "setlatch"} :
         GoTo(Sweeper, step) /\ (step = "setlatch" => ~p.more)
  <2>1. CASE Bye
    BY <2>1 DEF Bye
  <2>2. CASE Prompt
    BY <1>1, <2>2 DEF Prompt, At, Fit
  <2>3. QED
    BY <2>1, <2>2
<1> DEFINE h == Moved(Sweeper, step)
<1>4. Fit(h)
  BY <1>1, <1>3, MovedFits DEF IInv, Steps, Aimless, Bringing
<1>5. Become(Sweeper, h)
  BY <1>1, <1>3, GoToMoves
<1>6. h.heard = p.heard /\ h.todo = p.todo /\ h.pc # "bye"
  BY <1>1, <1>3 DEF Moved, Handler
<1>7. \A c \in h.heard \cap h.todo : answered[c]
  BY <1>6 DEF IInv, AnswersKept
<1>8. /\ last' \in [Convs -> {"fresh", "quiet", "stale"}]
      /\ UNCHANGED <<convs, answered, held, calls, promised>>
  BY <1>2 DEF Bye, Prompt, Speak, IInv, TablesOK
<1>9. QED
  BY <1>2, <1>4, <1>5, <1>6, <1>7, <1>8, QuietSweepStep

\* The sweeper sets or clears a latch: it sets one only after the threads it
\* heard are dealt with.
LEMMA LatchKeeps ==
    ASSUME IInv, Unlatch \/ SetLatch
    PROVE  IInv'
<1> DEFINE p == proc[Sweeper]
           c == p.conv
<1>1. /\ p \in Handler /\ Fit(p) /\ p.pc \in {"unlatch", "setlatch"}
  BY AtSweeper DEF Unlatch, SetLatch, At
<1>2. c \in Convs /\ p.pc \notin Covering
  BY <1>1 DEF Fit, Aimless, Covering
<1>3. CASE Unlatch
  <2>1. PICK h : /\ Fit(h) /\ Become(Sweeper, h) /\ h.pc # "bye"
                 /\ h.heard = p.heard /\ h.todo = p.todo
    BY <1>3, OnwardFits DEF Unlatch
  <2>2. /\ answered' \in [Convs -> BOOLEAN]
        /\ \A b \in h.heard \cap h.todo : answered'[b]
    BY <1>3, <2>1 DEF Unlatch, IInv, TablesOK, AnswersKept
  <2>3. /\ convs' = [convs EXCEPT ![c].latch = "off"]
        /\ UNCHANGED <<last, held, calls, promised>>
    BY <1>3 DEF Unlatch
  <2>4. QED
    BY <1>2, <2>1, <2>2, <2>3, LatchStep
<1>4. CASE SetLatch
  <2> DEFINE h == [p EXCEPT !.pc = "look", !.conv = 0, !.count = @ + 1]
  <2>1. p.heard = {} /\ ~p.more
    BY <1>1, <1>4 DEF SetLatch, At, Fit
  <2>2. Fit(h)
    <3>1. \A n \in Nat :
            Fit([p EXCEPT !.pc = "look", !.conv = 0, !.count = n])
      BY <1>1, <2>1 DEF Fit, Handler, Steps, Aimless, Bringing
    <3>2. p.count + 1 \in Nat
      BY <1>1 DEF Handler
    <3>3. QED
      BY <3>1, <3>2
  <2>3. h.heard = {} /\ h.pc = "look"
    BY <1>1, <2>1 DEF Handler
  <2>4. Become(Sweeper, h)
    BY <1>4 DEF SetLatch
  <2>5. /\ answered' \in [Convs -> BOOLEAN]
        /\ convs' = [convs EXCEPT ![c].latch = "asked"]
        /\ UNCHANGED <<last, held, calls, promised>>
    BY <1>4 DEF SetLatch, IInv, TablesOK
  <2>6. QED
    BY <1>2, <2>2, <2>3, <2>4, <2>5, LatchStep
<1>5. QED
  BY <1>3, <1>4

\* The sweeper's own end of a conversation.
LEMMA SweeperEndKeeps ==
    ASSUME IInv, Close(Sweeper) \/ Release(Sweeper)
    PROVE  IInv'
<1> DEFINE p == proc[Sweeper]
<1>1. /\ Sweeper \in Procs /\ p \in Handler /\ Fit(p)
      /\ p.pc \in {"close", "release"}
  BY AtSweeper DEF Close, Release, At
<1>2. p.conv \in Convs
  BY <1>1 DEF Fit, Aimless
<1>3. \A c \in p.heard \cap p.todo : answered[c]
  BY DEF IInv, AnswersKept
<1>4. CASE Close(Sweeper)
  <2> DEFINE h == Moved(Sweeper, "release")
  <2>1. p.pc = "close" /\ Become(Sweeper, h)
    BY <1>1, <1>4, GoToMoves DEF Close, At
  <2>2. h.heard = p.heard /\ h.todo = p.todo /\ h.pc = "release"
    BY <1>1 DEF Moved, Handler
  <2>3. AnswersKept'
    BY <1>3, <1>4, <2>1, <2>2, SweeperHeard DEF Close
  <2>4. QED
    BY <1>1, <1>2, <1>4, <2>1, <2>3, CloseCovers DEF IInv
<1>5. CASE Release(Sweeper)
  <2>1. PICK h : /\ Fit(h) /\ Become(Sweeper, h) /\ h.pc # "bye"
                 /\ h.heard = p.heard /\ h.todo = p.todo
    BY <1>5, OnwardFits DEF Release
  <2>2. AnswersKept'
    BY <1>3, <1>5, <2>1, SweeperHeard DEF Release
  <2>3. QED
    BY <1>1, <1>2, <1>5, <2>1, <2>2, ReleaseClears DEF Release, IInv
<1>6. QED
  BY <1>4, <1>5

\* Every step of the sweeper.
LEMMA SweepKeeps ==
    ASSUME IInv, Sweep
    PROVE  IInv'
BY SelectKeeps, CheckKeeps, LookKeeps, SayKeeps, LatchKeeps, SweeperEndKeeps
   DEF Sweep

\* Time alone ends nothing and answers nothing.
LEMMA TimeKeeps ==
    ASSUME IInv, NEW c \in Convs, GraceEnds(c) \/ GrowsQuiet(c)
    PROVE  IInv'
<1>1. convs' \in [Convs -> Conv] /\ OwnerMatchesStatus'
      /\ \A b \in Convs : convs'[b].status = convs[b].status
  <2>1. CASE GraceEnds(c)
    <3> DEFINE row == [convs[c] EXCEPT !.latch = "due"]
    <3>1. row \in Conv /\ Right(row) /\ Update(c, row)
          /\ row.status = convs[c].status
      BY <2>1, ColumnUpdates DEF GraceEnds, IInv
    <3>2. QED
      BY <3>1, RowKept DEF Update, IInv, TablesOK
  <2>2. CASE GrowsQuiet(c)
    BY <2>2 DEF GrowsQuiet, IInv, TablesOK, OwnerMatchesStatus
  <2>3. QED
    BY <2>1, <2>2
<1>2. UNCHANGED <<answered, held, proc, calls, promised>>
  BY DEF GraceEnds, GrowsQuiet
<1>3. last' \in [Convs -> {"fresh", "quiet", "stale"}]
  BY DEF GraceEnds, GrowsQuiet, IInv, TablesOK
<1>4. TablesOK' /\ HandlersFit'
  BY <1>1, <1>2, <1>3 DEF IInv, TablesOK, HandlersFit
<1>5. LeftoversCovered'
  BY <1>1, <1>2 DEF IInv, LeftoversCovered, Covered
<1>6. AnswersKept'
  BY <1>2 DEF IInv, AnswersKept, AnswerIsHeard, At
<1>7. QED
  BY <1>1, <1>4, <1>5, <1>6 DEF IInv

(***************************************************************************)
(* The theorems.                                                            *)
(***************************************************************************)
\* The empty tables satisfy the invariant.
LEMMA InitEstablishes ==
    Init => IInv
<1> SUFFICES ASSUME Init PROVE IInv
  OBVIOUS
<1>1. TablesOK
  BY DEF Init, TablesOK, NoConv, Conv, Open
<1>2. HandlersFit
  BY IdleFits DEF Init, HandlersFit, Fit
<1>3. OwnerMatchesStatus
  BY DEF Init, OwnerMatchesStatus, NoConv
<1>4. LeftoversCovered
  BY DEF Init, LeftoversCovered
<1>5. AnswersKept
  BY DEF Init, AnswersKept, AnswerIsHeard, Idle, At, Procs
<1>6. QED
  BY <1>1, <1>2, <1>3, <1>4, <1>5 DEF IInv

\* Every step keeps the invariant.
LEMMA NextKeeps ==
    IInv /\ [Next]_vars => IInv'
<1> SUFFICES ASSUME IInv, [Next]_vars PROVE IInv'
  OBVIOUS
<1>1. CASE UNCHANGED vars
  BY <1>1 DEF vars, IInv, TablesOK, HandlersFit, OwnerMatchesStatus,
     LeftoversCovered, Covered, AnswersKept, AnswerIsHeard, At
<1>2. CASE Next
  BY <1>2, ArriveKeeps, ProceedKeeps, SweepKeeps, TimeKeeps DEF Next
<1>3. QED
  BY <1>1, <1>2

\* However requests, sweeps and time interleave, the strengthened invariant
\* holds: every handler of chat.service, agent.service and the sweeper keeps it.
THEOREM Inductive == Spec => []IInv
BY InitEstablishes, NextKeeps, PTL DEF Spec

\* Every column of conversations and assignments, and every handler's record,
\* keeps its type.
THEOREM TypeCorrect == Spec => []TypeOK
<1>1. IInv => TypeOK
  BY DEF IInv, TablesOK, HandlersFit, TypeOK
<1>2. QED
  BY <1>1, Inductive, PTL

\* However requests and sweeps overlap, the bot's thread has no agent on it and
\* an agent's thread has one (handBack, accept, assignConversation).
THEOREM OwnerIsRight == Spec => []OwnerMatchesStatus
<1>1. IInv => OwnerMatchesStatus
  BY DEF IInv
<1>2. QED
  BY <1>1, Inductive, PTL

\* However ends, accepts, transfers and handbacks overlap, an ended thread that
\* nobody is working on holds no agent's capacity (endBySession, end,
\* closeDue).
THEOREM EndReleases == Spec => []EndedIsReleased
<1>1. IInv => EndedIsReleased
  <2> SUFFICES ASSUME IInv, NEW c \in Convs, convs[c].status = "ended",
                      \A p \in Procs : ~AtWork(p, c), NEW a \in Agents
               PROVE  held[c][a] = 0
    BY DEF EndedIsReleased
  <2>1. ~Covered(c)
    BY DEF Covered, Covering, AtWork, At
  <2>2. ~(held[c][a] > 0) /\ held[c][a] \in Nat
    BY <2>1 DEF IInv, LeftoversCovered, TablesOK
  <2>3. QED
    BY <2>2
<1>2. QED
  BY <1>1, Inductive, PTL

\* The sweeper never says goodbye on a thread that had been answered when it
\* selected it (closeDue's re-check).
THEOREM SweepHears == Spec => []AnswerIsHeard
<1>1. IInv => AnswerIsHeard
  BY DEF IInv, AnswersKept
<1>2. QED
  BY <1>1, Inductive, PTL
=============================================================================
