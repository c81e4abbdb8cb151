------------------------ MODULE MessengerIngestProofs ------------------------
(***************************************************************************)
(* What MessengerIngest keeps for every number of messages, handlers and    *)
(* situations.                                                              *)
(*                                                                          *)
(* Fit says what a handler's record may look like at each of its steps,     *)
(* given how many sessions, conversations and messages there are; these     *)
(* only grow, so a handler that stands still stays fit.                     *)
(***************************************************************************)
EXTENDS MessengerIngest, TLAPS

(***************************************************************************)
(* Types.                                                                   *)
(***************************************************************************)
Pulling == {"idle", "fetch", "read", "commit", "handover"}
Early == Pulling \cup {"lookup", "create", "session"}
Unresolved == Early \cup {"bind", "converse", "open"}

Fit(p, S, C, R) ==
    /\ p \in Handler
    /\ p.pc \notin Pulling => p.batch # <<>>
    /\ p.copy.session <= S
    /\ p.pc \notin Early => p.copy.session # 0
    /\ p.pc \notin Unresolved => p.conv \in 1..C
    /\ p.pc = "think" => p.turn \in 1..C
    /\ p.since <= R

TablesOK ==
    /\ setup \in Setups
    /\ version \in Nat
    /\ written \in MsgOrNone
    /\ mark \in MsgOrNone /\ flagged \subseteq Msgs /\ skipped \subseteq Msgs
    /\ thread \in Thread
    /\ thread.session <= Len(sessions)
    /\ sessions \in Seq(Session)
    /\ convs \in Seq(Conv)
    /\ rows \in Seq(Row)
    /\ mapped \in [Msgs -> Nat]
    /\ drafts \subseteq [conv : Nat, msg : Msgs]
    /\ disturbed \in Nat
    /\ paged \in Seq(Nat) /\ Len(paged) = Len(convs)

ObserversOK ==
    /\ hurt \subseteq Msgs /\ twinned \subseteq Msgs /\ stray \subseteq Msgs
    /\ refused \subseteq Msgs
    /\ returned \subseteq Nat
    /\ overlapped \in BOOLEAN

HandlersFit ==
    /\ proc \in [Handlers -> Handler]
    /\ \A h \in Handlers : Fit(proc[h], Len(sessions), Len(convs), Len(rows))

Typed == TablesOK /\ ObserversOK /\ HandlersFit

LEMMA TypedImpliesTypeOK == Typed => TypeOK
  BY DEF Typed, TablesOK, ObserversOK, HandlersFit, TypeOK, marks

LEMMA SetupFacts ==
    ASSUME TablesOK
    PROVE  /\ MaxMsgs \in Nat
           /\ setup.mode \in Modes /\ setup.notice \in BOOLEAN
           /\ setup.limit \in MsgOrNone
           /\ setup.handlers \subseteq Handlers
  BY IngestAssumption DEF TablesOK, Setup, MsgOrNone, marks

\* The batch of a handler that is ingesting has a first message.
LEMMA HeadIsMsg ==
    ASSUME HandlersFit, NEW h \in Handlers, Ingesting(h)
    PROVE  Msg(h) \in Msgs /\ Rest(h) \in Seq(Msgs)
  BY DEF HandlersFit, Fit, Handler, Ingesting, Pulling, Msg, Rest

LEMMA IdleIsHandler == IngestAssumption => Idle \in Handler
  BY DEF IngestAssumption, Idle, Handler, Steps, NoThread, Thread, MsgOrNone, Modes

LEMMA FitGrows ==
    ASSUME NEW p, NEW S \in Nat, NEW C \in Nat, NEW R \in Nat,
           NEW S2 \in Nat, NEW C2 \in Nat, NEW R2 \in Nat,
           S <= S2, C <= C2, R <= R2, Fit(p, S, C, R)
    PROVE  Fit(p, S2, C2, R2)
PROOF
  <1>1. p.copy.session \in Nat /\ p.since \in Nat /\ p.conv \in Nat /\ p.turn \in Nat
    BY DEF Fit, Handler, Thread
  <1>. QED  BY <1>1 DEF Fit

\* Tables that only grow, and one handler that becomes another fit record.
LEMMA FitStep ==
    ASSUME HandlersFit, NEW h \in Handlers, NEW r,
           proc' = [proc EXCEPT ![h] = r],
           Len(sessions) \in Nat, Len(convs) \in Nat, Len(rows) \in Nat,
           Len(sessions') \in Nat, Len(convs') \in Nat, Len(rows') \in Nat,
           Len(sessions) <= Len(sessions'), Len(convs) <= Len(convs'), Len(rows) <= Len(rows'),
           Fit(r, Len(sessions'), Len(convs'), Len(rows'))
    PROVE  HandlersFit'
PROOF
  <1>1. proc' \in [Handlers -> Handler]
    BY DEF HandlersFit, Fit
  <1>2. ASSUME NEW g \in Handlers
        PROVE  Fit(proc'[g], Len(sessions'), Len(convs'), Len(rows'))
    <2>1. CASE g = h
      BY <2>1 DEF HandlersFit
    <2>2. CASE g # h
      <3>1. proc'[g] = proc[g]
        BY <2>2 DEF HandlersFit
      <3>2. Fit(proc[g], Len(sessions), Len(convs), Len(rows))
        BY DEF HandlersFit
      <3>. QED  BY <3>1, <3>2, FitGrows
    <2>. QED  BY <2>1, <2>2
  <1>. QED  BY <1>1, <1>2 DEF HandlersFit

\* The same for a step that only moves the handler on.
LEMMA GotoFits ==
    ASSUME HandlersFit, NEW h \in Handlers, NEW pc \in Steps, Goto(h, pc),
           Len(sessions) \in Nat, Len(convs) \in Nat, Len(rows) \in Nat,
           Len(sessions') \in Nat, Len(convs') \in Nat, Len(rows') \in Nat,
           Len(sessions) <= Len(sessions'), Len(convs) <= Len(convs'), Len(rows) <= Len(rows'),
           Ingesting(h), pc # "think",
           pc \notin Early => proc[h].copy.session # 0,
           pc \notin Unresolved => proc[h].conv \in 1..Len(convs')
    PROVE  HandlersFit'
PROOF
  <1> DEFINE r == [proc[h] EXCEPT !.pc = pc]
  <1>1. proc' = [proc EXCEPT ![h] = r]
    BY DEF Goto
  <1>2. Fit(proc[h], Len(sessions'), Len(convs'), Len(rows'))
    BY FitGrows DEF HandlersFit
  <1>3. r \in Handler /\ r.pc = pc /\ r.batch = proc[h].batch /\ r.copy = proc[h].copy
        /\ r.conv = proc[h].conv /\ r.since = proc[h].since
    BY DEF HandlersFit, Fit, Handler
  <1>4. Fit(r, Len(sessions'), Len(convs'), Len(rows'))
    BY <1>2, <1>3 DEF Fit, Ingesting, Pulling
  <1>. QED  BY <1>1, <1>4, FitStep

LEMMA BeginFits ==
    ASSUME ObserversOK, NEW h \in Handlers, NEW b \in Seq(Msgs), Begin(h, b), TablesOK
    PROVE  /\ twinned' \subseteq Msgs /\ overlapped' \in BOOLEAN
           /\ \E r : /\ proc' = [proc EXCEPT ![h] = r]
                     /\ \A S, C, R \in Nat : Fit(r, S, C, R)
PROOF
  <1> DEFINE r == IF b = <<>> THEN Idle ELSE [Idle EXCEPT !.pc = "lookup", !.batch = b]
  <1>1. proc' = [proc EXCEPT ![h] = r]
    BY DEF Begin
  <1>2. r \in Handler /\ r.copy = NoThread /\ r.conv = 0 /\ r.since = 0
        /\ (IF b = <<>> THEN r.pc = "idle" ELSE r.pc = "lookup" /\ r.batch = b)
    <2>1. Idle \in Handler /\ Idle.copy = NoThread /\ Idle.conv = 0 /\ Idle.since = 0
          /\ Idle.pc = "idle"
      BY IngestAssumption, IdleIsHandler DEF Idle
    <2>2. [Idle EXCEPT !.pc = "lookup", !.batch = b] \in Handler
      BY <2>1 DEF Handler, Steps
    <2>. QED  BY <2>1, <2>2 DEF Idle
  <1>3. \A S, C, R \in Nat : Fit(r, S, C, R)
    BY <1>2 DEF Fit, Pulling, Early, Unresolved, NoThread
  <1>4. twinned' \subseteq Msgs
    BY DEF Begin, ObserversOK
  <1>5. overlapped' \in BOOLEAN
    BY DEF Begin, ObserversOK
  <1>. QED  BY <1>1, <1>3, <1>4, <1>5

LEMMA BeginKeepsFit ==
    ASSUME Typed, TablesOK', NEW h \in Handlers, NEW b \in Seq(Msgs), Begin(h, b),
           sessions' = sessions, convs' = convs, rows' = rows
    PROVE  twinned' \subseteq Msgs /\ overlapped' \in BOOLEAN /\ HandlersFit'
PROOF
  <1>1. PICK r : /\ proc' = [proc EXCEPT ![h] = r]
                 /\ \A S, C, R \in Nat : Fit(r, S, C, R)
    BY BeginFits DEF Typed
  <1>2. /\ Len(sessions) \in Nat /\ Len(convs) \in Nat /\ Len(rows) \in Nat
        /\ Len(sessions') \in Nat /\ Len(convs') \in Nat /\ Len(rows') \in Nat
        /\ Len(sessions) <= Len(sessions') /\ Len(convs) <= Len(convs') /\ Len(rows) <= Len(rows')
    BY DEF TablesOK, Typed, marks
  <1>3. HandlersFit'
    BY <1>1, <1>2, FitStep DEF Typed
  <1>. QED  BY <1>3, BeginFits DEF Typed

\* What the handler's own record says, for use in the steps.
LEMMA Own ==
    ASSUME Typed, NEW h \in Handlers
    PROVE  /\ proc[h] \in Handler
           /\ proc[h].copy \in Thread /\ proc[h].copy.session \in 0..Len(sessions)
           /\ proc[h].pc \notin Early => proc[h].copy.session \in 1..Len(sessions)
           /\ proc[h].pc \notin Unresolved => proc[h].conv \in 1..Len(convs)
           /\ proc[h].pc = "think" => proc[h].turn \in 1..Len(convs)
           /\ proc[h].since \in 0..Len(rows)
           /\ proc[h].batch \in Seq(Msgs)
           /\ Len(sessions) \in Nat /\ Len(convs) \in Nat /\ Len(rows) \in Nat
           /\ proc[h].conv \in Nat /\ proc[h].turn \in Nat /\ proc[h].granted \in Nat
           /\ proc[h].listed \in MsgOrNone /\ proc[h].copy.cursor \in MsgOrNone
           /\ proc[h].copy.notice \in Nat
  BY DEF Typed, HandlersFit, Fit, Handler, Thread, TablesOK, marks

\* The session a handler resolved is a row of the table.
LEMMA OwnSession ==
    ASSUME Typed, NEW h \in Handlers, proc[h].pc \notin Early
    PROVE  /\ sessions[proc[h].copy.session] \in Session
           /\ sessions[proc[h].copy.session].version \in Nat
           /\ ResolveMode(proc[h].copy.session) \in Modes
PROOF
  <1>1. sessions[proc[h].copy.session] \in Session
    BY Own DEF Typed, TablesOK, marks
  <1>. QED  BY <1>1, SetupFacts DEF Session, ResolveMode, Typed

LEMMA ThreadEdits ==
    ASSUME NEW t \in Thread, NEW n \in Nat, NEW m \in MsgOrNone
    PROVE  /\ [t EXCEPT !.session = n] \in Thread /\ [t EXCEPT !.session = n].session = n
           /\ [t EXCEPT !.conv = n] \in Thread /\ [t EXCEPT !.conv = n].session = t.session
           /\ [t EXCEPT !.notice = n] \in Thread /\ [t EXCEPT !.notice = n].session = t.session
           /\ [t EXCEPT !.cursor = m] \in Thread /\ [t EXCEPT !.cursor = m].session = t.session
  BY DEF Thread

LEMMA NoThreadOK ==
    ASSUME TablesOK
    PROVE  /\ NoThread \in Thread /\ NoThread.session = 0
           /\ [NoThread EXCEPT !.exists = TRUE] \in Thread
           /\ [NoThread EXCEPT !.exists = TRUE].session = 0
PROOF
  <1>1. 0 \in MsgOrNone
    BY SetupFacts DEF MsgOrNone
  <1>. QED  BY <1>1 DEF NoThread, Thread

LEMMA ThreadStep ==
    ASSUME TablesOK, thread' \in Thread, thread'.session <= Len(sessions),
           UNCHANGED <<world, marks, sessions, convs, rows, mapped, drafts, paged>>
    PROVE  TablesOK'
  BY DEF TablesOK, world, marks

LEMMA RowsStep ==
    ASSUME TablesOK, NEW row \in Row, rows' = Append(rows, row),
           UNCHANGED <<world, marks, thread, sessions, convs, mapped, drafts, paged>>
    PROVE  TablesOK'
PROOF
  <1>1. rows' \in Seq(Row)
    BY DEF TablesOK, marks
  <1>. QED  BY <1>1 DEF TablesOK, world, marks

LEMMA SkipTyped ==
    ASSUME Typed, NEW h \in Handlers, Skip(h)
    PROVE  Typed'
PROOF
  <1>0. Rest(h) \in Seq(Msgs) /\ Msg(h) \in Msgs
    BY HeadIsMsg DEF Typed, Skip, At, Ingesting
  <1>1. TablesOK'
    BY <1>0, Own, SetupFacts DEF Typed, TablesOK, Skip, world, tables, marks
  <1>2. twinned' \subseteq Msgs /\ overlapped' \in BOOLEAN /\ HandlersFit'
    BY <1>0, <1>1, BeginKeepsFit DEF Skip, tables, marks
  <1>3. ObserversOK'
    BY <1>0, <1>2 DEF Typed, ObserversOK, Skip
  <1>. QED  BY <1>1, <1>2, <1>3 DEF Typed

LEMMA SkipCreatedTyped ==
    ASSUME Typed, NEW h \in Handlers, SkipCreated(h)
    PROVE  Typed'
PROOF
  <1>0. Rest(h) \in Seq(Msgs) /\ Msg(h) \in Msgs
    BY HeadIsMsg DEF Typed, SkipCreated, At, Ingesting
  <1>1. TablesOK'
    BY <1>0, Own, SetupFacts DEF Typed, TablesOK, SkipCreated, world, tables, marks
  <1>2. twinned' \subseteq Msgs /\ overlapped' \in BOOLEAN /\ HandlersFit'
    BY <1>0, <1>1, BeginKeepsFit DEF SkipCreated, tables, marks
  <1>3. ObserversOK'
    BY <1>0, <1>2 DEF Typed, ObserversOK, SkipCreated
  <1>. QED  BY <1>1, <1>2, <1>3 DEF Typed

LEMMA CursorTyped ==
    ASSUME Typed, NEW h \in Handlers, Cursor(h)
    PROVE  Typed'
PROOF
  <1>0. Rest(h) \in Seq(Msgs) /\ Msg(h) \in Msgs
    BY HeadIsMsg DEF Typed, Cursor, At, Ingesting
  <1>1. thread' \in Thread /\ thread'.session = thread.session
    <2>1. Msg(h) \in MsgOrNone
      BY <1>0, SetupFacts DEF Typed, Msgs, MsgOrNone
    <2>. QED  BY <2>1, ThreadEdits DEF Typed, TablesOK, Cursor, marks
  <1>2. TablesOK'
    BY <1>1, ThreadStep DEF Typed, TablesOK, Cursor, marks
  <1>3. twinned' \subseteq Msgs /\ overlapped' \in BOOLEAN /\ HandlersFit'
    BY <1>0, <1>2, BeginKeepsFit DEF Cursor
  <1>4. ObserversOK'
    BY <1>3 DEF Typed, ObserversOK, Cursor
  <1>. QED  BY <1>2, <1>3, <1>4 DEF Typed

LEMMA BindTyped ==
    ASSUME Typed, NEW h \in Handlers, Bind(h)
    PROVE  Typed'
PROOF
  <1>0. thread' \in Thread /\ thread'.session <= Len(sessions)
    <2>1. /\ thread \in Thread /\ thread.session <= Len(sessions) /\ proc[h].pc \notin Early
      BY DEF Typed, TablesOK, Bind, At, Early, Pulling, marks
    <2>2. proc[h].copy.session <= Len(sessions) /\ proc[h].conv \in Nat
      BY Own
    <2>3. thread.cursor \in MsgOrNone /\ proc[h].copy.session \in Nat
      BY <2>1, Own DEF Thread
    <2>4. sessions[proc[h].copy.session].version \in Nat
      BY <2>1, OwnSession
    <2>. QED  BY <2>1, <2>2, <2>3, <2>4, ThreadEdits DEF Bind
  <1>1. TablesOK'
    BY <1>0, ThreadStep DEF Typed, Bind, observers, marks
  <1>2. ObserversOK'
    BY HeadIsMsg DEF Typed, ObserversOK, Bind, observers, At, Ingesting, marks
  <1>3. PICK pc \in {"converse"} : Goto(h, pc)
    BY DEF Bind, AfterTurn, AfterStore, NextStep
  <1>4. /\ Len(sessions) \in Nat /\ Len(convs) \in Nat /\ Len(rows) \in Nat
        /\ Len(sessions') \in Nat /\ Len(convs') \in Nat /\ Len(rows') \in Nat
        /\ Len(sessions) <= Len(sessions') /\ Len(convs) <= Len(convs') /\ Len(rows) <= Len(rows')
    BY <1>1, Own DEF Typed, TablesOK, Bind, tables, marks
  <1>5. /\ Ingesting(h) /\ pc \in Steps /\ pc # "think"
        /\ pc \notin Early => proc[h].copy.session # 0
        /\ pc \notin Unresolved => proc[h].conv \in 1..Len(convs')
    <2>1. proc[h].pc \notin Pulling /\ pc \in Steps /\ pc # "think"
      BY <1>3 DEF Bind, At, Pulling, Steps
    <2>2. pc \notin Early => proc[h].copy.session # 0
      BY <1>3, Own DEF Bind, At, Pulling, Early
    <2>3. pc \notin Unresolved => proc[h].conv \in 1..Len(convs)
      BY <1>3, Own DEF Bind, At, Pulling, Early, Unresolved
    <2>. QED  BY <1>4, <2>1, <2>2, <2>3, Own DEF Ingesting, Pulling
  <1>6. HandlersFit'
    BY <1>3, <1>4, <1>5, GotoFits DEF Typed
  <1>. QED  BY <1>1, <1>2, <1>6 DEF Typed

LEMMA NoneFoundTyped ==
    ASSUME Typed, NEW h \in Handlers, NoneFound(h)
    PROVE  Typed'
PROOF
  <1>1. TablesOK'
    BY Own DEF Typed, TablesOK, NoneFound, world, tables, observers, marks
  <1>2. ObserversOK'
    BY HeadIsMsg DEF Typed, ObserversOK, NoneFound, observers, At, Ingesting, marks
  <1>3. PICK pc \in {"open"} : Goto(h, pc)
    BY DEF NoneFound, AfterTurn, AfterStore, NextStep
  <1>4. /\ Len(sessions) \in Nat /\ Len(convs) \in Nat /\ Len(rows) \in Nat
        /\ Len(sessions') \in Nat /\ Len(convs') \in Nat /\ Len(rows') \in Nat
        /\ Len(sessions) <= Len(sessions') /\ Len(convs) <= Len(convs') /\ Len(rows) <= Len(rows')
    BY <1>1, Own DEF Typed, TablesOK, NoneFound, tables, marks
  <1>5. /\ Ingesting(h) /\ pc \in Steps /\ pc # "think"
        /\ pc \notin Early => proc[h].copy.session # 0
        /\ pc \notin Unresolved => proc[h].conv \in 1..Len(convs')
    <2>1. proc[h].pc \notin Pulling /\ pc \in Steps /\ pc # "think"
      BY <1>3 DEF NoneFound, At, Pulling, Steps
    <2>2. pc \notin Early => proc[h].copy.session # 0
      BY <1>3, Own DEF NoneFound, At, Pulling, Early
    <2>3. pc \notin Unresolved => proc[h].conv \in 1..Len(convs)
      BY <1>3, Own DEF NoneFound, At, Pulling, Early, Unresolved
    <2>. QED  BY <1>4, <2>1, <2>2, <2>3, Own DEF Ingesting, Pulling
  <1>6. HandlersFit'
    BY <1>3, <1>4, <1>5, GotoFits DEF Typed
  <1>. QED  BY <1>1, <1>2, <1>6 DEF Typed

LEMMA StampTyped ==
    ASSUME Typed, NEW h \in Handlers, Stamp(h)
    PROVE  Typed'
PROOF
  <1>0. thread' \in Thread /\ thread'.session <= Len(sessions)
    <2>1. /\ thread \in Thread /\ thread.session <= Len(sessions) /\ proc[h].pc \notin Early
      BY DEF Typed, TablesOK, Stamp, At, Early, Pulling, marks
    <2>2. proc[h].copy.session <= Len(sessions) /\ proc[h].conv \in Nat
      BY Own
    <2>3. thread.cursor \in MsgOrNone /\ proc[h].copy.session \in Nat
      BY <2>1, Own DEF Thread
    <2>4. sessions[proc[h].copy.session].version \in Nat
      BY <2>1, OwnSession
    <2>. QED  BY <2>1, <2>2, <2>3, <2>4, ThreadEdits DEF Stamp
  <1>1. TablesOK'
    BY <1>0, ThreadStep DEF Typed, Stamp, observers, marks
  <1>2. ObserversOK'
    BY HeadIsMsg DEF Typed, ObserversOK, Stamp, observers, At, Ingesting, marks
  <1>3. PICK pc \in {"gate"} : Goto(h, pc)
    BY DEF Stamp, AfterTurn, AfterStore, NextStep
  <1>4. /\ Len(sessions) \in Nat /\ Len(convs) \in Nat /\ Len(rows) \in Nat
        /\ Len(sessions') \in Nat /\ Len(convs') \in Nat /\ Len(rows') \in Nat
        /\ Len(sessions) <= Len(sessions') /\ Len(convs) <= Len(convs') /\ Len(rows) <= Len(rows')
    BY <1>1, Own DEF Typed, TablesOK, Stamp, tables, marks
  <1>5. /\ Ingesting(h) /\ pc \in Steps /\ pc # "think"
        /\ pc \notin Early => proc[h].copy.session # 0
        /\ pc \notin Unresolved => proc[h].conv \in 1..Len(convs')
    <2>1. proc[h].pc \notin Pulling /\ pc \in Steps /\ pc # "think"
      BY <1>3 DEF Stamp, At, Pulling, Steps
    <2>2. pc \notin Early => proc[h].copy.session # 0
      BY <1>3, Own DEF Stamp, At, Pulling, Early
    <2>3. pc \notin Unresolved => proc[h].conv \in 1..Len(convs)
      BY <1>3, Own DEF Stamp, At, Pulling, Early, Unresolved
    <2>. QED  BY <1>4, <2>1, <2>2, <2>3, Own DEF Ingesting, Pulling
  <1>6. HandlersFit'
    BY <1>3, <1>4, <1>5, GotoFits DEF Typed
  <1>. QED  BY <1>1, <1>2, <1>6 DEF Typed

LEMMA NoticeTyped ==
    ASSUME Typed, NEW h \in Handlers, Notice(h)
    PROVE  Typed'
PROOF
  <1>0. PICK row \in Row : rows' = Append(rows, row)
    <2>1. proc[h].pc \notin Early /\ proc[h].conv \in Nat /\ proc[h].turn \in Nat
          /\ proc[h].granted \in Nat /\ MaxMsgs \in Nat
      BY Own, SetupFacts DEF Typed, Notice, At, Early, Pulling, Handler
    <2>2. Msg(h) \in MsgOrNone /\ 0 \in MsgOrNone
      BY <2>1, HeadIsMsg DEF Typed, Notice, At, Ingesting, Msgs, MsgOrNone
    <2>. QED  BY <2>1, <2>2, OwnSession DEF Notice, Row, UserRow, AnswerRow
  <1>1. TablesOK'
    BY <1>0, RowsStep DEF Typed, Notice, observers, marks
  <1>2. ObserversOK'
    BY HeadIsMsg DEF Typed, ObserversOK, Notice, observers, At, Ingesting, marks
  <1>3. PICK pc \in {"stamp"} : Goto(h, pc)
    BY DEF Notice, AfterTurn, AfterStore, NextStep
  <1>4. /\ Len(sessions) \in Nat /\ Len(convs) \in Nat /\ Len(rows) \in Nat
        /\ Len(sessions') \in Nat /\ Len(convs') \in Nat /\ Len(rows') \in Nat
        /\ Len(sessions) <= Len(sessions') /\ Len(convs) <= Len(convs') /\ Len(rows) <= Len(rows')
    BY <1>1, Own DEF Typed, TablesOK, Notice, tables, marks
  <1>5. /\ Ingesting(h) /\ pc \in Steps /\ pc # "think"
        /\ pc \notin Early => proc[h].copy.session # 0
        /\ pc \notin Unresolved => proc[h].conv \in 1..Len(convs')
    <2>1. proc[h].pc \notin Pulling /\ pc \in Steps /\ pc # "think"
      BY <1>3 DEF Notice, At, Pulling, Steps
    <2>2. pc \notin Early => proc[h].copy.session # 0
      BY <1>3, Own DEF Notice, At, Pulling, Early
    <2>3. pc \notin Unresolved => proc[h].conv \in 1..Len(convs)
      BY <1>3, Own DEF Notice, At, Pulling, Early, Unresolved
    <2>. QED  BY <1>4, <2>1, <2>2, <2>3, Own DEF Ingesting, Pulling
  <1>6. HandlersFit'
    BY <1>3, <1>4, <1>5, GotoFits DEF Typed
  <1>. QED  BY <1>1, <1>2, <1>6 DEF Typed

LEMMA RefuseTyped ==
    ASSUME Typed, NEW h \in Handlers, Refuse(h)
    PROVE  Typed'
PROOF
  <1>1. TablesOK'
    BY Own DEF Typed, TablesOK, Refuse, world, tables, observers, marks
  <1>2. ObserversOK'
    BY HeadIsMsg DEF Typed, ObserversOK, Refuse, observers, At, Ingesting, marks
  <1>3. PICK pc \in {"map", "page"} : Goto(h, pc)
    BY DEF Refuse, AfterTurn, AfterStore, NextStep
  <1>4. /\ Len(sessions) \in Nat /\ Len(convs) \in Nat /\ Len(rows) \in Nat
        /\ Len(sessions') \in Nat /\ Len(convs') \in Nat /\ Len(rows') \in Nat
        /\ Len(sessions) <= Len(sessions') /\ Len(convs) <= Len(convs') /\ Len(rows) <= Len(rows')
    BY <1>1, Own DEF Typed, TablesOK, Refuse, tables, marks
  <1>5. /\ Ingesting(h) /\ pc \in Steps /\ pc # "think"
        /\ pc \notin Early => proc[h].copy.session # 0
        /\ pc \notin Unresolved => proc[h].conv \in 1..Len(convs')
    <2>1. proc[h].pc \notin Pulling /\ pc \in Steps /\ pc # "think"
      BY <1>3 DEF Refuse, At, Pulling, Steps
    <2>2. pc \notin Early => proc[h].copy.session # 0
      BY <1>3, Own DEF Refuse, At, Pulling, Early
    <2>3. pc \notin Unresolved => proc[h].conv \in 1..Len(convs)
      BY <1>3, Own DEF Refuse, At, Pulling, Early, Unresolved
    <2>. QED  BY <1>4, <2>1, <2>2, <2>3, Own DEF Ingesting, Pulling
  <1>6. HandlersFit'
    BY <1>3, <1>4, <1>5, GotoFits DEF Typed
  <1>. QED  BY <1>1, <1>2, <1>6 DEF Typed

LEMMA SilentTyped ==
    ASSUME Typed, NEW h \in Handlers, Silent(h)
    PROVE  Typed'
PROOF
  <1>1. TablesOK'
    BY Own DEF Typed, TablesOK, Silent, world, tables, observers, marks
  <1>2. ObserversOK'
    BY HeadIsMsg DEF Typed, ObserversOK, Silent, observers, At, Ingesting, marks
  <1>3. PICK pc \in {"map", "page"} : Goto(h, pc)
    BY DEF Silent, AfterTurn, AfterStore, NextStep
  <1>4. /\ Len(sessions) \in Nat /\ Len(convs) \in Nat /\ Len(rows) \in Nat
        /\ Len(sessions') \in Nat /\ Len(convs') \in Nat /\ Len(rows') \in Nat
        /\ Len(sessions) <= Len(sessions') /\ Len(convs) <= Len(convs') /\ Len(rows) <= Len(rows')
    BY <1>1, Own DEF Typed, TablesOK, Silent, tables, marks
  <1>5. /\ Ingesting(h) /\ pc \in Steps /\ pc # "think"
        /\ pc \notin Early => proc[h].copy.session # 0
        /\ pc \notin Unresolved => proc[h].conv \in 1..Len(convs')
    <2>1. proc[h].pc \notin Pulling /\ pc \in Steps /\ pc # "think"
      BY <1>3 DEF Silent, At, Pulling, Steps
    <2>2. pc \notin Early => proc[h].copy.session # 0
      BY <1>3, Own DEF Silent, At, Pulling, Early
    <2>3. pc \notin Unresolved => proc[h].conv \in 1..Len(convs)
      BY <1>3, Own DEF Silent, At, Pulling, Early, Unresolved
    <2>. QED  BY <1>4, <2>1, <2>2, <2>3, Own DEF Ingesting, Pulling
  <1>6. HandlersFit'
    BY <1>3, <1>4, <1>5, GotoFits DEF Typed
  <1>. QED  BY <1>1, <1>2, <1>6 DEF Typed

LEMMA NothingToMapTyped ==
    ASSUME Typed, NEW h \in Handlers, NothingToMap(h)
    PROVE  Typed'
PROOF
  <1>1. TablesOK'
    BY Own DEF Typed, TablesOK, NothingToMap, world, tables, observers, marks
  <1>2. ObserversOK'
    BY HeadIsMsg DEF Typed, ObserversOK, NothingToMap, observers, At, Ingesting, marks
  <1>3. PICK pc \in {"cursor"} : Goto(h, pc)
    BY DEF NothingToMap, AfterTurn, AfterStore, NextStep
  <1>4. /\ Len(sessions) \in Nat /\ Len(convs) \in Nat /\ Len(rows) \in Nat
        /\ Len(sessions') \in Nat /\ Len(convs') \in Nat /\ Len(rows') \in Nat
        /\ Len(sessions) <= Len(sessions') /\ Len(convs) <= Len(convs') /\ Len(rows) <= Len(rows')
    BY <1>1, Own DEF Typed, TablesOK, NothingToMap, tables, marks
  <1>5. /\ Ingesting(h) /\ pc \in Steps /\ pc # "think"
        /\ pc \notin Early => proc[h].copy.session # 0
        /\ pc \notin Unresolved => proc[h].conv \in 1..Len(convs')
    <2>1. proc[h].pc \notin Pulling /\ pc \in Steps /\ pc # "think"
      BY <1>3 DEF NothingToMap, At, Pulling, Steps
    <2>2. pc \notin Early => proc[h].copy.session # 0
      BY <1>3, Own DEF NothingToMap, At, Pulling, Early
    <2>3. pc \notin Unresolved => proc[h].conv \in 1..Len(convs)
      BY <1>3, Own DEF NothingToMap, At, Pulling, Early, Unresolved
    <2>. QED  BY <1>4, <2>1, <2>2, <2>3, Own DEF Ingesting, Pulling
  <1>6. HandlersFit'
    BY <1>3, <1>4, <1>5, GotoFits DEF Typed
  <1>. QED  BY <1>1, <1>2, <1>6 DEF Typed

LEMMA AttachTyped ==
    ASSUME Typed, NEW h \in Handlers, Attach(h)
    PROVE  Typed'
PROOF
  <1>0. thread' \in Thread /\ thread'.session <= Len(sessions)
    <2>1. /\ thread \in Thread /\ thread.session <= Len(sessions) /\ proc[h].pc \notin Early
      BY DEF Typed, TablesOK, Attach, At, Early, Pulling, marks
    <2>2. proc[h].copy.session <= Len(sessions) /\ proc[h].conv \in Nat
      BY Own
    <2>3. thread.cursor \in MsgOrNone /\ proc[h].copy.session \in Nat
      BY <2>1, Own DEF Thread
    <2>4. sessions[proc[h].copy.session].version \in Nat
      BY <2>1, OwnSession
    <2>. QED  BY <2>1, <2>2, <2>3, <2>4, ThreadEdits DEF Attach
  <1>1. TablesOK'
    BY <1>0, ThreadStep DEF Typed, Attach, observers, marks
  <1>2. ObserversOK'
    BY HeadIsMsg DEF Typed, ObserversOK, Attach, observers, At, Ingesting, marks
  <1>3. PICK pc \in {"store", "notice", "gate"} : Goto(h, pc)
    BY DEF Attach, AfterTurn, AfterStore, NextStep
  <1>4. /\ Len(sessions) \in Nat /\ Len(convs) \in Nat /\ Len(rows) \in Nat
        /\ Len(sessions') \in Nat /\ Len(convs') \in Nat /\ Len(rows') \in Nat
        /\ Len(sessions) <= Len(sessions') /\ Len(convs) <= Len(convs') /\ Len(rows) <= Len(rows')
    BY <1>1, Own DEF Typed, TablesOK, Attach, tables, marks
  <1>5. /\ Ingesting(h) /\ pc \in Steps /\ pc # "think"
        /\ pc \notin Early => proc[h].copy.session # 0
        /\ pc \notin Unresolved => proc[h].conv \in 1..Len(convs')
    <2>1. proc[h].pc \notin Pulling /\ pc \in Steps /\ pc # "think"
      BY <1>3 DEF Attach, At, Pulling, Steps
    <2>2. pc \notin Early => proc[h].copy.session # 0
      BY <1>3, Own DEF Attach, At, Pulling, Early
    <2>3. pc \notin Unresolved => proc[h].conv \in 1..Len(convs)
      BY <1>3, Own DEF Attach, At, Pulling, Early, Unresolved
    <2>. QED  BY <1>4, <2>1, <2>2, <2>3, Own DEF Ingesting, Pulling
  <1>6. HandlersFit'
    BY <1>3, <1>4, <1>5, GotoFits DEF Typed
  <1>. QED  BY <1>1, <1>2, <1>6 DEF Typed

LEMMA AnswerTyped ==
    ASSUME Typed, NEW h \in Handlers, Answer(h)
    PROVE  Typed'
PROOF
  <1>0. PICK row \in Row : rows' = Append(rows, row)
    <2>1. proc[h].pc \notin Early /\ proc[h].conv \in Nat /\ proc[h].turn \in Nat
          /\ proc[h].granted \in Nat /\ MaxMsgs \in Nat
      BY Own, SetupFacts DEF Typed, Answer, At, Early, Pulling, Handler
    <2>2. Msg(h) \in MsgOrNone /\ 0 \in MsgOrNone
      BY <2>1, HeadIsMsg DEF Typed, Answer, At, Ingesting, Msgs, MsgOrNone
    <2>. QED  BY <2>1, <2>2, OwnSession DEF Answer, Row, UserRow, AnswerRow
  <1>1. TablesOK'
    BY <1>0, RowsStep DEF Typed, Answer, observers, marks
  <1>2. ObserversOK'
    BY HeadIsMsg DEF Typed, ObserversOK, Answer, observers, At, Ingesting, marks
  <1>3. PICK pc \in {"map", "page"} : Goto(h, pc)
    BY DEF Answer, AfterTurn, AfterStore, NextStep
  <1>4. /\ Len(sessions) \in Nat /\ Len(convs) \in Nat /\ Len(rows) \in Nat
        /\ Len(sessions') \in Nat /\ Len(convs') \in Nat /\ Len(rows') \in Nat
        /\ Len(sessions) <= Len(sessions') /\ Len(convs) <= Len(convs') /\ Len(rows) <= Len(rows')
    BY <1>1, Own DEF Typed, TablesOK, Answer, tables, marks
  <1>5. /\ Ingesting(h) /\ pc \in Steps /\ pc # "think"
        /\ pc \notin Early => proc[h].copy.session # 0
        /\ pc \notin Unresolved => proc[h].conv \in 1..Len(convs')
    <2>1. proc[h].pc \notin Pulling /\ pc \in Steps /\ pc # "think"
      BY <1>3 DEF Answer, At, Pulling, Steps
    <2>2. pc \notin Early => proc[h].copy.session # 0
      BY <1>3, Own, SMTT(30) DEF Answer, At, Pulling, Early
    <2>3. pc \notin Unresolved => proc[h].conv \in 1..Len(convs)
      BY <1>3, Own DEF Answer, At, Pulling, Early, Unresolved
    <2>. QED  BY <1>4, <2>1, <2>2, <2>3, Own DEF Ingesting, Pulling
  <1>6. HandlersFit'
    BY <1>3, <1>4, <1>5, GotoFits DEF Typed
  <1>. QED  BY <1>1, <1>2, <1>6 DEF Typed

LEMMA StoreTyped ==
    ASSUME Typed, NEW h \in Handlers, Store(h)
    PROVE  Typed'
PROOF
  <1>0. PICK row \in Row : rows' = Append(rows, row)
    <2>1. proc[h].pc \notin Early /\ proc[h].conv \in Nat /\ proc[h].turn \in Nat
          /\ proc[h].granted \in Nat /\ MaxMsgs \in Nat
      BY Own, SetupFacts DEF Typed, Store, At, Early, Pulling, Handler
    <2>2. Msg(h) \in MsgOrNone /\ 0 \in MsgOrNone
      BY <2>1, HeadIsMsg DEF Typed, Store, At, Ingesting, Msgs, MsgOrNone
    <2>. QED  BY <2>1, <2>2, OwnSession DEF Store, Row, UserRow, AnswerRow
  <1>1. TablesOK'
    BY <1>0, RowsStep DEF Typed, Store, observers, marks
  <1>2. ObserversOK'
    BY HeadIsMsg DEF Typed, ObserversOK, Store, observers, At, Ingesting, marks
  <1>3. PICK pc \in {"map", "page"} : Goto(h, pc)
    BY DEF Store, AfterTurn, AfterStore, NextStep
  <1>4. /\ Len(sessions) \in Nat /\ Len(convs) \in Nat /\ Len(rows) \in Nat
        /\ Len(sessions') \in Nat /\ Len(convs') \in Nat /\ Len(rows') \in Nat
        /\ Len(sessions) <= Len(sessions') /\ Len(convs) <= Len(convs') /\ Len(rows) <= Len(rows')
    BY <1>1, Own DEF Typed, TablesOK, Store, tables, marks
  <1>5. /\ Ingesting(h) /\ pc \in Steps /\ pc # "think"
        /\ pc \notin Early => proc[h].copy.session # 0
        /\ pc \notin Unresolved => proc[h].conv \in 1..Len(convs')
    <2>1. proc[h].pc \notin Pulling /\ pc \in Steps /\ pc # "think"
      BY <1>3 DEF Store, At, Pulling, Steps
    <2>2. pc \notin Early => proc[h].copy.session # 0
      BY <1>3, Own DEF Store, At, Pulling, Early
    <2>3. pc \notin Unresolved => proc[h].conv \in 1..Len(convs)
      BY <1>3, Own DEF Store, At, Pulling, Early, Unresolved
    <2>. QED  BY <1>4, <2>1, <2>2, <2>3, Own DEF Ingesting, Pulling
  <1>6. HandlersFit'
    BY <1>3, <1>4, <1>5, GotoFits DEF Typed
  <1>. QED  BY <1>1, <1>2, <1>6 DEF Typed

LEMMA DraftTyped ==
    ASSUME Typed, NEW h \in Handlers, Draft(h)
    PROVE  Typed'
PROOF
  <1>0. drafts' \subseteq [conv : Nat, msg : Msgs]
    <2>1. proc[h].conv \in Nat /\ Msg(h) \in Msgs
      BY Own, HeadIsMsg DEF Typed, Draft, At, Ingesting
    <2>. QED  BY <2>1 DEF Typed, TablesOK, Draft, marks
  <1>1. TablesOK'
    BY <1>0 DEF Typed, TablesOK, Draft, world, observers, marks
  <1>2. ObserversOK'
    BY HeadIsMsg DEF Typed, ObserversOK, Draft, observers, At, Ingesting, marks
  <1>3. PICK pc \in {"map", "page"} : Goto(h, pc)
    BY DEF Draft, AfterTurn, AfterStore, NextStep
  <1>4. /\ Len(sessions) \in Nat /\ Len(convs) \in Nat /\ Len(rows) \in Nat
        /\ Len(sessions') \in Nat /\ Len(convs') \in Nat /\ Len(rows') \in Nat
        /\ Len(sessions) <= Len(sessions') /\ Len(convs) <= Len(convs') /\ Len(rows) <= Len(rows')
    BY <1>1, Own DEF Typed, TablesOK, Draft, tables, marks
  <1>5. /\ Ingesting(h) /\ pc \in Steps /\ pc # "think"
        /\ pc \notin Early => proc[h].copy.session # 0
        /\ pc \notin Unresolved => proc[h].conv \in 1..Len(convs')
    <2>1. proc[h].pc \notin Pulling /\ pc \in Steps /\ pc # "think"
      BY <1>3 DEF Draft, At, Pulling, Steps
    <2>2. pc \notin Early => proc[h].copy.session # 0
      BY <1>3, Own DEF Draft, At, Pulling, Early
    <2>3. pc \notin Unresolved => proc[h].conv \in 1..Len(convs)
      BY <1>3, Own DEF Draft, At, Pulling, Early, Unresolved
    <2>. QED  BY <1>4, <2>1, <2>2, <2>3, Own DEF Ingesting, Pulling
  <1>6. HandlersFit'
    BY <1>3, <1>4, <1>5, GotoFits DEF Typed
  <1>. QED  BY <1>1, <1>2, <1>6 DEF Typed

LEMMA MapFailsTyped ==
    ASSUME Typed, NEW h \in Handlers, MapFails(h)
    PROVE  Typed'
PROOF
  <1>1. TablesOK'
    BY DEF Typed, TablesOK, MapFails, Disturb, tables, marks
  <1>2. ObserversOK'
    BY HeadIsMsg DEF Typed, ObserversOK, MapFails, observers, At, Ingesting, marks
  <1>3. PICK pc \in {"cursor"} : Goto(h, pc)
    BY DEF MapFails, AfterTurn, AfterStore, NextStep
  <1>4. /\ Len(sessions) \in Nat /\ Len(convs) \in Nat /\ Len(rows) \in Nat
        /\ Len(sessions') \in Nat /\ Len(convs') \in Nat /\ Len(rows') \in Nat
        /\ Len(sessions) <= Len(sessions') /\ Len(convs) <= Len(convs') /\ Len(rows) <= Len(rows')
    BY <1>1, Own DEF Typed, TablesOK, MapFails, tables, marks
  <1>5. /\ Ingesting(h) /\ pc \in Steps /\ pc # "think"
        /\ pc \notin Early => proc[h].copy.session # 0
        /\ pc \notin Unresolved => proc[h].conv \in 1..Len(convs')
    <2>1. proc[h].pc \notin Pulling /\ pc \in Steps /\ pc # "think"
      BY <1>3 DEF MapFails, At, Pulling, Steps
    <2>2. pc \notin Early => proc[h].copy.session # 0
      BY <1>3, Own DEF MapFails, At, Pulling, Early
    <2>3. pc \notin Unresolved => proc[h].conv \in 1..Len(convs)
      BY <1>3, Own DEF MapFails, At, Pulling, Early, Unresolved
    <2>. QED  BY <1>4, <2>1, <2>2, <2>3, Own DEF Ingesting, Pulling
  <1>6. HandlersFit'
    BY <1>3, <1>4, <1>5, GotoFits DEF Typed
  <1>. QED  BY <1>1, <1>2, <1>6 DEF Typed

LEMMA PageFailsTyped ==
    ASSUME Typed, NEW h \in Handlers, PageFails(h)
    PROVE  Typed'
PROOF
  <1>1. TablesOK'
    BY DEF Typed, TablesOK, PageFails, Disturb, tables, marks
  <1>2. ObserversOK'
    BY HeadIsMsg DEF Typed, ObserversOK, PageFails, observers, At, Ingesting, marks
  <1>3. PICK pc \in {"map"} : Goto(h, pc)
    BY DEF PageFails, AfterTurn, AfterStore, NextStep
  <1>4. /\ Len(sessions) \in Nat /\ Len(convs) \in Nat /\ Len(rows) \in Nat
        /\ Len(sessions') \in Nat /\ Len(convs') \in Nat /\ Len(rows') \in Nat
        /\ Len(sessions) <= Len(sessions') /\ Len(convs) <= Len(convs') /\ Len(rows) <= Len(rows')
    BY <1>1, Own DEF Typed, TablesOK, PageFails, tables, marks
  <1>5. /\ Ingesting(h) /\ pc \in Steps /\ pc # "think"
        /\ pc \notin Early => proc[h].copy.session # 0
        /\ pc \notin Unresolved => proc[h].conv \in 1..Len(convs')
    <2>1. proc[h].pc \notin Pulling /\ pc \in Steps /\ pc # "think"
      BY <1>3 DEF PageFails, At, Pulling, Steps
    <2>2. pc \notin Early => proc[h].copy.session # 0
      BY <1>3, Own DEF PageFails, At, Pulling, Early
    <2>3. pc \notin Unresolved => proc[h].conv \in 1..Len(convs)
      BY <1>3, Own DEF PageFails, At, Pulling, Early, Unresolved
    <2>. QED  BY <1>4, <2>1, <2>2, <2>3, Own DEF Ingesting, Pulling
  <1>6. HandlersFit'
    BY <1>3, <1>4, <1>5, GotoFits DEF Typed
  <1>. QED  BY <1>1, <1>2, <1>6 DEF Typed

LEMMA SetConvTyped ==
    ASSUME TablesOK, NEW c \in DOMAIN convs, NEW status \in Open \cup {"ended"}, NEW agent \in BOOLEAN,
           SetConv(c, status, agent)
    PROVE  convs' \in Seq(Conv) /\ Len(convs') = Len(convs)
PROOF
  <1>1. convs \in Seq(Conv) /\ convs[c] \in Conv
    BY DEF TablesOK
  <1>2. [convs[c] EXCEPT !.status = status, !.agent = agent] \in Conv
    BY <1>1 DEF Conv
  <1>3. convs' = [convs EXCEPT ![c] = [convs[c] EXCEPT !.status = status, !.agent = agent]]
    BY <1>1 DEF SetConv
  <1> HIDE DEF Conv
  <1>. QED  BY <1>1, <1>2, <1>3

LEMMA MarkWaitingTyped ==
    ASSUME TablesOK, NEW c \in DOMAIN convs, MarkWaiting(c)
    PROVE  convs' \in Seq(Conv) /\ Len(convs') = Len(convs)
PROOF
  <1>1. convs \in Seq(Conv) /\ convs[c] \in Conv
    BY DEF TablesOK
  <1>2. [convs[c] EXCEPT !.status = "waiting", !.escalated = TRUE] \in Conv
    BY <1>1 DEF Conv, Open
  <1>3. convs' = [convs EXCEPT ![c] = [convs[c] EXCEPT !.status = "waiting", !.escalated = TRUE]]
    BY <1>1 DEF MarkWaiting
  <1>. QED  BY <1>1, <1>2, <1>3

LEMMA HandOffTyped ==
    ASSUME Typed, NEW h \in Handlers, HandOff(h)
    PROVE  Typed'
PROOF
  <1>0. rows' \in Seq(Row)
    <2>1. proc[h].turn \in Nat /\ proc[h].granted \in Nat /\ Msg(h) \in MsgOrNone
      <3>1. Msg(h) \in Msgs /\ MaxMsgs \in Nat
        BY HeadIsMsg, SetupFacts DEF Typed, HandOff, At, Ingesting
      <3>. QED  BY <3>1, Own DEF Msgs, MsgOrNone
    <2>2. AnswerRow(h) \in Row
      BY <2>1 DEF AnswerRow, Row
    <2>. QED  BY <2>2 DEF HandOff, Typed, TablesOK, marks
  <1>9. convs' \in Seq(Conv) /\ Len(convs') = Len(convs)
    <2>1. proc[h].turn \in DOMAIN convs
      BY Own DEF Typed, TablesOK, HandOff, At, marks
    <2>. QED  BY <2>1, MarkWaitingTyped DEF Typed, HandOff
  <1>1. TablesOK'
    BY <1>0, <1>9 DEF Typed, TablesOK, HandOff, world, observers, marks
  <1>2. ObserversOK'
    BY HeadIsMsg DEF Typed, ObserversOK, HandOff, observers, At, Ingesting, marks
  <1>3. PICK pc \in {"map", "page"} : Goto(h, pc)
    BY DEF HandOff, AfterTurn, AfterStore, NextStep
  <1>4. /\ Len(sessions) \in Nat /\ Len(convs) \in Nat /\ Len(rows) \in Nat
        /\ Len(sessions') \in Nat /\ Len(convs') \in Nat /\ Len(rows') \in Nat
        /\ Len(sessions) <= Len(sessions') /\ Len(convs) <= Len(convs') /\ Len(rows) <= Len(rows')
    BY <1>1, <1>9, Own DEF Typed, TablesOK, HandOff, tables, marks
  <1>5. /\ Ingesting(h) /\ pc \in Steps /\ pc # "think"
        /\ pc \notin Early => proc[h].copy.session # 0
        /\ pc \notin Unresolved => proc[h].conv \in 1..Len(convs')
    <2>1. proc[h].pc \notin Pulling /\ pc \in Steps /\ pc # "think"
      BY <1>3 DEF HandOff, At, Pulling, Steps
    <2>2. pc \notin Early => proc[h].copy.session # 0
      BY <1>3, Own, SMTT(30) DEF HandOff, At, Pulling, Early
    <2>3. pc \notin Unresolved => proc[h].conv \in 1..Len(convs)
      BY <1>3, Own DEF HandOff, At, Pulling, Early, Unresolved
    <2>. QED  BY <1>4, <2>1, <2>2, <2>3, Own DEF Ingesting, Pulling
  <1>6. HandlersFit'
    BY <1>3, <1>4, <1>5, GotoFits DEF Typed
  <1>. QED  BY <1>1, <1>2, <1>6 DEF Typed

LEMMA PageTyped ==
    ASSUME Typed, NEW h \in Handlers, Page(h)
    PROVE  Typed'
PROOF
  <1>0. proc[h].conv \in DOMAIN convs /\ proc[h].conv \in DOMAIN paged
    <2>1. proc[h].conv \in 1..Len(convs)
      BY Own DEF Page, At, Unresolved, Early, Pulling
    <2>. QED  BY <2>1 DEF Typed, TablesOK, marks
  <1>8. paged' \in Seq(Nat) /\ Len(paged') = Len(paged)
    BY <1>0 DEF Typed, TablesOK, Page, marks
  <1>9. convs' \in Seq(Conv) /\ Len(convs') = Len(convs)
    BY <1>0, MarkWaitingTyped DEF Typed, Page
  <1>1. TablesOK'
    BY <1>8, <1>9 DEF Typed, TablesOK, Page, world, marks
  <1>2. ObserversOK'
    BY HeadIsMsg DEF Typed, ObserversOK, Page, observers, At, Ingesting, marks
  <1>3. PICK pc \in {"map"} : Goto(h, pc)
    BY DEF Page, AfterTurn, AfterStore, NextStep
  <1>4. /\ Len(sessions) \in Nat /\ Len(convs) \in Nat /\ Len(rows) \in Nat
        /\ Len(sessions') \in Nat /\ Len(convs') \in Nat /\ Len(rows') \in Nat
        /\ Len(sessions) <= Len(sessions') /\ Len(convs) <= Len(convs') /\ Len(rows) <= Len(rows')
    BY <1>1, <1>9, Own DEF Typed, TablesOK, Page, tables, marks
  <1>5. /\ Ingesting(h) /\ pc \in Steps /\ pc # "think"
        /\ pc \notin Early => proc[h].copy.session # 0
        /\ pc \notin Unresolved => proc[h].conv \in 1..Len(convs')
    <2>1. proc[h].pc \notin Pulling /\ pc \in Steps /\ pc # "think"
      BY <1>3 DEF Page, At, Pulling, Steps
    <2>2. pc \notin Early => proc[h].copy.session # 0
      BY <1>3, Own DEF Page, At, Pulling, Early
    <2>3. pc \notin Unresolved => proc[h].conv \in 1..Len(convs)
      BY <1>3, Own DEF Page, At, Pulling, Early, Unresolved
    <2>. QED  BY <1>4, <2>1, <2>2, <2>3, Own DEF Ingesting, Pulling
  <1>6. HandlersFit'
    BY <1>3, <1>4, <1>5, GotoFits DEF Typed
  <1>. QED  BY <1>1, <1>2, <1>6 DEF Typed

LEMMA MapTyped ==
    ASSUME Typed, NEW h \in Handlers, NEW i \in DOMAIN rows, Map(h, i)
    PROVE  Typed'
PROOF
  <1>0. mapped' \in [Msgs -> Nat]
    <2>1. i \in Nat
      BY DEF Typed, TablesOK, marks
    <2>2. Msg(h) \in Msgs
      BY HeadIsMsg DEF Typed, Map, At, Ingesting
    <2>. QED  BY <2>1, <2>2 DEF Typed, TablesOK, Map, marks
  <1>1. TablesOK'
    BY <1>0 DEF Typed, TablesOK, Map, world, observers, marks
  <1>2. ObserversOK'
    BY DEF Typed, ObserversOK, Map, observers, marks
  <1>3. Goto(h, "cursor")
    BY DEF Map
  <1>4. /\ Len(sessions) \in Nat /\ Len(convs) \in Nat /\ Len(rows) \in Nat
        /\ Len(sessions') \in Nat /\ Len(convs') \in Nat /\ Len(rows') \in Nat
        /\ Len(sessions) <= Len(sessions') /\ Len(convs) <= Len(convs') /\ Len(rows) <= Len(rows')
    BY Own DEF Map
  <1>5. /\ Ingesting(h) /\ "cursor" \in Steps
        /\ proc[h].copy.session # 0
        /\ proc[h].conv \in 1..Len(convs')
    BY <1>4, Own, SMTT(30) DEF Map, At, Ingesting, Pulling, Early, Unresolved, Steps
  <1>6. HandlersFit'
    BY <1>3, <1>4, <1>5, GotoFits DEF Typed
  <1>. QED  BY <1>1, <1>2, <1>6 DEF Typed

\* A run of messages is a batch.
LEMMA RunIsBatch ==
    ASSUME NEW first \in Nat \ {0}, NEW last \in MsgOrNone, MaxMsgs \in Nat
    PROVE  Run(first, last) \in Seq(Msgs)
PROOF
  <1> DEFINE n == IF last < first THEN 0 ELSE last - first + 1
  <1>1. n \in Nat /\ \A i \in 1..n : first + i - 1 \in Msgs
    BY DEF MsgOrNone, Msgs
  <1>. QED  BY <1>1 DEF Run

LEMMA PullTyped ==
    ASSUME Typed, NEW h \in Handlers, Pull(h)
    PROVE  Typed'
PROOF
  <1> DEFINE r == [proc[h] EXCEPT !.pc = "commit", !.listed = written, !.batch = Run(mark + 1, written)]
  <1>1. TablesOK'
    BY Own DEF Typed, TablesOK, Pull, world, tables, observers, marks
  <1>2. ObserversOK'
    BY DEF Typed, ObserversOK, Pull, observers, marks
  <1>3. proc' = [proc EXCEPT ![h] = r]
    BY DEF Pull
  <1>4. /\ Len(sessions) \in Nat /\ Len(convs) \in Nat /\ Len(rows) \in Nat
        /\ Len(sessions') \in Nat /\ Len(convs') \in Nat /\ Len(rows') \in Nat
        /\ Len(sessions) <= Len(sessions') /\ Len(convs) <= Len(convs') /\ Len(rows) <= Len(rows')
    BY <1>1, Own DEF Typed, TablesOK, Pull, tables, marks
  <1>5. Fit(r, Len(sessions'), Len(convs'), Len(rows'))
    <2>1. Fit(proc[h], Len(sessions'), Len(convs'), Len(rows'))
      BY <1>4, FitGrows DEF Typed, HandlersFit
    <2>2. Run(mark + 1, written) \in Seq(Msgs) /\ written \in MsgOrNone
      <3>1. mark + 1 \in Nat \ {0} /\ written \in MsgOrNone /\ MaxMsgs \in Nat
        BY SetupFacts DEF Typed, TablesOK, MsgOrNone, marks
      <3>. QED  BY <3>1, RunIsBatch
    <2>3. r \in Handler
      BY <2>2, Own, ZenonT(60) DEF Handler, Steps
    <2>. QED  BY <2>1, <2>3, Own DEF Fit, Pulling, Early, Unresolved, Handler
  <1>6. HandlersFit'
    BY <1>3, <1>4, <1>5, FitStep DEF Typed
  <1>. QED  BY <1>1, <1>2, <1>6 DEF Typed

LEMMA SearchTyped ==
    ASSUME Typed, NEW h \in Handlers, Search(h)
    PROVE  Typed'
PROOF
  <1> DEFINE r == [proc[h] EXCEPT !.pc = "read", !.todo = Unseen]
  <1>1. TablesOK'
    BY DEF Typed, TablesOK, Search, world, tables, observers, marks
  <1>2. ObserversOK'
    BY DEF Typed, ObserversOK, Search, observers, marks
  <1>3. proc' = [proc EXCEPT ![h] = r]
    BY DEF Search
  <1>4. /\ Len(sessions) \in Nat /\ Len(convs) \in Nat /\ Len(rows) \in Nat
        /\ Len(sessions') \in Nat /\ Len(convs') \in Nat /\ Len(rows') \in Nat
        /\ Len(sessions) <= Len(sessions') /\ Len(convs) <= Len(convs') /\ Len(rows) <= Len(rows')
    BY <1>1, Own DEF Typed, TablesOK, Search, tables, marks
  <1>5. Fit(r, Len(sessions'), Len(convs'), Len(rows'))
    <2>1. Fit(proc[h], Len(sessions'), Len(convs'), Len(rows'))
      BY <1>4, FitGrows DEF Typed, HandlersFit
    <2>2. Unseen \subseteq Msgs
      BY SetupFacts DEF Unseen, Typed, TablesOK, Msgs, MsgOrNone
    <2>3. r \in Handler
      <3>1. proc[h] \in Handler /\ "read" \in Steps
        BY Own DEF Steps
      <3> HIDE DEF r
      <3>. QED  BY <2>2, <3>1 DEF Handler, r
    <2>. QED  BY <2>1, <2>3, Own DEF Fit, Pulling, Early, Unresolved, Handler
  <1>6. HandlersFit'
    BY <1>3, <1>4, <1>5, FitStep DEF Typed
  <1>. QED  BY <1>1, <1>2, <1>6 DEF Typed

\* A mail is fetched, flagged or not.
LEMMA FetchedFits ==
    ASSUME Typed, NEW h \in Handlers, NEW m \in proc[h].todo, Fetched(h, m),
           UNCHANGED tables
    PROVE  HandlersFit' /\ m \in Msgs
PROOF
  <1> DEFINE pc == IF proc[h].todo = {m} THEN "handover" ELSE "read"
             r == [proc[h] EXCEPT !.pc = pc, !.todo = proc[h].todo \ {m},
                                   !.batch = Append(proc[h].batch, m)]
  <1>1. proc' = [proc EXCEPT ![h] = r]
    BY DEF Fetched
  <1>2. /\ Len(sessions) \in Nat /\ Len(convs) \in Nat /\ Len(rows) \in Nat
        /\ Len(sessions') \in Nat /\ Len(convs') \in Nat /\ Len(rows') \in Nat
        /\ Len(sessions) <= Len(sessions') /\ Len(convs) <= Len(convs') /\ Len(rows) <= Len(rows')
    BY DEF Typed, TablesOK, tables
  <1>3. proc[h] \in Handler /\ proc[h].todo \subseteq Msgs /\ proc[h].batch \in Seq(Msgs)
    BY Own DEF Handler
  <1>4. pc \in Steps /\ Append(proc[h].batch, m) \in Seq(Msgs) /\ proc[h].todo \ {m} \subseteq Msgs
    BY <1>3 DEF Steps
  <1>5. r \in Handler /\ r.pc \in {"handover", "read"} /\ r.copy = proc[h].copy /\ r.since = proc[h].since
    <2> HIDE DEF pc
    <2>1. r \in Handler /\ r.pc = pc /\ r.copy = proc[h].copy /\ r.since = proc[h].since
      BY <1>3, <1>4 DEF Handler
    <2>. QED  BY <2>1 DEF pc
  <1>6. Fit(r, Len(sessions'), Len(convs'), Len(rows'))
    <2>1. Fit(proc[h], Len(sessions'), Len(convs'), Len(rows'))
      BY <1>2, FitGrows DEF Typed, HandlersFit
    <2> HIDE DEF r
    <2>. QED  BY <1>5, <2>1 DEF Fit, Pulling, Early, Unresolved
  <1> HIDE DEF r
  <1>. QED  BY <1>1, <1>2, <1>3, <1>6, FitStep DEF Typed

LEMMA ReadTyped ==
    ASSUME Typed, NEW h \in Handlers, NEW m \in proc[h].todo, Read(h, m) \/ FlagFails(h, m)
    PROVE  Typed'
PROOF
  <1>1. Fetched(h, m) /\ UNCHANGED <<setup, written, version, mark, skipped, tables, observers>>
        /\ disturbed' \in {disturbed, disturbed + 1} /\ flagged' \in {flagged, flagged \cup {m}}
    BY DEF Read, FlagFails, Disturb, world, marks
  <1>2. HandlersFit' /\ m \in Msgs
    BY <1>1, FetchedFits
  <1>3. TablesOK' /\ ObserversOK'
    BY <1>1, <1>2 DEF Typed, TablesOK, ObserversOK, tables, observers
  <1>. QED  BY <1>2, <1>3 DEF Typed

LEMMA ListTyped ==
    ASSUME Typed, NEW h \in Handlers, List(h)
    PROVE  Typed'
PROOF
  <1> DEFINE r == [proc[h] EXCEPT !.pc = "fetch", !.listed = written, !.copy = thread]
  <1>1. TablesOK'
    BY Own DEF Typed, TablesOK, List, world, tables, observers, marks
  <1>2. ObserversOK'
    BY DEF Typed, ObserversOK, List, observers, marks
  <1>3. proc' = [proc EXCEPT ![h] = r]
    BY DEF List
  <1>4. /\ Len(sessions) \in Nat /\ Len(convs) \in Nat /\ Len(rows) \in Nat
        /\ Len(sessions') \in Nat /\ Len(convs') \in Nat /\ Len(rows') \in Nat
        /\ Len(sessions) <= Len(sessions') /\ Len(convs) <= Len(convs') /\ Len(rows) <= Len(rows')
    BY <1>1, Own DEF Typed, TablesOK, List, tables, marks
  <1>5. Fit(r, Len(sessions'), Len(convs'), Len(rows'))
    <2>1. Fit(proc[h], Len(sessions'), Len(convs'), Len(rows'))
      BY <1>4, FitGrows DEF Typed, HandlersFit
    <2>2. written \in MsgOrNone /\ thread \in Thread /\ thread.session <= Len(sessions')
      BY DEF Typed, TablesOK, List, tables, marks
    <2>3. r \in Handler
      BY <2>2, Own, ZenonT(60) DEF Handler, Steps
    <2>. QED  BY <2>1, <2>2, <2>3, Own DEF Fit, Pulling, Early, Unresolved, Handler
  <1>6. HandlersFit'
    BY <1>3, <1>4, <1>5, FitStep DEF Typed
  <1>. QED  BY <1>1, <1>2, <1>6 DEF Typed

LEMMA FetchTyped ==
    ASSUME Typed, NEW h \in Handlers, Fetch(h)
    PROVE  Typed'
PROOF
  <1> DEFINE r == [proc[h] EXCEPT !.pc = "commit", !.copy = NoThread, !.batch = Run(proc[h].copy.cursor + 1, written)]
  <1>1. TablesOK'
    BY Own DEF Typed, TablesOK, Fetch, world, tables, observers, marks
  <1>2. ObserversOK'
    BY DEF Typed, ObserversOK, Fetch, observers, marks
  <1>3. proc' = [proc EXCEPT ![h] = r]
    BY DEF Fetch
  <1>4. /\ Len(sessions) \in Nat /\ Len(convs) \in Nat /\ Len(rows) \in Nat
        /\ Len(sessions') \in Nat /\ Len(convs') \in Nat /\ Len(rows') \in Nat
        /\ Len(sessions) <= Len(sessions') /\ Len(convs) <= Len(convs') /\ Len(rows) <= Len(rows')
    BY <1>1, Own DEF Typed, TablesOK, Fetch, tables, marks
  <1>5. Fit(r, Len(sessions'), Len(convs'), Len(rows'))
    <2>1. Fit(proc[h], Len(sessions'), Len(convs'), Len(rows'))
      BY <1>4, FitGrows DEF Typed, HandlersFit
    <2>2. /\ Run(proc[h].copy.cursor + 1, written) \in Seq(Msgs)
          /\ NoThread \in Thread /\ NoThread.session = 0
      <3>1. proc[h].copy.cursor + 1 \in Nat \ {0} /\ written \in MsgOrNone /\ MaxMsgs \in Nat
        <4>1. written \in MsgOrNone /\ MaxMsgs \in Nat
          BY SetupFacts DEF Typed, TablesOK, marks
        <4>2. proc[h].copy.cursor \in MsgOrNone
          BY Own
        <4>. QED  BY <4>1, <4>2 DEF MsgOrNone
      <3>. QED  BY <3>1, RunIsBatch, NoThreadOK DEF Typed
    <2>3. r \in Handler
      BY <2>2, Own, ZenonT(60) DEF Handler, Steps
    <2>. QED  BY <1>4, <2>1, <2>2, <2>3, Own, SMTT(30) DEF Fit, Pulling, Early, Unresolved, Handler
  <1>6. HandlersFit'
    BY <1>3, <1>4, <1>5, FitStep DEF Typed
  <1>. QED  BY <1>1, <1>2, <1>6 DEF Typed

LEMMA LookupTyped ==
    ASSUME Typed, NEW h \in Handlers, Lookup(h)
    PROVE  Typed'
PROOF
  <1> DEFINE r == [proc[h] EXCEPT !.pc = IF thread.exists THEN AfterSeen(thread) ELSE "create", !.copy = thread]
  <1>1. TablesOK'
    BY Own DEF Typed, TablesOK, Lookup, world, tables, observers, marks
  <1>2. ObserversOK'
    BY DEF Typed, ObserversOK, Lookup, observers, marks
  <1>3. proc' = [proc EXCEPT ![h] = r]
    BY DEF Lookup
  <1>4. /\ Len(sessions) \in Nat /\ Len(convs) \in Nat /\ Len(rows) \in Nat
        /\ Len(sessions') \in Nat /\ Len(convs') \in Nat /\ Len(rows') \in Nat
        /\ Len(sessions) <= Len(sessions') /\ Len(convs) <= Len(convs') /\ Len(rows) <= Len(rows')
    BY <1>1, Own DEF Typed, TablesOK, Lookup, tables, marks
  <1>5. Fit(r, Len(sessions'), Len(convs'), Len(rows'))
    <2>1. Fit(proc[h], Len(sessions'), Len(convs'), Len(rows'))
      BY <1>4, FitGrows DEF Typed, HandlersFit
    <2>2. thread \in Thread /\ thread.session <= Len(sessions')
      BY DEF Typed, TablesOK, Lookup, tables, marks
    <2>3. r \in Handler
      <3> DEFINE pc == IF thread.exists THEN AfterSeen(thread) ELSE "create"
      <3>1. pc \in Steps
        BY DEF Steps, AfterSeen
      <3>2. r = [proc[h] EXCEPT !.pc = pc, !.copy = thread]
        OBVIOUS
      <3>. HIDE DEF pc, r
      <3>. QED  BY <3>1, <3>2, <2>2, Own DEF Handler
    <2>. QED  BY <2>1, <2>2, <2>3, Own DEF Fit, Pulling, Early, Unresolved, Handler, AfterSeen, Lookup, At
  <1>6. HandlersFit'
    BY <1>3, <1>4, <1>5, FitStep DEF Typed
  <1>. QED  BY <1>1, <1>2, <1>6 DEF Typed

LEMMA CreateTyped ==
    ASSUME Typed, NEW h \in Handlers, Create(h)
    PROVE  Typed'
PROOF
  <1> DEFINE r == [proc[h] EXCEPT !.pc = AfterSeen(thread'), !.copy = thread']
  <1>1. TablesOK'
    <2>1. thread' \in Thread /\ thread'.session <= Len(sessions)
      BY NoThreadOK DEF Typed, TablesOK, Create, marks
    <2>. QED  BY <2>1, ThreadStep DEF Typed, Create, observers, marks
  <1>2. ObserversOK'
    BY DEF Typed, ObserversOK, Create, observers, marks
  <1>3. proc' = [proc EXCEPT ![h] = r]
    BY DEF Create
  <1>4. /\ Len(sessions) \in Nat /\ Len(convs) \in Nat /\ Len(rows) \in Nat
        /\ Len(sessions') \in Nat /\ Len(convs') \in Nat /\ Len(rows') \in Nat
        /\ Len(sessions) <= Len(sessions') /\ Len(convs) <= Len(convs') /\ Len(rows) <= Len(rows')
    BY <1>1, Own DEF Typed, TablesOK, Create, tables, marks
  <1>5. Fit(r, Len(sessions'), Len(convs'), Len(rows'))
    <2>1. Fit(proc[h], Len(sessions'), Len(convs'), Len(rows'))
      BY <1>4, FitGrows DEF Typed, HandlersFit
    <2>2. thread' \in Thread /\ thread'.session <= Len(sessions')
      BY <1>1 DEF TablesOK, marks
    <2>3. r \in Handler
      <3> DEFINE pc == AfterSeen(thread')
      <3>1. pc \in Steps
        BY DEF Steps, AfterSeen
      <3>2. r = [proc[h] EXCEPT !.pc = pc, !.copy = thread']
        OBVIOUS
      <3>. HIDE DEF pc, r
      <3>. QED  BY <3>1, <3>2, <2>2, Own DEF Handler
    <2>. QED  BY <2>1, <2>2, <2>3, Own DEF Fit, Pulling, Early, Unresolved, Handler, AfterSeen, Create, At
  <1>6. HandlersFit'
    BY <1>3, <1>4, <1>5, FitStep DEF Typed
  <1>. QED  BY <1>1, <1>2, <1>6 DEF Typed

LEMMA ConvsGrow ==
    ASSUME TablesOK, NEW s \in Nat,
           convs' = Append(convs, NewConv(s)), paged' = Append(paged, 0)
    PROVE  /\ convs' \in Seq(Conv) /\ Len(convs') = Len(convs) + 1
           /\ paged' \in Seq(Nat) /\ Len(paged') = Len(convs')
PROOF
  <1>1. NewConv(s) \in Conv
    BY DEF NewConv, Conv, Open
  <1>. QED  BY <1>1 DEF TablesOK, marks

\* Whatever the mode, the step that follows is one of the three.
LEMMA NextStepFacts ==
    ASSUME NEW h, NEW mode
    PROVE  NextStep(h, mode) \in {"store", "notice", "gate"}
  BY DEF NextStep

LEMMA NewSessionTyped ==
    ASSUME Typed, NEW h \in Handlers, NewSession(h)
    PROVE  Typed'
PROOF
  <1> DEFINE r == [proc[h] EXCEPT !.pc = "bind", !.copy.session = Len(sessions) + 1]
  <1>1. TablesOK'
    <2>1. [version |-> version, mode |-> "inherit"] \in Session
      BY DEF Typed, TablesOK, Session, marks
    <2>2. sessions' \in Seq(Session) /\ Len(sessions') = Len(sessions) + 1
      BY <2>1 DEF Typed, TablesOK, NewSession, marks
    <2>3. thread.session \in Nat /\ Len(sessions) \in Nat
      BY DEF Typed, TablesOK, Thread, marks
    <2>. QED  BY <2>2, <2>3 DEF Typed, TablesOK, NewSession, world, observers, marks
  <1>2. ObserversOK'
    BY DEF Typed, ObserversOK, NewSession, observers, marks
  <1>3. proc' = [proc EXCEPT ![h] = r]
    BY DEF NewSession
  <1>4. /\ Len(sessions) \in Nat /\ Len(convs) \in Nat /\ Len(rows) \in Nat
        /\ Len(sessions') \in Nat /\ Len(convs') \in Nat /\ Len(rows') \in Nat
        /\ Len(sessions) <= Len(sessions') /\ Len(convs) <= Len(convs') /\ Len(rows) <= Len(rows')
    BY <1>1, Own DEF Typed, TablesOK, NewSession, tables, marks
  <1>5. Fit(r, Len(sessions'), Len(convs'), Len(rows'))
    <2>1. Fit(proc[h], Len(sessions'), Len(convs'), Len(rows'))
      BY <1>4, FitGrows DEF Typed, HandlersFit
    <2>2. Len(sessions') = Len(sessions) + 1
      BY DEF Typed, TablesOK, NewSession, marks
    <2>3. [proc[h].copy EXCEPT !.session = Len(sessions) + 1] \in Thread
          /\ [proc[h].copy EXCEPT !.session = Len(sessions) + 1].session = Len(sessions) + 1
      <3>1. Len(sessions) + 1 \in Nat /\ proc[h].copy.cursor \in MsgOrNone /\ proc[h].copy \in Thread
        BY Own
      <3>. QED  BY <3>1, ThreadEdits
    <2> DEFINE t == [proc[h].copy EXCEPT !.session = Len(sessions) + 1]
    <2>6. r = [proc[h] EXCEPT !.pc = "bind", !.copy = t]
      BY Own DEF Handler, Thread
    <2> HIDE DEF t
    <2>7. t \in Thread /\ t.session = Len(sessions) + 1
      BY <2>3 DEF t
    <2>4. r \in Handler /\ r.copy.session = Len(sessions) + 1 /\ r.pc = "bind"
          /\ r.batch = proc[h].batch /\ r.since = proc[h].since
      <3>1. proc[h] \in Handler
        BY Own
      <3>2. [proc[h] EXCEPT !.pc = "bind", !.copy = t] \in Handler
        BY <2>7, <3>1 DEF Handler, Steps
      <3>. QED  BY <2>6, <2>7, <3>1, <3>2 DEF Handler
    <2>5. proc[h].pc \notin Pulling
      BY DEF NewSession, At, Pulling
    <2>. QED  BY <1>4, <2>1, <2>2, <2>4, <2>5 DEF Fit, Pulling, Early, Unresolved
  <1>6. HandlersFit'
    BY <1>3, <1>4, <1>5, FitStep DEF Typed
  <1>. QED  BY <1>1, <1>2, <1>6 DEF Typed

LEMMA OpenConvTyped ==
    ASSUME Typed, NEW h \in Handlers, OpenConv(h)
    PROVE  Typed'
PROOF
  <1> DEFINE r == [proc[h] EXCEPT !.pc = "attach", !.conv = Len(convs) + 1,
                     !.human = FALSE, !.queued = FALSE, !.since = Len(rows),
                     !.mode = ResolveMode(proc[h].copy.session)]
  <1>1. TablesOK'
    <2>1. /\ convs' \in Seq(Conv) /\ Len(convs') = Len(convs) + 1
          /\ paged' \in Seq(Nat) /\ Len(paged') = Len(convs')
      BY Own, ConvsGrow DEF Typed, OpenConv, Thread
    <2>. QED  BY <2>1 DEF Typed, TablesOK, OpenConv, world, marks
  <1>2. ObserversOK'
    BY DEF Typed, ObserversOK, OpenConv, observers, marks
  <1>3. proc' = [proc EXCEPT ![h] = r]
    BY DEF OpenConv
  <1>4. /\ Len(sessions) \in Nat /\ Len(convs) \in Nat /\ Len(rows) \in Nat
        /\ Len(sessions') \in Nat /\ Len(convs') \in Nat /\ Len(rows') \in Nat
        /\ Len(sessions) <= Len(sessions') /\ Len(convs) <= Len(convs') /\ Len(rows) <= Len(rows')
    BY <1>1, Own DEF Typed, TablesOK, OpenConv, tables, marks
  <1>5. Fit(r, Len(sessions'), Len(convs'), Len(rows'))
    <2>1. Fit(proc[h], Len(sessions'), Len(convs'), Len(rows'))
      BY <1>4, FitGrows DEF Typed, HandlersFit
    <2>2. Len(convs') = Len(convs) + 1 /\ rows' = rows
      BY DEF Typed, TablesOK, OpenConv, marks
    <2>3. ResolveMode(proc[h].copy.session) \in Modes /\ proc[h].copy.session # 0
      <3>1. proc[h].pc \notin Early
        BY DEF OpenConv, At, Early, Pulling
      <3>2. proc[h].copy.session \in 1..Len(sessions) /\ Len(sessions) \in Nat
        BY <3>1, Own
      <3>. QED  BY <3>1, <3>2, OwnSession
    <2> DEFINE mode == ResolveMode(proc[h].copy.session)
    <2>6. r = [proc[h] EXCEPT !.pc = "attach", !.conv = Len(convs) + 1, !.human = FALSE,
                              !.queued = FALSE, !.since = Len(rows), !.mode = mode]
      OBVIOUS
    <2>7. mode \in Modes
      BY <2>3
    <2> HIDE DEF mode
    <2>4. r \in Handler /\ r.copy = proc[h].copy /\ r.pc = "attach" /\ r.conv = Len(convs) + 1
          /\ r.batch = proc[h].batch /\ r.since = Len(rows)
      <3>1. proc[h] \in Handler /\ Len(convs) + 1 \in Nat /\ Len(rows) \in Nat
        BY Own
      <3>. QED  BY <2>6, <2>7, <3>1, ZenonT(60) DEF Handler, Steps
    <2>5. proc[h].pc \notin Pulling
      BY DEF OpenConv, At, Pulling
    <2>. QED  BY <1>4, <2>1, <2>2, <2>3, <2>4, <2>5 DEF Fit, Pulling, Early, Unresolved
  <1>6. HandlersFit'
    BY <1>3, <1>4, <1>5, FitStep DEF Typed
  <1>. QED  BY <1>1, <1>2, <1>6 DEF Typed

LEMMA FoundTyped ==
    ASSUME Typed, NEW h \in Handlers, NEW c \in DOMAIN convs, Found(h, c)
    PROVE  Typed'
PROOF
  <1> DEFINE r == IF proc[h].copy.conv = c THEN Resolved(h, c)
                   ELSE [Resolved(h, c) EXCEPT !.pc = "attach"]
  <1>1. TablesOK'
    BY Own DEF Typed, TablesOK, Found, world, tables, observers, marks
  <1>2. ObserversOK'
    BY DEF Typed, ObserversOK, Found, observers, marks
  <1>3. proc' = [proc EXCEPT ![h] = r]
    BY DEF Found
  <1>4. /\ Len(sessions) \in Nat /\ Len(convs) \in Nat /\ Len(rows) \in Nat
        /\ Len(sessions') \in Nat /\ Len(convs') \in Nat /\ Len(rows') \in Nat
        /\ Len(sessions) <= Len(sessions') /\ Len(convs) <= Len(convs') /\ Len(rows) <= Len(rows')
    BY <1>1, Own DEF Typed, TablesOK, Found, tables, marks
  <1>5. Fit(r, Len(sessions'), Len(convs'), Len(rows'))
    <2>1. Fit(proc[h], Len(sessions'), Len(convs'), Len(rows'))
      BY <1>4, FitGrows DEF Typed, HandlersFit
    <2> DEFINE mode == IF HumanOwns(c) THEN "off" ELSE ResolveMode(proc[h].copy.session)
    <2>2. proc[h].copy.session # 0 /\ mode \in Modes /\ proc[h].pc \notin Pulling
      BY Own, OwnSession, SMTT(30) DEF Found, At, Early, Pulling, Modes
    <2>3. HumanOwns(c) \in BOOLEAN /\ convs[c].escalated \in BOOLEAN /\ c \in 1..Len(convs) /\ c \in Nat
      <3>1. convs \in Seq(Conv)
        BY DEF Typed, TablesOK, marks
      <3>2. convs[c] \in Conv /\ c \in 1..Len(convs) /\ c \in Nat
        BY <3>1
      <3>3. convs[c].escalated \in BOOLEAN /\ convs[c].agent \in BOOLEAN
        BY <3>2 DEF Conv
      <3>4. HumanOwns(c) \in BOOLEAN
        BY <3>3 DEF HumanOwns
      <3>. QED  BY <3>2, <3>3, <3>4
    <2>4. NextStep(h, mode) \in {"store", "notice", "gate"}
      BY NextStepFacts
    <2>5. Resolved(h, c) =
             [proc[h] EXCEPT !.conv = c, !.human = HumanOwns(c), !.queued = convs[c].escalated,
                             !.mode = mode, !.since = Len(rows), !.pc = NextStep(h, mode)]
      BY DEF Resolved
    <2> HIDE DEF mode
    <2>6. r \in Handler /\ r.copy = proc[h].copy /\ r.pc \in {"attach", "store", "notice", "gate"}
          /\ r.conv = c /\ r.batch = proc[h].batch /\ r.since = Len(rows)
      <3>1. Resolved(h, c) \in Handler /\ Resolved(h, c).copy = proc[h].copy
            /\ Resolved(h, c).pc \in {"store", "notice", "gate"}
            /\ Resolved(h, c).conv = c /\ Resolved(h, c).batch = proc[h].batch
            /\ Resolved(h, c).since = Len(rows)
        BY <2>2, <2>3, <2>4, <2>5, Own, ZenonT(60) DEF Handler, Steps
      <3>. QED  BY <3>1 DEF Handler, Steps
    <2>7. Len(convs') = Len(convs) /\ Len(rows') = Len(rows)
      BY DEF Found, tables, marks
    <2> HIDE DEF r
    <2>. QED  BY <1>4, <2>1, <2>2, <2>3, <2>6, <2>7 DEF Fit, Pulling, Early, Unresolved
  <1>6. HandlersFit'
    BY <1>3, <1>4, <1>5, FitStep DEF Typed
  <1>. QED  BY <1>1, <1>2, <1>6 DEF Typed

\* What letting a message in does to the tables of rows and to the handler.
LEMMA LetInFits ==
    ASSUME Typed, NEW h \in Handlers, NEW c \in Nat \ {0}, NEW owner \in {"bot", "queue", "human"},
           LetIn(h, c, owner), Len(convs') \in Nat, Len(convs) <= Len(convs'), c <= Len(convs')
    PROVE  rows' \in Seq(Row) /\ HandlersFit' /\ stray' \subseteq Msgs
PROOF
  <1> DEFINE r == [proc[h] EXCEPT !.pc = "think", !.turn = c, !.granted = version, !.owner = owner]
  <1>0. proc[h].pc = "gate" /\ Msg(h) \in Msgs /\ MaxMsgs \in Nat
    BY HeadIsMsg, SetupFacts DEF Typed, LetIn, At, Ingesting
  <1>1. UserRow(c, Msg(h)) \in Row
    BY <1>0 DEF UserRow, Row, Msgs, MsgOrNone
  <1>2. rows' \in Seq(Row) /\ Len(rows') = Len(rows) + 1
    BY <1>1 DEF Typed, TablesOK, LetIn, marks
  <1>3. proc' = [proc EXCEPT ![h] = r] /\ sessions' = sessions
    BY DEF LetIn
  <1>4. /\ Len(sessions) \in Nat /\ Len(convs) \in Nat /\ Len(rows) \in Nat
        /\ Len(sessions') \in Nat /\ Len(convs') \in Nat /\ Len(rows') \in Nat
        /\ Len(sessions) <= Len(sessions') /\ Len(convs) <= Len(convs') /\ Len(rows) <= Len(rows')
    BY <1>2, <1>3, Own
  <1>5. Fit(r, Len(sessions'), Len(convs'), Len(rows'))
    <2>1. Fit(proc[h], Len(sessions'), Len(convs'), Len(rows'))
      BY <1>4, FitGrows DEF Typed, HandlersFit
    <2>2. version \in Nat
      BY DEF Typed, TablesOK, marks
    <2>3. r \in Handler /\ r.copy = proc[h].copy /\ r.pc = "think" /\ r.conv = proc[h].conv
          /\ r.batch = proc[h].batch /\ r.since = proc[h].since /\ r.turn = c
      BY <2>2, Own, ZenonT(60) DEF Handler, Steps
    <2> HIDE DEF r
    <2>. QED  BY <1>0, <1>4, <2>1, <2>3 DEF Fit, Pulling, Early, Unresolved
  <1>6. HandlersFit'
    BY <1>3, <1>4, <1>5, FitStep DEF Typed
  <1>7. stray' \subseteq Msgs
    BY <1>0 DEF LetIn, Typed, ObserversOK
  <1>. QED  BY <1>2, <1>6, <1>7

LEMMA EnterTyped ==
    ASSUME Typed, NEW h \in Handlers, NEW c \in DOMAIN convs, Enter(h, c)
    PROVE  Typed'
PROOF
  <1>1. PICK owner \in {"bot", "queue", "human"} : LetIn(h, c, owner)
    BY DEF Enter
  <1>2. c \in Nat \ {0} /\ Len(convs') \in Nat /\ Len(convs) <= Len(convs') /\ c <= Len(convs')
    BY Own DEF Enter, Typed, TablesOK, marks
  <1>3. rows' \in Seq(Row) /\ HandlersFit' /\ stray' \subseteq Msgs
    BY <1>1, <1>2, LetInFits
  <1>4. TablesOK'
    BY <1>1, <1>3 DEF Typed, TablesOK, Enter, LetIn, world, marks
  <1>5. ObserversOK'
    BY <1>1, <1>3 DEF Typed, ObserversOK, LetIn
  <1>. QED  BY <1>3, <1>4, <1>5 DEF Typed

LEMMA EnterNewTyped ==
    ASSUME Typed, NEW h \in Handlers, EnterNew(h)
    PROVE  Typed'
PROOF
  <1>1. LetIn(h, Len(convs) + 1, "bot")
    BY DEF EnterNew
  <1>2. /\ convs' \in Seq(Conv) /\ Len(convs') = Len(convs) + 1
        /\ paged' \in Seq(Nat) /\ Len(paged') = Len(convs')
    BY Own, ConvsGrow DEF Typed, EnterNew, Thread
  <1>3. rows' \in Seq(Row) /\ HandlersFit' /\ stray' \subseteq Msgs
    BY <1>1, <1>2, Own, LetInFits
  <1>4. TablesOK'
    BY <1>1, <1>2, <1>3 DEF Typed, TablesOK, LetIn, world, marks
  <1>5. ObserversOK'
    BY <1>1, <1>3 DEF Typed, ObserversOK, LetIn
  <1>. QED  BY <1>3, <1>4, <1>5 DEF Typed

LEMMA DeliverTyped ==
    ASSUME Typed, NEW h \in Handlers, Deliver(h)
    PROVE  Typed'
PROOF
  <1>0. mark + 1 \in Msgs
    BY SetupFacts DEF Typed, TablesOK, Deliver, Msgs, MsgOrNone, marks
  <1>1. <<mark + 1>> \in Seq(Msgs) /\ mark' \in MsgOrNone
    BY <1>0, SetupFacts DEF Typed, Deliver, Msgs, MsgOrNone
  <1>2. TablesOK'
    BY <1>1 DEF Typed, TablesOK, Deliver, world, tables, marks
  <1>3. twinned' \subseteq Msgs /\ overlapped' \in BOOLEAN /\ HandlersFit'
    BY <1>1, <1>2, BeginKeepsFit DEF Deliver, tables, marks
  <1>4. ObserversOK'
    BY <1>3 DEF Typed, ObserversOK, Deliver
  <1>. QED  BY <1>2, <1>3, <1>4 DEF Typed

LEMMA CommitTyped ==
    ASSUME Typed, NEW h \in Handlers, Commit(h)
    PROVE  Typed'
PROOF
  <1> DEFINE r == [proc[h] EXCEPT !.pc = "handover"]
  <1>1. mark' \in MsgOrNone
    BY Own DEF Commit
  <1>2. TablesOK' /\ ObserversOK'
    BY <1>1 DEF Typed, TablesOK, ObserversOK, Commit, world, tables, observers, marks
  <1>3. proc' = [proc EXCEPT ![h] = r]
    BY DEF Commit, Goto
  <1>4. /\ Len(sessions) \in Nat /\ Len(convs) \in Nat /\ Len(rows) \in Nat
        /\ Len(sessions') \in Nat /\ Len(convs') \in Nat /\ Len(rows') \in Nat
        /\ Len(sessions) <= Len(sessions') /\ Len(convs) <= Len(convs') /\ Len(rows) <= Len(rows')
    BY <1>2, Own DEF Typed, TablesOK, Commit, tables
  <1>5. Fit(r, Len(sessions'), Len(convs'), Len(rows'))
    <2>1. Fit(proc[h], Len(sessions'), Len(convs'), Len(rows'))
      BY <1>4, FitGrows DEF Typed, HandlersFit
    <2>2. r \in Handler
      <3>1. proc[h] \in Handler /\ "handover" \in Steps
        BY Own DEF Steps
      <3>. QED  BY <3>1 DEF Handler
    <2>. QED  BY <2>1, <2>2, Own DEF Fit, Pulling, Early, Unresolved, Handler
  <1>6. HandlersFit'
    BY <1>3, <1>4, <1>5, FitStep DEF Typed
  <1>. QED  BY <1>2, <1>6 DEF Typed

LEMMA HandOverTyped ==
    ASSUME Typed, NEW h \in Handlers, HandOver(h)
    PROVE  Typed'
PROOF
  <1>1. proc[h].batch \in Seq(Msgs)
    BY Own
  <1>2. TablesOK'
    BY DEF Typed, TablesOK, HandOver, world, tables, marks
  <1>3. twinned' \subseteq Msgs /\ overlapped' \in BOOLEAN /\ HandlersFit'
    BY <1>1, <1>2, BeginKeepsFit DEF HandOver, tables
  <1>4. ObserversOK'
    BY <1>3 DEF Typed, ObserversOK, HandOver
  <1>. QED  BY <1>2, <1>3, <1>4 DEF Typed

LEMMA PullFailsTyped ==
    ASSUME Typed, NEW h \in Handlers, PullFails(h)
    PROVE  Typed'
PROOF
  <1>1. TablesOK' /\ ObserversOK'
    BY DEF Typed, TablesOK, ObserversOK, PullFails, Disturb, DroppedBy, tables, observers
  <1>2. Idle \in Handler /\ Idle.pc = "idle" /\ Idle.copy = NoThread /\ Idle.since = 0
    BY IdleIsHandler, IngestAssumption DEF Idle
  <1>3. /\ Len(sessions) \in Nat /\ Len(convs) \in Nat /\ Len(rows) \in Nat
        /\ Len(sessions') \in Nat /\ Len(convs') \in Nat /\ Len(rows') \in Nat
        /\ Len(sessions) <= Len(sessions') /\ Len(convs) <= Len(convs') /\ Len(rows) <= Len(rows')
    BY DEF Typed, TablesOK, PullFails, tables
  <1>4. Fit(Idle, Len(sessions'), Len(convs'), Len(rows'))
    BY <1>2, <1>3, NoThreadOK DEF Fit, Pulling, Early, Unresolved, Typed
  <1>5. HandlersFit'
    BY <1>3, <1>4, FitStep DEF PullFails, Typed
  <1>. QED  BY <1>1, <1>5 DEF Typed

LEMMA RedeliverTyped ==
    ASSUME Typed, NEW h \in Handlers, Redeliver(h)
    PROVE  Typed'
PROOF
  <1>1. PICK m \in 1..mark : Begin(h, <<m>>)
    BY DEF Redeliver
  <1>2. <<m>> \in Seq(Msgs)
    <2>1. m \in Msgs
      BY SetupFacts DEF Typed, TablesOK, Msgs, MsgOrNone, marks
    <2>. QED  BY <2>1
  <1>3. TablesOK'
    BY DEF Typed, TablesOK, Redeliver, Disturb, tables, marks
  <1>4. twinned' \subseteq Msgs /\ overlapped' \in BOOLEAN /\ HandlersFit'
    BY <1>1, <1>2, <1>3, BeginKeepsFit DEF Redeliver, tables, marks
  <1>5. ObserversOK'
    BY <1>4 DEF Typed, ObserversOK, Redeliver
  <1>. QED  BY <1>3, <1>4, <1>5 DEF Typed

LEMMA FailTyped ==
    ASSUME Typed, NEW h \in Handlers, Fail(h)
    PROVE  Typed'
PROOF
  <1>1. Rest(h) \in Seq(Msgs) /\ Msg(h) \in Msgs
    BY HeadIsMsg DEF Typed, Fail
  <1>2. TablesOK'
    BY DEF Typed, TablesOK, Fail, Disturb, tables, marks
  <1>3. twinned' \subseteq Msgs /\ overlapped' \in BOOLEAN /\ HandlersFit'
    BY <1>1, <1>2, BeginKeepsFit DEF Fail, tables, marks
  <1>4. ObserversOK'
    BY <1>1, <1>3 DEF Typed, ObserversOK, Fail
  <1>. QED  BY <1>2, <1>3, <1>4 DEF Typed

LEMMA RestartTyped ==
    ASSUME Typed, Restart
    PROVE  Typed'
PROOF
  <1>1. TablesOK'
    BY DEF Typed, TablesOK, Restart, Disturb, DroppedBy, tables, marks
  <1>2. ObserversOK'
    BY DEF Typed, ObserversOK, Restart, InMemory
  <1>3. Idle \in Handler /\ Idle.pc = "idle" /\ Idle.copy = NoThread /\ Idle.since = 0
    BY IdleIsHandler, IngestAssumption DEF Idle
  <1>4. /\ Len(sessions') \in Nat /\ Len(convs') \in Nat /\ Len(rows') \in Nat
    BY <1>1 DEF TablesOK, marks
  <1>5. Fit(Idle, Len(sessions'), Len(convs'), Len(rows'))
    BY <1>3, <1>4, NoThreadOK DEF Fit, Pulling, Early, Unresolved, Typed
  <1>6. HandlersFit'
    BY <1>3, <1>5 DEF HandlersFit, Restart
  <1>. QED  BY <1>1, <1>2, <1>6 DEF Typed

\* Handlers that stand still stay fit as long as the tables do not shrink.
LEMMA StillFit ==
    ASSUME Typed, UNCHANGED <<proc, rows>>, Len(sessions') = Len(sessions), Len(convs') = Len(convs)
    PROVE  HandlersFit'
  BY DEF Typed, HandlersFit

LEMMA OutsideTyped ==
    ASSUME Typed,
           \/ Write \/ NewVersion
           \/ \E c \in DOMAIN convs : Take(c) \/ HandBack(c) \/ End(c)
           \/ \E s \in DOMAIN sessions : Override(s)
    PROVE  Typed'
PROOF
  <1>1. CASE Write
    <2>1. TablesOK'
      BY <1>1, SetupFacts DEF Typed, TablesOK, Write, tables, observers, MsgOrNone, marks
    <2>2. ObserversOK' /\ HandlersFit'
      BY <1>1, StillFit DEF Typed, ObserversOK, Write, tables, observers, marks
    <2>. QED  BY <2>1, <2>2 DEF Typed
  <1>2. CASE NewVersion
    <2>1. TablesOK'
      BY <1>2 DEF Typed, TablesOK, NewVersion, Disturb, tables, observers, marks
    <2>2. ObserversOK' /\ HandlersFit'
      BY <1>2, StillFit DEF Typed, ObserversOK, NewVersion, Disturb, tables, observers, marks
    <2>. QED  BY <2>1, <2>2 DEF Typed
  <1>3. ASSUME NEW c \in DOMAIN convs, Take(c) \/ HandBack(c) \/ End(c)
        PROVE  Typed'
    <2>1. convs' \in Seq(Conv) /\ Len(convs') = Len(convs)
      <3>1. PICK status \in Open \cup {"ended"}, agent \in BOOLEAN : SetConv(c, status, agent)
        <4>1. convs[c].agent \in BOOLEAN
          <5>1. convs \in Seq(Conv)
            BY DEF Typed, TablesOK, marks
          <5>2. convs[c] \in Conv
            BY <5>1
          <5>. QED  BY <5>2 DEF Conv
        <4>2. CASE Take(c)
          BY <4>2 DEF Take, Open
        <4>3. CASE HandBack(c)
          BY <4>3 DEF HandBack, Open
        <4>4. CASE End(c)
          BY <4>1, <4>4 DEF End
        <4>. QED  BY <1>3, <4>2, <4>3, <4>4
      <3>. QED  BY <3>1, SetConvTyped DEF Typed
    <2>5. /\ UNCHANGED <<setup, version, written, marks, thread, sessions, rows, mapped, drafts, paged>>
          /\ disturbed' = disturbed + 1
      BY <1>3 DEF Take, HandBack, End, Disturb, observers, marks
    <2>2. TablesOK'
      BY <2>1, <2>5 DEF Typed, TablesOK, marks
    <2>3. c \in Nat
      BY DEF Typed, TablesOK, marks
    <2>4. ObserversOK' /\ HandlersFit'
      BY <1>3, <2>1, <2>3, StillFit DEF Typed, ObserversOK, Take, HandBack, End, Disturb, observers, marks
    <2>. QED  BY <2>2, <2>4 DEF Typed
  <1>4. ASSUME NEW s \in DOMAIN sessions, Override(s)
        PROVE  Typed'
    <2>1. PICK mode \in Modes : sessions' = [sessions EXCEPT ![s].mode = mode]
      BY <1>4 DEF Override
    <2>2. [sessions[s] EXCEPT !.mode = mode] \in Session
      <3>1. sessions \in Seq(Session)
        BY DEF Typed, TablesOK, marks
      <3>2. sessions[s] \in Session
        BY <3>1
      <3>. QED  BY <3>2 DEF Session
    <2>3. sessions' \in Seq(Session) /\ Len(sessions') = Len(sessions)
      BY <2>1, <2>2 DEF Typed, TablesOK, marks
    <2>4. TablesOK'
      BY <1>4, <2>3 DEF Typed, TablesOK, Override, Disturb, observers, marks
    <2>5. ObserversOK' /\ HandlersFit'
      BY <1>4, <2>3, StillFit DEF Typed, ObserversOK, Override, Disturb, observers, marks
    <2>. QED  BY <2>4, <2>5 DEF Typed
  <1>. QED  BY <1>1, <1>2, <1>3, <1>4

LEMMA InitTyped == Init => Typed
PROOF
  <1> SUFFICES ASSUME Init PROVE Typed
    OBVIOUS
  <1>1. MaxMsgs \in Nat /\ 0 \in MsgOrNone
    BY IngestAssumption DEF MsgOrNone
  <1>2. TablesOK
    <2>1. NoThread \in Thread /\ NoThread.session = 0
      BY <1>1 DEF NoThread, Thread
    <2>. QED  BY <1>1, <2>1 DEF Init, TablesOK, marks
  <1>3. ObserversOK
    BY DEF Init, ObserversOK
  <1>4. Idle \in Handler /\ Idle.pc = "idle" /\ Idle.copy = NoThread /\ Idle.since = 0
    BY IdleIsHandler, IngestAssumption DEF Idle
  <1>5. Fit(Idle, 0, 0, 0)
    BY <1>2, <1>4, NoThreadOK DEF Fit, Pulling, Early, Unresolved
  <1>6. HandlersFit
    BY <1>4, <1>5 DEF Init, HandlersFit
  <1>. QED  BY <1>2, <1>3, <1>6 DEF Typed

LEMMA NextTyped == Typed /\ [Next]_vars => Typed'
PROOF
  <1> SUFFICES ASSUME Typed, [Next]_vars PROVE Typed'
    OBVIOUS
  <1>1. ASSUME NEW h \in setup.handlers, Collect(h)
        PROVE  Typed'
    BY <1>1, SetupFacts, DeliverTyped, PullTyped, SearchTyped, ListTyped DEF Collect, Typed
  <1>2. ASSUME NEW h \in setup.handlers, Proceed(h)
        PROVE  Typed'
    <2> h \in Handlers
      BY SetupFacts DEF Typed
    <2>1. CASE Fetch(h) \/ Commit(h) \/ HandOver(h) \/ Skip(h) \/ Lookup(h) \/ SkipCreated(h) \/ Create(h)
      BY <2>1, FetchTyped, CommitTyped, HandOverTyped, SkipTyped, LookupTyped, SkipCreatedTyped, CreateTyped
    <2>2. CASE NewSession(h) \/ Bind(h) \/ NoneFound(h) \/ OpenConv(h) \/ Attach(h)
      BY <2>2, NewSessionTyped, BindTyped, NoneFoundTyped, OpenConvTyped, AttachTyped
    <2>3. CASE Notice(h) \/ Stamp(h) \/ Refuse(h) \/ EnterNew(h) \/ Silent(h)
      BY <2>3, NoticeTyped, StampTyped, RefuseTyped, EnterNewTyped, SilentTyped
    <2>4. CASE Answer(h) \/ Draft(h) \/ HandOff(h) \/ Store(h) \/ Page(h)
      BY <2>4, AnswerTyped, DraftTyped, HandOffTyped, StoreTyped, PageTyped
    <2>5. CASE NothingToMap(h) \/ Cursor(h)
      BY <2>5, NothingToMapTyped, CursorTyped
    <2>6. CASE \E c \in DOMAIN convs : Found(h, c) \/ Enter(h, c)
      BY <2>6, FoundTyped, EnterTyped
    <2>7. CASE \E i \in DOMAIN rows : Map(h, i)
      BY <2>7, MapTyped
    <2>8. CASE \E m \in proc[h].todo : Read(h, m)
      BY <2>8, ReadTyped
    <2>. QED  BY <1>2, <2>1, <2>2, <2>3, <2>4, <2>5, <2>6, <2>7, <2>8 DEF Proceed
  <1>3. ASSUME NEW h \in setup.handlers,
               \/ Fail(h) \/ PageFails(h) \/ MapFails(h) \/ Redeliver(h) \/ PullFails(h)
               \/ \E m \in proc[h].todo : FlagFails(h, m)
        PROVE  Typed'
    BY <1>3, SetupFacts, FailTyped, PageFailsTyped, MapFailsTyped, RedeliverTyped, PullFailsTyped,
       ReadTyped DEF Typed
  <1>4. CASE UNCHANGED vars
    BY <1>4 DEF Typed, TablesOK, ObserversOK, HandlersFit, vars, marks
  <1>. QED  BY <1>1, <1>2, <1>3, <1>4, RestartTyped, OutsideTyped DEF Next, Outside

\* The tables, the observers and every handler's record keep their types, for
\* any number of handlers, messages and situations.
THEOREM TypeCorrect == Spec => []TypeOK
PROOF
  <1>1. Spec => []Typed
    BY InitTyped, NextTyped, PTL DEF Spec
  <1>. QED  BY <1>1, TypedImpliesTypeOK, PTL

(***************************************************************************)
(* Within a pull a handler changes nothing but its own record and the       *)
(* source's marks.                                                          *)
(***************************************************************************)
Pulls(h) ==
    \/ Search(h) \/ Commit(h) \/ PullFails(h)
    \/ \E m \in proc[h].todo : Read(h, m) \/ FlagFails(h, m)

LEMMA FetchedRecord ==
    ASSUME Typed, NEW h \in Handlers, NEW m \in proc[h].todo, Fetched(h, m)
    PROVE  \E r \in Handler : /\ proc' = [proc EXCEPT ![h] = r]
                              /\ r.pc \in {"read", "handover"} /\ r.copy = proc[h].copy
                              /\ r.batch = Append(proc[h].batch, m)
                              /\ r.listed = proc[h].listed
PROOF
  <1> DEFINE pc == IF proc[h].todo = {m} THEN "handover" ELSE "read"
             r == [proc[h] EXCEPT !.pc = pc, !.todo = proc[h].todo \ {m},
                                  !.batch = Append(proc[h].batch, m)]
  <1>1. proc' = [proc EXCEPT ![h] = r]
    BY DEF Fetched
  <1>2. proc[h] \in Handler /\ proc[h].todo \subseteq Msgs /\ proc[h].batch \in Seq(Msgs)
    BY Own DEF Handler
  <1>3. /\ pc \in Steps /\ pc \in {"read", "handover"}
        /\ Append(proc[h].batch, m) \in Seq(Msgs) /\ proc[h].todo \ {m} \subseteq Msgs
    BY <1>2 DEF Steps
  <1> HIDE DEF pc
  <1>4. r \in Handler /\ r.pc = pc /\ r.copy = proc[h].copy /\ r.batch = Append(proc[h].batch, m)
        /\ r.listed = proc[h].listed
    BY <1>2, <1>3 DEF Handler
  <1> HIDE DEF r
  <1>. QED  BY <1>1, <1>3, <1>4

LEMMA PullsKeep ==
    ASSUME Typed, NEW h \in Handlers, Pulls(h)
    PROVE  /\ proc[h].pc \in Pulling
           /\ UNCHANGED <<setup, version, written, thread, sessions, convs, rows, mapped, drafts,
                          hurt, twinned, stray, refused, returned, paged, overlapped>>
PROOF
  <1>1. CASE Search(h) \/ Commit(h)
    BY <1>1 DEF Search, Commit, At, Pulling, world, tables, observers, marks
  <1>2. CASE PullFails(h)
    BY <1>2 DEF PullFails, Ingesting, Pulling, Disturb, tables, observers
  <1>3. CASE \E m \in proc[h].todo : Read(h, m) \/ FlagFails(h, m)
    BY <1>3 DEF Read, FlagFails, Fetched, At, Pulling, Disturb, world, tables, observers
  <1>. QED  BY <1>1, <1>2, <1>3 DEF Pulls

LEMMA PullsRecord ==
    ASSUME Typed, NEW h \in Handlers, Pulls(h)
    PROVE  \E r \in Handler : /\ proc' = [proc EXCEPT ![h] = r]
                              /\ r.pc \in {"idle", "read", "handover"}
                              /\ r.copy \in {proc[h].copy, NoThread}
PROOF
  <1>1. CASE Search(h)
    <2> DEFINE r == [proc[h] EXCEPT !.pc = "read", !.todo = Unseen]
    <2>1. proc' = [proc EXCEPT ![h] = r]
      BY <1>1 DEF Search
    <2>2. Unseen \subseteq Msgs /\ proc[h] \in Handler /\ "read" \in Steps
      BY Own, SetupFacts DEF Unseen, Typed, TablesOK, Msgs, MsgOrNone, Steps
    <2>3. r \in Handler /\ r.pc = "read" /\ r.copy = proc[h].copy
      BY <2>2 DEF Handler
    <2> HIDE DEF r
    <2>. QED  BY <2>1, <2>3
  <1>2. CASE Commit(h)
    <2> DEFINE r == [proc[h] EXCEPT !.pc = "handover"]
    <2>1. proc' = [proc EXCEPT ![h] = r]
      BY <1>2 DEF Commit, Goto
    <2>2. proc[h] \in Handler /\ "handover" \in Steps
      BY Own DEF Steps
    <2>3. r \in Handler /\ r.pc = "handover" /\ r.copy = proc[h].copy
      BY <2>2 DEF Handler
    <2> HIDE DEF r
    <2>. QED  BY <2>1, <2>3
  <1>3. CASE PullFails(h)
    BY <1>3, IdleIsHandler, IngestAssumption DEF PullFails, Idle
  <1>4. CASE \E m \in proc[h].todo : Read(h, m) \/ FlagFails(h, m)
    BY <1>4, FetchedRecord DEF Read, FlagFails
  <1>. QED  BY <1>1, <1>2, <1>3, <1>4 DEF Pulls

(***************************************************************************)
(* What was said stays said: messages are only added, and the notice        *)
(* version a session consented to never changes.                            *)
(***************************************************************************)
Kept ==
    /\ setup' = setup
    /\ \A j \in DOMAIN rows : j \in DOMAIN rows' /\ rows'[j] = rows[j]
    /\ \A s \in DOMAIN sessions : s \in DOMAIN sessions' /\ sessions'[s].version = sessions[s].version

LEMMA AppendKeeps ==
    ASSUME NEW T, NEW q \in Seq(T), NEW x \in T
    PROVE  /\ DOMAIN Append(q, x) = DOMAIN q \cup {Len(q) + 1}
           /\ \A j \in DOMAIN q : Append(q, x)[j] = q[j]
           /\ Append(q, x)[Len(q) + 1] = x
           /\ Len(q) + 1 \notin DOMAIN q
           /\ \A j \in DOMAIN q : j \in 1..Len(q)
           /\ Len(q) \in Nat
  OBVIOUS

(***************************************************************************)
(* The privacy notice comes first.                                          *)
(***************************************************************************)
Noticed(R, v) == \E j \in DOMAIN R : R[j].kind = "notice" /\ R[j].version = v

\* What a handler at work may rely on when there are the sessions S and the
\* messages R: the notice its copy of the room is stamped with was given, at the
\* gate that of its session, in its turn the one the gate passed.
Told(p, S, R) ==
    /\ p.copy.notice # 0 => Noticed(R, p.copy.notice)
    /\ p.pc = "stamp" \/ (setup.notice /\ p.pc = "gate") => Noticed(R, S[p.copy.session].version)
    /\ setup.notice /\ p.pc = "think" => Noticed(R, p.granted)

NoticeInv ==
    /\ version # 0
    /\ \A s \in DOMAIN sessions : sessions[s].version # 0
    /\ thread.notice # 0 => Noticed(rows, thread.notice)
    /\ \A h \in Handlers : Told(proc[h], sessions, rows)
    /\ NoticeBeforeAnswer

LEMMA NoticedStays == ASSUME Kept, NEW v, Noticed(rows, v) PROVE Noticed(rows', v)
  BY DEF Kept, Noticed

LEMMA ToldStays ==
    ASSUME Typed, Kept, NEW h \in Handlers, Told(proc[h], sessions, rows)
    PROVE  Told(proc[h], sessions', rows')
PROOF
  <1>1. proc[h].copy.notice # 0 => Noticed(rows', proc[h].copy.notice)
    BY NoticedStays DEF Told
  <1>2. setup.notice /\ proc[h].pc = "think" => Noticed(rows', proc[h].granted)
    BY NoticedStays DEF Told
  <1>3. ASSUME proc[h].pc = "stamp" \/ (setup.notice /\ proc[h].pc = "gate")
        PROVE  Noticed(rows', sessions'[proc[h].copy.session].version)
    <2>1. proc[h].copy.session \in DOMAIN sessions
      <3>1. proc[h].pc \notin Early
        BY <1>3 DEF Early, Pulling
      <3>2. proc[h].copy.session \in 1..Len(sessions)
        BY <3>1, Own
      <3>. QED  BY <3>2 DEF Typed, TablesOK, marks
    <2>2. Noticed(rows, sessions[proc[h].copy.session].version)
      BY <1>3 DEF Told
    <2>3. Noticed(rows', sessions[proc[h].copy.session].version)
      BY <2>2, NoticedStays
    <2>. QED  BY <2>1, <2>3 DEF Kept
  <1>. QED  BY <1>1, <1>2, <1>3 DEF Told

\* An answer that was covered by a notice is covered for good.
LEMMA CoveredStays ==
    ASSUME Typed, Kept, NoticeBeforeAnswer,
           \A i \in DOMAIN rows' \ DOMAIN rows :
              setup.notice /\ rows'[i].kind = "answer" =>
                \E j \in 1..i - 1 : rows'[j].kind = "notice" /\ rows'[j].version = rows'[i].version
    PROVE  NoticeBeforeAnswer'
PROOF
  <1> SUFFICES ASSUME setup.notice, NEW i \in DOMAIN rows', rows'[i].kind = "answer"
               PROVE  \E j \in 1..i - 1 : rows'[j].kind = "notice" /\ rows'[j].version = rows'[i].version
    BY DEF NoticeBeforeAnswer, Kept
  <1>1. CASE i \in DOMAIN rows
    <2>1. PICK j \in 1..i - 1 : rows[j].kind = "notice" /\ rows[j].version = rows[i].version
      BY <1>1 DEF NoticeBeforeAnswer, Kept
    <2>2. j \in DOMAIN rows
      BY <1>1, <2>1 DEF Typed, TablesOK, marks
    <2>. QED  BY <1>1, <2>1, <2>2 DEF Kept
  <1>. QED  BY <1>1

\* A step of one handler: only what that handler becomes, the room's stamp, new
\* sessions and new messages need a look.
LEMMA NoticeStep ==
    ASSUME Typed, NoticeInv, Kept, NEW h \in Handlers, NEW r,
           proc' = [proc EXCEPT ![h] = r], Told(r, sessions', rows'),
           version' = version,
           \A s \in DOMAIN sessions' \ DOMAIN sessions : sessions'[s].version # 0,
           thread'.notice # 0 => Noticed(rows', thread'.notice),
           \A i \in DOMAIN rows' \ DOMAIN rows :
              setup.notice /\ rows'[i].kind = "answer" =>
                \E j \in 1..i - 1 : rows'[j].kind = "notice" /\ rows'[j].version = rows'[i].version
    PROVE  NoticeInv'
PROOF
  <1>1. version' # 0
    BY DEF NoticeInv
  <1>2. \A s \in DOMAIN sessions' : sessions'[s].version # 0
    BY DEF NoticeInv, Kept
  <1>3. ASSUME NEW g \in Handlers
        PROVE  Told(proc'[g], sessions', rows')
    <2>1. CASE g = h
      BY <2>1 DEF Typed, HandlersFit
    <2>2. CASE g # h
      BY <2>2, ToldStays DEF NoticeInv, Typed, HandlersFit
    <2>. QED  BY <2>1, <2>2
  <1>4. \A g \in Handlers : Told(proc[g], sessions, rows)'
    BY <1>3 DEF Told, Kept
  <1>5. NoticeBeforeAnswer'
    BY CoveredStays DEF NoticeInv
  <1>6. thread'.notice # 0 => Noticed(rows, thread.notice)'
    BY DEF Noticed
  <1>. QED  BY <1>1, <1>2, <1>4, <1>5, <1>6 DEF NoticeInv

\* A step that says nothing new and leaves its handler with a copy of the room
\* it had, of the room as it is, or of none, and short of the gate.
LEMMA QuietStep ==
    ASSUME Typed, NoticeInv, Kept, NEW h \in Handlers, NEW r,
           proc' = [proc EXCEPT ![h] = r],
           r.pc \notin {"stamp", "gate", "think"},
           r.copy.notice \in {0, thread.notice, proc[h].copy.notice},
           version' = version, thread'.notice = thread.notice,
           \A s \in DOMAIN sessions' \ DOMAIN sessions : sessions'[s].version # 0,
           \A i \in DOMAIN rows' \ DOMAIN rows : rows'[i].kind # "answer"
    PROVE  NoticeInv'
PROOF
  <1>1. Told(r, sessions', rows')
    <2>1. r.copy.notice # 0 => Noticed(rows, r.copy.notice)
      BY DEF NoticeInv, Told
    <2>. QED  BY <2>1, NoticedStays DEF Told
  <1>2. thread'.notice # 0 => Noticed(rows', thread'.notice)
    BY NoticedStays DEF NoticeInv
  <1>. QED  BY <1>1, <1>2, NoticeStep

\* The same when the tables of sessions and messages are left alone.
LEMMA QuietMove ==
    ASSUME Typed, NoticeInv, NEW h \in Handlers, NEW r,
           proc' = [proc EXCEPT ![h] = r],
           r.pc \notin {"stamp", "gate", "think"},
           r.copy.notice \in {0, thread.notice, proc[h].copy.notice},
           UNCHANGED <<setup, version, sessions, rows>>, thread'.notice = thread.notice
    PROVE  NoticeInv'
PROOF
  <1>1. Kept
    BY DEF Kept
  <1>. QED  BY <1>1, QuietStep

LEMMA QuietGoto ==
    ASSUME Typed, NoticeInv, NEW h \in Handlers, NEW pc, Goto(h, pc),
           pc \notin {"stamp", "gate", "think"},
           UNCHANGED <<setup, version, sessions, rows>>, thread'.notice = thread.notice
    PROVE  NoticeInv'
PROOF
  <1> DEFINE r == [proc[h] EXCEPT !.pc = pc]
  <1>1. proc' = [proc EXCEPT ![h] = r] /\ r.pc = pc /\ r.copy = proc[h].copy
    BY Own DEF Goto, Handler
  <1> HIDE DEF r
  <1>. QED  BY <1>1, QuietMove

LEMMA QuietBegin ==
    ASSUME Typed, NoticeInv, NEW h \in Handlers, NEW b, Begin(h, b),
           UNCHANGED <<setup, version, sessions, rows>>, thread'.notice = thread.notice
    PROVE  NoticeInv'
PROOF
  <1> DEFINE r == IF b = <<>> THEN Idle ELSE [Idle EXCEPT !.pc = "lookup", !.batch = b]
  <1>1. proc' = [proc EXCEPT ![h] = r] /\ r.pc \in {"idle", "lookup"} /\ r.copy.notice = 0
    BY DEF Begin, Idle, NoThread
  <1> HIDE DEF r
  <1>. QED  BY <1>1, QuietMove

\* Taking messages from the source, and the steps of ingestOne that say nothing.
LEMMA QuietCollect ==
    ASSUME Typed, NoticeInv, NEW h \in Handlers,
           \/ Collect(h) \/ Fetch(h) \/ Pulls(h) \/ HandOver(h) \/ Skip(h) \/ SkipCreated(h)
           \/ Cursor(h) \/ Fail(h) \/ Redeliver(h)
    PROVE  NoticeInv'
PROOF
  <1> USE DEF world, tables, observers, marks
  <1>1. CASE Deliver(h)
    BY <1>1, QuietBegin DEF Deliver
  <1>2. CASE Pull(h)
    <2> DEFINE r == [proc[h] EXCEPT !.pc = "commit", !.listed = written, !.batch = Run(mark + 1, written)]
    <2>1. proc' = [proc EXCEPT ![h] = r] /\ r.pc = "commit" /\ r.copy = proc[h].copy
      BY <1>2, Own DEF Pull, Handler
    <2> HIDE DEF r
    <2>. QED  BY <1>2, <2>1, QuietMove DEF Pull
  <1>3. CASE List(h)
    <2> DEFINE r == [proc[h] EXCEPT !.pc = "fetch", !.listed = written, !.copy = thread]
    <2>1. proc' = [proc EXCEPT ![h] = r] /\ r.pc = "fetch" /\ r.copy = thread
      BY <1>3, Own DEF List, Handler
    <2> HIDE DEF r
    <2>. QED  BY <1>3, <2>1, QuietMove DEF List
  <1>4. CASE Fetch(h)
    <2> DEFINE r == [proc[h] EXCEPT !.pc = "commit", !.copy = NoThread,
                                    !.batch = Run(proc[h].copy.cursor + 1, written)]
    <2>1. proc' = [proc EXCEPT ![h] = r] /\ r.pc = "commit" /\ r.copy.notice = 0
      BY <1>4, Own DEF Fetch, Handler, NoThread
    <2> HIDE DEF r
    <2>. QED  BY <1>4, <2>1, QuietMove DEF Fetch
  <1>5. CASE HandOver(h)
    BY <1>5, QuietBegin DEF HandOver
  <1>11. CASE Pulls(h)
    <2>1. PICK r \in Handler : /\ proc' = [proc EXCEPT ![h] = r]
                              /\ r.pc \in {"idle", "read", "handover"}
                              /\ r.copy \in {proc[h].copy, NoThread}
      BY <1>11, PullsRecord
    <2>2. r.copy.notice \in {0, proc[h].copy.notice}
      BY <2>1 DEF NoThread
    <2>. QED  BY <1>11, <2>1, <2>2, PullsKeep, QuietMove
  <1>6. CASE Skip(h)
    BY <1>6, QuietBegin DEF Skip
  <1>7. CASE SkipCreated(h)
    BY <1>7, QuietBegin DEF SkipCreated
  <1>8. CASE Cursor(h)
    <2>1. thread'.notice = thread.notice
      BY <1>8 DEF Cursor, Typed, TablesOK, Thread, marks
    <2>. QED  BY <1>8, <2>1, QuietBegin DEF Cursor
  <1>9. CASE Fail(h)
    BY <1>9, QuietBegin DEF Fail, Disturb
  <1>10. CASE Redeliver(h)
    <2>1. PICK m \in 1..mark : Begin(h, <<m>>)
      BY <1>10 DEF Redeliver
    <2>. QED  BY <1>10, <2>1, QuietBegin DEF Redeliver, Disturb
  <1>. QED  BY <1>1, <1>2, <1>3, <1>4, <1>5, <1>6, <1>7, <1>8, <1>9, <1>10, <1>11 DEF Collect, Pulls

LEMMA QuietLookups ==
    ASSUME Typed, NoticeInv, NEW h \in Handlers,
           Lookup(h) \/ Create(h) \/ NewSession(h) \/ OpenConv(h)
    PROVE  NoticeInv'
PROOF
  <1> USE DEF world, tables, observers, marks
  <1>1. CASE Lookup(h)
    <2> DEFINE pc == IF thread.exists THEN AfterSeen(thread) ELSE "create"
    <2> DEFINE r == [proc[h] EXCEPT !.pc = pc, !.copy = thread]
    <2>1. pc \notin {"stamp", "gate", "think"}
      BY DEF AfterSeen
    <2>2. proc' = [proc EXCEPT ![h] = r]
      BY <1>1 DEF Lookup
    <2> HIDE DEF pc
    <2>3. r.pc = pc /\ r.copy = thread
      BY Own DEF Handler
    <2> HIDE DEF r
    <2>. QED  BY <1>1, <2>1, <2>2, <2>3, QuietMove DEF Lookup
  <1>2. CASE Create(h)
    <2> DEFINE r == [proc[h] EXCEPT !.pc = AfterSeen(thread'), !.copy = thread']
    <2>1. thread'.notice \in {0, thread.notice}
      BY <1>2 DEF Create, NoThread
    <2>2. proc' = [proc EXCEPT ![h] = r] /\ r.pc \in {"session", "converse"} /\ r.copy = thread'
      <3>1. AfterSeen(thread') \in {"session", "converse"}
        BY DEF AfterSeen
      <3>. QED  BY <1>2, <3>1, Own DEF Create, Handler
    <2> HIDE DEF r
    <2>3. Kept
      BY <1>2 DEF Create, Kept
    <2>4. Told(r, sessions', rows')
      <3>1. r.copy.notice # 0 => Noticed(rows, r.copy.notice)
        BY <2>1, <2>2 DEF NoticeInv
      <3>. QED  BY <2>2, <2>3, <3>1, NoticedStays DEF Told
    <2>5. thread'.notice # 0 => Noticed(rows', thread'.notice)
      BY <2>1, <2>3, NoticedStays DEF NoticeInv
    <2>. QED  BY <1>2, <2>2, <2>3, <2>4, <2>5, NoticeStep DEF Create
  <1>3. CASE NewSession(h)
    <2> DEFINE t == [proc[h].copy EXCEPT !.session = Len(sessions) + 1]
    <2> DEFINE r == [proc[h] EXCEPT !.pc = "bind", !.copy.session = Len(sessions) + 1]
    <2>1. proc' = [proc EXCEPT ![h] = r] /\ r.pc = "bind" /\ r.copy.notice = proc[h].copy.notice
      BY <1>3, Own DEF NewSession, Handler, Thread
    <2> HIDE DEF r
    <2> DEFINE x == [version |-> version, mode |-> "inherit"]
    <2>2. sessions' = Append(sessions, x) /\ x \in Session /\ sessions \in Seq(Session) /\ x.version # 0
      BY <1>3 DEF NewSession, Typed, TablesOK, Session, NoticeInv, marks
    <2> HIDE DEF x
    <2>3. Kept /\ \A s \in DOMAIN sessions' \ DOMAIN sessions : sessions'[s].version # 0
      BY <1>3, <2>2, AppendKeeps DEF NewSession, Kept
    <2>. QED  BY <1>3, <2>1, <2>3, QuietStep DEF NewSession
  <1>4. CASE OpenConv(h)
    <2> DEFINE r == [proc[h] EXCEPT !.pc = "attach", !.conv = Len(convs) + 1,
                       !.human = FALSE, !.queued = FALSE, !.since = Len(rows),
                       !.mode = ResolveMode(proc[h].copy.session)]
    <2>1. proc' = [proc EXCEPT ![h] = r] /\ r.pc = "attach" /\ r.copy = proc[h].copy
      BY <1>4, Own, ZenonT(60) DEF OpenConv, Handler
    <2> HIDE DEF r
    <2>. QED  BY <1>4, <2>1, QuietMove DEF OpenConv
  <1>. QED  BY <1>1, <1>2, <1>3, <1>4

LEMMA QuietTurns ==
    ASSUME Typed, NoticeInv, NEW h \in Handlers,
           \/ Bind(h) \/ NoneFound(h) \/ Refuse(h) \/ Silent(h) \/ Draft(h) \/ Page(h)
           \/ NothingToMap(h) \/ PageFails(h) \/ MapFails(h)
           \/ \E i \in DOMAIN rows : Map(h, i)
    PROVE  NoticeInv'
PROOF
  <1> USE DEF world, tables, observers, marks
  <1>1. CASE Bind(h)
    <2>1. thread'.notice = thread.notice
      BY <1>1 DEF Bind, Typed, TablesOK, Thread, marks
    <2>. QED  BY <1>1, <2>1, QuietGoto DEF Bind
  <1>2. CASE NoneFound(h)
    BY <1>2, QuietGoto DEF NoneFound
  <1>3. CASE Refuse(h)
    BY <1>3, QuietGoto DEF Refuse, AfterTurn
  <1>4. CASE Silent(h)
    BY <1>4, QuietGoto DEF Silent, AfterTurn
  <1>5. CASE Draft(h)
    BY <1>5, QuietGoto DEF Draft, AfterTurn
  <1>6. CASE Page(h)
    BY <1>6, QuietGoto DEF Page
  <1>7. CASE NothingToMap(h)
    BY <1>7, QuietGoto DEF NothingToMap
  <1>8. CASE PageFails(h)
    BY <1>8, QuietGoto DEF PageFails, Disturb
  <1>9. CASE MapFails(h)
    BY <1>9, QuietGoto DEF MapFails, Disturb
  <1>10. ASSUME NEW i \in DOMAIN rows, Map(h, i) PROVE NoticeInv'
    BY <1>10, QuietGoto DEF Map
  <1>. QED  BY <1>1, <1>2, <1>3, <1>4, <1>5, <1>6, <1>7, <1>8, <1>9, <1>10

\* A room that is stamped with its session's version goes on to the gate.
LEMMA GateFacts ==
    ASSUME NEW h \in Handlers, NEW mode, NextStep(h, mode) = "gate", setup.notice
    PROVE  proc[h].copy.notice = sessions[proc[h].copy.session].version
  BY DEF NextStep

LEMMA NoticeFound ==
    ASSUME Typed, NoticeInv, NEW h \in Handlers, NEW c \in DOMAIN convs, Found(h, c)
    PROVE  NoticeInv'
PROOF
  <1> DEFINE mode == IF HumanOwns(c) THEN "off" ELSE ResolveMode(proc[h].copy.session)
  <1> DEFINE q == [proc[h] EXCEPT !.conv = c, !.human = HumanOwns(c), !.queued = convs[c].escalated,
                                  !.mode = mode, !.since = Len(rows), !.pc = NextStep(h, mode)]
  <1> DEFINE r == IF proc[h].copy.conv = c THEN q ELSE [q EXCEPT !.pc = "attach"]
  <1>1. proc' = [proc EXCEPT ![h] = r]
    BY DEF Found, Resolved
  <1>2. r.copy = proc[h].copy /\ r.pc \in {"attach", NextStep(h, mode)} /\ r.pc \notin {"think", "stamp"}
    <2>1. NextStep(h, mode) \notin {"think", "stamp"}
      BY DEF NextStep
    <2> HIDE DEF mode
    <2>2. q.copy = proc[h].copy /\ q.pc = NextStep(h, mode) /\ [q EXCEPT !.pc = "attach"].copy = proc[h].copy
          /\ [q EXCEPT !.pc = "attach"].pc = "attach"
      BY Own DEF Handler
    <2>. QED  BY <2>1, <2>2
  <1> HIDE DEF r, q
  <1>3. Told(r, sessions, rows)
    <2>1. r.copy.notice # 0 => Noticed(rows, r.copy.notice)
      BY <1>2 DEF NoticeInv, Told
    <2>2. ASSUME setup.notice, r.pc = "gate"
          PROVE  Noticed(rows, sessions[r.copy.session].version)
      <3>1. proc[h].copy.notice = sessions[proc[h].copy.session].version
        BY <1>2, <2>2, GateFacts
      <3>2. proc[h].copy.session \in DOMAIN sessions
        <4>1. proc[h].pc \notin Early
          BY DEF Found, At, Early, Pulling
        <4>2. proc[h].copy.session \in 1..Len(sessions)
          BY <4>1, Own
        <4>. QED  BY <4>2 DEF Typed, TablesOK, marks
      <3>. QED  BY <1>2, <2>1, <3>1, <3>2 DEF NoticeInv
    <2>. QED  BY <1>2, <2>1, <2>2 DEF Told
  <1>4. UNCHANGED <<setup, version, thread, sessions, rows>>
    BY DEF Found, world, tables, marks
  <1>5. Kept
    BY <1>4 DEF Kept
  <1>6. thread'.notice # 0 => Noticed(rows', thread'.notice)
    BY <1>4 DEF NoticeInv
  <1>. QED  BY <1>1, <1>3, <1>4, <1>5, <1>6, NoticeStep

LEMMA NoticeAttach ==
    ASSUME Typed, NoticeInv, NEW h \in Handlers, Attach(h)
    PROVE  NoticeInv'
PROOF
  <1> DEFINE pc == NextStep(h, proc[h].mode)
  <1> DEFINE r == [proc[h] EXCEPT !.pc = pc]
  <1>0. pc \notin {"think", "stamp"}
    BY DEF NextStep
  <1>1. proc' = [proc EXCEPT ![h] = r]
    BY DEF Attach, Goto
  <1> HIDE DEF pc
  <1>2. r.copy = proc[h].copy /\ r.pc = pc
    BY Own DEF Handler
  <1> HIDE DEF r
  <1>3. Told(r, sessions, rows)
    <2>1. r.copy.notice # 0 => Noticed(rows, r.copy.notice)
      BY <1>2 DEF NoticeInv, Told
    <2>2. ASSUME setup.notice, r.pc = "gate"
          PROVE  Noticed(rows, sessions[r.copy.session].version)
      <3>1. proc[h].copy.notice = sessions[proc[h].copy.session].version
        BY <1>2, <2>2, GateFacts DEF pc
      <3>2. proc[h].copy.session \in DOMAIN sessions
        <4>1. proc[h].pc \notin Early
          BY DEF Attach, At, Early, Pulling
        <4>2. proc[h].copy.session \in 1..Len(sessions)
          BY <4>1, Own
        <4>. QED  BY <4>2 DEF Typed, TablesOK, marks
      <3>. QED  BY <1>2, <2>1, <3>1, <3>2 DEF NoticeInv
    <2>. QED  BY <1>0, <1>2, <2>1, <2>2 DEF Told
  <1>4. UNCHANGED <<setup, version, sessions, rows>> /\ thread'.notice = thread.notice
    BY DEF Attach, world, Typed, TablesOK, Thread, marks
  <1>5. Kept
    BY <1>4 DEF Kept
  <1>6. thread'.notice # 0 => Noticed(rows', thread'.notice)
    BY <1>4 DEF NoticeInv
  <1>. QED  BY <1>1, <1>3, <1>4, <1>5, <1>6, NoticeStep

\* One more message, of another kind than an answer.
LEMMA NoticeRow ==
    ASSUME Typed, NoticeInv, NEW h \in Handlers, NEW r, NEW row \in Row,
           proc' = [proc EXCEPT ![h] = r], Told(r, sessions, Append(rows, row)),
           rows' = Append(rows, row),
           UNCHANGED <<setup, version, thread, sessions>>,
           row.kind = "answer" /\ setup.notice => Noticed(rows, row.version)
    PROVE  NoticeInv'
PROOF
  <1>1. rows \in Seq(Row)
    BY DEF Typed, TablesOK, marks
  <1>2. Kept
    BY <1>1, AppendKeeps DEF Kept
  <1>3. thread'.notice # 0 => Noticed(rows', thread'.notice)
    BY <1>2, NoticedStays DEF NoticeInv
  <1>4. ASSUME NEW i \in DOMAIN rows' \ DOMAIN rows, setup.notice, rows'[i].kind = "answer"
        PROVE  \E j \in 1..i - 1 : rows'[j].kind = "notice" /\ rows'[j].version = rows'[i].version
    <2>1. i = Len(rows) + 1 /\ rows'[i] = row
      BY <1>1, AppendKeeps
    <2>2. PICK j \in DOMAIN rows : rows[j].kind = "notice" /\ rows[j].version = row.version
      BY <1>4, <2>1 DEF Noticed
    <2>3. j \in 1..i - 1
      BY <1>1, <2>1, <2>2
    <2>. QED  BY <1>2, <2>1, <2>2, <2>3 DEF Kept
  <1>. QED  BY <1>2, <1>3, <1>4, NoticeStep

LEMMA NoticeNotice ==
    ASSUME Typed, NoticeInv, NEW h \in Handlers, Notice(h)
    PROVE  NoticeInv'
PROOF
  <1> DEFINE row == [conv |-> proc[h].conv, kind |-> "notice", msg |-> 0,
                     version |-> sessions[proc[h].copy.session].version]
  <1> DEFINE r == [proc[h] EXCEPT !.pc = "stamp"]
  <1>1. proc' = [proc EXCEPT ![h] = r] /\ r.copy = proc[h].copy /\ r.pc = "stamp"
    BY Own DEF Notice, Goto, Handler
  <1>2. row \in Row
    <2>1. proc[h].pc \notin Early /\ proc[h].conv \in Nat /\ 0 \in MsgOrNone
      BY Own, SetupFacts DEF Notice, At, Early, Pulling, MsgOrNone, Typed
    <2>. QED  BY <2>1, OwnSession DEF Row
  <1>3. Told(r, sessions, Append(rows, row))
    <2>1. Noticed(Append(rows, row), row.version)
      <3>1. rows \in Seq(Row)
        BY DEF Typed, TablesOK, marks
      <3>2. Len(rows) + 1 \in DOMAIN Append(rows, row) /\ Append(rows, row)[Len(rows) + 1] = row
        BY <1>2, <3>1, AppendKeeps
      <3>. QED  BY <3>2 DEF Noticed
    <2>2. proc[h].copy.notice # 0 => Noticed(Append(rows, row), proc[h].copy.notice)
      <3>1. rows \in Seq(Row)
        BY DEF Typed, TablesOK, marks
      <3>2. proc[h].copy.notice # 0 => Noticed(rows, proc[h].copy.notice)
        BY DEF NoticeInv, Told
      <3> HIDE DEF row
      <3>. QED  BY <1>2, <3>1, <3>2, AppendKeeps DEF Noticed
    <2>. QED  BY <1>1, <2>1, <2>2 DEF Told
  <1>4. rows' = Append(rows, row) /\ UNCHANGED <<setup, version, thread, sessions>> /\ row.kind # "answer"
    BY DEF Notice, world, marks
  <1> HIDE DEF r, row
  <1>. QED  BY <1>1, <1>2, <1>3, <1>4, NoticeRow

LEMMA NoticeStamp ==
    ASSUME Typed, NoticeInv, NEW h \in Handlers, Stamp(h)
    PROVE  NoticeInv'
PROOF
  <1> DEFINE r == [proc[h] EXCEPT !.pc = "gate"]
  <1>1. proc' = [proc EXCEPT ![h] = r] /\ r.copy = proc[h].copy /\ r.pc = "gate" /\ proc[h].pc = "stamp"
    BY Own DEF Stamp, Goto, Handler, At
  <1> HIDE DEF r
  <1>2. Told(proc[h], sessions, rows)
    BY DEF NoticeInv
  <1>3. Noticed(rows, sessions[proc[h].copy.session].version)
    BY <1>1, <1>2 DEF Told
  <1>4. Told(r, sessions, rows)
    BY <1>1, <1>2, <1>3 DEF Told
  <1>5. UNCHANGED <<setup, version, sessions, rows>>
        /\ thread'.notice = sessions[proc[h].copy.session].version
    BY DEF Stamp, world, Typed, TablesOK, Thread, marks
  <1>6. Kept
    BY <1>5 DEF Kept
  <1>. QED  BY <1>1, <1>3, <1>4, <1>5, <1>6, NoticeStep

\* Let in: the gate found the session's version to be the tenant's.
LEMMA NoticeLetIn ==
    ASSUME Typed, NoticeInv, NEW h \in Handlers, NEW c \in Nat, NEW owner, LetIn(h, c, owner)
    PROVE  NoticeInv'
PROOF
  <1> DEFINE r == [proc[h] EXCEPT !.pc = "think", !.turn = c, !.granted = version, !.owner = owner]
  <1> DEFINE row == UserRow(c, Msg(h))
  <1>1. proc' = [proc EXCEPT ![h] = r] /\ r.copy = proc[h].copy /\ r.pc = "think" /\ r.granted = version
        /\ proc[h].pc = "gate"
    BY Own DEF LetIn, Handler, At
  <1>2. row \in Row /\ row.kind = "user"
    <2>1. Msg(h) \in Msgs /\ MaxMsgs \in Nat
      BY HeadIsMsg, SetupFacts, <1>1 DEF Typed, Ingesting
    <2>. QED  BY <2>1 DEF Row, UserRow, Msgs, MsgOrNone
  <1>3. rows' = Append(rows, row) /\ UNCHANGED <<setup, version, thread, sessions>>
        /\ sessions[proc[h].copy.session].version = version
    BY DEF LetIn, world, marks
  <1> HIDE DEF r, row
  <1>4. Told(r, sessions, rows')
    <2>1. Told(proc[h], sessions, rows)
      BY DEF NoticeInv
    <2>2. Kept
      <3>1. rows \in Seq(Row)
        BY DEF Typed, TablesOK, marks
      <3>. QED  BY <1>2, <1>3, <3>1, AppendKeeps DEF Kept
    <2>3. proc[h].copy.notice # 0 => Noticed(rows', proc[h].copy.notice)
      BY <2>1, <2>2, NoticedStays DEF Told
    <2>4. setup.notice => Noticed(rows', version)
      BY <1>1, <1>3, <2>1, <2>2, NoticedStays DEF Told
    <2>. QED  BY <1>1, <2>3, <2>4 DEF Told
  <1>. QED  BY <1>1, <1>2, <1>3, <1>4, NoticeRow

LEMMA NoticeEnter ==
    ASSUME Typed, NoticeInv, NEW h \in Handlers,
           EnterNew(h) \/ \E c \in DOMAIN convs : Enter(h, c)
    PROVE  NoticeInv'
PROOF
  <1>1. \A c \in DOMAIN convs : c \in Nat
    BY DEF Typed, TablesOK, marks
  <1>2. Len(convs) + 1 \in Nat
    BY DEF Typed, TablesOK, marks
  <1>. QED  BY <1>1, <1>2, NoticeLetIn DEF EnterNew, Enter

\* The AI speaks, or a message is kept as it is.
LEMMA NoticeSaid ==
    ASSUME Typed, NoticeInv, NEW h \in Handlers, Answer(h) \/ HandOff(h) \/ Store(h)
    PROVE  NoticeInv'
PROOF
  <1>0. proc[h].pc \notin Unresolved /\ Ingesting(h)
    BY DEF Answer, HandOff, Store, At, Unresolved, Early, Pulling, Ingesting
  <1>1. PICK pc \in {"map", "page"} : Goto(h, pc)
    BY DEF Answer, HandOff, Store, AfterTurn, AfterStore
  <1> DEFINE r == [proc[h] EXCEPT !.pc = pc]
  <1>2. proc' = [proc EXCEPT ![h] = r] /\ r.copy = proc[h].copy /\ r.pc = pc
    BY <1>1, Own DEF Goto, Handler
  <1> HIDE DEF r
  <1>3. PICK row \in Row : /\ rows' = Append(rows, row)
                           /\ row.kind = "answer" => proc[h].pc = "think" /\ row.version = proc[h].granted
    <2>1. Msg(h) \in MsgOrNone /\ proc[h].turn \in Nat /\ proc[h].granted \in Nat /\ proc[h].conv \in Nat
          /\ 0 \in MsgOrNone
      BY <1>0, HeadIsMsg, SetupFacts, Own DEF Typed, Msgs, MsgOrNone
    <2>2. AnswerRow(h) \in Row /\ AnswerRow(h).version = proc[h].granted
      BY <2>1 DEF AnswerRow, Row
    <2>3. UserRow(proc[h].conv, Msg(h)) \in Row /\ UserRow(proc[h].conv, Msg(h)).kind = "user"
      BY <2>1 DEF UserRow, Row
    <2>. QED  BY <2>2, <2>3 DEF Answer, HandOff, Store, At
  <1>4. UNCHANGED <<setup, version, thread, sessions>>
    BY DEF Answer, HandOff, Store, world, marks
  <1>5. Told(proc[h], sessions, rows)
    BY DEF NoticeInv
  <1>6. Kept
    <2>1. rows \in Seq(Row)
      BY DEF Typed, TablesOK, marks
    <2>. QED  BY <1>3, <1>4, <2>1, AppendKeeps DEF Kept
  <1>7. Told(r, sessions, Append(rows, row))
    <2>1. proc[h].copy.notice # 0 => Noticed(rows', proc[h].copy.notice)
      BY <1>5, <1>6, NoticedStays DEF Told
    <2>. QED  BY <1>2, <1>3, <2>1 DEF Told
  <1>. QED  BY <1>2, <1>3, <1>4, <1>5, <1>7, NoticeRow DEF Told

LEMMA NoticeOutside ==
    ASSUME Typed, NoticeInv,
           \/ Write \/ NewVersion \/ Restart \/ UNCHANGED vars
           \/ \E c \in DOMAIN convs : Take(c) \/ HandBack(c) \/ End(c)
           \/ \E s \in DOMAIN sessions : Override(s)
    PROVE  NoticeInv'
PROOF
  <1>1. ASSUME UNCHANGED <<setup, rows, sessions, thread>>, version' # 0,
               \A h \in Handlers : proc'[h] = proc[h] \/ proc'[h] = Idle
        PROVE  NoticeInv'
    <2>1. \A h \in Handlers : Told(proc'[h], sessions, rows)
      BY <1>1 DEF NoticeInv, Told, Idle, NoThread
    <2>2. \A h \in Handlers : Told(proc[h], sessions, rows)'
      BY <1>1, <2>1 DEF Told
    <2>3. thread'.notice # 0 => Noticed(rows, thread.notice)'
      BY <1>1 DEF NoticeInv, Noticed
    <2>. QED  BY <1>1, <2>2, <2>3 DEF NoticeInv, NoticeBeforeAnswer
  <1>2. version # 0 /\ version \in Nat
    BY DEF NoticeInv, Typed, TablesOK, marks
  <1>3. CASE Write \/ UNCHANGED vars
    BY <1>1, <1>2, <1>3 DEF Write, vars, tables, marks
  <1>4. CASE NewVersion
    BY <1>1, <1>2, <1>4 DEF NewVersion, Disturb, tables, marks
  <1>5. CASE Restart
    BY <1>1, <1>2, <1>5 DEF Restart, Disturb, tables, marks
  <1>6. CASE \E c \in DOMAIN convs : Take(c) \/ HandBack(c) \/ End(c)
    BY <1>1, <1>2, <1>6 DEF Take, HandBack, End, Disturb
  <1>7. ASSUME NEW s \in DOMAIN sessions, Override(s)
        PROVE  NoticeInv'
    <2>1. UNCHANGED <<setup, version, rows, thread, proc>>
      BY <1>7 DEF Override, Disturb
    <2>2. DOMAIN sessions' = DOMAIN sessions /\ \A z \in DOMAIN sessions : sessions'[z].version = sessions[z].version
      <3>1. PICK mode \in Modes : sessions' = [sessions EXCEPT ![s].mode = mode]
        BY <1>7 DEF Override
      <3>2. sessions \in Seq(Session)
        BY DEF Typed, TablesOK, marks
      <3>3. \A z \in DOMAIN sessions : sessions[z] \in Session
        BY <3>2
      <3>. QED  BY <3>1, <3>3 DEF Session
    <2>3. Kept
      BY <2>1, <2>2 DEF Kept
    <2>4. \A h \in Handlers : Told(proc[h], sessions, rows)'
      <3>1. \A h \in Handlers : Told(proc[h], sessions', rows')
        BY <2>3, ToldStays DEF NoticeInv
      <3>. QED  BY <2>1, <3>1 DEF Told
    <2>5. thread'.notice # 0 => Noticed(rows, thread.notice)'
      BY <2>1 DEF NoticeInv, Noticed
    <2>. QED  BY <1>2, <2>1, <2>2, <2>4, <2>5 DEF NoticeInv, NoticeBeforeAnswer
  <1>. QED  BY <1>3, <1>4, <1>5, <1>6, <1>7

LEMMA InitNotice == Init => NoticeInv
  BY DEF Init, NoticeInv, Idle, NoThread, Told, NoticeBeforeAnswer

LEMMA NextNotice == Typed /\ NoticeInv /\ [Next]_vars => NoticeInv'
PROOF
  <1> SUFFICES ASSUME Typed, NoticeInv, [Next]_vars PROVE NoticeInv'
    OBVIOUS
  <1>0. setup.handlers \subseteq Handlers
    BY SetupFacts DEF Typed
  <1>1. ASSUME NEW h \in setup.handlers, Collect(h)
        PROVE  NoticeInv'
    BY <1>0, <1>1, QuietCollect
  <1>2. ASSUME NEW h \in setup.handlers, Proceed(h)
        PROVE  NoticeInv'
    BY <1>0, <1>2, QuietCollect, QuietLookups, QuietTurns, NoticeFound, NoticeAttach,
       NoticeNotice, NoticeStamp, NoticeEnter, NoticeSaid DEF Proceed, Pulls
  <1>3. ASSUME NEW h \in setup.handlers,
               \/ Fail(h) \/ PageFails(h) \/ MapFails(h) \/ Redeliver(h) \/ PullFails(h)
               \/ \E m \in proc[h].todo : FlagFails(h, m)
        PROVE  NoticeInv'
    BY <1>0, <1>3, QuietCollect, QuietTurns DEF Pulls
  <1>. QED  BY <1>1, <1>2, <1>3, NoticeOutside DEF Next, Outside

\* ensureNotice runs before the AI turn: in every situation, and whatever else
\* goes on, the AI never speaks under a version of the notice that the room has
\* not been given.
THEOREM NoticeComesFirst == Spec => []NoticeBeforeAnswer
PROOF
  <1>1. Init => Typed /\ NoticeInv
    BY InitTyped, InitNotice
  <1>2. Typed /\ NoticeInv /\ [Next]_vars => (Typed /\ NoticeInv)'
    BY NextTyped, NextNotice
  <1>3. Typed /\ NoticeInv => NoticeBeforeAnswer
    BY DEF NoticeInv
  <1>. QED  BY <1>1, <1>2, <1>3, PTL DEF Spec

(***************************************************************************)
(* A message is stored once.                                                *)
(*                                                                          *)
(* The mapping is written several steps after the message is stored.  In    *)
(* between, the handler that stored it still carries it, and will find it   *)
(* in the conversation it resolved; another handler that looks into the map *)
(* then has the message together with the first one.                        *)
(***************************************************************************)
Before == {"session", "bind", "converse", "open", "attach", "notice", "stamp", "gate", "store"}
After == {"think", "page", "map"}

IsUser(row, m) == row.kind = "user" /\ row.msg = m
Has(p, m) == p.pc \notin Pulling /\ \E i \in DOMAIN p.batch : p.batch[i] = m
Carries(p, m, row, i) ==
    p.pc \in After /\ Head(p.batch) = m /\ p.conv = row.conv /\ p.since < i

\* Nothing went wrong with it.
Clean == Msgs \ (hurt \cup twinned \cup stray)

\* A stored message is mapped, or the handler that stored it still carries it.
Placed ==
    \A m \in Clean, i \in DOMAIN rows :
        IsUser(rows[i], m) /\ mapped[m] = 0 => \E h \in Handlers : Carries(proc[h], m, rows[i], i)

\* A message on its way to the table is not in it.
NotYet ==
    \A h \in Handlers : proc[h].pc \in Before /\ Msg(h) \in Clean =>
        \A i \in DOMAIN rows : ~IsUser(rows[i], Msg(h))

\* Two handlers that have the same message are known to.
TwinsKnown ==
    \A g, h \in Handlers : \A m \in Msgs :
        g # h /\ Has(proc[g], m) /\ Has(proc[h], m) => m \in twinned

OnceInv == Placed /\ NotYet /\ TwinsKnown /\ AtMostOnce

LEMMA HasHead ==
    ASSUME Typed, NEW h \in Handlers, proc[h].pc \notin Pulling
    PROVE  Has(proc[h], Head(proc[h].batch)) /\ Head(proc[h].batch) \in Msgs /\ Msg(h) = Head(proc[h].batch)
PROOF
  <1>1. proc[h].batch \in Seq(Msgs) /\ proc[h].batch # <<>>
    BY DEF Typed, HandlersFit, Fit, Handler
  <1>2. 1 \in DOMAIN proc[h].batch /\ proc[h].batch[1] = Head(proc[h].batch)
    BY <1>1
  <1>. QED  BY <1>1, <1>2 DEF Has, Msg

\* A step of one handler that stores no message of the shopper's.
LEMMA OnceStep ==
    ASSUME Typed, OnceInv, NEW h \in Handlers, NEW r,
           proc' = [proc EXCEPT ![h] = r],
           \A i \in DOMAIN rows' : rows'[i].kind = "user" => i \in DOMAIN rows /\ rows'[i] = rows[i],
           \A m \in Msgs : mapped[m] # 0 => mapped'[m] # 0,
           hurt \subseteq hurt', twinned \subseteq twinned', stray \subseteq stray',
           \A g \in Handlers \ {h}, m \in Msgs : Has(r, m) /\ Has(proc[g], m) => m \in twinned',
           r.pc \in Before /\ Head(r.batch) \in Clean' =>
              \A i \in DOMAIN rows : ~IsUser(rows[i], Head(r.batch)),
           \A m \in Clean', i \in DOMAIN rows :
              IsUser(rows[i], m) /\ mapped'[m] = 0 /\ Carries(proc[h], m, rows[i], i)
                 => Carries(r, m, rows[i], i)
    PROVE  OnceInv'
PROOF
  <1>1. Clean' \subseteq Clean
    BY DEF Clean, Msgs
  <1>2. proc'[h] = r /\ \A g \in Handlers \ {h} : proc'[g] = proc[g]
    BY DEF Typed, HandlersFit
  <1>3. Placed'
    <2> SUFFICES ASSUME NEW m \in Clean', NEW i \in DOMAIN rows', IsUser(rows'[i], m), mapped'[m] = 0
                 PROVE  \E g \in Handlers : Carries(proc'[g], m, rows'[i], i)
      BY DEF Placed, IsUser, Carries
    <2>1. i \in DOMAIN rows /\ rows'[i] = rows[i] /\ m \in Msgs
      BY DEF IsUser, Clean, Msgs
    <2>2. PICK g \in Handlers : Carries(proc[g], m, rows[i], i)
      BY <1>1, <2>1 DEF OnceInv, Placed
    <2>. QED  BY <1>2, <2>1, <2>2
  <1>4. NotYet'
    <2> SUFFICES ASSUME NEW g \in Handlers, proc'[g].pc \in Before, Head(proc'[g].batch) \in Clean',
                        NEW i \in DOMAIN rows'
                 PROVE  ~IsUser(rows'[i], Head(proc'[g].batch))
      BY DEF NotYet, Msg, IsUser
    <2>1. CASE g = h
      BY <1>2, <2>1 DEF IsUser
    <2>2. CASE g # h
      <3>1. \A j \in DOMAIN rows : ~IsUser(rows[j], Head(proc[g].batch))
        BY <1>1, <1>2, <2>2 DEF OnceInv, NotYet, Msg
      <3>. QED  BY <1>2, <2>2, <3>1 DEF IsUser
    <2>. QED  BY <2>1, <2>2
  <1>5. TwinsKnown'
    <2> SUFFICES ASSUME NEW g \in Handlers, NEW k \in Handlers, NEW m \in Msgs, g # k,
                        Has(proc'[g], m), Has(proc'[k], m)
                 PROVE  m \in twinned'
      BY DEF TwinsKnown, Has, Msgs
    <2>1. CASE g = h
      BY <1>2, <2>1
    <2>2. CASE k = h
      BY <1>2, <2>2
    <2>3. CASE g # h /\ k # h
      BY <1>2, <2>3 DEF OnceInv, TwinsKnown
    <2>. QED  BY <2>1, <2>2, <2>3
  <1>6. AtMostOnce'
    <2> SUFFICES ASSUME NEW m \in Clean', NEW i \in DOMAIN rows', NEW j \in DOMAIN rows',
                        IsUser(rows'[i], m), IsUser(rows'[j], m)
                 PROVE  i = j
      BY DEF AtMostOnce, IsUser, Clean, Msgs
    <2>1. i \in DOMAIN rows /\ j \in DOMAIN rows /\ rows'[i] = rows[i] /\ rows'[j] = rows[j] /\ m \in Clean
      BY <1>1 DEF IsUser
    <2>. QED  BY <2>1 DEF OnceInv, AtMostOnce, IsUser, Clean
  <1>. QED  BY <1>3, <1>4, <1>5, <1>6 DEF OnceInv

\* A step on the way to the table, or after it, with the same message in hand.
LEMMA OnceOnward ==
    ASSUME Typed, OnceInv, NEW h \in Handlers, NEW r,
           proc' = [proc EXCEPT ![h] = r], r.batch = proc[h].batch, proc[h].pc \notin Pulling,
           \A i \in DOMAIN rows' : rows'[i].kind = "user" => i \in DOMAIN rows /\ rows'[i] = rows[i],
           \A m \in Msgs : mapped[m] # 0 => mapped'[m] # 0,
           hurt \subseteq hurt', twinned \subseteq twinned', stray \subseteq stray',
           r.pc \in Before => proc[h].pc \in Before,
           \/ proc[h].pc \notin After
           \/ r.pc \in After /\ r.conv = proc[h].conv /\ r.since = proc[h].since
           \/ mapped'[Msg(h)] # 0
           \/ Msg(h) \in hurt'
           \/ \A i \in DOMAIN rows : ~Carries(proc[h], Msg(h), rows[i], i) \/ rows[i].kind # "user"
    PROVE  OnceInv'
PROOF
  <1>1. \A g \in Handlers \ {h}, m \in Msgs : Has(r, m) /\ Has(proc[g], m) => m \in twinned'
    BY DEF Has, OnceInv, TwinsKnown
  <1>2. r.pc \in Before /\ Head(r.batch) \in Clean' =>
           \A i \in DOMAIN rows : ~IsUser(rows[i], Head(r.batch))
    <2>1. Clean' \subseteq Clean
      BY DEF Clean, Msgs
    <2>. QED  BY <2>1 DEF OnceInv, NotYet, Msg
  <1>3. \A m \in Clean', i \in DOMAIN rows :
           IsUser(rows[i], m) /\ mapped'[m] = 0 /\ Carries(proc[h], m, rows[i], i)
              => Carries(r, m, rows[i], i)
    BY HasHead DEF Carries, IsUser, Clean, Msg
  <1>. QED  BY <1>1, <1>2, <1>3, OnceStep

\* A batch, or the rest of one, is begun by a handler that carries nothing.
LEMMA OnceBegin ==
    ASSUME Typed, OnceInv, NEW h \in Handlers, NEW b \in Seq(Msgs), Begin(h, b),
           UNCHANGED <<rows, mapped, stray>>, hurt \subseteq hurt',
           proc[h].pc \notin After \/ Msg(h) \in hurt'
    PROVE  OnceInv'
PROOF
  <1> DEFINE r == IF b = <<>> THEN Idle ELSE [Idle EXCEPT !.pc = "lookup", !.batch = b]
  <1>1. proc' = [proc EXCEPT ![h] = r] /\ r.pc \in {"idle", "lookup"} /\ (r.pc = "lookup" => r.batch = b)
    BY DEF Begin, Idle
  <1> HIDE DEF r
  <1>2. r.pc \notin Before /\ (r.pc \in Pulling \/ r.batch = b)
    BY <1>1 DEF Before, Pulling
  <1>3. \A g \in Handlers \ {h}, m \in Msgs : Has(r, m) /\ Has(proc[g], m) => m \in twinned'
    BY <1>2 DEF Has, Begin, Holds
  <1>4. \A m \in Clean', i \in DOMAIN rows :
           IsUser(rows[i], m) /\ mapped'[m] = 0 /\ Carries(proc[h], m, rows[i], i)
              => Carries(r, m, rows[i], i)
    BY DEF Carries, Clean, Msg
  <1>5. twinned \subseteq twinned'
    BY DEF Begin
  <1>. QED  BY <1>1, <1>2, <1>3, <1>4, <1>5, OnceStep

LEMMA OnceGoto ==
    ASSUME Typed, OnceInv, NEW h \in Handlers, NEW pc, Goto(h, pc), proc[h].pc \notin Pulling,
           \A i \in DOMAIN rows' : rows'[i].kind = "user" => i \in DOMAIN rows /\ rows'[i] = rows[i],
           \A m \in Msgs : mapped[m] # 0 => mapped'[m] # 0,
           hurt \subseteq hurt', twinned \subseteq twinned', stray \subseteq stray',
           pc \in Before => proc[h].pc \in Before,
           \/ proc[h].pc \notin After
           \/ pc \in After
           \/ mapped'[Msg(h)] # 0
           \/ Msg(h) \in hurt'
           \/ \A i \in DOMAIN rows : ~Carries(proc[h], Msg(h), rows[i], i) \/ rows[i].kind # "user"
    PROVE  OnceInv'
PROOF
  <1> DEFINE r == [proc[h] EXCEPT !.pc = pc]
  <1>1. proc' = [proc EXCEPT ![h] = r] /\ r.pc = pc /\ r.batch = proc[h].batch
        /\ r.conv = proc[h].conv /\ r.since = proc[h].since
    BY Own DEF Goto, Handler
  <1> HIDE DEF r
  <1>. QED  BY <1>1, OnceOnward

LEMMA OnceCollect ==
    ASSUME Typed, OnceInv, NEW h \in Handlers, Collect(h) \/ Fetch(h) \/ Pulls(h)
    PROVE  OnceInv'
PROOF
  <1> USE DEF world, tables, observers, marks
  <1>1. CASE Deliver(h)
    <2>1. <<mark + 1>> \in Seq(Msgs)
      <3>1. mark \in MsgOrNone /\ written \in MsgOrNone /\ mark < written /\ MaxMsgs \in Nat
        BY <1>1, SetupFacts DEF Deliver, Typed, TablesOK, marks
      <3>2. mark + 1 \in Msgs
        BY <3>1 DEF Msgs, MsgOrNone
      <3>. QED  BY <3>2
    <2>. QED  BY <1>1, <2>1, OnceBegin DEF Deliver, At, After
  <1>2. ASSUME NEW r, proc' = [proc EXCEPT ![h] = r], r.pc \in Pulling, proc[h].pc \in Pulling,
               UNCHANGED <<rows, mapped, hurt, twinned, stray>>
        PROVE  OnceInv'
    <2>1. r.pc \notin Before /\ ~\E m \in Msgs : Has(r, m)
      BY <1>2 DEF Before, Has, Pulling
    <2>2. \A m, row, i : ~Carries(proc[h], m, row, i)
      BY <1>2 DEF Carries, After, Pulling
    <2>. QED  BY <1>2, <2>1, <2>2, OnceStep
  <1>3. CASE Pull(h)
    <2> DEFINE r == [proc[h] EXCEPT !.pc = "commit", !.listed = written, !.batch = Run(mark + 1, written)]
    <2>1. proc' = [proc EXCEPT ![h] = r] /\ r.pc = "commit" /\ proc[h].pc = "idle"
      BY <1>3, Own DEF Pull, Handler, At
    <2> HIDE DEF r
    <2>. QED  BY <1>2, <1>3, <2>1 DEF Pull, Pulling
  <1>4. CASE List(h)
    <2> DEFINE r == [proc[h] EXCEPT !.pc = "fetch", !.listed = written, !.copy = thread]
    <2>1. proc' = [proc EXCEPT ![h] = r] /\ r.pc = "fetch" /\ proc[h].pc = "idle"
      BY <1>4, Own DEF List, Handler, At
    <2> HIDE DEF r
    <2>. QED  BY <1>2, <1>4, <2>1 DEF List, Pulling
  <1>5. CASE Fetch(h)
    <2> DEFINE r == [proc[h] EXCEPT !.pc = "commit", !.copy = NoThread,
                                    !.batch = Run(proc[h].copy.cursor + 1, written)]
    <2>1. proc' = [proc EXCEPT ![h] = r] /\ r.pc = "commit" /\ proc[h].pc = "fetch"
      BY <1>5, Own DEF Fetch, Handler, At
    <2> HIDE DEF r
    <2>. QED  BY <1>2, <1>5, <2>1 DEF Fetch, Pulling
  <1>6. CASE Pulls(h)
    <2>1. PICK r \in Handler : proc' = [proc EXCEPT ![h] = r] /\ r.pc \in {"idle", "read", "handover"}
      BY <1>6, PullsRecord
    <2>. QED  BY <1>2, <1>6, <2>1, PullsKeep DEF Pulling
  <1>. QED  BY <1>1, <1>3, <1>4, <1>5, <1>6 DEF Collect, Pulls

LEMMA OnceBegun ==
    ASSUME Typed, OnceInv, NEW h \in Handlers,
           HandOver(h) \/ Skip(h) \/ SkipCreated(h) \/ Cursor(h) \/ Fail(h) \/ Redeliver(h)
    PROVE  OnceInv'
PROOF
  <1> USE DEF world, tables, observers, marks
  <1>0. proc[h].batch \in Seq(Msgs)
    BY Own
  <1>1. CASE HandOver(h)
    BY <1>0, <1>1, OnceBegin DEF HandOver, At, After
  <1>2. Ingesting(h) => Rest(h) \in Seq(Msgs)
    BY HeadIsMsg DEF Typed
  <1>3. CASE Skip(h)
    BY <1>2, <1>3, OnceBegin DEF Skip, At, After, Ingesting
  <1>4. CASE SkipCreated(h)
    BY <1>2, <1>4, OnceBegin DEF SkipCreated, At, After, Ingesting
  <1>5. CASE Cursor(h)
    BY <1>2, <1>5, OnceBegin DEF Cursor, At, After, Ingesting
  <1>6. CASE Fail(h)
    BY <1>2, <1>6, OnceBegin DEF Fail
  <1>7. CASE Redeliver(h)
    <2>1. PICK m \in 1..mark : Begin(h, <<m>>)
      BY <1>7 DEF Redeliver
    <2>2. <<m>> \in Seq(Msgs)
      <3>1. mark \in MsgOrNone /\ MaxMsgs \in Nat
        BY SetupFacts DEF Typed, TablesOK, marks
      <3>2. m \in Msgs
        BY <3>1 DEF Msgs, MsgOrNone
      <3>. QED  BY <3>2
    <2>. QED  BY <1>7, <2>1, <2>2, OnceBegin DEF Redeliver, At, After
  <1>. QED  BY <1>1, <1>3, <1>4, <1>5, <1>6, <1>7

\* Not in the map, and not with another handler: then it is not stored.
LEMMA UnseenIsNew ==
    ASSUME Typed, OnceInv, NEW h \in Handlers, proc[h].pc \in {"lookup", "create"}, ~Seen(h),
           Msg(h) \in Clean
    PROVE  \A i \in DOMAIN rows : ~IsUser(rows[i], Msg(h))
PROOF
  <1> SUFFICES ASSUME NEW i \in DOMAIN rows, IsUser(rows[i], Msg(h)) PROVE FALSE
    OBVIOUS
  <1>1. PICK g \in Handlers : Carries(proc[g], Msg(h), rows[i], i)
    BY DEF OnceInv, Placed, Seen
  <1>2. proc[g].pc \notin Pulling /\ proc[h].pc \notin Pulling /\ g # h
    BY <1>1 DEF Carries, After, Pulling
  <1>3. Has(proc[g], Msg(h)) /\ Has(proc[h], Msg(h)) /\ Msg(h) \in Msgs
    BY <1>1, <1>2, HasHead DEF Carries
  <1>4. Msg(h) \in twinned
    BY <1>2, <1>3 DEF OnceInv, TwinsKnown
  <1>. QED  BY <1>4 DEF Clean

LEMMA OnceLookup ==
    ASSUME Typed, OnceInv, NEW h \in Handlers, Lookup(h) \/ Create(h)
    PROVE  OnceInv'
PROOF
  <1>1. PICK pc, t : /\ proc' = [proc EXCEPT ![h] = [proc[h] EXCEPT !.pc = pc, !.copy = t]]
                     /\ pc \in Before \cup {"create"} /\ (pc \in Before => ~Seen(h))
    <2>1. \A c : AfterSeen(c) \in Before
      BY DEF AfterSeen, Before
    <2>2. CASE Lookup(h) /\ thread.exists
      BY <2>1, <2>2 DEF Lookup
    <2>3. CASE Lookup(h) /\ ~thread.exists
      <3>1. "create" \notin Before
        BY DEF Before
      <3>2. proc' = [proc EXCEPT ![h] = [proc[h] EXCEPT !.pc = "create", !.copy = thread]]
        BY <2>3 DEF Lookup
      <3>. QED  BY <3>1, <3>2
    <2>4. CASE Create(h)
      BY <2>1, <2>4, ZenonT(60) DEF Create
    <2>. QED  BY <2>2, <2>3, <2>4
  <1>2. proc[h].pc \in {"lookup", "create"} /\ UNCHANGED <<rows, mapped, hurt, twinned, stray>>
    BY DEF Lookup, Create, At, world, tables, observers, marks
  <1> DEFINE r == [proc[h] EXCEPT !.pc = pc, !.copy = t]
  <1>3. r.pc = pc /\ r.batch = proc[h].batch
    BY Own DEF Handler
  <1> HIDE DEF r
  <1>4. r.pc \in Before /\ Head(r.batch) \in Clean' =>
           \A i \in DOMAIN rows : ~IsUser(rows[i], Head(r.batch))
    BY <1>1, <1>2, <1>3, UnseenIsNew DEF Clean, Msg, Msgs
  <1>5. proc[h].pc \notin Pulling /\ proc[h].pc \notin After
    BY <1>2 DEF Pulling, After
  <1>6. \A g \in Handlers \ {h}, m \in Msgs : Has(r, m) /\ Has(proc[g], m) => m \in twinned'
    BY <1>2, <1>3, <1>5 DEF Has, OnceInv, TwinsKnown
  <1>7. \A m, row, i : ~Carries(proc[h], m, row, i)
    BY <1>5 DEF Carries
  <1>8. proc' = [proc EXCEPT ![h] = r]
    BY <1>1 DEF r
  <1>. QED  BY <1>2, <1>4, <1>6, <1>7, <1>8, OnceStep

\* On the way to the table: the message in hand stays the same.
LEMMA OnceOnTheWay ==
    ASSUME Typed, OnceInv, NEW h \in Handlers,
           \/ NewSession(h) \/ Bind(h) \/ NoneFound(h) \/ OpenConv(h) \/ Attach(h) \/ Stamp(h)
           \/ Refuse(h) \/ \E c \in DOMAIN convs : Found(h, c)
    PROVE  OnceInv'
PROOF
  <1>0. UNCHANGED <<rows, mapped, hurt, twinned, stray>>
    BY DEF NewSession, Bind, NoneFound, OpenConv, Attach, Stamp, Refuse, Found, world, tables, observers, marks
  <1>1. ASSUME NEW r, proc' = [proc EXCEPT ![h] = r], r.batch = proc[h].batch, proc[h].pc \in Before
        PROVE  OnceInv'
    <2>1. proc[h].pc \notin Pulling /\ proc[h].pc \notin After
      BY <1>1 DEF Before, Pulling, After
    <2>. QED  BY <1>0, <1>1, <2>1, OnceOnward
  <1>2. ASSUME NEW pc, Goto(h, pc), proc[h].pc \in Before
        PROVE  OnceInv'
    <2> DEFINE r == [proc[h] EXCEPT !.pc = pc]
    <2>1. proc' = [proc EXCEPT ![h] = r] /\ r.batch = proc[h].batch
      BY <1>2, Own DEF Goto, Handler
    <2> HIDE DEF r
    <2>. QED  BY <1>1, <1>2, <2>1
  <1>3. CASE NewSession(h)
    <2> DEFINE r == [proc[h] EXCEPT !.pc = "bind", !.copy.session = Len(sessions) + 1]
    <2>1. proc' = [proc EXCEPT ![h] = r] /\ r.batch = proc[h].batch /\ proc[h].pc \in Before
      BY <1>3, Own DEF NewSession, Handler, Before, At
    <2> HIDE DEF r
    <2>. QED  BY <1>1, <2>1
  <1>4. CASE Bind(h) \/ NoneFound(h) \/ Attach(h) \/ Stamp(h) \/ Refuse(h)
    <2>1. proc[h].pc \in Before /\ \E pc : Goto(h, pc)
      BY <1>4 DEF Bind, NoneFound, Attach, Stamp, Refuse, At, Before
    <2>. QED  BY <1>2, <2>1
  <1>5. CASE OpenConv(h)
    <2> DEFINE r == [proc[h] EXCEPT !.pc = "attach", !.conv = Len(convs) + 1,
                       !.human = FALSE, !.queued = FALSE, !.since = Len(rows),
                       !.mode = ResolveMode(proc[h].copy.session)]
    <2>1. proc' = [proc EXCEPT ![h] = r] /\ r.batch = proc[h].batch /\ proc[h].pc \in Before
      BY <1>5, Own DEF OpenConv, Handler, Before, At
    <2> HIDE DEF r
    <2>. QED  BY <1>1, <2>1
  <1>6. ASSUME NEW c \in DOMAIN convs, Found(h, c)
        PROVE  OnceInv'
    <2> DEFINE mode == IF HumanOwns(c) THEN "off" ELSE ResolveMode(proc[h].copy.session)
    <2> DEFINE q == [proc[h] EXCEPT !.conv = c, !.human = HumanOwns(c), !.queued = convs[c].escalated,
                                    !.mode = mode, !.since = Len(rows), !.pc = NextStep(h, mode)]
    <2> DEFINE r == IF proc[h].copy.conv = c THEN q ELSE [q EXCEPT !.pc = "attach"]
    <2>1. proc' = [proc EXCEPT ![h] = r] /\ proc[h].pc \in Before
      BY <1>6 DEF Found, Resolved, At, Before
    <2>2. r.batch = proc[h].batch
      <3> HIDE DEF mode
      <3>. QED  BY Own DEF Handler
    <2> HIDE DEF r, q
    <2>. QED  BY <1>1, <2>1, <2>2
  <1>. QED  BY <1>3, <1>4, <1>5, <1>6

\* Words that are not the shopper's.
LEMMA OtherWords ==
    ASSUME Typed, NEW row, row.kind # "user", rows' = Append(rows, row)
    PROVE  \A i \in DOMAIN rows' : rows'[i].kind = "user" => i \in DOMAIN rows /\ rows'[i] = rows[i]
PROOF
  <1>1. rows \in Seq(Row)
    BY DEF Typed, TablesOK, marks
  <1>2. /\ DOMAIN rows' = 1..Len(rows) + 1 /\ DOMAIN rows = 1..Len(rows) /\ Len(rows) \in Nat
        /\ rows'[Len(rows) + 1] = row /\ \A i \in 1..Len(rows) : rows'[i] = rows[i]
    BY <1>1
  <1>. QED  BY <1>2

LEMMA OnceAside ==
    ASSUME Typed, OnceInv, NEW h \in Handlers,
           \/ Notice(h) \/ Silent(h) \/ Answer(h) \/ Draft(h) \/ HandOff(h) \/ Page(h)
           \/ NothingToMap(h) \/ PageFails(h) \/ MapFails(h)
           \/ \E i \in DOMAIN rows : Map(h, i)
    PROVE  OnceInv'
PROOF
  <1> USE DEF world, tables, observers, marks
  <1>0. ASSUME NEW pc, Goto(h, pc), pc \in After, proc[h].pc \in After,
               \A i \in DOMAIN rows' : rows'[i].kind = "user" => i \in DOMAIN rows /\ rows'[i] = rows[i],
               UNCHANGED <<mapped, twinned, stray>>, hurt \subseteq hurt'
        PROVE  OnceInv'
    <2>1. proc[h].pc \notin Pulling /\ pc \notin Before
      BY <1>0 DEF After, Pulling, Before
    <2>. QED  BY <1>0, <2>1, OnceGoto
  <1>1. CASE Notice(h)
    <2>1. \A i \in DOMAIN rows' : rows'[i].kind = "user" => i \in DOMAIN rows /\ rows'[i] = rows[i]
      BY <1>1, OtherWords DEF Notice
    <2>. QED  BY <1>1, <2>1, OnceGoto DEF Notice, At, Before, After, Pulling
  <1>2. CASE Silent(h)
    BY <1>0, <1>2 DEF Silent, At, After, AfterTurn
  <1>3. CASE Answer(h)
    <2>1. \A i \in DOMAIN rows' : rows'[i].kind = "user" => i \in DOMAIN rows /\ rows'[i] = rows[i]
      BY <1>3, OtherWords DEF Answer, AnswerRow
    <2>. QED  BY <1>0, <1>3, <2>1 DEF Answer, At, After, AfterTurn
  <1>4. CASE Draft(h)
    BY <1>0, <1>4 DEF Draft, At, After, AfterTurn
  <1>5. CASE HandOff(h)
    <2>1. \A i \in DOMAIN rows' : rows'[i].kind = "user" => i \in DOMAIN rows /\ rows'[i] = rows[i]
      BY <1>5, OtherWords DEF HandOff, AnswerRow
    <2>. QED  BY <1>0, <1>5, <2>1 DEF HandOff, At, After, AfterTurn
  <1>6. CASE Page(h)
    BY <1>0, <1>6 DEF Page, At, After
  <1>7. CASE PageFails(h)
    BY <1>0, <1>7 DEF PageFails, Disturb, At, After
  <1>8. CASE MapFails(h)
    <2>1. Goto(h, "cursor") /\ UNCHANGED <<rows, mapped, twinned, stray>> /\ hurt' = hurt \cup {Msg(h)}
      BY <1>8 DEF MapFails, Disturb
    <2>. QED  BY <1>8, <2>1, OnceGoto DEF MapFails, At, Before, After, Pulling
  <1>9. CASE NothingToMap(h)
    <2>1. \A i \in DOMAIN rows : ~Carries(proc[h], Msg(h), rows[i], i) \/ rows[i].kind # "user"
      BY <1>9 DEF NothingToMap, Turns, Carries
    <2>. QED  BY <1>9, <2>1, OnceGoto DEF NothingToMap, At, Before, After, Pulling
  <1>10. ASSUME NEW i \in DOMAIN rows, Map(h, i)
         PROVE  OnceInv'
    <2>1. Msg(h) \in Msgs /\ i # 0 /\ mapped \in [Msgs -> Nat]
      <3>1. Ingesting(h)
        BY <1>10 DEF Map, At, Ingesting
      <3>. QED  BY <3>1, HeadIsMsg DEF Typed, TablesOK, marks
    <2>2. mapped'[Msg(h)] # 0 /\ \A m \in Msgs : mapped[m] # 0 => mapped'[m] # 0
      BY <1>10, <2>1 DEF Map, Seen
    <2>. QED  BY <1>10, <2>2, OnceGoto DEF Map, At, Before, After, Pulling
  <1>. QED  BY <1>1, <1>2, <1>3, <1>4, <1>5, <1>6, <1>7, <1>8, <1>9, <1>10

\* The message is stored: it was not there, and its handler carries it.
LEMMA OnceSaid ==
    ASSUME Typed, OnceInv, NEW h \in Handlers, NEW r, NEW c,
           proc[h].pc \in Before, proc' = [proc EXCEPT ![h] = r], r.batch = proc[h].batch,
           r.conv = proc[h].conv, r.since = proc[h].since, r.pc \in After,
           rows' = Append(rows, UserRow(c, Msg(h))),
           UNCHANGED <<mapped, hurt, twinned>>, stray \subseteq stray',
           c = proc[h].conv \/ Msg(h) \in stray'
    PROVE  OnceInv'
PROOF
  <1> DEFINE n == Len(rows) + 1
  <1>1. /\ n \in Nat /\ rows'[n] = UserRow(c, Msg(h)) /\ DOMAIN rows' = DOMAIN rows \cup {n}
        /\ n \notin DOMAIN rows /\ proc[h].since < n
        /\ \A i \in DOMAIN rows : rows'[i] = rows[i]
    <2>1. rows \in Seq(Row) /\ proc[h].since \in 0..Len(rows)
      BY Own DEF Typed, TablesOK, marks
    <2>. QED  BY <2>1
  <1> HIDE DEF n
  <1>2. Clean' \subseteq Clean
    BY DEF Clean, Msgs
  <1>3. proc[h].pc \notin Pulling /\ r.pc \notin Pulling /\ r.pc \notin Before /\ proc[h].pc \notin After
    BY DEF Before, After, Pulling
  <1>4. proc'[h] = r /\ (\A g \in Handlers \ {h} : proc'[g] = proc[g]) /\ Msg(h) = Head(proc[h].batch)
    BY DEF Typed, HandlersFit, Msg
  <1>5. \A m : IsUser(rows'[n], m) <=> m = Msg(h)
    BY <1>1 DEF IsUser, UserRow
  <1>6. Msg(h) \in Clean => \A i \in DOMAIN rows : ~IsUser(rows[i], Msg(h))
    BY DEF OnceInv, NotYet
  <1>7. Placed'
    <2> SUFFICES ASSUME NEW m \in Clean', NEW i \in DOMAIN rows', IsUser(rows'[i], m), mapped'[m] = 0
                 PROVE  \E g \in Handlers : Carries(proc'[g], m, rows'[i], i)
      BY DEF Placed, IsUser, Carries
    <2>1. CASE i = n
      <3>1. m = Msg(h) /\ c = proc[h].conv
        BY <1>5, <2>1 DEF Clean
      <3>2. Carries(r, m, rows'[i], i)
        BY <1>1, <1>4, <2>1, <3>1 DEF Carries, UserRow
      <3>. QED  BY <1>4, <3>2
    <2>2. CASE i \in DOMAIN rows
      <3>1. PICK g \in Handlers : Carries(proc[g], m, rows[i], i)
        BY <1>1, <1>2, <2>2 DEF OnceInv, Placed
      <3>2. g # h
        BY <1>3, <3>1 DEF Carries
      <3>. QED  BY <1>1, <1>4, <2>2, <3>1, <3>2
    <2>. QED  BY <1>1, <2>1, <2>2
  <1>8. NotYet'
    <2> SUFFICES ASSUME NEW g \in Handlers, proc'[g].pc \in Before, Head(proc'[g].batch) \in Clean',
                        NEW i \in DOMAIN rows', IsUser(rows'[i], Head(proc'[g].batch))
                 PROVE  FALSE
      BY DEF NotYet, Msg, IsUser
    <2>1. g # h /\ proc'[g] = proc[g] /\ proc[g].pc \notin Pulling /\ Head(proc[g].batch) \in Clean
      BY <1>2, <1>3, <1>4 DEF Before, Pulling
    <2>2. CASE i \in DOMAIN rows
      BY <1>1, <2>1, <2>2 DEF OnceInv, NotYet, Msg
    <2>3. CASE i = n
      <3>1. Head(proc[g].batch) = Msg(h)
        BY <1>5, <2>1, <2>3
      <3>2. Has(proc[g], Msg(h)) /\ Has(proc[h], Msg(h)) /\ Msg(h) \in Msgs
        BY <1>3, <2>1, <3>1, HasHead
      <3>3. Msg(h) \in twinned
        BY <2>1, <3>2 DEF OnceInv, TwinsKnown
      <3>. QED  BY <2>1, <3>1, <3>3 DEF Clean
    <2>. QED  BY <1>1, <2>2, <2>3
  <1>9. TwinsKnown'
    <2> SUFFICES ASSUME NEW g \in Handlers, NEW k \in Handlers, NEW m \in Msgs, g # k,
                        Has(proc'[g], m), Has(proc'[k], m)
                 PROVE  m \in twinned'
      BY DEF TwinsKnown, Has, Msgs
    <2>1. Has(proc[g], m) /\ Has(proc[k], m)
      BY <1>3, <1>4 DEF Has
    <2>. QED  BY <2>1 DEF OnceInv, TwinsKnown
  <1>10. AtMostOnce'
    <2> SUFFICES ASSUME NEW m \in Clean', NEW i \in DOMAIN rows', NEW j \in DOMAIN rows',
                        IsUser(rows'[i], m), IsUser(rows'[j], m)
                 PROVE  i = j
      BY DEF AtMostOnce, IsUser, Clean, Msgs
    <2>1. CASE m = Msg(h)
      BY <1>1, <1>2, <1>6, <2>1
    <2>2. CASE m # Msg(h)
      <3>1. i \in DOMAIN rows /\ j \in DOMAIN rows /\ rows'[i] = rows[i] /\ rows'[j] = rows[j] /\ m \in Clean
        BY <1>1, <1>2, <1>5, <2>2
      <3>. QED  BY <3>1 DEF OnceInv, AtMostOnce, IsUser, Clean
    <2>. QED  BY <2>1, <2>2
  <1>. QED  BY <1>7, <1>8, <1>9, <1>10 DEF OnceInv

LEMMA OnceStored ==
    ASSUME Typed, OnceInv, NEW h \in Handlers,
           Store(h) \/ EnterNew(h) \/ \E c \in DOMAIN convs : Enter(h, c)
    PROVE  OnceInv'
PROOF
  <1> USE DEF world, tables, observers, marks
  <1>1. CASE Store(h)
    <2> DEFINE r == [proc[h] EXCEPT !.pc = AfterStore(h)]
    <2>1. AfterStore(h) \in After
      BY DEF AfterStore, After
    <2>2. proc' = [proc EXCEPT ![h] = r] /\ r.batch = proc[h].batch /\ r.conv = proc[h].conv
          /\ r.since = proc[h].since /\ r.pc = AfterStore(h)
      BY <1>1, Own DEF Store, Goto, Handler
    <2>3. proc[h].pc \in Before /\ rows' = Append(rows, UserRow(proc[h].conv, Msg(h)))
          /\ UNCHANGED <<mapped, hurt, twinned>> /\ stray \subseteq stray'
      BY <1>1 DEF Store, At, Before
    <2> HIDE DEF r
    <2>. QED  BY <2>1, <2>2, <2>3, OnceSaid
  <1>2. ASSUME NEW c, NEW owner, LetIn(h, c, owner)
        PROVE  OnceInv'
    <2> DEFINE r == [proc[h] EXCEPT !.pc = "think", !.turn = c, !.granted = version, !.owner = owner]
    <2>1. proc' = [proc EXCEPT ![h] = r] /\ r.batch = proc[h].batch /\ r.conv = proc[h].conv
          /\ r.since = proc[h].since /\ r.pc = "think" /\ r.pc \in After
      BY <1>2, Own DEF LetIn, Handler, After
    <2>2. proc[h].pc \in Before /\ rows' = Append(rows, UserRow(c, Msg(h)))
          /\ UNCHANGED <<mapped, hurt, twinned>> /\ stray \subseteq stray'
          /\ (c = proc[h].conv \/ Msg(h) \in stray')
      BY <1>2 DEF LetIn, At, Before
    <2> HIDE DEF r
    <2>. QED  BY <2>1, <2>2, OnceSaid
  <1>. QED  BY <1>1, <1>2 DEF EnterNew, Enter

LEMMA OnceOutside ==
    ASSUME Typed, OnceInv,
           \/ Write \/ NewVersion \/ Restart \/ UNCHANGED vars
           \/ \E c \in DOMAIN convs : Take(c) \/ HandBack(c) \/ End(c)
           \/ \E s \in DOMAIN sessions : Override(s)
    PROVE  OnceInv'
PROOF
  <1>1. CASE Restart
    <2>1. UNCHANGED <<rows, mapped, twinned, stray>> /\ hurt' = hurt \cup InMemory
          /\ proc' = [g \in Handlers |-> Idle]
      BY <1>1 DEF Restart, Disturb, tables, marks
    <2>2. Clean' \subseteq Clean
      BY <2>1 DEF Clean, Msgs
    <2>3. Idle.pc = "idle"
      BY DEF Idle
    <2>4. Placed'
      <3> SUFFICES ASSUME NEW m \in Clean', NEW i \in DOMAIN rows, IsUser(rows[i], m), mapped[m] = 0
                   PROVE  FALSE
        BY <2>1 DEF Placed, IsUser
      <3>1. PICK g \in Handlers : Carries(proc[g], m, rows[i], i)
        BY <2>2 DEF OnceInv, Placed
      <3>2. proc[g].pc \notin Pulling
        BY <3>1 DEF Carries, After, Pulling
      <3>3. Has(proc[g], m) /\ m \in Msgs
        BY <3>1, <3>2, HasHead DEF Carries
      <3>4. m \in InMemory
        BY <3>2, <3>3 DEF InMemory, Has, Holds, Ingesting, Pulling
      <3>. QED  BY <2>1, <3>4 DEF Clean
    <2>5. NotYet' /\ TwinsKnown'
      BY <2>1, <2>3 DEF NotYet, TwinsKnown, Has, Before, Pulling
    <2>6. AtMostOnce'
      BY <2>1 DEF OnceInv, AtMostOnce, Msgs
    <2>. QED  BY <2>4, <2>5, <2>6 DEF OnceInv
  <1>2. CASE ~Restart
    <2>1. UNCHANGED <<rows, mapped, proc, hurt, twinned, stray>>
      BY <1>2 DEF Write, NewVersion, Take, HandBack, End, Override, Disturb, vars, tables, observers, marks
    <2>. QED  BY <2>1 DEF OnceInv, Placed, NotYet, TwinsKnown, AtMostOnce, Clean, Msgs, Msg, Carries, Has, IsUser
  <1>. QED  BY <1>1, <1>2

LEMMA InitOnce == Init => OnceInv
  BY DEF Init, OnceInv, Placed, NotYet, TwinsKnown, AtMostOnce, Idle, Before, Has, Pulling

LEMMA NextOnce == Typed /\ OnceInv /\ [Next]_vars => OnceInv'
PROOF
  <1> SUFFICES ASSUME Typed, OnceInv, [Next]_vars PROVE OnceInv'
    OBVIOUS
  <1>0. setup.handlers \subseteq Handlers
    BY SetupFacts DEF Typed
  <1>1. ASSUME NEW h \in setup.handlers, Collect(h)
        PROVE  OnceInv'
    BY <1>0, <1>1, OnceCollect
  <1>2. ASSUME NEW h \in setup.handlers, Proceed(h)
        PROVE  OnceInv'
    BY <1>0, <1>2, OnceCollect, OnceBegun, OnceLookup, OnceOnTheWay, OnceAside, OnceStored
       DEF Proceed, Pulls
  <1>3. ASSUME NEW h \in setup.handlers,
               \/ Fail(h) \/ PageFails(h) \/ MapFails(h) \/ Redeliver(h) \/ PullFails(h)
               \/ \E m \in proc[h].todo : FlagFails(h, m)
        PROVE  OnceInv'
    BY <1>0, <1>3, OnceCollect, OnceBegun, OnceAside DEF Pulls
  <1>. QED  BY <1>1, <1>2, <1>3, OnceOutside DEF Next, Outside

\* However a message is delivered again, and whatever restarts, errors and
\* other handlers do to its neighbours: unless it failed half way itself, two
\* handlers had it at once, or its turn went elsewhere, it is stored once.
THEOREM StoredOnce == Spec => []AtMostOnce
PROOF
  <1>1. Init => Typed /\ OnceInv
    BY InitTyped, InitOnce
  <1>2. Typed /\ OnceInv /\ [Next]_vars => (Typed /\ OnceInv)'
    BY NextTyped, NextOnce
  <1>3. Typed /\ OnceInv => AtMostOnce
    BY DEF OnceInv
  <1>. QED  BY <1>1, <1>2, <1>3, PTL DEF Spec

(***************************************************************************)
(* Nothing is lost between a source and the table.                          *)
(*                                                                          *)
(* A handler leaves a message that it ingests only when it is home: stored, *)
(* failed or turned away.  A batch of an inbox brings, in order, everything *)
(* before each of its messages that is not safe yet, so that the thread's   *)
(* cursor passes safe messages only.  A mark moves over what a batch brings *)
(* and what is covered already, and what a pull drops behind it is skipped. *)
(***************************************************************************)
Past == {"think", "page", "map", "cursor"}

In(b, m) == \E i \in DOMAIN b : b[i] = m
Home == {m \in Msgs : Settled(m)}
Safe == {m \in Msgs : Settled(m) \/ \E h \in Handlers : Ingesting(h) /\ Holds(h, m)}
Covered == {m \in Msgs : Settled(m) \/ InHand(m) \/ m \in skipped}

\* Before a message of the batch come messages of S, or earlier ones of the batch.
Led(b, S) ==
    \A i \in DOMAIN b : \A m \in 1..(b[i] - 1) : m \in S \/ \E j \in DOMAIN b : j < i /\ b[j] = m

\* What a handler's record says when the messages T are home ...
Tidy(p, T) ==
    /\ p.pc \in Past => Head(p.batch) \in T
    /\ p.pc \in {"idle", "fetch"} => p.batch = <<>>
    /\ p.pc = "fetch" => setup.source = "inbox"
    /\ p.pc = "read" => setup.source = "mailbox"

\* ... and of an inbox, when S are safe and w have been written.
Owes(p, S, w) ==
    /\ p.pc = "fetch" => p.listed <= w /\ 1..p.copy.cursor \subseteq S
    /\ Led(p.batch, S)

AccountInv ==
    /\ \A m \in Msgs : mapped[m] # 0 => m \in Home
    /\ \A h \in Handlers : Tidy(proc[h], Home)
    /\ setup.source = "inbox" =>
          /\ 1..thread.cursor \subseteq Safe
          /\ \A h \in Handlers : Owes(proc[h], Safe, written)
    /\ \A m \in Msgs : Consumed(m) => m \in Covered
    /\ \A h \in Handlers : \A m \in Msgs : Passing(h, m) => m \in Covered

LEMMA SafeIsCovered == Safe \subseteq Covered
  BY DEF Safe, Covered, InHand

LEMMA AccountSuffices == Typed /\ AccountInv => Accounted
PROOF
  <1> SUFFICES ASSUME Typed, AccountInv, NEW m \in 1..written, ~Offered(m)
               PROVE  InHand(m) \/ Settled(m) \/ m \in skipped
    BY DEF Accounted
  <1>1. mark \in Nat /\ written \in Nat /\ thread.cursor \in Nat /\ m \in Msgs
    BY SetupFacts DEF Typed, TablesOK, MsgOrNone, Thread, Msgs
  <1>2. Consumed(m) \/ (setup.source = "inbox" /\ m \in 1..thread.cursor)
    BY <1>1 DEF Offered, Consumed
  <1>3. m \in Covered
    BY <1>1, <1>2, SafeIsCovered DEF AccountInv
  <1>. QED  BY <1>3 DEF Covered

LEMMA LedMore ==
    ASSUME NEW b, NEW S, NEW S2, S \subseteq S2, Led(b, S)
    PROVE  Led(b, S2)
  BY DEF Led

LEMMA OwesLess ==
    ASSUME NEW p \in Handler, NEW S, NEW w \in Nat, NEW S2, NEW w2 \in Nat,
           MaxMsgs \in Nat, S \subseteq S2, w <= w2, Owes(p, S, w)
    PROVE  Owes(p, S2, w2)
PROOF
  <1>1. p.listed \in Nat
    BY DEF Handler, MsgOrNone
  <1>. QED  BY <1>1, LedMore DEF Owes

\* Rows, failures and refusals only come to more.
LEMMA HomeGrows ==
    ASSUME \A i \in DOMAIN rows : i \in DOMAIN rows' /\ rows'[i] = rows[i],
           hurt \subseteq hurt', refused \subseteq refused'
    PROVE  Home \subseteq Home'
  BY DEF Home, Settled, Stored, Msgs

\* A step of one handler.
LEMMA SafeGrows ==
    ASSUME Typed, NEW h \in Handlers, NEW r, proc' = [proc EXCEPT ![h] = r],
           Home \subseteq Home',
           \A m \in Msgs : Ingesting(h) /\ Holds(h, m) => m \in Safe'
    PROVE  Safe \subseteq Safe'
PROOF
  <1> SUFFICES ASSUME NEW m \in Safe PROVE m \in Safe'
    OBVIOUS
  <1>1. m \in Msgs
    BY DEF Safe
  <1>2. CASE Settled(m)
    BY <1>1, <1>2 DEF Home, Safe, Msgs
  <1>3. ASSUME NEW g \in Handlers, Ingesting(g), Holds(g, m), g # h
        PROVE  m \in Safe'
    <2>1. proc'[g] = proc[g]
      BY <1>3 DEF Typed, HandlersFit
    <2>2. Ingesting(g)' /\ Holds(g, m)'
      BY <1>3, <2>1 DEF Ingesting, Holds
    <2>. QED  BY <1>1, <2>2 DEF Safe, Msgs
  <1>. QED  BY <1>1, <1>2, <1>3 DEF Safe

\* What is covered otherwise than by the handler that moves stays covered.
LEMMA StillCovered ==
    ASSUME Typed, NEW h \in Handlers, NEW r, proc' = [proc EXCEPT ![h] = r],
           Home \subseteq Home', skipped \subseteq skipped', NEW m \in Covered,
           Holds(h, m) => m \in Covered'
    PROVE  m \in Covered'
PROOF
  <1>1. m \in Msgs
    BY DEF Covered
  <1>2. CASE Settled(m)
    BY <1>1, <1>2 DEF Home, Covered, Msgs
  <1>3. CASE m \in skipped
    BY <1>1, <1>3 DEF Covered, Msgs
  <1>4. ASSUME NEW g \in Handlers, Holds(g, m), g # h
        PROVE  m \in Covered'
    <2>1. proc'[g] = proc[g]
      BY <1>4 DEF Typed, HandlersFit
    <2>2. Holds(g, m)'
      BY <1>4, <2>1 DEF Holds
    <2>3. InHand(m)'
      BY <2>2 DEF InHand
    <2>. QED  BY <1>1, <2>3 DEF Covered, Msgs
  <1>. QED  BY <1>2, <1>3, <1>4 DEF Covered, InHand

LEMMA AccountStep ==
    ASSUME Typed, Typed', AccountInv, NEW h \in Handlers, NEW r,
           proc' = [proc EXCEPT ![h] = r], setup' = setup,
           Home \subseteq Home', skipped \subseteq skipped', written <= written',
           \A m \in Msgs : mapped'[m] # 0 => mapped[m] # 0 \/ m \in Home',
           Tidy(r, Home'),
           \A m \in Msgs : Ingesting(h) /\ Holds(h, m) => m \in Safe',
           setup.source = "inbox" =>
              /\ \A m \in 1..thread'.cursor : m \in 1..thread.cursor \/ m \in Safe'
              /\ Owes(r, Safe', written'),
           \A m \in Msgs :
              Holds(h, m) /\ (Consumed(m) \/ \E g \in Handlers \ {h} : Passing(g, m))
                 => m \in Covered',
           \A m \in Msgs : Consumed(m)' => Consumed(m) \/ m \in Covered',
           \A m \in Msgs : r.pc = "commit" /\ m <= r.listed => m \in Covered'
    PROVE  AccountInv'
PROOF
  <1>0. proc'[h] = r /\ \A g \in Handlers \ {h} : proc'[g] = proc[g]
    BY DEF Typed, HandlersFit
  <1>1. \A m \in Msgs : mapped'[m] # 0 => m \in Home'
    BY DEF AccountInv
  <1>2. ASSUME NEW g \in Handlers
        PROVE  Tidy(proc'[g], Home')
    <2>1. CASE g = h
      BY <1>0, <2>1
    <2>2. CASE g # h
      BY <1>0, <2>2 DEF AccountInv, Tidy
    <2>. QED  BY <2>1, <2>2
  <1>3. ASSUME setup.source = "inbox"
        PROVE  1..thread'.cursor \subseteq Safe' /\ \A g \in Handlers : Owes(proc'[g], Safe', written')
    <2>1. Safe \subseteq Safe'
      BY SafeGrows
    <2>2. 1..thread'.cursor \subseteq Safe'
      BY <1>3, <2>1 DEF AccountInv
    <2>3. ASSUME NEW g \in Handlers, g # h
          PROVE  Owes(proc'[g], Safe', written')
      <3>1. proc'[g] = proc[g] /\ proc[g] \in Handler
        BY <1>0, <2>3, Own
      <3>2. written \in Nat /\ written' \in Nat /\ MaxMsgs \in Nat
        BY SetupFacts DEF Typed, TablesOK, MsgOrNone
      <3>. QED  BY <1>3, <2>1, <3>1, <3>2, OwesLess DEF AccountInv
    <2>. QED  BY <1>0, <1>3, <2>2, <2>3
  <1>4. ASSUME NEW m \in Msgs, Consumed(m)'
        PROVE  m \in Covered'
    BY <1>4, StillCovered DEF AccountInv
  <1>5. ASSUME NEW g \in Handlers, NEW m \in Msgs, Passing(g, m)'
        PROVE  m \in Covered'
    <2>1. CASE g = h
      BY <1>0, <1>5, <2>1 DEF Passing, At
    <2>2. CASE g # h
      <3>1. Passing(g, m)
        BY <1>0, <1>5, <2>2 DEF Passing, At
      <3>. QED  BY <2>2, <3>1, StillCovered DEF AccountInv
    <2>. QED  BY <2>1, <2>2
  <1>6. (\A g \in Handlers : Tidy(proc[g], Home))'
    BY <1>2 DEF Tidy
  <1>7. (setup.source = "inbox" =>
          /\ 1..thread.cursor \subseteq Safe
          /\ \A g \in Handlers : Owes(proc[g], Safe, written))'
    BY <1>3
  <1>. QED  BY <1>1, <1>4, <1>5, <1>6, <1>7 DEF AccountInv, Msgs

\* The handler goes on with the messages it has.
LEMMA AccountOnward ==
    ASSUME Typed, Typed', AccountInv, NEW h \in Handlers, NEW r,
           proc' = [proc EXCEPT ![h] = r], proc[h].pc \notin Pulling, r.pc \notin Pulling,
           r.batch = proc[h].batch,
           Home \subseteq Home', UNCHANGED <<setup, written, mark, flagged, skipped>>,
           thread'.cursor = thread.cursor \/ thread'.cursor = 0,
           \A m \in Msgs : mapped'[m] # 0 => mapped[m] # 0 \/ m \in Home',
           r.pc \in Past => proc[h].pc \in Past \/ Msg(h) \in Home'
    PROVE  AccountInv'
PROOF
  <1>1. proc'[h] = r
    BY DEF Typed, HandlersFit
  <1>2. ASSUME NEW m \in Msgs, Holds(h, m)
        PROVE  m \in Safe' /\ m \in Covered'
    <2>1. Ingesting(h)' /\ Holds(h, m)'
      BY <1>1, <1>2 DEF Ingesting, Pulling, Holds
    <2>. QED  BY <2>1 DEF Safe, Covered, InHand, Msgs
  <1>3. Safe \subseteq Safe'
    BY <1>2, SafeGrows
  <1>4. Tidy(r, Home')
    BY DEF AccountInv, Tidy, Pulling, Msg
  <1>5. setup.source = "inbox" => Owes(r, Safe', written')
    BY <1>3, LedMore DEF AccountInv, Owes, Pulling
  <1>6. written <= written'
    BY SetupFacts DEF Typed, TablesOK, MsgOrNone
  <1>7. \A m \in 1..thread'.cursor : m \in 1..thread.cursor \/ m \in Safe'
    OBVIOUS
  <1>8. \A m \in Msgs : Consumed(m)' => Consumed(m)
    BY DEF Consumed
  <1>9. r.pc # "commit"
    BY DEF Pulling
  <1>. QED  BY <1>2, <1>4, <1>5, <1>6, <1>7, <1>8, <1>9, AccountStep

LEMMA AccountGoto ==
    ASSUME Typed, Typed', AccountInv, NEW h \in Handlers, NEW pc, Goto(h, pc),
           proc[h].pc \notin Pulling, pc \notin Pulling,
           Home \subseteq Home', UNCHANGED <<setup, written, mark, flagged, skipped>>,
           thread'.cursor = thread.cursor,
           \A m \in Msgs : mapped'[m] # 0 => mapped[m] # 0 \/ m \in Home',
           pc \in Past => proc[h].pc \in Past \/ Msg(h) \in Home'
    PROVE  AccountInv'
PROOF
  <1> DEFINE r == [proc[h] EXCEPT !.pc = pc]
  <1>1. proc' = [proc EXCEPT ![h] = r] /\ r.pc = pc /\ r.batch = proc[h].batch
    BY Own DEF Goto, Handler
  <1> HIDE DEF r
  <1>. QED  BY <1>1, AccountOnward

\* A batch, or the rest of one, is begun: what the handler had is home or in it.
LEMMA AccountBegin ==
    ASSUME Typed, Typed', AccountInv, NEW h \in Handlers, NEW b \in Seq(Msgs), Begin(h, b),
           Home \subseteq Home', UNCHANGED <<setup, written, skipped>>,
           \A m \in Msgs : mapped'[m] # 0 => mapped[m] # 0,
           \A m \in Msgs : Holds(h, m) => m \in Home' \/ In(b, m),
           \A m \in Msgs : Consumed(m)' => Consumed(m) \/ In(b, m),
           setup.source = "inbox" =>
              /\ \A m \in 1..thread'.cursor : m \in Safe \/ m \in Home'
              /\ Led(b, Safe \cup Home')
    PROVE  AccountInv'
PROOF
  <1> DEFINE r == IF b = <<>> THEN Idle ELSE [Idle EXCEPT !.pc = "lookup", !.batch = b]
  <1>1. /\ proc' = [proc EXCEPT ![h] = r] /\ r.batch = b
        /\ IF b = <<>> THEN r.pc = "idle" ELSE r.pc = "lookup"
    BY DEF Begin, Idle
  <1> HIDE DEF r
  <1>2. proc'[h] = r
    BY <1>1 DEF Typed, HandlersFit
  <1>3. ASSUME NEW m, In(b, m)
        PROVE  m \in Safe' /\ m \in Covered'
    <2>1. m \in Msgs /\ b # <<>>
      BY <1>3 DEF In
    <2>2. Ingesting(h)' /\ Holds(h, m)'
      BY <1>1, <1>2, <1>3, <2>1 DEF Ingesting, Holds, In
    <2>. QED  BY <2>1, <2>2 DEF Safe, Covered, InHand, Msgs
  <1>4. Home' \subseteq Safe' /\ Home' \subseteq Covered'
    BY DEF Home, Safe, Covered, Msgs
  <1>5. \A m \in Msgs : Holds(h, m) => m \in Safe' /\ m \in Covered'
    BY <1>3, <1>4
  <1>6. Safe \subseteq Safe'
    BY <1>1, <1>5, SafeGrows
  <1>7. Tidy(r, Home')
    BY <1>1 DEF Tidy, Past
  <1>8. setup.source = "inbox" =>
           /\ \A m \in 1..thread'.cursor : m \in Safe'
           /\ Owes(r, Safe', written')
    <2>1. Safe \cup Home' \subseteq Safe'
      BY <1>4, <1>6
    <2>2. Led(b, Safe \cup Home') => Led(b, Safe')
      BY <2>1, LedMore
    <2>. QED  BY <1>1, <2>1, <2>2 DEF Owes
  <1>9. written <= written'
    BY SetupFacts DEF Typed, TablesOK, MsgOrNone
  <1>10. r.pc # "commit"
    BY <1>1
  <1>. QED  BY <1>1, <1>3, <1>5, <1>7, <1>8, <1>9, <1>10, AccountStep

\* What is left of a batch when its first message is done with.
LEMMA RestFacts ==
    ASSUME NEW b \in Seq(Msgs), b # <<>>, NEW S, NEW T, Head(b) \in T
    PROVE  /\ Led(b, S) => Led(Tail(b), S \cup T)
           /\ \A m : In(b, m) => m = Head(b) \/ In(Tail(b), m)
PROOF
  <1>1. /\ Len(b) \in Nat \ {0} /\ DOMAIN b = 1..Len(b) /\ Head(b) = b[1]
        /\ DOMAIN Tail(b) = 1..(Len(b) - 1) /\ \A i \in 1..(Len(b) - 1) : Tail(b)[i] = b[i + 1]
    OBVIOUS
  <1>2. ASSUME Led(b, S), NEW i \in DOMAIN Tail(b), NEW m \in 1..(Tail(b)[i] - 1)
        PROVE  m \in S \cup T \/ \E j \in DOMAIN Tail(b) : j < i /\ Tail(b)[j] = m
    <2>1. i + 1 \in DOMAIN b /\ m \in 1..(b[i + 1] - 1)
      BY <1>1
    <2>2. m \in S \/ \E j \in DOMAIN b : j < i + 1 /\ b[j] = m
      BY <1>2, <2>1 DEF Led
    <2>3. ASSUME NEW j \in DOMAIN b, j < i + 1, b[j] = m, j # 1
          PROVE  j - 1 \in DOMAIN Tail(b) /\ j - 1 < i /\ Tail(b)[j - 1] = m
      <3>1. j - 1 \in 1..(Len(b) - 1) /\ (j - 1) + 1 = j
        BY <1>1, <2>3
      <3>. QED  BY <1>1, <2>3, <3>1
    <2>. QED  BY <1>1, <2>2, <2>3
  <1>3. ASSUME NEW m, In(b, m)
        PROVE  m = Head(b) \/ In(Tail(b), m)
    <2>1. PICK i \in 1..Len(b) : b[i] = m
      BY <1>1, <1>3 DEF In
    <2>2. i # 1 => i - 1 \in 1..(Len(b) - 1) /\ (i - 1) + 1 = i
      BY <1>1
    <2>. QED  BY <1>1, <2>1, <2>2 DEF In
  <1>. QED  BY <1>2, <1>3 DEF Led

\* A run of messages brings everything from its first to its last, in order.
LEMMA RunFacts ==
    ASSUME NEW first \in Nat \ {0}, NEW last \in Nat, NEW S
    PROVE  /\ 1..(first - 1) \subseteq S => Led(Run(first, last), S)
           /\ \A m \in first..last : In(Run(first, last), m)
PROOF
  <1> DEFINE n == IF last < first THEN 0 ELSE last - first + 1
  <1>1. n \in Nat /\ Run(first, last) = [i \in 1..n |-> first + i - 1]
    BY DEF Run
  <1> DEFINE b == Run(first, last)
  <1>2. DOMAIN b = 1..n /\ \A i \in 1..n : b[i] = first + i - 1
    BY <1>1
  <1>4. ASSUME NEW m \in first..last
        PROVE  In(b, m)
    <2>1. m - first + 1 \in 1..n /\ m \in Int
      OBVIOUS
    <2> HIDE DEF n, b
    <2>2. b[m - first + 1] = m
      BY <1>2, <2>1
    <2>. QED  BY <1>2, <2>1, <2>2 DEF In
  <1> HIDE DEF n, b
  <1>3. ASSUME 1..(first - 1) \subseteq S, NEW i \in DOMAIN b, NEW m \in 1..(b[i] - 1)
        PROVE  m \in S \/ \E j \in DOMAIN b : j < i /\ b[j] = m
    <2>1. i \in 1..n /\ m \in 1..(first + i - 2)
      BY <1>2
    <2>2. CASE m < first
      BY <1>3, <2>1, <2>2
    <2>3. CASE m >= first
      <3>1. m - first + 1 \in 1..n /\ m - first + 1 < i /\ first + (m - first + 1) - 1 = m
        BY <1>1, <2>1, <2>3
      <3>. QED  BY <1>2, <3>1
    <2>. QED  BY <2>1, <2>2, <2>3
  <1>. QED  BY <1>3, <1>4 DEF Led, b

\* Within a pull: the batch only comes to more, and what is marked or about to be
\* is in it or was covered.
LEMMA AccountPull ==
    ASSUME Typed, Typed', AccountInv, NEW h \in Handlers, NEW r,
           proc' = [proc EXCEPT ![h] = r], ~Ingesting(h),
           UNCHANGED <<setup, written, thread, rows, mapped, hurt, refused, skipped>>,
           Tidy(r, Home),
           setup.source = "inbox" => Owes(r, Safe, written),
           \A m \in Msgs : Holds(h, m) => In(r.batch, m),
           \A m \in Msgs : Consumed(m)' => m \in Covered \/ In(r.batch, m),
           \A m \in Msgs : r.pc = "commit" /\ m <= r.listed => m \in Covered \/ In(r.batch, m)
    PROVE  AccountInv'
PROOF
  <1>0. proc'[h] = r
    BY DEF Typed, HandlersFit
  <1>1. Home \subseteq Home' /\ skipped \subseteq skipped'
    BY HomeGrows
  <1>2. Safe \subseteq Safe'
    BY <1>1, SafeGrows
  <1>3. ASSUME NEW m \in Msgs, In(r.batch, m)
        PROVE  m \in Covered'
    BY <1>0, <1>3 DEF In, Covered, InHand, Holds, Msgs
  <1>4. Covered \subseteq Covered'
    <2>1. \A m \in Msgs : Holds(h, m) => m \in Covered'
      BY <1>3
    <2>. QED  BY <1>1, <2>1, StillCovered DEF Covered
  <1>5. Tidy(r, Home')
    BY <1>1 DEF Tidy
  <1>6. written <= written' /\ written \in Nat /\ MaxMsgs \in Nat
    BY SetupFacts DEF Typed, TablesOK, MsgOrNone
  <1>7. setup.source = "inbox" =>
           /\ \A m \in 1..thread'.cursor : m \in 1..thread.cursor
           /\ Owes(r, Safe', written')
    BY <1>2, LedMore DEF Owes
  <1>8. /\ \A m \in Msgs : Holds(h, m) => m \in Covered'
        /\ \A m \in Msgs : Consumed(m)' => m \in Covered'
        /\ \A m \in Msgs : r.pc = "commit" /\ m <= r.listed => m \in Covered'
    BY <1>3, <1>4
  <1>9. \A m \in Msgs : mapped'[m] # 0 => mapped[m] # 0
    OBVIOUS
  <1>. QED  BY <1>1, <1>5, <1>6, <1>7, <1>8, <1>9, AccountStep

\* The numbers of a pull.
LEMMA PullNumbers ==
    ASSUME Typed, NEW h \in Handlers
    PROVE  /\ MaxMsgs \in Nat /\ mark \in Nat /\ written \in Nat /\ thread.cursor \in Nat
           /\ proc[h].listed \in Nat /\ proc[h].copy.cursor \in Nat
           /\ proc[h].batch \in Seq(Msgs) /\ proc[h].todo \subseteq Msgs /\ proc[h] \in Handler
           /\ written \in MsgOrNone
PROOF
  <1>1. /\ MaxMsgs \in Nat /\ mark \in MsgOrNone /\ written \in MsgOrNone /\ thread.cursor \in MsgOrNone
    BY SetupFacts DEF Typed, TablesOK, Thread
  <1>2. /\ proc[h].listed \in MsgOrNone /\ proc[h].copy.cursor \in MsgOrNone
        /\ proc[h].batch \in Seq(Msgs) /\ proc[h].todo \subseteq Msgs /\ proc[h] \in Handler
    BY Own DEF Handler
  <1>. QED  BY <1>1, <1>2 DEF MsgOrNone

\* The stream past its cursor is asked for, or an inbox is listed.
LEMMA AccountLists ==
    ASSUME Typed, Typed', AccountInv, NEW h \in Handlers, Pull(h) \/ List(h)
    PROVE  AccountInv'
PROOF
  <1> USE DEF world, tables, observers, marks
  <1>0. Tidy(proc[h], Home) /\ proc[h].pc = "idle" /\ proc[h].batch = <<>> /\ ~Ingesting(h)
    BY DEF AccountInv, Tidy, Pull, List, At, Ingesting
  <1>1. \A m \in Msgs : ~Holds(h, m) /\ (Consumed(m)' => m \in Covered)
    BY <1>0 DEF Holds, Pull, List, Consumed, AccountInv
  <1>2. CASE Pull(h)
    <2> DEFINE r == [proc[h] EXCEPT !.pc = "commit", !.listed = written, !.batch = Run(mark + 1, written)]
    <2>1. proc' = [proc EXCEPT ![h] = r]
      BY <1>2 DEF Pull
    <2>2. r.pc = "commit" /\ r.listed = written /\ r.batch = Run(mark + 1, written)
      BY PullNumbers DEF Handler
    <2> HIDE DEF r
    <2>3. ASSUME NEW m \in Msgs, m <= r.listed
          PROVE  m \in Covered \/ In(r.batch, m)
      <3>1. m \in Nat \ {0} /\ m <= written
        BY <2>2, <2>3, PullNumbers DEF Msgs
      <3>2. CASE m <= mark
        <4>1. Consumed(m)
          BY <1>2, <3>2 DEF Pull, Consumed
        <4>. QED  BY <4>1 DEF AccountInv
      <3>3. CASE m > mark
        <4>1. m \in (mark + 1)..written /\ mark + 1 \in Nat \ {0}
          BY <3>1, <3>3, PullNumbers
        <4>. QED  BY <2>2, <4>1, PullNumbers, RunFacts
      <3>. QED  BY <3>1, <3>2, <3>3, PullNumbers
    <2>4. Tidy(r, Home) /\ setup.source # "inbox"
      BY <1>2, <2>2 DEF Tidy, Past, Pull
    <2>. QED  BY <1>0, <1>1, <1>2, <2>1, <2>3, <2>4, AccountPull DEF Pull
  <1>3. CASE List(h)
    <2> DEFINE r == [proc[h] EXCEPT !.pc = "fetch", !.listed = written, !.copy = thread]
    <2>1. proc' = [proc EXCEPT ![h] = r]
      BY <1>3 DEF List
    <2>2. r.pc = "fetch" /\ r.listed = written /\ r.batch = <<>> /\ r.copy = thread
      BY <1>0, PullNumbers DEF Handler
    <2> HIDE DEF r
    <2>3. Tidy(r, Home)
      BY <1>3, <2>2 DEF Tidy, Past, List
    <2>4. setup.source = "inbox" => Owes(r, Safe, written)
      BY <2>2, PullNumbers DEF Owes, Led, AccountInv
    <2>5. r.pc # "commit"
      BY <2>2
    <2>. QED  BY <1>0, <1>1, <1>3, <2>1, <2>3, <2>4, <2>5, AccountPull DEF List
  <1>. QED  BY <1>2, <1>3

\* The rooms of an inbox are fetched from the cursor read before.
LEMMA AccountFetch ==
    ASSUME Typed, Typed', AccountInv, NEW h \in Handlers, Fetch(h)
    PROVE  AccountInv'
PROOF
  <1> USE DEF world, tables, observers, marks
  <1> DEFINE c == proc[h].copy.cursor
  <1> DEFINE r == [proc[h] EXCEPT !.pc = "commit", !.copy = NoThread, !.batch = Run(c + 1, written)]
  <1>1. /\ proc' = [proc EXCEPT ![h] = r] /\ proc[h].pc = "fetch" /\ ~Ingesting(h)
        /\ UNCHANGED <<setup, written, thread, rows, mapped, hurt, refused, marks>>
    BY DEF Fetch, At, Ingesting
  <1>2. r.pc = "commit" /\ r.listed = proc[h].listed /\ r.batch = Run(c + 1, written)
    BY PullNumbers DEF Handler
  <1> HIDE DEF r
  <1>3. /\ setup.source = "inbox" /\ proc[h].batch = <<>>
        /\ proc[h].listed <= written /\ 1..c \subseteq Safe
    BY <1>1 DEF AccountInv, Tidy, Owes
  <1>4. Led(r.batch, Safe) /\ \A m \in (c + 1)..written : In(r.batch, m)
    <2>1. c + 1 \in Nat \ {0} /\ (c + 1) - 1 = c
      BY PullNumbers
    <2>. QED  BY <1>2, <1>3, <2>1, PullNumbers, RunFacts
  <1>5. \A m \in Msgs : m <= r.listed => m \in Covered \/ In(r.batch, m)
    <2>1. \A m \in Msgs : m <= r.listed => m \in 1..c \/ m \in (c + 1)..written
      BY <1>2, <1>3, PullNumbers DEF Msgs
    <2>. QED  BY <1>3, <1>4, <2>1, SafeIsCovered
  <1>6. \A m \in Msgs : ~Holds(h, m) /\ (Consumed(m)' => m \in Covered)
    BY <1>1, <1>3 DEF Holds, Consumed, AccountInv
  <1>7. Tidy(r, Home) /\ Owes(r, Safe, written)
    BY <1>2, <1>4 DEF Tidy, Past, Owes
  <1>. QED  BY <1>1, <1>5, <1>6, <1>7, AccountPull

\* The mark is written, or a mailbox is searched.
LEMMA AccountMarks ==
    ASSUME Typed, Typed', AccountInv, NEW h \in Handlers, Commit(h) \/ Search(h)
    PROVE  AccountInv'
PROOF
  <1> USE DEF world, tables, observers, marks
  <1>2. PICK r : /\ proc' = [proc EXCEPT ![h] = r]
                 /\ r.pc \in {"handover", "read"} /\ r.batch = proc[h].batch
                 /\ r.pc = "read" => setup.source = "mailbox"
    <2>1. CASE Commit(h)
      <3> DEFINE q == [proc[h] EXCEPT !.pc = "handover"]
      <3>1. proc' = [proc EXCEPT ![h] = q] /\ q.pc = "handover" /\ q.batch = proc[h].batch
        BY <2>1, PullNumbers DEF Commit, Goto, Handler
      <3> HIDE DEF q
      <3>. QED  BY <3>1
    <2>2. CASE Search(h)
      <3> DEFINE q == [proc[h] EXCEPT !.pc = "read", !.todo = Unseen]
      <3>1. proc' = [proc EXCEPT ![h] = q] /\ q.pc = "read" /\ q.batch = proc[h].batch
            /\ setup.source = "mailbox"
        BY <2>2, PullNumbers DEF Search, Handler
      <3> HIDE DEF q
      <3>. QED  BY <3>1
    <2>. QED  BY <2>1, <2>2
  <1>3. /\ ~Ingesting(h)
        /\ UNCHANGED <<setup, written, thread, rows, mapped, hurt, refused, skipped>>
    BY DEF Commit, Search, At, Ingesting
  <1>4. \A m \in Msgs : Consumed(m)' => m \in Covered
    <2>1. CASE Commit(h)
      <3>1. \A m \in Msgs : Consumed(m)' => Consumed(m) \/ Passing(h, m)
        BY <2>1 DEF Commit, Consumed, Passing
      <3>. QED  BY <3>1 DEF AccountInv
    <2>2. CASE Search(h)
      BY <2>2 DEF Search, Consumed, AccountInv
    <2>. QED  BY <2>1, <2>2
  <1>5. Tidy(r, Home)
    BY <1>2 DEF Tidy, Past
  <1>6. setup.source = "inbox" => Owes(r, Safe, written)
    BY <1>2 DEF Owes, AccountInv
  <1>7. \A m \in Msgs : Holds(h, m) => In(r.batch, m)
    BY <1>2 DEF Holds, In
  <1>8. r.pc # "commit"
    BY <1>2
  <1>. QED  BY <1>2, <1>3, <1>4, <1>5, <1>6, <1>7, <1>8, AccountPull

\* A mail is fetched, and flagged or not.
LEMMA AccountRead ==
    ASSUME Typed, Typed', AccountInv, NEW h \in Handlers, NEW m \in proc[h].todo,
           Read(h, m) \/ FlagFails(h, m)
    PROVE  AccountInv'
PROOF
  <1> USE DEF world, tables, observers, marks
  <1>1. PICK r \in Handler : /\ proc' = [proc EXCEPT ![h] = r]
                             /\ r.pc \in {"read", "handover"} /\ r.batch = Append(proc[h].batch, m)
    BY FetchedRecord DEF Read, FlagFails
  <1>2. /\ ~Ingesting(h) /\ proc[h].pc = "read" /\ flagged' \subseteq flagged \cup {m} /\ mark' = mark
        /\ UNCHANGED <<setup, written, thread, rows, mapped, hurt, refused, skipped>>
    BY DEF Read, FlagFails, Fetched, Disturb, At, Ingesting
  <1>3. \A k : In(r.batch, k) <=> In(proc[h].batch, k) \/ k = m
    <2>1. proc[h].batch \in Seq(Msgs)
      BY PullNumbers
    <2>2. /\ DOMAIN r.batch = 1..(Len(proc[h].batch) + 1) /\ DOMAIN proc[h].batch = 1..Len(proc[h].batch)
          /\ r.batch[Len(proc[h].batch) + 1] = m /\ Len(proc[h].batch) \in Nat
          /\ \A i \in DOMAIN proc[h].batch : r.batch[i] = proc[h].batch[i]
      BY <1>1, <2>1
    <2>. QED  BY <2>2 DEF In
  <1>4. setup.source = "mailbox"
    BY <1>2 DEF AccountInv, Tidy
  <1>5. Tidy(r, Home)
    BY <1>1, <1>4 DEF Tidy, Past
  <1>6. \A k \in Msgs : Holds(h, k) => In(r.batch, k)
    BY <1>3 DEF Holds, In
  <1>7. \A k \in Msgs : Consumed(k)' => k \in Covered \/ In(r.batch, k)
    BY <1>2, <1>3 DEF Consumed, AccountInv
  <1>8. r.pc # "commit"
    BY <1>1
  <1>. QED  BY <1>1, <1>2, <1>4, <1>5, <1>6, <1>7, <1>8, AccountPull

\* A pull fails: what it had, and the source or another pull is past, is skipped.
LEMMA AccountDrops ==
    ASSUME Typed, Typed', AccountInv, NEW h \in Handlers, PullFails(h)
    PROVE  AccountInv'
PROOF
  <1> USE DEF tables, observers
  <1>1. /\ proc' = [proc EXCEPT ![h] = Idle] /\ ~Ingesting(h)
        /\ UNCHANGED <<setup, written, thread, rows, mapped, hurt, refused, mark, flagged>>
        /\ skipped' = skipped \cup DroppedBy({h})
    BY DEF PullFails, Disturb
  <1>2. Home \subseteq Home' /\ skipped \subseteq skipped'
    BY <1>1, HomeGrows
  <1>3. Idle.pc = "idle" /\ Idle.batch = <<>>
    BY DEF Idle
  <1>4. ASSUME NEW m \in Msgs, Holds(h, m),
               Consumed(m) \/ \E g \in Handlers \ {h} : Passing(g, m)
        PROVE  m \in Covered'
    <2>1. CASE Stored(m)
      <3>1. m \in Home
        BY <2>1 DEF Home, Settled
      <3>. QED  BY <1>2, <3>1 DEF Home, Covered, Msgs
    <2>2. ASSUME NEW g \in Handlers \ {h}, Holds(g, m)
          PROVE  m \in Covered'
      <3>1. proc'[g] = proc[g]
        BY <1>1 DEF Typed, HandlersFit
      <3>2. InHand(m)'
        BY <2>2, <3>1 DEF InHand, Holds
      <3>. QED  BY <3>2 DEF Covered, Msgs
    <2>3. CASE ~Stored(m) /\ \A g \in Handlers \ {h} : ~Holds(g, m)
      <3>1. m \in DroppedBy({h})
        BY <1>4, <2>3 DEF DroppedBy
      <3>. QED  BY <1>1, <3>1 DEF Covered, Msgs
    <2>. QED  BY <2>1, <2>2, <2>3
  <1>5. Tidy(Idle, Home') /\ Owes(Idle, Safe', written')
    BY <1>3 DEF Tidy, Past, Owes, Led
  <1>6. written <= written'
    BY <1>1, SetupFacts DEF Typed, TablesOK, MsgOrNone
  <1>7. /\ \A m \in Msgs : Consumed(m)' => Consumed(m)
        /\ \A m \in 1..thread'.cursor : m \in 1..thread.cursor
        /\ \A m \in Msgs : mapped'[m] # 0 => mapped[m] # 0
        /\ Idle.pc # "commit"
    BY <1>1, <1>3 DEF Consumed
  <1> HIDE DEF tables, observers
  <1>. QED  BY <1>1, <1>2, <1>4, <1>5, <1>6, <1>7, AccountStep

\* Ingest begins: a webhook is delivered, perhaps again, or a pull returns.
LEMMA AccountHands ==
    ASSUME Typed, Typed', AccountInv, NEW h \in Handlers,
           Deliver(h) \/ Redeliver(h) \/ HandOver(h)
    PROVE  AccountInv'
PROOF
  <1> USE DEF world, tables, observers, marks
  <1>1. /\ UNCHANGED <<setup, written, thread, rows, mapped, hurt, refused, flagged, skipped>>
        /\ ~Ingesting(h)
    BY DEF Deliver, Redeliver, HandOver, Disturb, At, Ingesting
  <1>2. Home \subseteq Home'
    BY <1>1, HomeGrows
  <1>3. ASSUME NEW m \in Msgs, Begin(h, <<m>>), proc[h].pc = "idle", setup.source = "webhook",
               \A k \in Msgs : Consumed(k)' => Consumed(k) \/ k = m
        PROVE  AccountInv'
    <2>1. <<m>> \in Seq(Msgs) /\ \A k : In(<<m>>, k) <=> k = m
      BY DEF In
    <2>2. \A k \in Msgs : ~Holds(h, k)
      BY <1>3 DEF AccountInv, Tidy, Holds
    <2>. QED  BY <1>1, <1>2, <1>3, <2>1, <2>2, AccountBegin
  <1>4. CASE Deliver(h)
    <2>1. mark + 1 \in Msgs
      BY <1>4, PullNumbers DEF Deliver, Msgs, MsgOrNone
    <2>2. \A k \in Msgs : Consumed(k)' => Consumed(k) \/ k = mark + 1
      BY <1>4, PullNumbers DEF Deliver, Consumed, Msgs
    <2>. QED  BY <1>3, <1>4, <2>1, <2>2 DEF Deliver, At
  <1>5. CASE Redeliver(h)
    <2>1. PICK m \in 1..mark : Begin(h, <<m>>)
      BY <1>5 DEF Redeliver
    <2>2. m \in Msgs
      <3>1. mark \in MsgOrNone /\ MaxMsgs \in Nat
        BY SetupFacts DEF Typed, TablesOK
      <3>. QED  BY <3>1 DEF Msgs, MsgOrNone
    <2>3. \A k \in Msgs : Consumed(k)' => Consumed(k)
      BY <1>1, <1>5 DEF Redeliver, Consumed
    <2>. QED  BY <1>3, <1>5, <2>1, <2>2, <2>3 DEF Redeliver, At
  <1>6. CASE HandOver(h)
    <2>1. Begin(h, proc[h].batch) /\ proc[h].batch \in Seq(Msgs) /\ mark' = mark
      BY <1>6, PullNumbers DEF HandOver
    <2>2. \A m \in Msgs : Consumed(m)' => Consumed(m)
      BY <1>1, <2>1 DEF Consumed
    <2>3. \A m \in Msgs : Holds(h, m) => In(proc[h].batch, m)
      BY DEF Holds, In
    <2>4. setup.source = "inbox" =>
             /\ \A m \in 1..thread'.cursor : m \in Safe
             /\ Led(proc[h].batch, Safe \cup Home')
      <3>1. Led(proc[h].batch, Safe) => Led(proc[h].batch, Safe \cup Home')
        BY LedMore
      <3>. QED  BY <1>1, <3>1 DEF AccountInv, Owes
    <2>. QED  BY <1>1, <1>2, <2>1, <2>2, <2>3, <2>4, AccountBegin
  <1>. QED  BY <1>4, <1>5, <1>6

\* A handler leaves a message: it is in the map, has been ingested or failed.
LEMMA AccountLeaves ==
    ASSUME Typed, Typed', AccountInv, NEW h \in Handlers,
           Skip(h) \/ SkipCreated(h) \/ Cursor(h) \/ Fail(h)
    PROVE  AccountInv'
PROOF
  <1> USE DEF world, tables, marks
  <1>0. Ingesting(h) /\ proc[h].pc \notin Pulling
    BY DEF Skip, SkipCreated, Cursor, Fail, At, Ingesting, Pulling
  <1>1. /\ MaxMsgs \in Nat /\ proc[h].batch \in Seq(Msgs) /\ proc[h].batch # <<>>
        /\ Msg(h) \in Msgs /\ Rest(h) \in Seq(Msgs)
        /\ Msg(h) = Head(proc[h].batch) /\ Rest(h) = Tail(proc[h].batch)
    BY <1>0, HeadIsMsg, SetupFacts, Own DEF Typed, HandlersFit, Fit, Msg, Rest
  <1>2. /\ UNCHANGED <<setup, mapped, rows, refused, written, marks>> /\ hurt \subseteq hurt'
        /\ Begin(h, Rest(h))
    BY DEF Skip, SkipCreated, Cursor, Fail, Disturb
  <1>3. Home \subseteq Home'
    BY <1>2, HomeGrows
  <1>4. Tidy(proc[h], Home)
    BY DEF AccountInv
  <1>5. Msg(h) \in Home'
    <2>1. CASE Skip(h) \/ SkipCreated(h)
      BY <1>1, <1>3, <2>1 DEF Skip, SkipCreated, Seen, AccountInv
    <2>2. CASE Cursor(h)
      BY <1>1, <1>3, <1>4, <2>2 DEF Cursor, At, Tidy, Past
    <2>3. CASE Fail(h)
      <3>1. Msg(h) \in hurt'
        BY <2>3 DEF Fail
      <3>. QED  BY <1>1, <3>1 DEF Home, Settled, Msgs
    <2>. QED  BY <2>1, <2>2, <2>3
  <1>6. /\ Led(proc[h].batch, Safe) => Led(Rest(h), Safe \cup Home')
        /\ \A m : In(proc[h].batch, m) => m = Msg(h) \/ In(Rest(h), m)
    BY <1>1, <1>5, RestFacts
  <1>7. ASSUME Led(proc[h].batch, Safe), NEW m \in 1..Msg(h)
        PROVE  m \in Safe \/ m \in Home'
    <2>1. 1 \in DOMAIN proc[h].batch /\ proc[h].batch[1] = Msg(h) /\ Msg(h) \in Nat
          /\ \A j \in DOMAIN proc[h].batch : ~(j < 1)
      BY <1>1 DEF Msgs
    <2>2. m = Msg(h) \/ m \in 1..(Msg(h) - 1)
      BY <2>1
    <2>. QED  BY <1>5, <1>7, <2>1, <2>2 DEF Led
  <1>8. setup.source = "inbox" =>
           /\ \A m \in 1..thread'.cursor : m \in Safe \/ m \in Home'
           /\ Led(Rest(h), Safe \cup Home')
    <2>1. thread'.cursor = thread.cursor \/ thread'.cursor = Msg(h)
      BY DEF Skip, SkipCreated, Cursor, Fail, Typed, TablesOK, Thread
    <2>2. setup.source = "inbox" => 1..thread.cursor \subseteq Safe /\ Led(proc[h].batch, Safe)
      BY DEF AccountInv, Owes
    <2>. QED  BY <1>6, <1>7, <2>1, <2>2
  <1>9. \A m \in Msgs : Holds(h, m) => m \in Home' \/ In(Rest(h), m)
    BY <1>5, <1>6 DEF Holds, In
  <1>10. \A m \in Msgs : Consumed(m)' => Consumed(m)
    BY <1>2 DEF Consumed
  <1>. QED  BY <1>1, <1>2, <1>3, <1>8, <1>9, <1>10, AccountBegin

\* Before the message is stored.
LEMMA AccountOnTheWay ==
    ASSUME Typed, Typed', AccountInv, NEW h \in Handlers,
           \/ Lookup(h) \/ Create(h) \/ NewSession(h) \/ Bind(h) \/ NoneFound(h)
           \/ OpenConv(h) \/ Attach(h) \/ Stamp(h) \/ \E c \in DOMAIN convs : Found(h, c)
    PROVE  AccountInv'
PROOF
  <1> USE DEF world, tables, observers, marks
  <1>0. UNCHANGED <<setup, rows, mapped, hurt, refused, written, marks>>
    BY DEF Lookup, Create, NewSession, Bind, NoneFound, OpenConv, Attach, Stamp, Found
  <1>1. Home \subseteq Home'
    BY <1>0, HomeGrows
  <1>2. thread'.cursor = thread.cursor \/ thread'.cursor = 0
    BY DEF Lookup, Create, NewSession, Bind, NoneFound, OpenConv, Attach, Stamp, Found,
           Typed, TablesOK, Thread, NoThread, marks
  <1>3. proc[h].pc \notin Pulling
    BY DEF Lookup, Create, NewSession, Bind, NoneFound, OpenConv, Attach, Stamp, Found, At, Pulling
  <1>4. ASSUME NEW r, proc' = [proc EXCEPT ![h] = r], r.batch = proc[h].batch,
               r.pc \notin Pulling \cup Past
        PROVE  AccountInv'
    BY <1>0, <1>1, <1>2, <1>3, <1>4, AccountOnward
  <1>5. ASSUME NEW pc, Goto(h, pc), pc \notin Pulling \cup Past
        PROVE  AccountInv'
    <2> DEFINE r == [proc[h] EXCEPT !.pc = pc]
    <2>1. proc' = [proc EXCEPT ![h] = r] /\ r.batch = proc[h].batch /\ r.pc = pc
      BY <1>5, Own DEF Goto, Handler
    <2> HIDE DEF r
    <2>. QED  BY <1>4, <1>5, <2>1
  <1>6. \A mode : NextStep(h, mode) \notin Pulling \cup Past
    BY DEF NextStep, Pulling, Past
  <1>7. \A t : AfterSeen(t) \notin Pulling \cup Past
    BY DEF AfterSeen, Pulling, Past
  <1>8. CASE Lookup(h) \/ Create(h)
    <2>1. PICK pc, t : /\ proc' = [proc EXCEPT ![h] = [proc[h] EXCEPT !.pc = pc, !.copy = t]]
                       /\ pc \notin Pulling \cup Past
      <3>1. CASE Lookup(h)
        <4>1. "create" \notin Pulling \cup Past
          BY DEF Pulling, Past
        <4>. QED  BY <1>7, <3>1, <4>1 DEF Lookup
      <3>2. CASE Create(h)
        BY <1>7, <3>2 DEF Create
      <3>. QED  BY <1>8, <3>1, <3>2
    <2> DEFINE r == [proc[h] EXCEPT !.pc = pc, !.copy = t]
    <2>2. proc' = [proc EXCEPT ![h] = r] /\ r.batch = proc[h].batch /\ r.pc = pc
      BY <2>1, Own DEF Handler
    <2> HIDE DEF r
    <2>. QED  BY <1>4, <2>1, <2>2
  <1>9. CASE NewSession(h)
    <2> DEFINE r == [proc[h] EXCEPT !.pc = "bind", !.copy.session = Len(sessions) + 1]
    <2>1. proc' = [proc EXCEPT ![h] = r] /\ r.batch = proc[h].batch /\ r.pc = "bind"
      BY <1>9, Own DEF NewSession, Handler
    <2> HIDE DEF r
    <2>. QED  BY <1>4, <2>1 DEF Pulling, Past
  <1>10. CASE Bind(h) \/ NoneFound(h) \/ Stamp(h)
    BY <1>5, <1>10 DEF Bind, NoneFound, Stamp, Pulling, Past
  <1>11. CASE Attach(h)
    BY <1>5, <1>6, <1>11 DEF Attach
  <1>12. CASE OpenConv(h)
    <2> DEFINE r == [proc[h] EXCEPT !.pc = "attach", !.conv = Len(convs) + 1,
                       !.human = FALSE, !.queued = FALSE, !.since = Len(rows),
                       !.mode = ResolveMode(proc[h].copy.session)]
    <2>1. proc' = [proc EXCEPT ![h] = r] /\ r.batch = proc[h].batch /\ r.pc = "attach"
      BY <1>12, Own DEF OpenConv, Handler
    <2> HIDE DEF r
    <2>. QED  BY <1>4, <2>1 DEF Pulling, Past
  <1>13. ASSUME NEW c \in DOMAIN convs, Found(h, c)
         PROVE  AccountInv'
    <2> DEFINE mode == IF HumanOwns(c) THEN "off" ELSE ResolveMode(proc[h].copy.session)
    <2> DEFINE q == [proc[h] EXCEPT !.conv = c, !.human = HumanOwns(c), !.queued = convs[c].escalated,
                                    !.mode = mode, !.since = Len(rows), !.pc = NextStep(h, mode)]
    <2> DEFINE r == IF proc[h].copy.conv = c THEN q ELSE [q EXCEPT !.pc = "attach"]
    <2>1. proc' = [proc EXCEPT ![h] = r]
      BY <1>13 DEF Found, Resolved
    <2>2. r.batch = proc[h].batch /\ r.pc \in {NextStep(h, mode), "attach"}
      <3> HIDE DEF mode
      <3>. QED  BY Own DEF Handler
    <2>3. r.pc \notin Pulling \cup Past
      <3> HIDE DEF r, mode
      <3>. QED  BY <1>6, <2>2 DEF Pulling, Past
    <2> HIDE DEF r, q
    <2>. QED  BY <1>4, <2>1, <2>2, <2>3
  <1>. QED  BY <1>8, <1>9, <1>10, <1>11, <1>12, <1>13

\* A row is added.
LEMMA RowAdded ==
    ASSUME Typed, NEW row, rows' = Append(rows, row), hurt' = hurt, refused' = refused
    PROVE  /\ Home \subseteq Home'
           /\ row.kind = "user" /\ row.msg \in Msgs => row.msg \in Home'
PROOF
  <1>1. rows \in Seq(Row)
    BY DEF Typed, TablesOK, marks
  <1>2. /\ \A i \in DOMAIN rows : i \in DOMAIN rows' /\ rows'[i] = rows[i]
        /\ Len(rows) + 1 \in DOMAIN rows' /\ rows'[Len(rows) + 1] = row
    BY <1>1
  <1>3. Home \subseteq Home'
    BY <1>2, HomeGrows
  <1>. QED  BY <1>2, <1>3 DEF Home, Settled, Stored, Msgs

\* The message comes home: it is stored, or the gate turns it away.
LEMMA AccountHome ==
    ASSUME Typed, Typed', AccountInv, NEW h \in Handlers,
           Refuse(h) \/ Store(h) \/ EnterNew(h) \/ \E c \in DOMAIN convs : Enter(h, c)
    PROVE  AccountInv'
PROOF
  <1> USE DEF world, tables, marks
  <1>0. /\ proc[h].pc \notin Pulling /\ Ingesting(h)
        /\ UNCHANGED <<setup, written, marks, thread, mapped>>
    BY DEF Refuse, Store, EnterNew, Enter, LetIn, At, Pulling, Ingesting
  <1>1. Msg(h) \in Msgs
    BY <1>0, HeadIsMsg DEF Typed
  <1>2. CASE Refuse(h)
    <2>1. Home \subseteq Home'
      BY <1>2, HomeGrows DEF Refuse
    <2>2. Msg(h) \in Home'
      BY <1>1, <1>2 DEF Refuse, Home, Settled, Msgs
    <2>3. AfterTurn(h) \notin Pulling /\ Goto(h, AfterTurn(h))
      BY <1>2 DEF Refuse, AfterTurn, Pulling
    <2>. QED  BY <1>0, <2>1, <2>2, <2>3, AccountGoto
  <1>3. ASSUME NEW c, rows' = Append(rows, UserRow(c, Msg(h))), hurt' = hurt, refused' = refused
        PROVE  Home \subseteq Home' /\ Msg(h) \in Home'
    <2>1. UserRow(c, Msg(h)).kind = "user" /\ UserRow(c, Msg(h)).msg = Msg(h)
      BY DEF UserRow
    <2>. QED  BY <1>1, <1>3, <2>1, RowAdded
  <1>4. CASE Store(h)
    <2>1. Home \subseteq Home' /\ Msg(h) \in Home'
      BY <1>3, <1>4 DEF Store
    <2>2. AfterStore(h) \notin Pulling /\ Goto(h, AfterStore(h))
      BY <1>4 DEF Store, AfterStore, Pulling
    <2>. QED  BY <1>0, <2>1, <2>2, AccountGoto
  <1>5. ASSUME NEW c, NEW owner, LetIn(h, c, owner)
        PROVE  AccountInv'
    <2> DEFINE r == [proc[h] EXCEPT !.pc = "think", !.turn = c, !.granted = version, !.owner = owner]
    <2>1. proc' = [proc EXCEPT ![h] = r] /\ r.batch = proc[h].batch /\ r.pc = "think"
      BY <1>5, Own DEF LetIn, Handler
    <2> HIDE DEF r
    <2>2. Home \subseteq Home' /\ Msg(h) \in Home'
      BY <1>3, <1>5 DEF LetIn
    <2>. QED  BY <1>0, <2>1, <2>2, AccountOnward DEF Pulling
  <1>. QED  BY <1>2, <1>4, <1>5 DEF EnterNew, Enter

\* Once it is home, or beside it.
LEMMA AccountAside ==
    ASSUME Typed, Typed', AccountInv, NEW h \in Handlers,
           \/ Notice(h) \/ Silent(h) \/ Answer(h) \/ Draft(h) \/ HandOff(h) \/ Page(h)
           \/ NothingToMap(h) \/ PageFails(h) \/ MapFails(h)
           \/ \E i \in DOMAIN rows : Map(h, i)
    PROVE  AccountInv'
PROOF
  <1> USE DEF world, tables, observers, marks
  <1>0. proc[h].pc \notin Pulling /\ UNCHANGED <<setup, written, marks, thread>>
    BY DEF Notice, Silent, Answer, Draft, HandOff, Page, NothingToMap, PageFails, MapFails, Map,
           Disturb, At, Pulling
  <1>1. ASSUME NEW pc, Goto(h, pc), pc \in Past, proc[h].pc \in Past, mapped' = mapped,
               Home \subseteq Home'
        PROVE  AccountInv'
    BY <1>0, <1>1, AccountGoto DEF Past, Pulling
  <1>2. AfterTurn(h) \in Past
    BY DEF AfterTurn, Past
  <1>3. ASSUME UNCHANGED <<rows, refused>>, hurt \subseteq hurt'
        PROVE  Home \subseteq Home'
    BY <1>3, HomeGrows
  <1>4. CASE Notice(h)
    <2>1. Home \subseteq Home' /\ mapped' = mapped
      BY <1>4, RowAdded DEF Notice
    <2>2. Goto(h, "stamp") /\ "stamp" \notin Pulling \cup Past
      BY <1>4 DEF Notice, Pulling, Past
    <2>. QED  BY <1>0, <2>1, <2>2, AccountGoto
  <1>5. CASE Answer(h) \/ HandOff(h)
    <2>1. Home \subseteq Home' /\ mapped' = mapped /\ proc[h].pc \in Past
      BY <1>5, RowAdded DEF Answer, HandOff, At, Past
    <2>. QED  BY <1>1, <1>2, <1>5, <2>1 DEF Answer, HandOff
  <1>6. CASE Silent(h) \/ Draft(h)
    <2>1. Home \subseteq Home' /\ mapped' = mapped /\ proc[h].pc \in Past
      BY <1>3, <1>6 DEF Silent, Draft, At, Past
    <2>. QED  BY <1>1, <1>2, <1>6, <2>1 DEF Silent, Draft
  <1>7. CASE Page(h) \/ NothingToMap(h) \/ PageFails(h) \/ MapFails(h)
    <2>1. Home \subseteq Home' /\ mapped' = mapped /\ proc[h].pc \in Past
      BY <1>3, <1>7 DEF Page, NothingToMap, PageFails, MapFails, Disturb, At, Past
    <2>2. \E pc \in Past : Goto(h, pc)
      BY <1>7 DEF Page, NothingToMap, PageFails, MapFails, Past
    <2>. QED  BY <1>1, <2>1, <2>2
  <1>8. ASSUME NEW i \in DOMAIN rows, Map(h, i)
        PROVE  AccountInv'
    <2>1. Home \subseteq Home' /\ proc[h].pc = "map" /\ Goto(h, "cursor")
      BY <1>3, <1>8 DEF Map, At
    <2>2. Msg(h) \in Home
      BY <2>1 DEF AccountInv, Tidy, Past, Msg
    <2>3. \A m \in Msgs : mapped'[m] # 0 => mapped[m] # 0 \/ m \in Home'
      <3>1. mapped \in [Msgs -> Nat]
        BY DEF Typed, TablesOK, marks
      <3>2. mapped' = mapped \/ mapped' = [mapped EXCEPT ![Msg(h)] = i]
        BY <1>8 DEF Map
      <3>. QED  BY <2>1, <2>2, <3>1, <3>2
    <2>. QED  BY <1>0, <2>1, <2>3, AccountGoto DEF Past, Pulling
  <1>. QED  BY <1>4, <1>5, <1>6, <1>7, <1>8

\* The shopper writes, the process restarts, the desk and the tenant act.
LEMMA AccountOutside ==
    ASSUME Typed, AccountInv,
           \/ Write \/ NewVersion \/ Restart \/ UNCHANGED vars
           \/ \E c \in DOMAIN convs : Take(c) \/ HandBack(c) \/ End(c)
           \/ \E s \in DOMAIN sessions : Override(s)
    PROVE  AccountInv'
PROOF
  <1>1. CASE Restart
    <2>1. /\ UNCHANGED <<setup, rows, mapped, refused, mark, flagged, thread, written>>
          /\ hurt' = hurt \cup InMemory /\ proc' = [g \in Handlers |-> Idle]
          /\ skipped' = skipped \cup (DroppedBy(Handlers) \ InMemory)
      BY <1>1 DEF Restart, Disturb, tables
    <2>2. Home \subseteq Home'
      BY <2>1, HomeGrows
    <2>3. \A m \in Msgs : m \in InMemory => m \in Home'
      BY <2>1 DEF Home, Settled, Msgs
    <2>4. Safe \subseteq Safe' /\ Home' \subseteq Covered'
      <3>1. \A m \in Safe : m \in Msgs /\ (m \in Home \/ m \in InMemory)
        BY DEF Safe, Home, InMemory
      <3>2. Home' \subseteq Safe' /\ Home' \subseteq Covered'
        BY DEF Home, Safe, Covered, Msgs
      <3>. QED  BY <2>2, <2>3, <3>1, <3>2
    <2>5. ASSUME NEW m \in Msgs, Consumed(m)'
          PROVE  m \in Covered'
      <3>1. Consumed(m) /\ m \in Covered
        BY <2>1, <2>5 DEF Consumed, AccountInv
      <3>2. CASE Settled(m) \/ m \in InMemory
        BY <2>2, <2>3, <2>4, <3>2 DEF Home
      <3>3. CASE m \in skipped
        BY <2>1, <3>3 DEF Covered, Msgs
      <3>4. CASE InHand(m) /\ ~Settled(m) /\ m \notin InMemory
        <4>1. m \in DroppedBy(Handlers)
          BY <3>1, <3>4 DEF DroppedBy, InHand, Settled
        <4>. QED  BY <2>1, <3>4, <4>1 DEF Covered, Msgs
      <3>. QED  BY <3>1, <3>2, <3>3, <3>4 DEF Covered
    <2>6. \A g \in Handlers : Tidy(proc[g], Home)' /\ Owes(proc[g], Safe, written)'
      <3>1. Idle.pc = "idle" /\ Idle.batch = <<>>
        BY DEF Idle
      <3>. QED  BY <2>1, <3>1 DEF Tidy, Owes, Led, Past
    <2>7. \A g \in Handlers, m \in Msgs : ~Passing(g, m)'
      BY <2>1 DEF Passing, At, Idle
    <2>8. \A m \in Msgs : mapped'[m] # 0 => m \in Home'
      BY <2>1, <2>2 DEF AccountInv
    <2>9. setup'.source = "inbox" => 1..thread'.cursor \subseteq Safe'
      BY <2>1, <2>4 DEF AccountInv
    <2>. QED  BY <2>5, <2>6, <2>7, <2>8, <2>9 DEF AccountInv, Msgs
  <1>2. CASE ~Restart
    <2>1. UNCHANGED <<setup, rows, mapped, proc, hurt, refused, marks, thread>>
      BY <1>2 DEF Write, NewVersion, Take, HandBack, End, Override, Disturb, vars, tables, observers, marks
    <2>2. written \in Nat /\ written' \in Nat /\ written <= written' /\ MaxMsgs \in Nat
      <3>1. written \in Nat /\ MaxMsgs \in Nat
        BY SetupFacts DEF Typed, TablesOK, MsgOrNone
      <3>2. written' = written \/ written' = written + 1
        BY <1>2 DEF Write, NewVersion, Take, HandBack, End, Override, Disturb, vars, world, tables, observers
      <3>. QED  BY <3>1, <3>2
    <2>3. Home' = Home /\ Safe' = Safe /\ Covered' = Covered
      BY <2>1 DEF Home, Safe, Covered, InHand, Settled, Stored, Msgs, Ingesting, Holds, marks
    <2>4. ASSUME NEW g \in Handlers, setup.source = "inbox"
          PROVE  Owes(proc'[g], Safe', written')
      <3>1. proc[g] \in Handler /\ Owes(proc[g], Safe, written)
        BY <2>4, Own DEF AccountInv
      <3>. QED  BY <2>1, <2>2, <2>3, <3>1, OwesLess
    <2>5. /\ \A g \in Handlers : Tidy(proc[g], Home)'
          /\ \A g \in Handlers, m \in Msgs : Passing(g, m)' => m \in Covered'
          /\ \A m \in Msgs : Consumed(m)' => m \in Covered'
      BY <2>1, <2>3 DEF AccountInv, Tidy, Passing, At, Consumed, marks
    <2>. QED  BY <2>1, <2>3, <2>4, <2>5 DEF AccountInv, Msgs
  <1>. QED  BY <1>1, <1>2

LEMMA InitAccount == Init => AccountInv
PROOF
  <1> SUFFICES ASSUME Init PROVE AccountInv
    OBVIOUS
  <1>1. /\ mark = 0 /\ flagged = {} /\ thread.cursor = 0 /\ proc = [h \in Handlers |-> Idle]
        /\ \A m \in Msgs : mapped[m] = 0
    BY DEF Init, NoThread
  <1>2. Idle.pc = "idle" /\ Idle.batch = <<>>
    BY DEF Idle
  <1>3. \A m \in Msgs : ~Consumed(m)
    BY <1>1 DEF Consumed, Msgs
  <1>4. \A h \in Handlers : Tidy(proc[h], Home) /\ Owes(proc[h], Safe, written)
                             /\ \A m \in Msgs : ~Passing(h, m)
    BY <1>1, <1>2 DEF Tidy, Owes, Led, Past, Passing, At
  <1>. QED  BY <1>1, <1>3, <1>4 DEF AccountInv

LEMMA NextAccount == Typed /\ AccountInv /\ [Next]_vars => AccountInv'
PROOF
  <1> SUFFICES ASSUME Typed, AccountInv, [Next]_vars PROVE AccountInv'
    OBVIOUS
  <1>0. setup.handlers \subseteq Handlers /\ Typed'
    BY SetupFacts, NextTyped DEF Typed
  <1>1. ASSUME NEW h \in setup.handlers, Collect(h)
        PROVE  AccountInv'
    BY <1>0, <1>1, AccountLists, AccountMarks, AccountHands DEF Collect
  <1>2. ASSUME NEW h \in setup.handlers, Proceed(h)
        PROVE  AccountInv'
    BY <1>0, <1>2, AccountFetch, AccountMarks, AccountRead, AccountHands, AccountLeaves,
       AccountOnTheWay, AccountHome, AccountAside DEF Proceed
  <1>3. ASSUME NEW h \in setup.handlers,
               \/ Fail(h) \/ PageFails(h) \/ MapFails(h) \/ Redeliver(h) \/ PullFails(h)
               \/ \E m \in proc[h].todo : FlagFails(h, m)
        PROVE  AccountInv'
    BY <1>0, <1>3, AccountHands, AccountLeaves, AccountAside, AccountDrops, AccountRead
  <1>. QED  BY <1>1, <1>2, <1>3, AccountOutside DEF Next, Outside

\* Whatever is delivered again, fails, restarts or runs beside it: the webhook's
\* answer, the read flags of the mail, the stream's cursor, the room's watermark
\* and the thread's cursor never pass a message that is not in hand, in the table,
\* turned away or known to have failed, except one that was in the hands of a pull
\* that ended before it returned.
THEOREM NothingLost == Spec => []Accounted
PROOF
  <1>1. Init => Typed /\ AccountInv
    BY InitTyped, InitAccount
  <1>2. Typed /\ AccountInv /\ [Next]_vars => (Typed /\ AccountInv)'
    BY NextTyped, NextAccount
  <1>3. Typed /\ AccountInv => Accounted
    BY AccountSuffices
  <1>. QED  BY <1>1, <1>2, <1>3, PTL DEF Spec

(***************************************************************************)
(* The conversations of the room.                                           *)
(*                                                                          *)
(* Common ground of the last three properties: what any step may do to a    *)
(* conversation, and which handlers are at work while ingests have not      *)
(* overlapped.                                                              *)
(***************************************************************************)
\* The steps at which a handler acts on the conversation it resolved.
Deciding == {"attach", "notice", "stamp", "gate", "think", "store", "page"}

\* A conversation keeps its session, remains escalated, and is the bot's again
\* only when it was handed back.
Conserved ==
    /\ returned \subseteq returned'
    /\ \A c \in DOMAIN convs :
          /\ c \in DOMAIN convs'
          /\ convs'[c].session = convs[c].session
          /\ convs[c].escalated => convs'[c].escalated
          /\ convs'[c].status = "ai" => convs[c].status = "ai" \/ c \in returned'

LEMMA Marked ==
    ASSUME Typed, NEW c \in DOMAIN convs, MarkWaiting(c)
    PROVE  /\ DOMAIN convs' = DOMAIN convs
           /\ convs'[c].status = "waiting" /\ convs'[c].escalated /\ convs'[c].session = convs[c].session
           /\ \A d \in DOMAIN convs \ {c} : convs'[d] = convs[d]
PROOF
  <1>1. convs \in Seq(Conv) /\ convs[c] \in Conv
    BY DEF Typed, TablesOK, marks
  <1>. QED  BY <1>1 DEF MarkWaiting, Conv

LEMMA Opened ==
    ASSUME Typed, NEW s, convs' = Append(convs, NewConv(s))
    PROVE  /\ DOMAIN convs' = DOMAIN convs \cup {Len(convs) + 1}
           /\ Len(convs) + 1 \notin DOMAIN convs
           /\ convs'[Len(convs) + 1] = NewConv(s)
           /\ \A d \in DOMAIN convs : convs'[d] = convs[d]
PROOF
  <1>1. convs \in Seq(Conv)
    BY DEF Typed, TablesOK, marks
  <1>. QED  BY <1>1

LEMMA Edited ==
    ASSUME Typed, NEW c \in DOMAIN convs, NEW status, NEW agent, SetConv(c, status, agent)
    PROVE  /\ DOMAIN convs' = DOMAIN convs
           /\ convs'[c].status = status /\ convs'[c].escalated = convs[c].escalated
           /\ convs'[c].session = convs[c].session
           /\ \A d \in DOMAIN convs \ {c} : convs'[d] = convs[d]
PROOF
  <1>1. convs \in Seq(Conv) /\ convs[c] \in Conv
    BY DEF Typed, TablesOK, marks
  <1>. QED  BY <1>1 DEF SetConv, Conv

\* The conversations a handler works on are rows of the table.
LEMMA OwnConv ==
    ASSUME Typed, NEW h \in Handlers
    PROVE  /\ proc[h].pc \in Deciding => proc[h].conv \in DOMAIN convs
           /\ proc[h].pc = "think" => proc[h].turn \in DOMAIN convs
PROOF
  <1>1. DOMAIN convs = 1..Len(convs)
    BY DEF Typed, TablesOK, marks
  <1>. QED  BY <1>1, Own DEF Deciding, Unresolved, Early, Pulling

LEMMA StepsConserve == Typed /\ [Next]_vars => Conserved
PROOF
  <1> SUFFICES ASSUME Typed, [Next]_vars PROVE Conserved
    OBVIOUS
  <1> USE DEF world, tables, observers, marks
  <1>0. setup.handlers \subseteq Handlers
    BY SetupFacts DEF Typed
  <1>1. CASE UNCHANGED <<convs, returned>>
    BY <1>1 DEF Conserved
  <1>2. ASSUME NEW h \in Handlers, HandOff(h) \/ Page(h)
        PROVE  Conserved
    <2>1. PICK c \in DOMAIN convs : MarkWaiting(c)
      BY <1>2, OwnConv DEF HandOff, Page, At, Deciding
    <2>2. returned' = returned
      BY <1>2 DEF HandOff, Page
    <2>. QED  BY <2>1, <2>2, Marked DEF Conserved
  <1>3. ASSUME NEW h \in Handlers, OpenConv(h) \/ EnterNew(h)
        PROVE  Conserved
    <2>1. convs' = Append(convs, NewConv(proc[h].copy.session)) /\ returned' = returned
      BY <1>3 DEF OpenConv, EnterNew, LetIn
    <2>. QED  BY <2>1, Opened DEF Conserved
  <1>4. ASSUME NEW c \in DOMAIN convs, Take(c) \/ HandBack(c) \/ End(c)
        PROVE  Conserved
    <2>1. CASE Take(c)
      <3>1. SetConv(c, "agent", TRUE) /\ returned \subseteq returned'
        BY <2>1 DEF Take
      <3>. QED  BY <3>1, Edited, ZenonT(60) DEF Conserved
    <2>2. CASE HandBack(c)
      <3>1. SetConv(c, "ai", FALSE) /\ returned \subseteq returned' /\ c \in returned'
        BY <2>2 DEF HandBack
      <3>. QED  BY <3>1, Edited DEF Conserved
    <2>3. CASE End(c)
      <3>1. SetConv(c, "ended", convs[c].agent) /\ returned' = returned
        BY <2>3 DEF End
      <3>. QED  BY <3>1, Edited DEF Conserved
    <2>. QED  BY <1>4, <2>1, <2>2, <2>3
  <1>5. ASSUME NEW h \in Handlers,
               \/ Collect(h) \/ Pulls(h) \/ HandOver(h)
               \/ Fail(h) \/ PageFails(h) \/ MapFails(h) \/ Redeliver(h)
        PROVE  UNCHANGED <<convs, returned>>
    <2>1. CASE Search(h) \/ Pulls(h)
      BY <2>1, PullsKeep DEF Pulls
    <2>. QED  BY <1>5, <2>1 DEF Collect, Deliver, Pull, List, HandOver, Fail, PageFails, MapFails, Redeliver
  <1>6. ASSUME NEW h \in Handlers, Proceed(h)
        PROVE  Conserved
    <2>1. CASE Pulls(h) \/ HandOver(h)
      BY <1>1, <1>5, <2>1
    <2>2. CASE ~(Pulls(h) \/ HandOver(h))
      <3>1. \/ UNCHANGED <<convs, returned>>
            \/ HandOff(h) \/ Page(h) \/ OpenConv(h) \/ EnterNew(h)
        BY <1>6, <2>2 DEF Proceed, Pulls, Fetch, Skip, Lookup, SkipCreated, Create, NewSession, Bind,
                    NoneFound, Attach, Notice, Stamp, Refuse, Silent, Answer, Draft, Store,
                    NothingToMap, Cursor, Found, Enter, LetIn, Map
      <3>. QED  BY <1>1, <1>2, <1>3, <3>1
    <2>. QED  BY <2>1, <2>2
  <1>7. CASE Write \/ Restart \/ NewVersion \/ (\E s \in DOMAIN sessions : Override(s)) \/ UNCHANGED vars
    <2>1. UNCHANGED <<convs, returned>>
      BY <1>7 DEF Write, Restart, NewVersion, Override, vars, marks
    <2>. QED  BY <1>1, <2>1
  <1>. QED  BY <1>0, <1>1, <1>4, <1>5, <1>6, <1>7 DEF Next, Outside, Pulls

\* What a step leaves of a handler's record but for where it stands.
Same(r, p) ==
    /\ r.batch = p.batch /\ r.copy = p.copy /\ r.conv = p.conv /\ r.mode = p.mode
    /\ r.human = p.human /\ r.queued = p.queued /\ r.owner = p.owner /\ r.turn = p.turn

LEMMA GotoView ==
    ASSUME Typed, NEW h \in Handlers, NEW pc, Goto(h, pc)
    PROVE  \E r : proc' = [proc EXCEPT ![h] = r] /\ r.pc = pc /\ Same(r, proc[h])
PROOF
  <1> DEFINE r == [proc[h] EXCEPT !.pc = pc]
  <1>1. proc' = [proc EXCEPT ![h] = r] /\ r.pc = pc /\ Same(r, proc[h])
    BY Own DEF Goto, Handler, Same
  <1>. QED  BY <1>1

LEMMA LetInView ==
    ASSUME Typed, NEW h \in Handlers, NEW c, NEW owner, LetIn(h, c, owner)
    PROVE  \E r : /\ proc' = [proc EXCEPT ![h] = r]
                  /\ r.pc = "think" /\ r.turn = c /\ r.owner = owner
                  /\ r.batch = proc[h].batch /\ r.conv = proc[h].conv
                  /\ r.human = proc[h].human /\ r.queued = proc[h].queued
PROOF
  <1> DEFINE r == [proc[h] EXCEPT !.pc = "think", !.turn = c, !.granted = version, !.owner = owner]
  <1>1. /\ proc' = [proc EXCEPT ![h] = r]
        /\ r.pc = "think" /\ r.turn = c /\ r.owner = owner
        /\ r.batch = proc[h].batch /\ r.conv = proc[h].conv
        /\ r.human = proc[h].human /\ r.queued = proc[h].queued
    BY Own DEF LetIn, Handler
  <1>. QED  BY <1>1

LEMMA FoundView ==
    ASSUME Typed, NEW h \in Handlers, NEW c \in DOMAIN convs, Found(h, c)
    PROVE  \E r : /\ proc' = [proc EXCEPT ![h] = r]
                  /\ r.pc \in {"attach", "store", "notice", "gate"} /\ r.conv = c
                  /\ r.human = HumanOwns(c) /\ r.queued = convs[c].escalated
PROOF
  <1> DEFINE mode == IF HumanOwns(c) THEN "off" ELSE ResolveMode(proc[h].copy.session)
  <1> DEFINE q == [proc[h] EXCEPT !.conv = c, !.human = HumanOwns(c), !.queued = convs[c].escalated,
                                  !.mode = mode, !.since = Len(rows), !.pc = NextStep(h, mode)]
  <1> DEFINE r == IF proc[h].copy.conv = c THEN q ELSE [q EXCEPT !.pc = "attach"]
  <1>1. proc' = [proc EXCEPT ![h] = r]
    BY DEF Found, Resolved
  <1>2. NextStep(h, mode) \in {"store", "notice", "gate"}
    BY NextStepFacts
  <1> HIDE DEF mode
  <1>3. /\ r.pc \in {"attach", "store", "notice", "gate"} /\ r.conv = c
        /\ r.human = HumanOwns(c) /\ r.queued = convs[c].escalated
    BY <1>2, Own DEF Handler
  <1>. QED  BY <1>1, <1>3

LEMMA OpenView ==
    ASSUME Typed, NEW h \in Handlers, OpenConv(h)
    PROVE  \E r : /\ proc' = [proc EXCEPT ![h] = r]
                  /\ r.pc = "attach" /\ r.conv = Len(convs) + 1
                  /\ r.human = FALSE /\ r.queued = FALSE
PROOF
  <1> DEFINE r == [proc[h] EXCEPT !.pc = "attach", !.conv = Len(convs) + 1,
                     !.human = FALSE, !.queued = FALSE, !.since = Len(rows),
                     !.mode = ResolveMode(proc[h].copy.session)]
  <1>1. /\ proc' = [proc EXCEPT ![h] = r]
        /\ r.pc = "attach" /\ r.conv = Len(convs) + 1
        /\ r.human = FALSE /\ r.queued = FALSE
    BY Own DEF OpenConv, Handler
  <1>. QED  BY <1>1

\* A handler that becomes r works alone, as far as overlapped says.
Unmet(h, r) ==
    /\ overlapped => overlapped'
    /\ r.pc \in Pulling \/ Ingesting(h) \/ overlapped' \/ \A g \in Handlers \ {h} : ~Ingesting(g)

LEMMA BeginView ==
    ASSUME Typed, NEW h \in Handlers, NEW b, Begin(h, b)
    PROVE  \E r : proc' = [proc EXCEPT ![h] = r] /\ r.pc \in {"idle", "lookup"} /\ Unmet(h, r)
PROOF
  <1> DEFINE r == IF b = <<>> THEN Idle ELSE [Idle EXCEPT !.pc = "lookup", !.batch = b]
  <1>1. proc' = [proc EXCEPT ![h] = r]
    BY DEF Begin
  <1>2. IF b = <<>> THEN r.pc = "idle" ELSE r.pc = "lookup"
    BY DEF Idle
  <1> HIDE DEF r
  <1>3. (overlapped => overlapped') /\ (b # <<>> /\ (\E g \in Handlers \ {h} : Ingesting(g)) => overlapped')
    BY DEF Begin
  <1>4. Unmet(h, r)
    BY <1>2, <1>3 DEF Unmet, Pulling
  <1>. QED  BY <1>1, <1>2, <1>4

\* Taking messages, leaving them, and the way to a conversation.
Approach(h) ==
    \/ Collect(h) \/ Fetch(h) \/ Pulls(h) \/ HandOver(h) \/ Redeliver(h)
    \/ Skip(h) \/ SkipCreated(h) \/ Cursor(h) \/ Fail(h)
    \/ Lookup(h) \/ Create(h) \/ NewSession(h) \/ Bind(h) \/ NoneFound(h)

LEMMA ApproachView ==
    ASSUME Typed, NEW h \in Handlers, Approach(h)
    PROVE  \E r : proc' = [proc EXCEPT ![h] = r] /\ r.pc \in Unresolved /\ Unmet(h, r)
PROOF
  <1> USE DEF world, tables, observers, marks
  <1>1. ASSUME NEW b, Begin(h, b)
        PROVE  \E r : proc' = [proc EXCEPT ![h] = r] /\ r.pc \in Unresolved /\ Unmet(h, r)
    BY <1>1, BeginView DEF Unresolved, Early, Pulling
  <1>2. CASE Deliver(h) \/ HandOver(h) \/ Redeliver(h) \/ Skip(h) \/ SkipCreated(h) \/ Cursor(h) \/ Fail(h)
    BY <1>1, <1>2 DEF Deliver, HandOver, Redeliver, Skip, SkipCreated, Cursor, Fail
  <1>3. ASSUME NEW r, proc' = [proc EXCEPT ![h] = r], r.pc \in Unresolved, overlapped' = overlapped,
               r.pc \in Pulling \/ Ingesting(h)
        PROVE  \E q : proc' = [proc EXCEPT ![h] = q] /\ q.pc \in Unresolved /\ Unmet(h, q)
    BY <1>3 DEF Unmet
  <1>4. CASE Pull(h)
    <2> DEFINE r == [proc[h] EXCEPT !.pc = "commit", !.listed = written, !.batch = Run(mark + 1, written)]
    <2>1. proc' = [proc EXCEPT ![h] = r] /\ r.pc = "commit" /\ overlapped' = overlapped
      BY <1>4, Own DEF Pull, Handler
    <2> HIDE DEF r
    <2>. QED  BY <1>3, <2>1 DEF Pulling, Unresolved, Early
  <1>5. CASE List(h)
    <2> DEFINE r == [proc[h] EXCEPT !.pc = "fetch", !.listed = written, !.copy = thread]
    <2>1. proc' = [proc EXCEPT ![h] = r] /\ r.pc = "fetch" /\ overlapped' = overlapped
      BY <1>5, Own DEF List, Handler
    <2> HIDE DEF r
    <2>. QED  BY <1>3, <2>1 DEF Pulling, Unresolved, Early
  <1>6. CASE Fetch(h)
    <2> DEFINE r == [proc[h] EXCEPT !.pc = "commit", !.copy = NoThread,
                                    !.batch = Run(proc[h].copy.cursor + 1, written)]
    <2>1. proc' = [proc EXCEPT ![h] = r] /\ r.pc = "commit" /\ overlapped' = overlapped
      BY <1>6, Own DEF Fetch, Handler
    <2> HIDE DEF r
    <2>. QED  BY <1>3, <2>1 DEF Pulling, Unresolved, Early
  <1>7. CASE Lookup(h) \/ Create(h)
    <2>1. PICK pc, t : /\ proc' = [proc EXCEPT ![h] = [proc[h] EXCEPT !.pc = pc, !.copy = t]]
                       /\ pc \in {"create", "session", "converse"}
      <3>1. \A q : AfterSeen(q) \in {"session", "converse"}
        BY DEF AfterSeen
      <3>2. CASE Lookup(h)
        BY <3>1, <3>2 DEF Lookup
      <3>3. CASE Create(h)
        BY <3>1, <3>3 DEF Create
      <3>. QED  BY <1>7, <3>2, <3>3
    <2> DEFINE r == [proc[h] EXCEPT !.pc = pc, !.copy = t]
    <2>2. proc' = [proc EXCEPT ![h] = r] /\ r.pc = pc
      BY <2>1, Own DEF Handler
    <2> HIDE DEF r
    <2>3. Ingesting(h) /\ overlapped' = overlapped
      BY <1>7 DEF Lookup, Create, At, Ingesting
    <2>. QED  BY <1>3, <2>1, <2>2, <2>3 DEF Unresolved, Early, Pulling
  <1>8. CASE NewSession(h)
    <2> DEFINE r == [proc[h] EXCEPT !.pc = "bind", !.copy.session = Len(sessions) + 1]
    <2>1. proc' = [proc EXCEPT ![h] = r] /\ r.pc = "bind"
      BY <1>8, Own DEF NewSession, Handler
    <2> HIDE DEF r
    <2>2. Ingesting(h) /\ overlapped' = overlapped
      BY <1>8 DEF NewSession, At, Ingesting
    <2>. QED  BY <1>3, <2>1, <2>2 DEF Unresolved, Early, Pulling
  <1>9. CASE Bind(h) \/ NoneFound(h)
    <2>1. PICK pc \in {"converse", "open"} : Goto(h, pc)
      BY <1>9 DEF Bind, NoneFound
    <2>2. PICK r : proc' = [proc EXCEPT ![h] = r] /\ r.pc = pc
      BY <2>1, GotoView
    <2>3. Ingesting(h) /\ overlapped' = overlapped
      BY <1>9 DEF Bind, NoneFound, At, Ingesting
    <2>. QED  BY <1>3, <2>1, <2>2, <2>3 DEF Unresolved, Early, Pulling
  <1>10. CASE Search(h) \/ Pulls(h)
    <2>1. Pulls(h)
      BY <1>10 DEF Pulls
    <2>2. PICK r \in Handler : proc' = [proc EXCEPT ![h] = r] /\ r.pc \in {"idle", "read", "handover"}
      BY <2>1, PullsRecord
    <2>3. overlapped' = overlapped
      BY <2>1, PullsKeep
    <2>. QED  BY <1>3, <2>2, <2>3 DEF Unresolved, Early, Pulling
  <1>. QED  BY <1>2, <1>4, <1>5, <1>6, <1>7, <1>8, <1>9, <1>10 DEF Approach, Collect

\* While no two ingests have been in progress at once, none are now.
Alone == ~overlapped => \A g, h \in Handlers : Ingesting(g) /\ Ingesting(h) => g = h

LEMMA StaysAlone ==
    ASSUME Typed, Alone, NEW h \in Handlers, NEW r, proc' = [proc EXCEPT ![h] = r], Unmet(h, r)
    PROVE  Alone'
PROOF
  <1>1. proc'[h] = r /\ \A g \in Handlers \ {h} : proc'[g] = proc[g]
    BY DEF Typed, HandlersFit
  <1> SUFFICES ASSUME ~overlapped', NEW g \in Handlers, NEW k \in Handlers,
                      Ingesting(g)', Ingesting(k)', g # k
               PROVE  FALSE
    BY DEF Alone, Ingesting
  <1>2. \A f \in Handlers \ {h} : Ingesting(f)' => Ingesting(f)
    BY <1>1 DEF Ingesting
  <1>3. ~overlapped
    BY DEF Unmet
  <1>4. CASE g # h /\ k # h
    BY <1>2, <1>3, <1>4 DEF Alone
  <1>5. CASE g = h \/ k = h
    <2>1. r.pc \notin Pulling
      BY <1>1, <1>5 DEF Ingesting, Pulling
    <2>2. PICK f \in Handlers \ {h} : Ingesting(f)
      BY <1>2, <1>5
    <2>. QED  BY <1>3, <2>1, <2>2 DEF Unmet, Alone
  <1>. QED  BY <1>4, <1>5

(***************************************************************************)
(* A conversation is queued by the ingest once.                             *)
(***************************************************************************)
PagedInv ==
    /\ Alone
    /\ \A c \in DOMAIN convs : paged[c] # 0 => convs[c].escalated
    /\ \A h \in Handlers : At(h, "page") => ~proc[h].queued
    /\ ~overlapped => \A h \in Handlers :
          proc[h].pc \in Deciding /\ ~proc[h].queued => paged[proc[h].conv] = 0
    /\ PagedOnce

LEMMA PagedDomain == Typed => DOMAIN paged = DOMAIN convs
  BY DEF Typed, TablesOK, marks

\* A step that queues nothing.
LEMMA PagedStep ==
    ASSUME Typed, Typed', PagedInv, Conserved, NEW h \in Handlers, NEW r,
           proc' = [proc EXCEPT ![h] = r], Unmet(h, r),
           \A c \in DOMAIN convs' : paged'[c] = 0 \/ (c \in DOMAIN convs /\ paged'[c] = paged[c]),
           r.pc = "page" => ~r.queued,
           ~overlapped' /\ r.pc \in Deciding /\ ~r.queued => paged'[r.conv] = 0
    PROVE  PagedInv'
PROOF
  <1>0. proc'[h] = r /\ \A g \in Handlers \ {h} : proc'[g] = proc[g]
    BY DEF Typed, HandlersFit
  <1>1. Alone'
    BY StaysAlone DEF PagedInv
  <1>2. (\A c \in DOMAIN convs : paged[c] # 0 => convs[c].escalated)'
    BY DEF PagedInv, Conserved
  <1>3. (\A g \in Handlers : At(g, "page") => ~proc[g].queued)'
    BY <1>0 DEF PagedInv, At
  <1>4. ASSUME ~overlapped', NEW g \in Handlers, proc'[g].pc \in Deciding, ~proc'[g].queued
        PROVE  paged'[proc'[g].conv] = 0
    <2>1. CASE g = h
      BY <1>0, <1>4, <2>1
    <2>2. CASE g # h
      <3>1. proc'[g] = proc[g] /\ ~overlapped
        BY <1>0, <1>4, <2>2 DEF Unmet
      <3>2. paged[proc[g].conv] = 0 /\ proc[g].conv \in DOMAIN convs
        BY <1>4, <3>1, OwnConv DEF PagedInv
      <3>3. proc[g].conv \in DOMAIN convs'
        BY <3>2 DEF Conserved
      <3>. QED  BY <3>1, <3>2, <3>3
    <2>. QED  BY <2>1, <2>2
  <1>5. PagedOnce'
    <2> SUFFICES ASSUME ~overlapped', NEW c \in DOMAIN paged'
                 PROVE  paged'[c] <= 1
      BY DEF PagedOnce
    <2>1. ~overlapped /\ c \in DOMAIN convs'
      BY PagedDomain DEF Unmet, Typed, TablesOK, marks
    <2>2. c \in DOMAIN convs => paged[c] <= 1
      BY <2>1, PagedDomain DEF PagedInv, PagedOnce
    <2>. QED  BY <2>1, <2>2
  <1>. QED  BY <1>1, <1>2, <1>3, <1>4, <1>5 DEF PagedInv

LEMMA PagedGoto ==
    ASSUME Typed, Typed', PagedInv, Conserved, NEW h \in Handlers, NEW pc, Goto(h, pc),
           Ingesting(h), overlapped' = overlapped, paged' = paged, DOMAIN convs' = DOMAIN convs,
           pc \in Deciding => proc[h].pc \in Deciding,
           pc = "page" => ~proc[h].queued
    PROVE  PagedInv'
PROOF
  <1>1. PICK r : proc' = [proc EXCEPT ![h] = r] /\ r.pc = pc /\ Same(r, proc[h])
    BY GotoView
  <1>2. Unmet(h, r)
    BY DEF Unmet
  <1>3. ~overlapped' /\ r.pc \in Deciding /\ ~r.queued => paged'[r.conv] = 0
    BY <1>1 DEF Same, PagedInv
  <1>4. r.pc = "page" => ~r.queued
    BY <1>1 DEF Same
  <1>. QED  BY <1>1, <1>2, <1>3, <1>4, PagedStep

\* The conversation is queued: it had not been.
LEMMA PagedPage ==
    ASSUME Typed, Typed', PagedInv, Conserved, NEW h \in Handlers, Page(h)
    PROVE  PagedInv'
PROOF
  <1> DEFINE c == proc[h].conv
  <1>1. proc[h].pc = "page" /\ c \in DOMAIN convs /\ Ingesting(h)
    BY OwnConv DEF Page, At, Deciding, Ingesting
  <1>2. /\ MarkWaiting(c) /\ paged' = [paged EXCEPT ![c] = @ + 1] /\ Goto(h, "map")
        /\ overlapped' = overlapped
    BY DEF Page
  <1>3. paged \in Seq(Nat) /\ c \in DOMAIN paged
    BY <1>1, PagedDomain DEF Typed, TablesOK, marks
  <1>4. PICK r : proc' = [proc EXCEPT ![h] = r] /\ r.pc = "map" /\ Same(r, proc[h])
    BY <1>2, GotoView
  <1>5. proc'[h] = r /\ \A g \in Handlers \ {h} : proc'[g] = proc[g]
    BY <1>4 DEF Typed, HandlersFit
  <1>6. Alone'
    BY <1>1, <1>2, <1>4, StaysAlone DEF PagedInv, Unmet
  <1>7. /\ DOMAIN convs' = DOMAIN convs /\ convs'[c].escalated
        /\ \A d \in DOMAIN convs \ {c} : convs'[d] = convs[d]
    BY <1>1, <1>2, Marked
  <1>8. DOMAIN paged' = DOMAIN paged /\ paged'[c] = paged[c] + 1
        /\ \A d \in DOMAIN paged \ {c} : paged'[d] = paged[d]
    BY <1>2, <1>3
  <1> HIDE DEF c
  <1>9. (\A d \in DOMAIN convs : paged[d] # 0 => convs[d].escalated)'
    BY <1>7, <1>8, PagedDomain DEF PagedInv
  <1>10. (\A g \in Handlers : At(g, "page") => ~proc[g].queued)'
    BY <1>4, <1>5 DEF PagedInv, At
  <1>11. ASSUME ~overlapped, NEW g \in Handlers, proc'[g].pc \in Deciding
         PROVE  FALSE
    <2>1. g # h /\ proc[g].pc \in Deciding
      BY <1>4, <1>5, <1>11 DEF Deciding
    <2>2. Ingesting(g)
      BY <2>1 DEF Deciding, Ingesting
    <2>. QED  BY <1>1, <1>11, <2>1, <2>2 DEF PagedInv, Alone
  <1>12. ~overlapped => paged[c] = 0
    BY <1>1 DEF PagedInv, At, Deciding, c
  <1>13. PagedOnce'
    <2> SUFFICES ASSUME ~overlapped, NEW d \in DOMAIN paged
                 PROVE  paged'[d] <= 1
      BY <1>2, <1>8 DEF PagedOnce
    <2>1. CASE d = c
      BY <1>8, <1>12, <2>1
    <2>2. CASE d # c
      BY <1>8, <2>2 DEF PagedInv, PagedOnce
    <2>. QED  BY <2>1, <2>2
  <1>. QED  BY <1>2, <1>6, <1>9, <1>10, <1>11, <1>13 DEF PagedInv

LEMMA PagedApproach ==
    ASSUME Typed, Typed', PagedInv, Conserved, NEW h \in Handlers, Approach(h)
    PROVE  PagedInv'
PROOF
  <1>1. PICK r : proc' = [proc EXCEPT ![h] = r] /\ r.pc \in Unresolved /\ Unmet(h, r)
    BY ApproachView
  <1>2. r.pc \notin Deciding
    BY <1>1 DEF Deciding, Unresolved, Early, Pulling
  <1>3. UNCHANGED <<paged, convs>>
    <2>1. CASE Search(h) \/ Pulls(h)
      BY <2>1, PullsKeep DEF Pulls
    <2>2. CASE ~(Search(h) \/ Pulls(h))
      BY <2>2 DEF Approach, Collect, Deliver, Pull, List, Fetch, HandOver, Redeliver, Skip, SkipCreated,
           Cursor, Fail, Lookup, Create, NewSession, Bind, NoneFound, tables, observers, marks
    <2>. QED  BY <2>1, <2>2
  <1>. QED  BY <1>1, <1>2, <1>3, PagedStep DEF Deciding

LEMMA PagedOnward ==
    ASSUME Typed, Typed', PagedInv, Conserved, NEW h \in Handlers,
           \/ Attach(h) \/ Notice(h) \/ Stamp(h) \/ Refuse(h) \/ Silent(h) \/ Answer(h)
           \/ Draft(h) \/ HandOff(h) \/ Store(h) \/ NothingToMap(h) \/ PageFails(h) \/ MapFails(h)
           \/ \E i \in DOMAIN rows : Map(h, i)
    PROVE  PagedInv'
PROOF
  <1>1. /\ Ingesting(h) /\ overlapped' = overlapped /\ paged' = paged
        /\ proc[h].pc \in Deciding \cup {"map"}
    BY DEF Attach, Notice, Stamp, Refuse, Silent, Answer, Draft, HandOff, Store, NothingToMap,
           PageFails, MapFails, Map, At, Ingesting, Deciding, tables, observers, marks
  <1>2. DOMAIN convs' = DOMAIN convs
    <2>1. CASE HandOff(h)
      BY <2>1, OwnConv, Marked DEF HandOff, At
    <2>2. CASE ~HandOff(h)
      BY <2>2 DEF Attach, Notice, Stamp, Refuse, Silent, Answer, Draft, Store, NothingToMap,
                  PageFails, MapFails, Map, tables, marks
    <2>. QED  BY <2>1, <2>2
  <1>3. /\ AfterTurn(h) \in {"map", "page"} /\ (AfterTurn(h) = "page" => ~proc[h].queued)
        /\ AfterStore(h) \in {"map", "page"} /\ (AfterStore(h) = "page" => ~proc[h].queued)
    BY DEF AfterTurn, AfterStore
  <1>4. \A mode : NextStep(h, mode) \in {"store", "notice", "gate"}
    BY NextStepFacts
  <1>5. PICK pc : /\ Goto(h, pc)
                  /\ pc \in Deciding => proc[h].pc \in Deciding
                  /\ pc = "page" => ~proc[h].queued
    <2>1. CASE Attach(h)
      BY <1>4, <2>1 DEF Attach, At, Deciding
    <2>2. CASE Notice(h) \/ Stamp(h)
      BY <2>2 DEF Notice, Stamp, At, Deciding
    <2>3. CASE Refuse(h) \/ Silent(h) \/ Answer(h) \/ Draft(h) \/ HandOff(h)
      BY <1>3, <2>3 DEF Refuse, Silent, Answer, Draft, HandOff, At, Deciding
    <2>4. CASE Store(h)
      BY <1>3, <2>4 DEF Store, At, Deciding
    <2>5. CASE NothingToMap(h) \/ PageFails(h) \/ MapFails(h) \/ \E i \in DOMAIN rows : Map(h, i)
      BY <2>5 DEF NothingToMap, PageFails, MapFails, Map, Deciding
    <2>. QED  BY <2>1, <2>2, <2>3, <2>4, <2>5
  <1>. QED  BY <1>1, <1>2, <1>5, PagedGoto

\* The conversation a message goes to is resolved, or opened.
LEMMA PagedResolves ==
    ASSUME Typed, Typed', PagedInv, Conserved, NEW h \in Handlers,
           OpenConv(h) \/ EnterNew(h) \/ \E c \in DOMAIN convs : Found(h, c) \/ Enter(h, c)
    PROVE  PagedInv'
PROOF
  <1>0. DOMAIN paged = DOMAIN convs /\ Len(paged) = Len(convs) /\ paged \in Seq(Nat) /\ convs \in Seq(Conv)
    BY PagedDomain DEF Typed, TablesOK, marks
  <1>1. ASSUME NEW s, convs' = Append(convs, NewConv(s)), paged' = Append(paged, 0)
        PROVE  /\ \A c \in DOMAIN convs' : paged'[c] = 0 \/ (c \in DOMAIN convs /\ paged'[c] = paged[c])
               /\ \A c \in DOMAIN convs : paged'[c] = paged[c]
               /\ paged'[Len(convs) + 1] = 0
    <2>1. DOMAIN convs' = DOMAIN convs \cup {Len(convs) + 1}
      BY <1>1, Opened
    <2>2. paged'[Len(convs) + 1] = 0 /\ \A c \in DOMAIN paged : paged'[c] = paged[c]
      BY <1>0, <1>1
    <2>. QED  BY <1>0, <2>1, <2>2
  <1>2. CASE OpenConv(h)
    <2>1. PICK r : /\ proc' = [proc EXCEPT ![h] = r]
                   /\ r.pc = "attach" /\ r.conv = Len(convs) + 1
      BY <1>2, OpenView
    <2>2. /\ convs' = Append(convs, NewConv(proc[h].copy.session)) /\ paged' = Append(paged, 0)
          /\ Ingesting(h) /\ overlapped' = overlapped
      BY <1>2 DEF OpenConv, At, Ingesting
    <2>. QED  BY <1>1, <2>1, <2>2, PagedStep DEF Unmet
  <1>3. ASSUME NEW c, NEW owner, LetIn(h, c, owner),
               \/ UNCHANGED <<convs, paged>>
               \/ \E s : convs' = Append(convs, NewConv(s)) /\ paged' = Append(paged, 0)
        PROVE  PagedInv'
    <2>1. PICK r : /\ proc' = [proc EXCEPT ![h] = r]
                   /\ r.pc = "think" /\ r.conv = proc[h].conv /\ r.queued = proc[h].queued
      BY <1>3, LetInView
    <2>2. Ingesting(h) /\ overlapped' = overlapped /\ proc[h].pc \in Deciding
      BY <1>3 DEF LetIn, At, Ingesting, Deciding
    <2>3. \A d \in DOMAIN convs' : paged'[d] = 0 \/ (d \in DOMAIN convs /\ paged'[d] = paged[d])
      BY <1>1, <1>3
    <2>4. \A d \in DOMAIN convs : paged'[d] = paged[d]
      BY <1>1, <1>3
    <2>5. ~overlapped' /\ ~r.queued => paged'[r.conv] = 0
      BY <2>1, <2>2, <2>4, OwnConv DEF PagedInv
    <2>. QED  BY <2>1, <2>2, <2>3, <2>5, PagedStep DEF Unmet
  <1>4. ASSUME NEW c \in DOMAIN convs, Found(h, c)
        PROVE  PagedInv'
    <2>1. PICK r : /\ proc' = [proc EXCEPT ![h] = r]
                   /\ r.pc \in {"attach", "store", "notice", "gate"} /\ r.conv = c
                   /\ r.queued = convs[c].escalated
      BY <1>4, FoundView
    <2>2. Ingesting(h) /\ UNCHANGED <<overlapped, paged, convs>>
      BY <1>4 DEF Found, At, Ingesting, tables, observers, marks
    <2>3. ~r.queued => paged'[c] = 0
      BY <2>1, <2>2 DEF PagedInv
    <2>. QED  BY <2>1, <2>2, <2>3, PagedStep DEF Unmet
  <1>. QED  BY <1>2, <1>3, <1>4 DEF EnterNew, Enter

LEMMA PagedOutside ==
    ASSUME Typed, Typed', PagedInv, Conserved,
           \/ Write \/ NewVersion \/ Restart \/ UNCHANGED vars
           \/ \E c \in DOMAIN convs : Take(c) \/ HandBack(c) \/ End(c)
           \/ \E s \in DOMAIN sessions : Override(s)
    PROVE  PagedInv'
PROOF
  <1>1. UNCHANGED <<paged, overlapped>> /\ DOMAIN convs' = DOMAIN convs
    <2>1. CASE \E c \in DOMAIN convs : Take(c) \/ HandBack(c) \/ End(c)
      <3>1. PICK c \in DOMAIN convs : Take(c) \/ HandBack(c) \/ End(c)
        BY <2>1
      <3>2. PICK status, agent : SetConv(c, status, agent)
        BY <3>1 DEF Take, HandBack, End
      <3>3. UNCHANGED <<paged, overlapped>>
        BY <3>1 DEF Take, HandBack, End, observers, marks
      <3>. QED  BY <3>2, <3>3, Edited
    <2>2. CASE ~\E c \in DOMAIN convs : Take(c) \/ HandBack(c) \/ End(c)
      BY <2>2 DEF Write, NewVersion, Restart, Override, vars, tables, observers, marks
    <2>. QED  BY <2>1, <2>2
  <1>2. (\A c \in DOMAIN convs : paged[c] # 0 => convs[c].escalated)'
    BY <1>1 DEF PagedInv, Conserved
  <1>3. PagedOnce'
    BY <1>1 DEF PagedInv, PagedOnce
  <1>4. CASE Restart
    <2>1. proc' = [h \in Handlers |-> Idle] /\ Idle.pc = "idle"
      BY <1>4 DEF Restart, Idle
    <2>2. \A h \in Handlers : proc'[h].pc = "idle"
      BY <2>1
    <2>. QED  BY <1>1, <1>2, <1>3, <2>2 DEF PagedInv, Alone, Ingesting, At, Deciding
  <1>5. CASE ~Restart
    <2>1. proc' = proc
      BY <1>5 DEF Write, NewVersion, Take, HandBack, End, Override, vars, marks
    <2>. QED  BY <1>1, <1>2, <1>3, <2>1 DEF PagedInv, Alone, Ingesting, At
  <1>. QED  BY <1>4, <1>5

LEMMA InitPaged == Init => PagedInv
PROOF
  <1>1. Init => convs = <<>> /\ paged = <<>> /\ proc = [h \in Handlers |-> Idle]
    BY DEF Init
  <1>2. Idle.pc = "idle"
    BY DEF Idle
  <1>. QED  BY <1>1, <1>2 DEF PagedInv, Alone, PagedOnce, Ingesting, At, Deciding

LEMMA NextPaged == Typed /\ PagedInv /\ [Next]_vars => PagedInv'
PROOF
  <1> SUFFICES ASSUME Typed, PagedInv, [Next]_vars PROVE PagedInv'
    OBVIOUS
  <1>0. setup.handlers \subseteq Handlers /\ Typed' /\ Conserved
    BY SetupFacts, NextTyped, StepsConserve DEF Typed
  <1>1. ASSUME NEW h \in setup.handlers, Collect(h)
        PROVE  PagedInv'
    BY <1>0, <1>1, PagedApproach DEF Approach
  <1>2. ASSUME NEW h \in setup.handlers, Proceed(h)
        PROVE  PagedInv'
    BY <1>0, <1>2, PagedApproach, PagedOnward, PagedPage, PagedResolves DEF Proceed, Approach, Pulls
  <1>3. ASSUME NEW h \in setup.handlers,
               \/ Fail(h) \/ PageFails(h) \/ MapFails(h) \/ Redeliver(h) \/ PullFails(h)
               \/ \E m \in proc[h].todo : FlagFails(h, m)
        PROVE  PagedInv'
    BY <1>0, <1>3, PagedApproach, PagedOnward DEF Approach, Pulls
  <1>. QED  BY <1>0, <1>1, <1>2, <1>3, PagedOutside DEF Next, Outside

\* As long as ingests have not overlapped, the team is called to a conversation
\* once, however many messages it is sent and whoever hands it back in between.
THEOREM CalledOnce == Spec => []PagedOnce
PROOF
  <1>1. Init => Typed /\ PagedInv
    BY InitTyped, InitPaged
  <1>2. Typed /\ PagedInv /\ [Next]_vars => (Typed /\ PagedInv)'
    BY NextTyped, NextPaged
  <1>3. Typed /\ PagedInv => PagedOnce
    BY DEF PagedInv
  <1>. QED  BY <1>1, <1>2, <1>3, PTL DEF Spec

(***************************************************************************)
(* Nobody is forgotten.                                                     *)
(*                                                                          *)
(* A conversation that ever left the bot comes back to it only when a human *)
(* hands it back.  So a message is looked after for good once its           *)
(* conversation has left the bot, or once it is answered; until then its    *)
(* handler stands before the turn or before the queue.                      *)
(***************************************************************************)
LookedAfter(c) == convs[c].status # "ai" \/ c \in returned

Tends(p, m, c) == p.pc \in {"think", "page"} /\ Head(p.batch) = m /\ p.conv = c

\* The handler knows what it was told about its conversation and its turn.
Informed(p) ==
    /\ p.pc = "think" => p.turn = p.conv \/ Head(p.batch) \in stray
    /\ p.pc = "think" /\ p.owner # "bot" => LookedAfter(p.turn)
    /\ p.pc \in Deciding /\ (p.human \/ p.queued) => LookedAfter(p.conv)

TendedTo ==
    \A i \in DOMAIN rows :
        rows[i].kind = "user" /\ rows[i].msg \notin hurt \cup stray =>
            \/ LookedAfter(rows[i].conv)
            \/ Answered(rows[i].msg)
            \/ \E h \in Handlers : Tends(proc[h], rows[i].msg, rows[i].conv)

TendedInv ==
    /\ \A c \in DOMAIN convs : convs[c].escalated => LookedAfter(c)
    /\ \A h \in Handlers : Informed(proc[h])
    /\ \A i \in DOMAIN rows : rows[i].kind = "user" => rows[i].conv \in DOMAIN convs
    /\ TendedTo

LEMMA TendedSuffices == Typed /\ TendedInv => NobodyForgotten
PROOF
  <1> SUFFICES ASSUME Typed, TendedInv, NEW i \in DOMAIN rows,
                      rows[i].kind = "user", convs[rows[i].conv].status = "ai",
                      rows[i].msg \notin hurt \cup stray, ~InHand(rows[i].msg)
               PROVE  Answered(rows[i].msg) \/ rows[i].conv \in returned
    BY DEF NobodyForgotten
  <1>1. \A h \in Handlers : ~Tends(proc[h], rows[i].msg, rows[i].conv)
    <2> SUFFICES ASSUME NEW h \in Handlers, Tends(proc[h], rows[i].msg, rows[i].conv) PROVE FALSE
      OBVIOUS
    <2>1. Has(proc[h], rows[i].msg)
      BY HasHead DEF Tends, Pulling
    <2>. QED  BY <2>1 DEF Has, InHand, Holds
  <1>. QED  BY <1>1 DEF TendedInv, TendedTo, LookedAfter

\* Words are only added.
LEMMA AnswersStay ==
    ASSUME \A i \in DOMAIN rows : i \in DOMAIN rows' /\ rows'[i] = rows[i], NEW m, Answered(m)
    PROVE  Answered(m)'
  BY DEF Answered

LEMMA CareStays ==
    ASSUME Conserved, NEW c \in DOMAIN convs, LookedAfter(c)
    PROVE  LookedAfter(c)'
  BY DEF Conserved, LookedAfter

\* A step of one handler.
LEMMA TendedStep ==
    ASSUME Typed, Typed', TendedInv, Conserved, NEW h \in Handlers, NEW r,
           proc' = [proc EXCEPT ![h] = r],
           \A i \in DOMAIN rows : i \in DOMAIN rows' /\ rows'[i] = rows[i],
           \A i \in DOMAIN rows' : \A m, c :
              i \notin DOMAIN rows /\ rows'[i].kind = "user" /\ m = rows'[i].msg /\ c = rows'[i].conv
                 => /\ c \in DOMAIN convs'
                    /\ m \in hurt' \cup stray' \/ LookedAfter(c)' \/ Tends(r, m, c),
           hurt \subseteq hurt', stray \subseteq stray',
           \A c \in DOMAIN convs' : convs'[c].escalated => (c \in DOMAIN convs /\ convs[c].escalated) \/ LookedAfter(c)',
           r.pc = "think" => r.turn = r.conv \/ Head(r.batch) \in stray',
           r.pc = "think" /\ r.owner # "bot" => LookedAfter(r.turn)',
           r.pc \in Deciding /\ (r.human \/ r.queued) => LookedAfter(r.conv)',
           \A m, c : m \notin hurt' \cup stray' /\ Tends(proc[h], m, c)
              => LookedAfter(c)' \/ Answered(m)' \/ Tends(r, m, c)
    PROVE  TendedInv'
PROOF
  <1>0. proc'[h] = r /\ \A g \in Handlers \ {h} : proc'[g] = proc[g]
    BY DEF Typed, HandlersFit
  <1>1. (\A c \in DOMAIN convs : convs[c].escalated => LookedAfter(c))'
    BY CareStays DEF TendedInv
  <1>2. ASSUME NEW g \in Handlers
        PROVE  Informed(proc[g])'
    <2>1. CASE g = h
      BY <1>0, <2>1 DEF Informed
    <2>2. CASE g # h
      <3>1. proc'[g] = proc[g] /\ Informed(proc[g])
        BY <1>0, <2>2 DEF TendedInv
      <3>2. proc[g].pc = "think" /\ proc[g].owner # "bot" => LookedAfter(proc[g].turn)'
        BY <3>1, OwnConv, CareStays DEF Informed
      <3>3. proc[g].pc \in Deciding /\ (proc[g].human \/ proc[g].queued) => LookedAfter(proc[g].conv)'
        BY <3>1, OwnConv, CareStays DEF Informed
      <3>. QED  BY <3>1, <3>2, <3>3 DEF Informed
    <2>. QED  BY <2>1, <2>2
  <1>3. (\A i \in DOMAIN rows : rows[i].kind = "user" => rows[i].conv \in DOMAIN convs)'
    BY DEF TendedInv, Conserved
  <1>4. TendedTo'
    <2> SUFFICES ASSUME NEW i \in DOMAIN rows', rows'[i].kind = "user", NEW m, NEW c,
                        m = rows'[i].msg, c = rows'[i].conv, m \notin hurt' \cup stray'
                 PROVE  \/ LookedAfter(c)'
                        \/ Answered(m)'
                        \/ \E g \in Handlers : Tends(proc'[g], m, c)
      BY DEF TendedTo, LookedAfter, Answered, Tends
    <2>0. CASE i \notin DOMAIN rows
      <3>1. LookedAfter(c)' \/ Tends(r, m, c)
        BY <2>0
      <3>. QED  BY <1>0, <3>1
    <2> SUFFICES ASSUME i \in DOMAIN rows
                 PROVE  LookedAfter(c)' \/ Answered(m)' \/ \E g \in Handlers : Tends(proc'[g], m, c)
      BY <2>0
    <2>1. m = rows[i].msg /\ c = rows[i].conv /\ rows[i].kind = "user"
      OBVIOUS
    <2>2. LookedAfter(c) \/ Answered(m) \/ \E g \in Handlers : Tends(proc[g], m, c)
      BY <2>1 DEF TendedInv, TendedTo
    <2>3. CASE LookedAfter(c)
      <3>1. c \in DOMAIN convs
        BY <2>1 DEF TendedInv
      <3>. QED  BY <2>3, <3>1, CareStays
    <2>4. CASE Answered(m)
      BY <2>4, AnswersStay
    <2>5. ASSUME NEW g \in Handlers, Tends(proc[g], m, c)
          PROVE  LookedAfter(c)' \/ Answered(m)' \/ \E k \in Handlers : Tends(proc'[k], m, c)
      <3>1. CASE g # h
        BY <1>0, <2>5, <3>1
      <3>2. CASE g = h
        <4>1. LookedAfter(c)' \/ Answered(m)' \/ Tends(r, m, c)
          BY <2>1, <2>5, <3>2
        <4>. QED  BY <1>0, <4>1
      <3>. QED  BY <3>1, <3>2
    <2>. QED  BY <2>2, <2>3, <2>4, <2>5
  <1>. QED  BY <1>1, <1>2, <1>3, <1>4 DEF TendedInv

LEMMA TendedGoto ==
    ASSUME Typed, Typed', TendedInv, Conserved, NEW h \in Handlers, NEW pc, Goto(h, pc), pc # "think",
           \A i \in DOMAIN rows : i \in DOMAIN rows' /\ rows'[i] = rows[i],
           \A i \in DOMAIN rows' : rows'[i].kind = "user" => i \in DOMAIN rows,
           hurt \subseteq hurt', stray \subseteq stray',
           \A c \in DOMAIN convs' : convs'[c].escalated => (c \in DOMAIN convs /\ convs[c].escalated) \/ LookedAfter(c)',
           pc \in Deciding => proc[h].pc \in Deciding,
           \A c : c = proc[h].conv /\ proc[h].pc \in {"think", "page"} =>
              pc = "page" \/ LookedAfter(c)' \/ Answered(Msg(h))' \/ Msg(h) \in hurt' \cup stray'
    PROVE  TendedInv'
PROOF
  <1>1. PICK r : proc' = [proc EXCEPT ![h] = r] /\ r.pc = pc /\ Same(r, proc[h])
    BY GotoView
  <1>2. r.pc \in Deciding /\ (r.human \/ r.queued) => LookedAfter(r.conv)'
    <2> SUFFICES ASSUME r.pc \in Deciding, r.human \/ r.queued, NEW c, c = r.conv
                 PROVE  LookedAfter(c)'
      BY DEF LookedAfter
    <2>1. proc[h].pc \in Deciding /\ (proc[h].human \/ proc[h].queued) /\ c = proc[h].conv
      BY <1>1 DEF Same
    <2>2. LookedAfter(c) /\ c \in DOMAIN convs
      BY <2>1, OwnConv DEF TendedInv, Informed
    <2>. QED  BY <2>2, CareStays
  <1>3. ASSUME NEW m, NEW c, m \notin hurt' \cup stray', Tends(proc[h], m, c)
        PROVE  LookedAfter(c)' \/ Answered(m)' \/ Tends(r, m, c)
    BY <1>1, <1>3 DEF Tends, Same, Msg, Answered
  <1>4. \A i \in DOMAIN rows' : i \notin DOMAIN rows => rows'[i].kind # "user"
    OBVIOUS
  <1>. QED  BY <1>1, <1>2, <1>3, <1>4, TendedStep

LEMMA TendedApproach ==
    ASSUME Typed, Typed', TendedInv, Conserved, NEW h \in Handlers, Approach(h)
    PROVE  TendedInv'
PROOF
  <1> USE DEF tables, observers, marks
  <1>1. PICK r : proc' = [proc EXCEPT ![h] = r] /\ r.pc \in Unresolved
    BY ApproachView
  <1>2. r.pc \notin Deciding /\ r.pc # "think"
    BY <1>1 DEF Deciding, Unresolved, Early, Pulling
  <1>3. UNCHANGED <<rows, convs, stray>> /\ hurt \subseteq hurt'
    <2>1. CASE Search(h) \/ Pulls(h)
      BY <2>1, PullsKeep DEF Pulls
    <2>2. CASE ~(Search(h) \/ Pulls(h))
      BY <2>2 DEF Approach, Collect, Deliver, Pull, List, Fetch, HandOver, Redeliver, Skip, SkipCreated,
           Cursor, Fail, Lookup, Create, NewSession, Bind, NoneFound
    <2>. QED  BY <2>1, <2>2
  <1>4. ASSUME NEW m, NEW c, Tends(proc[h], m, c)
        PROVE  m \in hurt'
    <2>1. proc[h].pc \notin Pulling
      BY <1>4 DEF Tends, Pulling
    <2>2. ~Pulls(h) /\ ~Search(h)
      BY <2>1, PullsKeep DEF Pulls
    <2>3. Fail(h)
      BY <1>4, <2>2 DEF Tends, Approach, Collect, Deliver, Pull, List, Fetch, HandOver, Redeliver, Skip,
                  SkipCreated, Cursor, Lookup, Create, NewSession, Bind, NoneFound, At
    <2>. QED  BY <1>4, <2>3 DEF Fail, Tends, Msg
  <1>. QED  BY <1>1, <1>2, <1>3, <1>4, TendedStep

\* Steps beside the table of messages.
LEMMA TendedBeside ==
    ASSUME Typed, Typed', TendedInv, Conserved, NEW h \in Handlers,
           \/ Attach(h) \/ Stamp(h) \/ Refuse(h) \/ Silent(h) \/ Draft(h)
           \/ NothingToMap(h) \/ PageFails(h) \/ MapFails(h)
           \/ \E i \in DOMAIN rows : Map(h, i)
    PROVE  TendedInv'
PROOF
  <1> USE DEF tables, observers, marks
  <1>1. UNCHANGED <<rows, convs, stray>> /\ hurt \subseteq hurt'
    BY DEF Attach, Stamp, Refuse, Silent, Draft, NothingToMap, PageFails, MapFails, Map
  <1>2. ASSUME NEW pc, Goto(h, pc), pc # "think", pc \in Deciding => proc[h].pc \in Deciding,
               \A c : c = proc[h].conv /\ proc[h].pc \in {"think", "page"} =>
                  pc = "page" \/ LookedAfter(c)' \/ Answered(Msg(h))' \/ Msg(h) \in hurt' \cup stray'
        PROVE  TendedInv'
    BY <1>1, <1>2, TendedGoto
  <1>3. AfterTurn(h) \in {"map", "page"} /\ \A mode : NextStep(h, mode) \in {"store", "notice", "gate"}
    BY NextStepFacts DEF AfterTurn
  <1>4. CASE Attach(h)
    BY <1>2, <1>3, <1>4 DEF Attach, At, Deciding
  <1>5. CASE Stamp(h)
    BY <1>2, <1>5 DEF Stamp, At, Deciding
  <1>6. CASE Refuse(h)
    BY <1>2, <1>3, <1>6 DEF Refuse, At, Deciding
  <1>7. CASE NothingToMap(h) \/ MapFails(h) \/ \E i \in DOMAIN rows : Map(h, i)
    BY <1>2, <1>7 DEF NothingToMap, MapFails, Map, At, Deciding
  <1>8. CASE PageFails(h)
    <2>1. Msg(h) \in hurt' /\ Goto(h, "map")
      BY <1>8 DEF PageFails
    <2>. QED  BY <1>2, <2>1 DEF Deciding
  <1>9. CASE Silent(h)
    <2>1. Goto(h, AfterTurn(h)) /\ proc[h].pc = "think" /\ proc[h].owner # "bot"
      BY <1>9 DEF Silent, At
    <2>2. ASSUME NEW c, c = proc[h].conv
          PROVE  LookedAfter(c)' \/ Msg(h) \in stray'
      <3>1. /\ proc[h].turn = proc[h].conv \/ Msg(h) \in stray
            /\ LookedAfter(proc[h].turn) /\ proc[h].turn \in DOMAIN convs
        BY <2>1, OwnConv DEF TendedInv, Informed, Msg
      <3>2. CASE proc[h].turn = proc[h].conv
        BY <2>2, <3>1, <3>2, CareStays
      <3>3. CASE Msg(h) \in stray
        BY <1>1, <3>3 DEF Msg, Silent, Goto
      <3>. QED  BY <3>1, <3>2, <3>3
    <2>. QED  BY <1>2, <1>3, <2>1, <2>2 DEF Deciding
  <1>10. CASE Draft(h)
    <2>1. Goto(h, AfterTurn(h)) /\ proc[h].pc = "think" /\ proc[h].mode = "approve"
      BY <1>10 DEF Draft, At
    <2>2. ASSUME NEW c, c = proc[h].conv
          PROVE  AfterTurn(h) = "page" \/ LookedAfter(c)'
      <3>1. CASE proc[h].queued
        <4>1. LookedAfter(c) /\ c \in DOMAIN convs
          BY <2>1, <2>2, <3>1, OwnConv DEF TendedInv, Informed, Deciding
        <4>. QED  BY <4>1, CareStays
      <3>2. CASE ~proc[h].queued
        BY <2>1, <3>2 DEF AfterTurn
      <3>. QED  BY <3>1, <3>2
    <2>. QED  BY <1>2, <1>3, <2>1, <2>2 DEF Deciding
  <1>. QED  BY <1>4, <1>5, <1>6, <1>7, <1>8, <1>9, <1>10

\* The notice and the answers are written, and the conversation is queued.
LEMMA TendedSaid ==
    ASSUME Typed, Typed', TendedInv, Conserved, NEW h \in Handlers,
           Notice(h) \/ Answer(h) \/ HandOff(h) \/ Page(h)
    PROVE  TendedInv'
PROOF
  <1>1. ASSUME NEW row, rows' = Append(rows, row), row.kind # "user"
        PROVE  /\ \A i \in DOMAIN rows : i \in DOMAIN rows' /\ rows'[i] = rows[i]
               /\ \A i \in DOMAIN rows' : rows'[i].kind = "user" => i \in DOMAIN rows
               /\ row.kind = "answer" => Answered(row.msg)'
    <2>1. rows \in Seq(Row)
      BY DEF Typed, TablesOK, marks
    <2>2. /\ \A i \in DOMAIN rows : i \in DOMAIN rows' /\ rows'[i] = rows[i]
          /\ Len(rows) + 1 \in DOMAIN rows' /\ rows'[Len(rows) + 1] = row
      BY <1>1, <2>1
    <2>3. \A i \in DOMAIN rows' : rows'[i].kind = "user" => i \in DOMAIN rows
      BY <1>1, OtherWords
    <2>4. ASSUME NEW m, m = row.msg, row.kind = "answer"
          PROVE  Answered(m)'
      BY <2>2, <2>4 DEF Answered
    <2>. QED  BY <2>2, <2>3, <2>4 DEF Answered
  <1>2. CASE Notice(h)
    <2> DEFINE row == [conv |-> proc[h].conv, kind |-> "notice", msg |-> 0,
                       version |-> sessions[proc[h].copy.session].version]
    <2>1. rows' = Append(rows, row) /\ row.kind # "user"
      BY <1>2 DEF Notice
    <2>2. UNCHANGED <<convs, hurt, stray>> /\ Goto(h, "stamp") /\ proc[h].pc = "notice"
      BY <1>2 DEF Notice, At, observers, marks
    <2> HIDE DEF row
    <2>. QED  BY <1>1, <2>1, <2>2, TendedGoto DEF Deciding
  <1>3. ASSUME rows' = Append(rows, AnswerRow(h)), Goto(h, AfterTurn(h)), proc[h].pc = "think",
               UNCHANGED <<hurt, stray>>,
               \A c \in DOMAIN convs' :
                  convs'[c].escalated => (c \in DOMAIN convs /\ convs[c].escalated) \/ LookedAfter(c)'
        PROVE  TendedInv'
    <2>1. /\ AnswerRow(h).kind = "answer" /\ AnswerRow(h).msg = Msg(h)
          /\ AfterTurn(h) \in {"map", "page"}
      BY DEF AnswerRow, AfterTurn
    <2> DEFINE row == AnswerRow(h)
    <2>2. rows' = Append(rows, row) /\ row.kind = "answer" /\ row.msg = Msg(h)
      BY <1>3, <2>1
    <2> HIDE DEF row
    <2>3. /\ \A i \in DOMAIN rows : i \in DOMAIN rows' /\ rows'[i] = rows[i]
          /\ \A i \in DOMAIN rows' : rows'[i].kind = "user" => i \in DOMAIN rows
      BY <1>1, <2>2
    <2>4. PICK n \in DOMAIN rows' : rows'[n] = row
      <3>1. rows \in Seq(Row)
        BY DEF Typed, TablesOK, marks
      <3>2. Len(rows) + 1 \in DOMAIN rows' /\ rows'[Len(rows) + 1] = row
        BY <2>2, <3>1
      <3>. QED  BY <3>2
    <2>5. Msg(h)' = Msg(h)
      <3>1. PICK r : proc' = [proc EXCEPT ![h] = r] /\ Same(r, proc[h])
        BY <1>3, GotoView
      <3>2. proc'[h] = r
        BY <3>1 DEF Typed, HandlersFit
      <3>. QED  BY <3>1, <3>2 DEF Same, Msg
    <2>6. Answered(Msg(h))'
      BY <2>2, <2>4, <2>5 DEF Answered
    <2>. QED  BY <1>3, <2>1, <2>3, <2>6, TendedGoto DEF Deciding
  <1>4. CASE Answer(h)
    BY <1>3, <1>4 DEF Answer, At, observers, marks
  <1>5. ASSUME NEW c \in DOMAIN convs, MarkWaiting(c)
        PROVE  /\ \A d \in DOMAIN convs' :
                     convs'[d].escalated => (d \in DOMAIN convs /\ convs[d].escalated) \/ LookedAfter(d)'
               /\ LookedAfter(c)'
    BY <1>5, Marked DEF LookedAfter
  <1>6. CASE HandOff(h)
    <2>1. PICK c \in DOMAIN convs : c = proc[h].turn
      BY <1>6, OwnConv DEF HandOff, At
    <2>2. /\ MarkWaiting(c) /\ rows' = Append(rows, AnswerRow(h)) /\ Goto(h, AfterTurn(h))
          /\ proc[h].pc = "think" /\ UNCHANGED <<hurt, stray>>
      BY <1>6, <2>1 DEF HandOff, At, observers, marks
    <2>. QED  BY <1>3, <1>5, <2>2
  <1>7. CASE Page(h)
    <2>1. PICK c \in DOMAIN convs : c = proc[h].conv
      BY <1>7, OwnConv DEF Page, At, Deciding
    <2>2. MarkWaiting(c) /\ UNCHANGED <<rows, hurt, stray>> /\ Goto(h, "map")
      BY <1>7, <2>1 DEF Page
    <2>. QED  BY <1>5, <2>1, <2>2, TendedGoto DEF Deciding
  <1>. QED  BY <1>2, <1>4, <1>6, <1>7

\* The message is stored: its handler tends to it, or it is looked after.
LEMMA TendedStores ==
    ASSUME Typed, Typed', TendedInv, Conserved, NEW h \in Handlers, NEW r, NEW c \in DOMAIN convs',
           proc' = [proc EXCEPT ![h] = r], rows' = Append(rows, UserRow(c, Msg(h))),
           hurt' = hurt, stray \subseteq stray', proc[h].pc \notin {"think", "page"},
           r.batch = proc[h].batch,
           \A d \in DOMAIN convs' : convs'[d].escalated => d \in DOMAIN convs /\ convs[d].escalated,
           r.pc = "think" => r.turn = r.conv \/ Msg(h) \in stray',
           r.pc = "think" /\ r.owner # "bot" => LookedAfter(r.turn)',
           r.pc \in Deciding /\ (r.human \/ r.queued) => LookedAfter(r.conv)',
           Msg(h) \in stray' \/ LookedAfter(c)' \/ (r.pc \in {"think", "page"} /\ r.conv = c)
    PROVE  TendedInv'
PROOF
  <1> DEFINE row == UserRow(c, Msg(h))
  <1>1. row.msg = Msg(h) /\ row.conv = c /\ Msg(h) = Head(r.batch) /\ rows' = Append(rows, row)
    BY DEF UserRow, Msg
  <1> HIDE DEF row
  <1>2. rows \in Seq(Row)
    BY DEF Typed, TablesOK, marks
  <1>3. /\ \A i \in DOMAIN rows : i \in DOMAIN rows' /\ rows'[i] = rows[i]
        /\ \A i \in DOMAIN rows' : i \notin DOMAIN rows => rows'[i] = row
    BY <1>1, <1>2
  <1>4. r.pc = "think" => r.turn = r.conv \/ Head(r.batch) \in stray'
    BY <1>1
  <1>5. \A m, d : ~Tends(proc[h], m, d)
    BY DEF Tends
  <1>6. ASSUME NEW i \in DOMAIN rows', NEW m, NEW d, i \notin DOMAIN rows,
               m = rows'[i].msg, d = rows'[i].conv
        PROVE  d \in DOMAIN convs' /\ (m \in hurt' \cup stray' \/ LookedAfter(d)' \/ Tends(r, m, d))
    <2>1. m = Msg(h) /\ d = c
      BY <1>1, <1>3, <1>6
    <2>2. m \in stray' \/ LookedAfter(d)' \/ (r.pc \in {"think", "page"} /\ r.conv = d)
      <3>1. CASE Msg(h) \in stray'
        BY <2>1, <3>1
      <3>2. CASE LookedAfter(c)'
        BY <2>1, <3>2 DEF LookedAfter
      <3>3. CASE r.pc \in {"think", "page"} /\ r.conv = c
        BY <2>1, <3>3
      <3>. QED  BY <3>1, <3>2, <3>3
    <2>. QED  BY <1>1, <2>1, <2>2 DEF Tends
  <1>. QED  BY <1>3, <1>4, <1>5, <1>6, TendedStep

LEMMA TendedStored ==
    ASSUME Typed, Typed', TendedInv, Conserved, NEW h \in Handlers,
           Store(h) \/ EnterNew(h) \/ \E c \in DOMAIN convs : Enter(h, c)
    PROVE  TendedInv'
PROOF
  <1>1. CASE Store(h)
    <2>1. PICK c \in DOMAIN convs : c = proc[h].conv
      BY <1>1, OwnConv DEF Store, At, Deciding
    <2>2. /\ rows' = Append(rows, UserRow(c, Msg(h))) /\ UNCHANGED <<convs, hurt>>
          /\ stray \subseteq stray' /\ Goto(h, AfterStore(h)) /\ proc[h].pc = "store"
      BY <1>1, <2>1 DEF Store, At
    <2>3. PICK r : proc' = [proc EXCEPT ![h] = r] /\ r.pc = AfterStore(h) /\ Same(r, proc[h])
      BY <2>2, GotoView
    <2>4. proc[h].human \/ proc[h].queued => LookedAfter(c)'
      <3>1. proc[h].human \/ proc[h].queued => LookedAfter(c)
        BY <2>1, <2>2 DEF TendedInv, Informed, Deciding
      <3>. QED  BY <3>1, CareStays
    <2>5. /\ AfterStore(h) \in {"map", "page"}
          /\ AfterStore(h) = "map" => proc[h].human \/ proc[h].queued
          /\ AfterStore(h) = "page" => ~(proc[h].human \/ proc[h].queued)
      BY DEF AfterStore
    <2>6. r.pc \in Deciding /\ (r.human \/ r.queued) => LookedAfter(r.conv)'
      BY <2>3, <2>5 DEF Same, Deciding
    <2>7. LookedAfter(c)' \/ (r.pc \in {"think", "page"} /\ r.conv = c)
      BY <2>1, <2>3, <2>4, <2>5 DEF Same
    <2>8. r.pc # "think" /\ r.batch = proc[h].batch /\ c \in DOMAIN convs'
      BY <2>2, <2>3, <2>5 DEF Same
    <2>9. \A d \in DOMAIN convs' : convs'[d].escalated => d \in DOMAIN convs /\ convs[d].escalated
      BY <2>2
    <2>. QED  BY <2>2, <2>3, <2>6, <2>7, <2>8, <2>9, TendedStores
  <1>2. ASSUME NEW c \in DOMAIN convs', NEW owner, LetIn(h, c, owner), owner # "bot" => LookedAfter(c)',
               \A d \in DOMAIN convs' : convs'[d].escalated => d \in DOMAIN convs /\ convs[d].escalated
        PROVE  TendedInv'
    <2>1. PICK r : /\ proc' = [proc EXCEPT ![h] = r]
                   /\ r.pc = "think" /\ r.turn = c /\ r.owner = owner
                   /\ r.batch = proc[h].batch /\ r.conv = proc[h].conv
                   /\ r.human = proc[h].human /\ r.queued = proc[h].queued
      BY <1>2, LetInView
    <2>2. /\ rows' = Append(rows, UserRow(c, Msg(h))) /\ hurt' = hurt
          /\ stray \subseteq stray' /\ proc[h].pc = "gate"
          /\ c = proc[h].conv \/ Msg(h) \in stray'
      BY <1>2 DEF LetIn, At
    <2>3. r.human \/ r.queued => LookedAfter(r.conv)'
      <3> SUFFICES ASSUME r.human \/ r.queued, NEW d, d = r.conv
                   PROVE  LookedAfter(d)'
        BY DEF LookedAfter
      <3>1. LookedAfter(d) /\ d \in DOMAIN convs
        BY <2>1, <2>2, OwnConv DEF TendedInv, Informed, Deciding
      <3>. QED  BY <3>1, CareStays
    <2>4. r.owner # "bot" => LookedAfter(r.turn)'
      BY <1>2, <2>1 DEF LookedAfter
    <2>. QED  BY <1>2, <2>1, <2>2, <2>3, <2>4, TendedStores
  <1>3. ASSUME NEW c \in DOMAIN convs, Enter(h, c)
        PROVE  TendedInv'
    <2> DEFINE owner == IF HumanOwns(c) THEN "human"
                        ELSE IF convs[c].status = "waiting" THEN "queue" ELSE "bot"
    <2>1. LetIn(h, c, owner) /\ convs' = convs
      BY <1>3 DEF Enter
    <2>2. owner # "bot" => LookedAfter(c)
      BY DEF HumanOwns, LookedAfter
    <2> HIDE DEF owner
    <2>3. owner # "bot" => LookedAfter(c)'
      BY <2>2, CareStays
    <2>. QED  BY <1>2, <2>1, <2>3
  <1>4. CASE EnterNew(h)
    <2>1. PICK c : c = Len(convs) + 1
      OBVIOUS
    <2>2. LetIn(h, c, "bot") /\ convs' = Append(convs, NewConv(proc[h].copy.session))
      BY <1>4, <2>1 DEF EnterNew
    <2>3. /\ DOMAIN convs' = DOMAIN convs \cup {c} /\ ~convs'[c].escalated
          /\ \A d \in DOMAIN convs : convs'[d] = convs[d]
      BY <2>1, <2>2, Opened DEF NewConv
    <2>. QED  BY <1>2, <2>2, <2>3
  <1>. QED  BY <1>1, <1>3, <1>4

\* The conversation a message goes to is resolved, or opened.
LEMMA TendedResolves ==
    ASSUME Typed, Typed', TendedInv, Conserved, NEW h \in Handlers,
           OpenConv(h) \/ \E c \in DOMAIN convs : Found(h, c)
    PROVE  TendedInv'
PROOF
  <1>0. \A m, c : ~Tends(proc[h], m, c)
    BY DEF Tends, OpenConv, Found, At
  <1>1. CASE OpenConv(h)
    <2>1. PICK r : /\ proc' = [proc EXCEPT ![h] = r]
                   /\ r.pc = "attach" /\ r.human = FALSE /\ r.queued = FALSE
      BY <1>1, OpenView
    <2>2. UNCHANGED <<rows, hurt, stray>> /\ convs' = Append(convs, NewConv(proc[h].copy.session))
      BY <1>1 DEF OpenConv
    <2>3. \A d \in DOMAIN convs' : convs'[d].escalated => d \in DOMAIN convs /\ convs[d].escalated
      BY <2>2, Opened DEF NewConv
    <2>. QED  BY <1>0, <2>1, <2>2, <2>3, TendedStep
  <1>2. ASSUME NEW c \in DOMAIN convs, Found(h, c)
        PROVE  TendedInv'
    <2>1. PICK r : /\ proc' = [proc EXCEPT ![h] = r]
                   /\ r.pc \in {"attach", "store", "notice", "gate"} /\ r.conv = c
                   /\ r.human = HumanOwns(c) /\ r.queued = convs[c].escalated
      BY <1>2, FoundView
    <2>2. UNCHANGED <<rows, convs, hurt, stray>>
      BY <1>2 DEF Found, tables, observers, marks
    <2>3. r.human => LookedAfter(c)
      BY <2>1 DEF HumanOwns, LookedAfter
    <2>4. r.queued => LookedAfter(c)
      BY <2>1 DEF TendedInv
    <2>5. r.human \/ r.queued => LookedAfter(r.conv)'
      <3>1. r.human \/ r.queued => LookedAfter(c)'
        BY <2>3, <2>4, CareStays
      <3>. QED  BY <2>1, <3>1
    <2>. QED  BY <1>0, <2>1, <2>2, <2>5, TendedStep
  <1>. QED  BY <1>1, <1>2

LEMMA TendedOutside ==
    ASSUME Typed, Typed', TendedInv, Conserved,
           \/ Write \/ NewVersion \/ Restart \/ UNCHANGED vars
           \/ \E c \in DOMAIN convs : Take(c) \/ HandBack(c) \/ End(c)
           \/ \E s \in DOMAIN sessions : Override(s)
    PROVE  TendedInv'
PROOF
  <1>1. UNCHANGED <<rows, stray>> /\ DOMAIN convs' = DOMAIN convs
        /\ \A c \in DOMAIN convs : convs'[c].escalated => convs[c].escalated
    <2>1. ASSUME NEW c \in DOMAIN convs, Take(c) \/ HandBack(c) \/ End(c)
          PROVE  UNCHANGED <<rows, stray>> /\ DOMAIN convs' = DOMAIN convs
                 /\ \A d \in DOMAIN convs : convs'[d].escalated => convs[d].escalated
      <3>1. PICK status, agent : SetConv(c, status, agent)
        BY <2>1 DEF Take, HandBack, End
      <3>2. UNCHANGED <<rows, stray>>
        BY <2>1 DEF Take, HandBack, End, observers, marks
      <3>. QED  BY <3>1, <3>2, Edited
    <2>2. CASE Write \/ NewVersion \/ Restart \/ UNCHANGED vars \/ \E s \in DOMAIN sessions : Override(s)
      BY <2>2 DEF Write, NewVersion, Restart, Override, vars, tables, observers, marks
    <2>. QED  BY <2>1, <2>2
  <1>2. (\A c \in DOMAIN convs : convs[c].escalated => LookedAfter(c))'
    BY <1>1, CareStays DEF TendedInv
  <1>3. (\A i \in DOMAIN rows : rows[i].kind = "user" => rows[i].conv \in DOMAIN convs)'
    BY <1>1 DEF TendedInv
  <1>4. \A m : Answered(m) => Answered(m)'
    BY <1>1 DEF Answered
  <1>5. ASSUME NEW i \in DOMAIN rows, rows[i].kind = "user", NEW c, c = rows[i].conv, LookedAfter(c)
        PROVE  LookedAfter(c)'
    BY <1>5, CareStays DEF TendedInv
  <1>6. CASE Restart
    <2>1. proc' = [h \in Handlers |-> Idle] /\ Idle.pc = "idle" /\ hurt' = hurt \cup InMemory
      BY <1>6 DEF Restart, Idle
    <2>2. \A h \in Handlers : proc'[h].pc = "idle"
      BY <2>1
    <2>3. \A h \in Handlers : Informed(proc[h])'
      BY <2>2 DEF Informed, Deciding
    <2>4. ASSUME NEW h \in Handlers, NEW m, NEW c, Tends(proc[h], m, c)
          PROVE  m \in hurt'
      <3>1. proc[h].pc \notin Pulling /\ Head(proc[h].batch) = m
        BY <2>4 DEF Tends, Pulling
      <3>2. Has(proc[h], m) /\ m \in Msgs
        BY <3>1, HasHead
      <3>. QED  BY <2>1, <3>1, <3>2 DEF InMemory, Has, Holds, Ingesting, Pulling
    <2>5. TendedTo'
      <3> SUFFICES ASSUME NEW i \in DOMAIN rows, rows[i].kind = "user", NEW m, NEW c,
                          m = rows[i].msg, c = rows[i].conv, m \notin hurt' \cup stray'
                   PROVE  LookedAfter(c)' \/ Answered(m)'
        BY <1>1 DEF TendedTo, LookedAfter, Answered
      <3>1. LookedAfter(c) \/ Answered(m) \/ \E h \in Handlers : Tends(proc[h], m, c)
        BY <1>1, <2>1 DEF TendedInv, TendedTo
      <3>. QED  BY <1>4, <1>5, <2>4, <3>1
    <2>. QED  BY <1>2, <1>3, <2>3, <2>5 DEF TendedInv
  <1>7. CASE ~Restart
    <2>1. UNCHANGED <<proc, hurt>>
      BY <1>7 DEF Write, NewVersion, Take, HandBack, End, Override, vars, observers, marks
    <2>2. ASSUME NEW h \in Handlers
          PROVE  Informed(proc[h])'
      <3> SUFFICES ASSUME NEW p, p = proc[h] PROVE Informed(p)'
        BY <2>1 DEF Informed, LookedAfter
      <3>1. Informed(p) /\ (p.pc = "think" => p.turn \in DOMAIN convs)
            /\ (p.pc \in Deciding => p.conv \in DOMAIN convs)
        BY OwnConv DEF TendedInv
      <3>2. p.pc = "think" /\ p.owner # "bot" => LookedAfter(p.turn)'
        BY <3>1, CareStays DEF Informed
      <3>3. p.pc \in Deciding /\ (p.human \/ p.queued) => LookedAfter(p.conv)'
        BY <3>1, CareStays DEF Informed
      <3>. QED  BY <1>1, <3>1, <3>2, <3>3 DEF Informed
    <2>3. TendedTo'
      <3> SUFFICES ASSUME NEW i \in DOMAIN rows, rows[i].kind = "user", NEW m, NEW c,
                          m = rows[i].msg, c = rows[i].conv, m \notin hurt \cup stray
                   PROVE  LookedAfter(c)' \/ Answered(m)' \/ \E h \in Handlers : Tends(proc[h], m, c)
        BY <1>1, <2>1 DEF TendedTo, LookedAfter, Answered
      <3>1. LookedAfter(c) \/ Answered(m) \/ \E h \in Handlers : Tends(proc[h], m, c)
        BY DEF TendedInv, TendedTo
      <3>. QED  BY <1>4, <1>5, <3>1
    <2>. QED  BY <1>2, <1>3, <2>2, <2>3 DEF TendedInv
  <1>. QED  BY <1>6, <1>7

LEMMA InitTended == Init => TendedInv
PROOF
  <1>1. Init => convs = <<>> /\ rows = <<>> /\ proc = [h \in Handlers |-> Idle]
    BY DEF Init
  <1>2. Idle.pc = "idle"
    BY DEF Idle
  <1>. QED  BY <1>1, <1>2 DEF TendedInv, TendedTo, Informed, Deciding

LEMMA NextTended == Typed /\ TendedInv /\ [Next]_vars => TendedInv'
PROOF
  <1> SUFFICES ASSUME Typed, TendedInv, [Next]_vars PROVE TendedInv'
    OBVIOUS
  <1>0. setup.handlers \subseteq Handlers /\ Typed' /\ Conserved
    BY SetupFacts, NextTyped, StepsConserve DEF Typed
  <1>1. ASSUME NEW h \in setup.handlers, Collect(h)
        PROVE  TendedInv'
    BY <1>0, <1>1, TendedApproach DEF Approach
  <1>2. ASSUME NEW h \in setup.handlers, Proceed(h)
        PROVE  TendedInv'
    BY <1>0, <1>2, TendedApproach, TendedBeside, TendedSaid, TendedStored, TendedResolves
       DEF Proceed, Approach, Pulls
  <1>3. ASSUME NEW h \in setup.handlers,
               \/ Fail(h) \/ PageFails(h) \/ MapFails(h) \/ Redeliver(h) \/ PullFails(h)
               \/ \E m \in proc[h].todo : FlagFails(h, m)
        PROVE  TendedInv'
    BY <1>0, <1>3, TendedApproach, TendedBeside DEF Approach, Pulls
  <1>. QED  BY <1>0, <1>1, <1>2, <1>3, TendedOutside DEF Next, Outside

\* A message that nobody has in hand any more is answered, or its conversation
\* is a human's, queued, ended, or was handed back by one, whatever became of it
\* between the read that decided and the write that followed.
THEOREM SomebodyHasIt == Spec => []NobodyForgotten
PROOF
  <1>1. Init => Typed /\ TendedInv
    BY InitTyped, InitTended
  <1>2. Typed /\ TendedInv /\ [Next]_vars => (Typed /\ TendedInv)'
    BY NextTyped, NextTended
  <1>3. Typed /\ TendedInv => NobodyForgotten
    BY TendedSuffices
  <1>. QED  BY <1>1, <1>2, <1>3, PTL DEF Spec

(***************************************************************************)
(* One conversation.                                                        *)
(*                                                                          *)
(* While ingests do not overlap, nothing fails and no turn goes astray, the *)
(* handler at work is the only one that opens sessions and conversations,   *)
(* and it opens one only where it has seen none.  The desk brings back only *)
(* conversations that count as returned.                                    *)
(***************************************************************************)
Calm == ~overlapped /\ hurt = {} /\ stray = {}

\* The conversations that may not be two.
Live == {c \in DOMAIN convs \ returned : convs[c].status \in Open}

\* The thread is there once a handler has looked it up or made it.
Unlooked == Pulling \cup {"lookup", "create"}

\* What the handler at work knows of them.
Single(p) ==
    /\ p.pc = "session" => Len(sessions) = 0
    /\ p.pc = "open" => Live = {}
    /\ p.pc \in Deciding => p.conv \in returned \/ Live \subseteq {p.conv}
    /\ p.pc = "think" => p.turn = p.conv

RoomOK ==
    /\ \A c \in DOMAIN convs : convs[c].session \in 1..Len(sessions)
    /\ ~thread.exists => thread.session = 0
    /\ \A h \in Handlers : proc[h].pc \notin Unlooked => thread.exists

SingleInv ==
    /\ Alone
    /\ RoomOK
    /\ Calm =>
          /\ Len(sessions) <= 1
          /\ Len(sessions) = 0 \/ thread.session # 0 \/ \E h \in Handlers : At(h, "bind")
          /\ \A c, d \in Live : c = d
          /\ \A h \in Handlers : Single(proc[h])

LEMMA SingleSuffices == Typed /\ SingleInv => OneConversation
  BY DEF SingleInv, OneConversation, Calm, Live

\* A step of a handler that was at work.
LEMMA SingleStep ==
    ASSUME Typed, Typed', SingleInv, NEW h \in Handlers, NEW r, Ingesting(h),
           proc' = [proc EXCEPT ![h] = r], Unmet(h, r),
           \A c \in DOMAIN convs' : convs'[c].session \in 1..Len(sessions'),
           thread.exists => thread'.exists,
           ~thread'.exists => thread'.session = 0,
           r.pc \notin Unlooked => thread'.exists,
           Calm' => Len(sessions') <= 1,
           Calm' => Len(sessions') = 0 \/ thread'.session # 0 \/ r.pc = "bind",
           Calm' => \A c, d \in Live' : c = d,
           Calm' => Single(r)'
    PROVE  SingleInv'
PROOF
  <1>0. proc'[h] = r /\ \A g \in Handlers \ {h} : proc'[g] = proc[g]
    BY DEF Typed, HandlersFit
  <1>1. Alone'
    BY StaysAlone DEF SingleInv
  <1>2. RoomOK'
    BY <1>0 DEF SingleInv, RoomOK
  <1>3. ASSUME Calm', NEW g \in Handlers
        PROVE  Single(proc[g])'
    <2>1. CASE g = h
      BY <1>0, <1>3, <2>1 DEF Single
    <2>2. CASE g # h
      <3>1. ~overlapped
        BY <1>3 DEF Calm, Unmet
      <3>2. ~Ingesting(g) /\ proc'[g] = proc[g]
        BY <1>0, <2>2, <3>1 DEF SingleInv, Alone
      <3>. QED  BY <3>2 DEF Single, Ingesting, Deciding
    <2>. QED  BY <2>1, <2>2
  <1>4. Calm' => Len(sessions') = 0 \/ thread'.session # 0 \/ (\E g \in Handlers : At(g, "bind"))'
    BY <1>0 DEF At
  <1>. QED  BY <1>1, <1>2, <1>3, <1>4 DEF SingleInv

\* One that leaves the sessions and the thread's as they are, opens nothing and
\* goes on with the same conversation, if with any.
LEMMA SingleOnward ==
    ASSUME Typed, Typed', SingleInv, NEW h \in Handlers, NEW r, Ingesting(h),
           proc' = [proc EXCEPT ![h] = r], Unmet(h, r), hurt \subseteq hurt', stray \subseteq stray',
           sessions' = sessions, thread'.exists = thread.exists, thread'.session = thread.session,
           \A c \in DOMAIN convs' : c \in DOMAIN convs /\ convs'[c].session = convs[c].session,
           returned' = returned,
           Calm /\ Calm' => Live' \subseteq Live \/ (proc[h].pc \in Deciding /\ Live' \subseteq Live \cup {proc[h].conv}),
           proc[h].pc # "bind" \/ ~Calm',
           r.pc \notin {"session", "open"},
           r.pc \notin Unlooked => thread.exists,
           r.pc \in Deciding => proc[h].pc \in Deciding /\ r.conv = proc[h].conv,
           Calm /\ Calm' /\ r.pc = "think" => r.turn = r.conv
    PROVE  SingleInv'
PROOF
  <1>1. Calm' => Calm
    BY DEF Calm, Unmet
  <1>2. Calm => /\ Len(sessions) <= 1
                /\ \A c, d \in Live : c = d
                /\ Single(proc[h])
    BY DEF SingleInv
  <1>3. ASSUME Calm'
        PROVE  /\ \A c, d \in Live' : c = d
               /\ proc[h].pc \in Deciding => proc[h].conv \in returned \/ Live' \subseteq {proc[h].conv}
    <2>1. CASE Live' \subseteq Live
      BY <1>1, <1>2, <1>3, <2>1 DEF Single
    <2>2. CASE proc[h].pc \in Deciding /\ Live' \subseteq Live \cup {proc[h].conv}
      <3>1. proc[h].conv \in returned \/ Live \subseteq {proc[h].conv}
        BY <1>1, <1>2, <1>3, <2>2 DEF Single
      <3>2. proc[h].conv \in returned => Live' \subseteq Live
        BY <2>2 DEF Live
      <3>. QED  BY <1>1, <1>2, <1>3, <2>2, <3>1, <3>2
    <2>. QED  BY <1>1, <1>3, <2>1, <2>2
  <1>4. ASSUME Calm'
        PROVE  Single(r)'
    <2>1. r.pc \in Deciding => r.conv \in returned' \/ Live' \subseteq {r.conv}
      BY <1>3, <1>4
    <2>. QED  BY <1>1, <1>4, <2>1 DEF Single
  <1>5. Calm' => Len(sessions') = 0 \/ thread'.session # 0
    <2> SUFFICES ASSUME Calm', Len(sessions) # 0, thread.session = 0 PROVE FALSE
      OBVIOUS
    <2>1. PICK g \in Handlers : At(g, "bind")
      BY <1>1 DEF SingleInv
    <2>2. Ingesting(g) /\ ~overlapped
      BY <1>1, <2>1 DEF At, Ingesting, Calm
    <2>3. g = h
      BY <2>2 DEF SingleInv, Alone
    <2>. QED  BY <2>1, <2>3 DEF At
  <1>6. \A c \in DOMAIN convs' : convs'[c].session \in 1..Len(sessions')
    BY DEF SingleInv, RoomOK
  <1>7. ~thread'.exists => thread'.session = 0
    BY DEF SingleInv, RoomOK
  <1>. QED  BY <1>1, <1>2, <1>3, <1>4, <1>5, <1>6, <1>7, SingleStep

LEMMA SingleGoto ==
    ASSUME Typed, Typed', SingleInv, NEW h \in Handlers, NEW pc, Goto(h, pc), Ingesting(h),
           overlapped' = overlapped, hurt \subseteq hurt', stray \subseteq stray',
           sessions' = sessions, thread'.exists = thread.exists, thread'.session = thread.session,
           \A c \in DOMAIN convs' : c \in DOMAIN convs /\ convs'[c].session = convs[c].session,
           returned' = returned,
           Calm /\ Calm' => Live' \subseteq Live \/ (proc[h].pc \in Deciding /\ Live' \subseteq Live \cup {proc[h].conv}),
           proc[h].pc \notin Unlooked \cup {"bind"}, pc \notin {"session", "open", "think"},
           pc \in Deciding => proc[h].pc \in Deciding
    PROVE  SingleInv'
PROOF
  <1>1. PICK r : proc' = [proc EXCEPT ![h] = r] /\ r.pc = pc /\ Same(r, proc[h])
    BY GotoView
  <1>2. Unmet(h, r) /\ r.conv = proc[h].conv
    BY <1>1 DEF Unmet, Same
  <1>3. thread.exists
    BY DEF SingleInv, RoomOK
  <1>. QED  BY <1>1, <1>2, <1>3, SingleOnward

\* The shopper's room is known to a handler that has looked it up.
LEMMA LookedUp ==
    ASSUME SingleInv, NEW h \in Handlers, proc[h].pc \notin Unlooked
    PROVE  thread.exists
  BY DEF SingleInv, RoomOK

\* A message is left, or the next one begun.
LEMMA SingleLeaves ==
    ASSUME Typed, Typed', SingleInv, NEW h \in Handlers,
           Skip(h) \/ SkipCreated(h) \/ Cursor(h) \/ Fail(h)
    PROVE  SingleInv'
PROOF
  <1>1. PICK b : Begin(h, b)
    BY DEF Skip, SkipCreated, Cursor, Fail
  <1>2. PICK r : proc' = [proc EXCEPT ![h] = r] /\ r.pc \in {"idle", "lookup"} /\ Unmet(h, r)
    BY <1>1, BeginView
  <1>3. /\ Ingesting(h) /\ hurt \subseteq hurt' /\ UNCHANGED <<stray, sessions, convs, returned>>
        /\ proc[h].pc # "bind" \/ Fail(h)
    BY DEF Skip, SkipCreated, Cursor, Fail, At, Ingesting, tables, marks
  <1>4. thread'.exists = thread.exists /\ thread'.session = thread.session
    <2>1. CASE Cursor(h)
      <3>1. thread' = [thread EXCEPT !.cursor = Msg(h)] /\ thread \in Thread
        BY <2>1 DEF Cursor, Typed, TablesOK, marks
      <3>. QED  BY <3>1 DEF Thread
    <2>2. CASE ~Cursor(h)
      BY <2>2 DEF Skip, SkipCreated, Fail, tables, marks
    <2>. QED  BY <2>1, <2>2
  <1>5. Fail(h) => ~Calm'
    BY DEF Fail, Calm
  <1>6. Live' = Live
    BY <1>3 DEF Live
  <1>. QED  BY <1>2, <1>3, <1>4, <1>5, <1>6, SingleOnward DEF Unlooked, Pulling, Deciding

\* Messages are taken from the source.
LEMMA SinglePulls ==
    ASSUME Typed, Typed', SingleInv, NEW h \in Handlers,
           Collect(h) \/ Pulls(h) \/ Fetch(h) \/ HandOver(h) \/ Redeliver(h)
    PROVE  SingleInv'
PROOF
  <1>1. /\ ~Ingesting(h)
        /\ UNCHANGED <<thread, sessions, convs, hurt, stray, returned>>
    <2>1. CASE Search(h) \/ Pulls(h)
      BY <2>1, PullsKeep DEF Pulls, Pulling, Ingesting
    <2>2. CASE ~(Search(h) \/ Pulls(h))
      BY <2>2 DEF Collect, Deliver, Pull, List, Fetch, HandOver, Redeliver, At, Ingesting, tables,
                  observers, marks
    <2>. QED  BY <2>1, <2>2
  <1>2. PICK r : proc' = [proc EXCEPT ![h] = r] /\ r.pc \in Pulling \cup {"lookup"} /\ Unmet(h, r)
    <2>1. CASE Deliver(h) \/ HandOver(h) \/ Redeliver(h)
      <3>1. PICK b : Begin(h, b)
        BY <2>1 DEF Deliver, HandOver, Redeliver
      <3>. QED  BY <3>1, BeginView DEF Pulling
    <2>2. CASE Pull(h) \/ List(h) \/ Fetch(h)
      <3>1. ASSUME NEW pc \in Pulling, NEW l, NEW b, NEW t,
                   proc' = [proc EXCEPT ![h] = [proc[h] EXCEPT !.pc = pc, !.listed = l, !.batch = b, !.copy = t]]
            PROVE  \E r : proc' = [proc EXCEPT ![h] = r] /\ r.pc \in Pulling \cup {"lookup"} /\ Unmet(h, r)
        <4> DEFINE q == [proc[h] EXCEPT !.pc = pc, !.listed = l, !.batch = b, !.copy = t]
        <4>1. proc' = [proc EXCEPT ![h] = q] /\ q.pc = pc
          BY <3>1, Own DEF Handler
        <4> HIDE DEF q
        <4>2. overlapped' = overlapped
          BY <2>2 DEF Pull, List, Fetch, observers, marks
        <4>. QED  BY <3>1, <4>1, <4>2 DEF Unmet
      <3>2. "commit" \in Pulling /\ "fetch" \in Pulling
        BY DEF Pulling
      <3>3. CASE Pull(h)
        <4>1. proc' = [proc EXCEPT ![h] = [proc[h] EXCEPT !.pc = "commit", !.listed = written,
                         !.batch = Run(mark + 1, written), !.copy = proc[h].copy]]
          BY <3>3, Own DEF Pull, Handler
        <4>. QED  BY <3>1, <3>2, <4>1
      <3>4. CASE List(h)
        <4>1. proc' = [proc EXCEPT ![h] = [proc[h] EXCEPT !.pc = "fetch", !.listed = written,
                         !.batch = proc[h].batch, !.copy = thread]]
          BY <3>4, Own DEF List, Handler
        <4>. QED  BY <3>1, <3>2, <4>1
      <3>5. CASE Fetch(h)
        <4>1. proc' = [proc EXCEPT ![h] = [proc[h] EXCEPT !.pc = "commit", !.listed = proc[h].listed,
                         !.batch = Run(proc[h].copy.cursor + 1, written), !.copy = NoThread]]
          BY <3>5, Own DEF Fetch, Handler
        <4>. QED  BY <3>1, <3>2, <4>1
      <3>. QED  BY <2>2, <3>3, <3>4, <3>5
    <2>3. CASE Search(h) \/ Pulls(h)
      <3>1. Pulls(h)
        BY <2>3 DEF Pulls
      <3>2. PICK r \in Handler : proc' = [proc EXCEPT ![h] = r] /\ r.pc \in {"idle", "read", "handover"}
        BY <3>1, PullsRecord
      <3>3. overlapped' = overlapped
        BY <3>1, PullsKeep
      <3>. QED  BY <3>2, <3>3 DEF Unmet, Pulling
    <2>. QED  BY <2>1, <2>2, <2>3 DEF Collect
  <1>3. proc'[h] = r /\ \A g \in Handlers \ {h} : proc'[g] = proc[g]
    BY <1>2 DEF Typed, HandlersFit
  <1>4. Alone'
    BY <1>2, StaysAlone DEF SingleInv
  <1>5. RoomOK'
    BY <1>1, <1>2, <1>3 DEF SingleInv, RoomOK, Unlooked
  <1>6. (Calm' => Calm) /\ Live' = Live
    BY <1>1, <1>2 DEF Calm, Live, Unmet
  <1>7. ASSUME NEW g \in Handlers, Single(proc[g])
        PROVE  Single(proc[g])'
    <2>1. CASE g = h
      BY <1>2, <1>3, <2>1 DEF Single, Pulling, Deciding
    <2>2. CASE g # h
      BY <1>1, <1>3, <1>6, <1>7, <2>2 DEF Single
    <2>. QED  BY <2>1, <2>2
  <1>8. (\E g \in Handlers : At(g, "bind")) => (\E g \in Handlers : At(g, "bind"))'
    BY <1>1, <1>3 DEF At, Ingesting
  <1>. QED  BY <1>1, <1>4, <1>5, <1>6, <1>7, <1>8 DEF SingleInv

\* A handler goes on with its conversation and opens nothing.
LEMMA SingleGoesOn ==
    ASSUME Typed, Typed', SingleInv, NEW h \in Handlers,
           \/ Attach(h) \/ Notice(h) \/ Stamp(h) \/ Refuse(h) \/ Silent(h) \/ Answer(h)
           \/ Draft(h) \/ Store(h) \/ NothingToMap(h) \/ PageFails(h) \/ MapFails(h)
           \/ \E i \in DOMAIN rows : Map(h, i)
    PROVE  SingleInv'
PROOF
  <1>1. /\ Ingesting(h) /\ overlapped' = overlapped /\ hurt \subseteq hurt' /\ stray \subseteq stray'
        /\ UNCHANGED <<sessions, convs, returned>>
        /\ proc[h].pc \in Deciding \cup {"map"}
    BY DEF Attach, Notice, Stamp, Refuse, Silent, Answer, Draft, Store, NothingToMap,
           PageFails, MapFails, Map, At, Ingesting, Deciding, tables, observers, marks
  <1>2. thread'.exists = thread.exists /\ thread'.session = thread.session
    <2>1. CASE Attach(h) \/ Stamp(h)
      <3>1. thread \in Thread
        BY DEF Typed, TablesOK, marks
      <3>. QED  BY <2>1, <3>1 DEF Attach, Stamp, Thread
    <2>2. CASE ~(Attach(h) \/ Stamp(h))
      BY <2>2 DEF Notice, Refuse, Silent, Answer, Draft, Store, NothingToMap,
                  PageFails, MapFails, Map, tables, marks
    <2>. QED  BY <2>1, <2>2
  <1>3. AfterTurn(h) \in {"map", "page"} /\ AfterStore(h) \in {"map", "page"}
    BY DEF AfterTurn, AfterStore
  <1>4. \A mode : NextStep(h, mode) \in {"store", "notice", "gate"}
    BY NextStepFacts
  <1>5. PICK pc : /\ Goto(h, pc) /\ pc \notin {"session", "open", "think"}
                  /\ pc \in Deciding => proc[h].pc \in Deciding
    <2>1. CASE Attach(h)
      BY <1>4, <2>1 DEF Attach, At, Deciding
    <2>2. CASE Notice(h) \/ Stamp(h)
      BY <2>2 DEF Notice, Stamp, At, Deciding
    <2>3. CASE Refuse(h) \/ Silent(h) \/ Answer(h) \/ Draft(h)
      BY <1>3, <2>3 DEF Refuse, Silent, Answer, Draft, At, Deciding
    <2>4. CASE Store(h)
      BY <1>3, <2>4 DEF Store, At, Deciding
    <2>5. CASE NothingToMap(h) \/ PageFails(h) \/ MapFails(h) \/ \E i \in DOMAIN rows : Map(h, i)
      BY <2>5 DEF NothingToMap, PageFails, MapFails, Map, Deciding
    <2>. QED  BY <2>1, <2>2, <2>3, <2>4, <2>5
  <1>6. Live' = Live
    BY <1>1 DEF Live
  <1>7. proc[h].pc \notin Unlooked \cup {"bind"}
    BY <1>1 DEF Unlooked, Pulling, Deciding
  <1>. QED  BY <1>1, <1>2, <1>5, <1>6, <1>7, SingleGoto

\* One that queues the conversation it is about may open an ended one again: it
\* is the conversation the handler resolved, beside which there is none.
LEMMA SingleQueues ==
    ASSUME Typed, Typed', SingleInv, NEW h \in Handlers, HandOff(h) \/ Page(h)
    PROVE  SingleInv'
PROOF
  <1>1. /\ Ingesting(h) /\ overlapped' = overlapped /\ hurt' = hurt /\ stray' = stray
        /\ UNCHANGED <<sessions, thread, returned>> /\ proc[h].pc \in {"think", "page"}
    BY DEF HandOff, Page, At, Ingesting, observers, marks
  <1>2. PICK c \in DOMAIN convs : MarkWaiting(c) /\ (Calm => c = proc[h].conv)
    <2>1. CASE HandOff(h)
      <3>1. proc[h].turn \in DOMAIN convs /\ MarkWaiting(proc[h].turn) /\ proc[h].pc = "think"
        BY <2>1, OwnConv DEF HandOff, At
      <3>. QED  BY <3>1 DEF SingleInv, Single
    <2>2. CASE Page(h)
      <3>1. proc[h].conv \in DOMAIN convs /\ MarkWaiting(proc[h].conv)
        BY <2>2, OwnConv DEF Page, At, Deciding
      <3>. QED  BY <3>1
    <2>. QED  BY <2>1, <2>2
  <1>3. /\ DOMAIN convs' = DOMAIN convs /\ convs'[c].session = convs[c].session
        /\ \A d \in DOMAIN convs \ {c} : convs'[d] = convs[d]
    BY <1>2, Marked
  <1>4. Live' \subseteq Live \cup {c}
    BY <1>1, <1>3 DEF Live
  <1>5. PICK pc \in {"map", "page"} : Goto(h, pc)
    BY DEF HandOff, Page, AfterTurn
  <1>. QED  BY <1>1, <1>2, <1>3, <1>4, <1>5, SingleGoto DEF Deciding, Unlooked, Pulling

\* The message is let in.
LEMMA SingleEnters ==
    ASSUME Typed, Typed', SingleInv, NEW h \in Handlers,
           EnterNew(h) \/ \E c \in DOMAIN convs : Enter(h, c)
    PROVE  SingleInv'
PROOF
  <1>1. PICK c, owner :
           /\ LetIn(h, c, owner)
           /\ convs' = convs \/ (EnterNew(h) /\ c = Len(convs) + 1)
    BY DEF EnterNew, Enter
  <1>2. PICK r : /\ proc' = [proc EXCEPT ![h] = r] /\ r.pc = "think" /\ r.turn = c
                 /\ r.conv = proc[h].conv
    BY <1>1, LetInView
  <1>3. /\ Ingesting(h) /\ proc[h].pc = "gate" /\ overlapped' = overlapped
        /\ hurt' = hurt /\ stray \subseteq stray' /\ UNCHANGED <<sessions, thread, returned>>
        /\ c = proc[h].conv \/ stray' # {}
    BY <1>1 DEF LetIn, At, Ingesting
  <1>4. Unmet(h, r) /\ thread.exists /\ proc[h].conv \in DOMAIN convs
    BY <1>3, LookedUp, OwnConv DEF Unmet, Unlooked, Pulling, Deciding
  <1>5. CASE convs' = convs
    <2>1. Live' = Live
      BY <1>3, <1>5 DEF Live
    <2>2. Calm' => r.turn = r.conv
      BY <1>2, <1>3 DEF Calm
    <2>. QED  BY <1>2, <1>3, <1>4, <1>5, <2>1, <2>2, SingleOnward DEF Deciding
  <1>6. CASE EnterNew(h) /\ c = Len(convs) + 1
    <2>1. convs' = Append(convs, NewConv(proc[h].copy.session))
      BY <1>6 DEF EnterNew
    <2>2. /\ DOMAIN convs' = DOMAIN convs \cup {c} /\ c \notin DOMAIN convs
          /\ convs'[c].session = proc[h].copy.session
          /\ \A d \in DOMAIN convs : convs'[d] = convs[d]
      BY <1>6, <2>1, Opened DEF NewConv
    <2>3. ~Calm'
      BY <1>3, <1>4, <2>2 DEF Calm
    <2>4. proc[h].copy.session \in 1..Len(sessions)
      BY <1>3, Own DEF Early, Pulling
    <2>5. \A d \in DOMAIN convs' : convs'[d].session \in 1..Len(sessions')
      BY <1>3, <2>2, <2>4 DEF SingleInv, RoomOK
    <2>. QED  BY <1>2, <1>3, <1>4, <2>3, <2>5, SingleStep
  <1>. QED  BY <1>1, <1>5, <1>6

\* While all is calm every conversation is of the one session there is.
LEMMA OneSession ==
    ASSUME Typed, SingleInv, Calm, NEW h \in Handlers, proc[h].pc \notin Early
    PROVE  /\ Len(sessions) = 1
           /\ OpenConvs(proc[h].copy.session) = {c \in DOMAIN convs : convs[c].status \in Open}
PROOF
  <1>0. Len(sessions) <= 1
    BY DEF SingleInv
  <1>1. proc[h].copy.session \in 1..Len(sessions) /\ Len(sessions) \in Nat
    BY Own
  <1>2. Len(sessions) = 1 /\ proc[h].copy.session = 1
    <2>1. \A n \in Nat : n <= 1 => \A s \in 1..n : n = 1 /\ s = 1
      OBVIOUS
    <2>. QED  BY <1>0, <1>1, <2>1
  <1>3. \A c \in DOMAIN convs : convs[c].session = 1
    <2>1. \A c \in DOMAIN convs : convs[c].session \in 1..Len(sessions)
      BY DEF SingleInv, RoomOK
    <2>. QED  BY <1>2, <2>1
  <1>. QED  BY <1>2, <1>3 DEF OpenConvs

\* The conversation found is the newest of all that are open: either a human
\* brought it back, or it is the one that may be there.
LEMMA SingleFinds ==
    ASSUME Typed, Typed', SingleInv, NEW h \in Handlers, NEW c \in DOMAIN convs, Found(h, c)
    PROVE  SingleInv'
PROOF
  <1>1. PICK r : /\ proc' = [proc EXCEPT ![h] = r] /\ r.conv = c
                 /\ r.pc \in {"attach", "store", "notice", "gate"}
    BY FoundView
  <1>2. /\ Ingesting(h) /\ proc[h].pc = "converse"
        /\ UNCHANGED <<thread, sessions, convs, hurt, stray, returned, overlapped>>
        /\ Newest(c, OpenConvs(proc[h].copy.session))
    BY DEF Found, At, Ingesting, tables, observers, marks
  <1>3. thread.exists /\ proc[h].pc \notin Early
    BY <1>2, LookedUp DEF Unlooked, Early, Pulling
  <1>4. Calm' = Calm /\ Live' = Live
    BY <1>2 DEF Calm, Live
  <1>5. ASSUME Calm
        PROVE  c \in returned \/ Live \subseteq {c}
    <2>1. c \in returned \/ c \in Live
      BY <1>2, <1>3, <1>5, OneSession DEF Newest, Live
    <2>. QED  BY <1>5, <2>1 DEF SingleInv
  <1>6. Calm' => Single(r)'
    BY <1>1, <1>2, <1>4, <1>5 DEF Single, Deciding
  <1>7. Calm => Len(sessions) = 0 \/ thread.session # 0
    <2> SUFFICES ASSUME Calm, Len(sessions) # 0, thread.session = 0 PROVE FALSE
      OBVIOUS
    <2>1. PICK g \in Handlers : At(g, "bind")
      BY DEF SingleInv
    <2>2. g = h
      BY <1>2, <2>1 DEF SingleInv, Alone, Calm, At, Ingesting
    <2>. QED  BY <1>2, <2>1, <2>2 DEF At
  <1>8. Unmet(h, r)
    BY <1>2 DEF Unmet
  <1>9. /\ \A d \in DOMAIN convs' : convs'[d].session \in 1..Len(sessions')
        /\ Calm' => Len(sessions') <= 1
        /\ \A d, e \in Live' : Calm' => d = e
        /\ ~thread'.exists => thread'.session = 0
    BY <1>2, <1>4 DEF SingleInv, RoomOK
  <1>. QED  BY <1>1, <1>2, <1>3, <1>4, <1>6, <1>7, <1>8, <1>9, SingleStep

LEMMA SingleFindsNone ==
    ASSUME Typed, Typed', SingleInv, NEW h \in Handlers, NoneFound(h)
    PROVE  SingleInv'
PROOF
  <1>1. /\ Ingesting(h) /\ proc[h].pc = "converse"
        /\ UNCHANGED <<thread, sessions, convs, hurt, stray, returned, overlapped>>
        /\ OpenConvs(proc[h].copy.session) = {} /\ Goto(h, "open")
    BY DEF NoneFound, At, Ingesting, tables, observers, marks
  <1>2. PICK r : proc' = [proc EXCEPT ![h] = r] /\ r.pc = "open" /\ Same(r, proc[h])
    BY <1>1, GotoView
  <1>3. thread.exists /\ proc[h].pc \notin Early
    BY <1>1, LookedUp DEF Unlooked, Early, Pulling
  <1>4. Calm' = Calm /\ Live' = Live
    BY <1>1 DEF Calm, Live
  <1>5. Calm => Live = {}
    BY <1>1, <1>3, OneSession DEF Live
  <1>6. Calm' => Single(r)'
    BY <1>2, <1>4, <1>5 DEF Single, Deciding
  <1>7. Calm => Len(sessions) = 0 \/ thread.session # 0
    <2> SUFFICES ASSUME Calm, Len(sessions) # 0, thread.session = 0 PROVE FALSE
      OBVIOUS
    <2>1. PICK g \in Handlers : At(g, "bind")
      BY DEF SingleInv
    <2>2. g = h
      BY <1>1, <2>1 DEF SingleInv, Alone, Calm, At, Ingesting
    <2>. QED  BY <1>1, <2>1, <2>2 DEF At
  <1>8. Unmet(h, r)
    BY <1>1 DEF Unmet
  <1>9. /\ \A d \in DOMAIN convs' : convs'[d].session \in 1..Len(sessions')
        /\ Calm' => Len(sessions') <= 1
        /\ \A d, e \in Live' : Calm' => d = e
        /\ ~thread'.exists => thread'.session = 0
    BY <1>1, <1>4 DEF SingleInv, RoomOK
  <1>. QED  BY <1>1, <1>2, <1>3, <1>4, <1>6, <1>7, <1>8, <1>9, SingleStep

LEMMA SingleOpens ==
    ASSUME Typed, Typed', SingleInv, NEW h \in Handlers, OpenConv(h)
    PROVE  SingleInv'
PROOF
  <1>1. PICK r : proc' = [proc EXCEPT ![h] = r] /\ r.pc = "attach" /\ r.conv = Len(convs) + 1
    BY OpenView
  <1>2. /\ Ingesting(h) /\ proc[h].pc = "open"
        /\ UNCHANGED <<thread, sessions, hurt, stray, returned, overlapped>>
        /\ convs' = Append(convs, NewConv(proc[h].copy.session))
    BY DEF OpenConv, At, Ingesting
  <1>3. thread.exists /\ proc[h].copy.session \in 1..Len(sessions)
    BY <1>2, LookedUp, Own DEF Unlooked, Early, Pulling
  <1> DEFINE new == Len(convs) + 1
  <1>4. /\ DOMAIN convs' = DOMAIN convs \cup {new} /\ convs'[new].session = proc[h].copy.session
        /\ \A d \in DOMAIN convs : convs'[d] = convs[d]
    BY <1>2, Opened DEF NewConv
  <1> HIDE DEF new
  <1>5. (Calm' = Calm) /\ Live' \subseteq Live \cup {new}
    BY <1>2, <1>4 DEF Calm, Live
  <1>6. Calm => Live = {}
    BY <1>2 DEF SingleInv, Single
  <1>7. Calm' => Single(r)'
    BY <1>1, <1>5, <1>6 DEF Single, Deciding, new
  <1>8. Calm => Len(sessions) = 0 \/ thread.session # 0
    <2> SUFFICES ASSUME Calm, Len(sessions) # 0, thread.session = 0 PROVE FALSE
      OBVIOUS
    <2>1. PICK g \in Handlers : At(g, "bind")
      BY DEF SingleInv
    <2>2. g = h
      BY <1>2, <2>1 DEF SingleInv, Alone, Calm, At, Ingesting
    <2>. QED  BY <1>2, <2>1, <2>2 DEF At
  <1>9. Unmet(h, r)
    BY <1>2 DEF Unmet
  <1>10. /\ \A d \in DOMAIN convs' : convs'[d].session \in 1..Len(sessions')
         /\ Calm' => Len(sessions') <= 1
         /\ ~thread'.exists => thread'.session = 0
    BY <1>2, <1>3, <1>4, <1>5 DEF SingleInv, RoomOK
  <1>11. Calm' => \A d, e \in Live' : d = e
    BY <1>5, <1>6
  <1>. QED  BY <1>1, <1>2, <1>3, <1>5, <1>7, <1>8, <1>9, <1>10, <1>11, SingleStep

\* The session is opened where there was none, and bound.
LEMMA SingleSession ==
    ASSUME Typed, Typed', SingleInv, NEW h \in Handlers, NewSession(h)
    PROVE  SingleInv'
PROOF
  <1>1. PICK r : proc' = [proc EXCEPT ![h] = r] /\ r.pc = "bind"
    <2> DEFINE q == [proc[h] EXCEPT !.pc = "bind", !.copy.session = Len(sessions) + 1]
    <2>1. proc' = [proc EXCEPT ![h] = q] /\ q.pc = "bind"
      BY Own DEF NewSession, Handler
    <2>. QED  BY <2>1
  <1>2. /\ Ingesting(h) /\ proc[h].pc = "session"
        /\ UNCHANGED <<thread, convs, hurt, stray, returned, overlapped>>
        /\ Len(sessions) \in Nat /\ Len(sessions') = Len(sessions) + 1
    BY DEF NewSession, At, Ingesting, observers, Typed, TablesOK, marks
  <1>3. thread.exists
    BY <1>2, LookedUp DEF Unlooked, Pulling
  <1>4. Calm' = Calm /\ Live' = Live
    BY <1>2 DEF Calm, Live
  <1>5. Calm => Len(sessions) = 0
    BY <1>2 DEF SingleInv, Single
  <1>6. \A c \in DOMAIN convs' : convs'[c].session \in 1..Len(sessions')
    BY <1>2 DEF SingleInv, RoomOK
  <1>7. Unmet(h, r) /\ Single(r)'
    BY <1>1, <1>2 DEF Unmet, Single, Deciding
  <1>8. Calm' => Len(sessions') <= 1
    BY <1>2, <1>4, <1>5
  <1>9. Calm' => \A c, d \in Live' : c = d
    BY <1>4 DEF SingleInv
  <1>. QED  BY <1>1, <1>2, <1>3, <1>6, <1>7, <1>8, <1>9, SingleStep

LEMMA SingleBinds ==
    ASSUME Typed, Typed', SingleInv, NEW h \in Handlers, Bind(h)
    PROVE  SingleInv'
PROOF
  <1>1. PICK r : proc' = [proc EXCEPT ![h] = r] /\ r.pc = "converse"
    BY GotoView DEF Bind
  <1>2. /\ Ingesting(h) /\ proc[h].pc = "bind"
        /\ UNCHANGED <<sessions, convs, hurt, stray, returned, overlapped>>
        /\ thread' = [thread EXCEPT !.session = proc[h].copy.session] /\ thread \in Thread
    BY DEF Bind, At, Ingesting, observers, Typed, TablesOK, marks
  <1>3. thread'.exists = thread.exists /\ thread'.session # 0
    BY <1>2, Own, SMTT(30) DEF Thread, Early, Pulling
  <1>4. thread.exists
    BY <1>2, LookedUp DEF Unlooked, Pulling
  <1>5. Calm' = Calm /\ Live' = Live
    BY <1>2 DEF Calm, Live
  <1>6. Unmet(h, r) /\ Single(r)'
    BY <1>1, <1>2 DEF Unmet, Single, Deciding
  <1>7. \A c \in DOMAIN convs' : convs'[c].session \in 1..Len(sessions')
    BY <1>2 DEF SingleInv, RoomOK
  <1>8. Calm' => Len(sessions') <= 1 /\ \A c, d \in Live' : c = d
    BY <1>2, <1>5 DEF SingleInv
  <1>. QED  BY <1>1, <1>2, <1>3, <1>4, <1>6, <1>7, <1>8, SingleStep

\* A room without a session is one for which nobody is opening one.
LEMMA SingleLooks ==
    ASSUME Typed, Typed', SingleInv, NEW h \in Handlers, Lookup(h) \/ Create(h)
    PROVE  SingleInv'
PROOF
  <1>1. /\ Ingesting(h) /\ proc[h].pc \in {"lookup", "create"}
        /\ UNCHANGED <<sessions, convs, hurt, stray, returned, overlapped>>
    BY DEF Lookup, Create, At, Ingesting, tables, observers, marks
  <1>2. /\ thread'.session = thread.session /\ (thread.exists => thread'.exists)
    <2>1. NoThread.session = 0 /\ [NoThread EXCEPT !.exists = TRUE].session = 0
          /\ [NoThread EXCEPT !.exists = TRUE].exists
      BY DEF NoThread
    <2>. QED  BY <2>1 DEF Lookup, Create, tables, SingleInv, RoomOK, marks
  <1>3. PICK pc, t : /\ proc' = [proc EXCEPT ![h] = [proc[h] EXCEPT !.pc = pc, !.copy = t]]
                     /\ \/ pc = "create"
                        \/ pc = (IF thread'.session = 0 THEN "session" ELSE "converse") /\ thread'.exists
    <2>1. CASE Lookup(h)
      BY <2>1 DEF Lookup, AfterSeen, tables, marks
    <2>2. CASE Create(h)
      <3>1. thread'.exists
        BY <2>2 DEF Create, NoThread
      <3>2. proc' = [proc EXCEPT ![h] = [proc[h] EXCEPT !.pc = AfterSeen(thread'), !.copy = thread']]
        BY <2>2 DEF Create
      <3>3. AfterSeen(thread)' = IF thread'.session = 0 THEN "session" ELSE "converse"
        BY DEF AfterSeen
      <3>. QED  BY <3>1, <3>2, <3>3 DEF AfterSeen
    <2>. QED  BY <2>1, <2>2
  <1>4. PICK r : proc' = [proc EXCEPT ![h] = r] /\ r.pc = pc
    <2> DEFINE q == [proc[h] EXCEPT !.pc = pc, !.copy = t]
    <2>1. proc' = [proc EXCEPT ![h] = q] /\ q.pc = pc
      BY <1>3, Own DEF Handler
    <2>. QED  BY <2>1
  <1>5. Calm' = Calm /\ Live' = Live
    BY <1>1 DEF Calm, Live
  <1>6. Calm => Len(sessions) = 0 \/ thread.session # 0
    <2> SUFFICES ASSUME Calm, Len(sessions) # 0, thread.session = 0 PROVE FALSE
      OBVIOUS
    <2>1. PICK g \in Handlers : At(g, "bind")
      BY DEF SingleInv
    <2>2. g = h
      BY <1>1, <2>1 DEF SingleInv, Alone, Calm, At, Ingesting
    <2>. QED  BY <1>1, <2>1, <2>2 DEF At
  <1>7. Calm' => Single(r)'
    BY <1>1, <1>2, <1>3, <1>4, <1>5, <1>6 DEF Single, Deciding
  <1>8. Unmet(h, r)
    BY <1>1 DEF Unmet
  <1>9. /\ \A d \in DOMAIN convs' : convs'[d].session \in 1..Len(sessions')
        /\ ~thread'.exists => thread'.session = 0
        /\ Calm' => Len(sessions') <= 1 /\ \A c, d \in Live' : c = d
    BY <1>1, <1>2, <1>5 DEF SingleInv, RoomOK
  <1>10. r.pc \notin Unlooked => thread'.exists
    BY <1>3, <1>4 DEF Unlooked
  <1>. QED  BY <1>1, <1>2, <1>4, <1>5, <1>6, <1>7, <1>8, <1>9, <1>10, SingleStep

\* The desk brings back nothing that does not count as returned.
LEMMA SingleDesk ==
    ASSUME Typed, NEW c \in DOMAIN convs, Take(c) \/ HandBack(c) \/ End(c)
    PROVE  /\ DOMAIN convs' = DOMAIN convs
           /\ \A d \in DOMAIN convs : convs'[d].session = convs[d].session
           /\ returned \subseteq returned'
           /\ Live' \subseteq Live
PROOF
  <1>1. PICK status, agent : /\ SetConv(c, status, agent)
                             /\ convs[c].status \in Open \/ c \in returned' \/ status \notin Open
    <2>1. CASE Take(c)
      <3>1. convs[c] \in Conv
        BY DEF Typed, TablesOK, marks
      <3>2. convs[c].status \in Open \/ convs[c].status = "ended"
        BY <3>1 DEF Conv
      <3>. QED  BY <2>1, <3>2 DEF Take
    <2>2. CASE HandBack(c)
      BY <2>2 DEF HandBack
    <2>3. CASE End(c)
      BY <2>3 DEF End
    <2>. QED  BY <2>1, <2>2, <2>3
  <1>2. /\ DOMAIN convs' = DOMAIN convs /\ convs'[c].status = status
        /\ convs'[c].session = convs[c].session
        /\ \A d \in DOMAIN convs \ {c} : convs'[d] = convs[d]
    BY <1>1, Edited
  <1>3. returned \subseteq returned'
    BY DEF Take, HandBack, End, observers, marks
  <1>4. ASSUME NEW d \in Live'
        PROVE  d \in Live
    <2>1. CASE d = c
      BY <1>1, <1>2, <1>3, <1>4, <2>1 DEF Live
    <2>2. CASE d # c
      BY <1>2, <1>3, <1>4, <2>2 DEF Live
    <2>. QED  BY <2>1, <2>2
  <1>. QED  BY <1>2, <1>3, <1>4

LEMMA SingleOutside ==
    ASSUME Typed, Typed', SingleInv,
           \/ Write \/ NewVersion \/ Restart \/ UNCHANGED vars
           \/ \E c \in DOMAIN convs : Take(c) \/ HandBack(c) \/ End(c)
           \/ \E s \in DOMAIN sessions : Override(s)
    PROVE  SingleInv'
PROOF
  <1>1. UNCHANGED <<thread, stray, overlapped>> /\ hurt \subseteq hurt'
    BY DEF Write, NewVersion, Restart, Take, HandBack, End, Override, vars, tables, observers, marks
  <1>2. Len(sessions') = Len(sessions)
    <2>1. CASE \E s \in DOMAIN sessions : Override(s)
      BY <2>1 DEF Override, Typed, TablesOK, marks
    <2>2. CASE ~\E s \in DOMAIN sessions : Override(s)
      BY <2>2 DEF Write, NewVersion, Restart, Take, HandBack, End, vars, tables, marks
    <2>. QED  BY <2>1, <2>2
  <1>3. /\ DOMAIN convs' = DOMAIN convs
        /\ \A c \in DOMAIN convs : convs'[c].session = convs[c].session
        /\ returned \subseteq returned' /\ Live' \subseteq Live
    <2>1. CASE \E c \in DOMAIN convs : Take(c) \/ HandBack(c) \/ End(c)
      BY <2>1, SingleDesk
    <2>2. CASE ~\E c \in DOMAIN convs : Take(c) \/ HandBack(c) \/ End(c)
      <3>1. UNCHANGED <<convs, returned>>
        BY <2>2 DEF Write, NewVersion, Restart, Override, vars, tables, observers, marks
      <3>. QED  BY <3>1 DEF Live
    <2>. QED  BY <2>1, <2>2
  <1>4. Calm' => Calm
    BY <1>1 DEF Calm
  <1>5. (\A c \in DOMAIN convs : convs[c].session \in 1..Len(sessions))'
    BY <1>2, <1>3 DEF SingleInv, RoomOK
  <1>6. Calm' => /\ Len(sessions') <= 1
                 /\ \A c, d \in Live' : c = d
    BY <1>2, <1>3, <1>4 DEF SingleInv
  <1>7. CASE Restart
    <2>1. proc' = [h \in Handlers |-> Idle] /\ Idle.pc = "idle" /\ hurt' = hurt \cup InMemory
      BY <1>7 DEF Restart, Idle
    <2>2. \A h \in Handlers : proc'[h].pc = "idle"
      BY <2>1
    <2>3. Alone' /\ \A h \in Handlers : Single(proc[h])'
      BY <2>2 DEF Alone, Ingesting, Single, Deciding
    <2>4. RoomOK'
      BY <1>1, <1>5, <2>2 DEF SingleInv, RoomOK, Unlooked, Pulling
    <2>5. ASSUME Calm', NEW g \in Handlers, At(g, "bind")
          PROVE  FALSE
      <3>1. proc[g].pc \notin Pulling /\ Ingesting(g)
        BY <2>5 DEF At, Pulling, Ingesting
      <3>2. PICK m \in Msgs : Has(proc[g], m)
        BY <3>1, HasHead
      <3>3. m \in InMemory
        BY <3>1, <3>2 DEF InMemory, Has, Holds
      <3>. QED  BY <2>1, <2>5, <3>3 DEF Calm
    <2>6. Calm' => Len(sessions') = 0 \/ thread'.session # 0
      BY <1>1, <1>2, <1>4, <2>5 DEF SingleInv
    <2>. QED  BY <1>6, <2>3, <2>4, <2>6 DEF SingleInv
  <1>8. CASE ~Restart
    <2>1. proc' = proc
      BY <1>8 DEF Write, NewVersion, Take, HandBack, End, Override, vars, marks
    <2>2. Alone'
      BY <1>1, <2>1 DEF SingleInv, Alone, Ingesting
    <2>3. RoomOK'
      BY <1>1, <1>5, <2>1 DEF SingleInv, RoomOK
    <2>4. ASSUME NEW h \in Handlers, Single(proc[h])
          PROVE  Single(proc[h])'
      BY <1>2, <1>3, <2>1, <2>4 DEF Single
    <2>5. Calm' => Len(sessions') = 0 \/ thread'.session # 0 \/ (\E h \in Handlers : At(h, "bind"))'
      BY <1>1, <1>2, <1>4, <2>1 DEF SingleInv, At
    <2>. QED  BY <1>4, <1>6, <2>2, <2>3, <2>4, <2>5 DEF SingleInv
  <1>. QED  BY <1>7, <1>8

LEMMA InitSingle == Init => SingleInv
PROOF
  <1>1. Init => /\ convs = <<>> /\ sessions = <<>> /\ thread.session = 0
                /\ proc = [h \in Handlers |-> Idle]
    BY DEF Init, NoThread
  <1>2. Idle.pc = "idle"
    BY DEF Idle
  <1>3. Init => \A h \in Handlers : proc[h].pc = "idle"
    BY <1>1, <1>2
  <1>. QED  BY <1>1, <1>3 DEF SingleInv, RoomOK, Alone, Ingesting, Single, Deciding, Unlooked, Pulling, Live

LEMMA NextSingle == Typed /\ SingleInv /\ [Next]_vars => SingleInv'
PROOF
  <1> SUFFICES ASSUME Typed, SingleInv, [Next]_vars PROVE SingleInv'
    OBVIOUS
  <1>0. setup.handlers \subseteq Handlers /\ Typed'
    BY SetupFacts, NextTyped DEF Typed
  <1>1. ASSUME NEW h \in setup.handlers, Collect(h)
        PROVE  SingleInv'
    BY <1>0, <1>1, SinglePulls
  <1>2. ASSUME NEW h \in setup.handlers, Proceed(h)
        PROVE  SingleInv'
    BY <1>0, <1>2, SinglePulls, SingleLeaves, SingleLooks, SingleSession, SingleBinds, SingleFinds,
       SingleFindsNone, SingleOpens, SingleGoesOn, SingleQueues, SingleEnters DEF Proceed, Pulls
  <1>3. ASSUME NEW h \in setup.handlers,
               \/ Fail(h) \/ PageFails(h) \/ MapFails(h) \/ Redeliver(h) \/ PullFails(h)
               \/ \E m \in proc[h].todo : FlagFails(h, m)
        PROVE  SingleInv'
    BY <1>0, <1>3, SinglePulls, SingleLeaves, SingleGoesOn DEF Pulls
  <1>. QED  BY <1>0, <1>1, <1>2, <1>3, SingleOutside DEF Next, Outside

\* While ingests do not overlap, nothing fails and no turn goes astray, a room has
\* one session and one conversation at a time, those an agent brought back aside.
THEOREM OneAtATime == Spec => []OneConversation
PROOF
  <1>1. Init => Typed /\ SingleInv
    BY InitTyped, InitSingle
  <1>2. Typed /\ SingleInv /\ [Next]_vars => (Typed /\ SingleInv)'
    BY NextTyped, NextSingle
  <1>3. Typed /\ SingleInv => OneConversation
    BY SingleSuffices
  <1>. QED  BY <1>1, <1>2, <1>3, PTL DEF Spec

==============================================================================
