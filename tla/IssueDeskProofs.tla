---------------------------- MODULE IssueDeskProofs ----------------------------
(***************************************************************************)
(* The steps of the issue desk keep its types.  The number an issue gets is  *)
(* one more than the greatest there is, so that there is a greatest belongs  *)
(* to the invariant; and a copy that is saved carries its issue's number, so *)
(* that a save takes no number away.  A move of an issue follows the workflow *)
(* because, while nobody has saved the issue since a call read it, the saves *)
(* the call has left lead along transitions from the status the issue has.   *)
(* The timeline balances because each of these saves is followed by the      *)
(* entry that tells it, and the call that saved has that entry in arrears.   *)
(***************************************************************************)
EXTENDS IssueDesk, FiniteSetTheorems, TLAPS

Greatest(S) == \E n \in S : \A m \in S : m <= n

\* A copy in a plan has the number of its issue.
Carries(plan, no) ==
    \A k \in DOMAIN plan : plan[k].do = "save" => plan[k].copy.no = no /\ no # 0
Working ==
    \A j \in Callers : /\ jobs[j].pc = "steps" => jobs[j].plan # <<>>
                       /\ Carries(jobs[j].plan, issues[jobs[j].conv].no)
DeskTyped == DeskTypeOK /\ Greatest(Numbers) /\ Working

LEMMA NoIssueIsIssue == NoIssue \in Issue
BY DEF NoIssue, Issue, Statuses

LEMMA NotCalledIsJob == NotCalled \in Job
<1>1. <<>> \in Seq(Step)
    OBVIOUS
<1>. QED BY <1>1, BusAssumption DEF NotCalled, Job

LEMMA DeskStarts == DeskInit => DeskTyped
<1>. SUFFICES ASSUME DeskInit PROVE DeskTyped
    OBVIOUS
<1>1. <<>> \in Seq(Entry) /\ NoIssue \in Issue /\ NotCalled \in Job
    BY NoIssueIsIssue, NotCalledIsJob
<1>2. DeskTypeOK
    BY <1>1 DEF DeskInit, DeskTypeOK
<1>3. Numbers = {0}
    BY BusAssumption DEF DeskInit, Numbers, NoIssue
<1>4. Greatest({0})
    BY DEF Greatest
<1>5. Working
    BY DEF DeskInit, Working, Carries, NotCalled
<1>. QED BY <1>2, <1>3, <1>4, <1>5 DEF DeskTyped

(***************************************************************************)
(* Plans.                                                                   *)
(***************************************************************************)
LEMMA IssueFields ==
    ASSUME NEW copy \in Issue
    PROVE  /\ copy.no \in Nat /\ copy.status \in Statuses
           /\ copy.assignee \in Agents \cup {NoAgent} /\ copy.reopens \in Nat
           /\ copy.tier \in {"none", "bot", "agent"}
BY DEF Issue

LEMMA StepKinds ==
    /\ \A copy \in Issue : Save(copy) \in Step
    /\ \A entry \in Entry : Record(entry) \in Step
    /\ \A a \in Agents : [do |-> "point", agent |-> a] \in Step
    /\ [do |-> "publish"] \in Step
BY DEF Step, Save, Record

LEMMA NotesAreEntries ==
    /\ Created \in Entry
    /\ \A type \in {"created", "assigned", "tier", "status", "reopened", "memo"} :
           Note(type) \in Entry
BY DEF Created, Note, Entry, Statuses

\* A plan that only touches the issue it was made from.
Sound(plan, no) == plan \in Seq(Step) /\ Carries(plan, no)

LEMMA PlansConcatenate ==
    ASSUME NEW no, NEW p, NEW q, Sound(p, no), Sound(q, no)
    PROVE  Sound(p \o q, no)
<1>. DEFINE s == p \o q
<1>0. p \in Seq(Step) /\ q \in Seq(Step) /\ Len(p) \in Nat /\ Len(q) \in Nat
    BY DEF Sound
<1>1. s \in Seq(Step) /\ Len(s) = Len(p) + Len(q)
    BY <1>0
<1>2. \A k \in 1..Len(s) : (k <= Len(p) /\ s[k] = p[k]) \/ (k > Len(p) /\ s[k] = q[k - Len(p)])
    BY <1>0
<1>3. Carries(s, no)
    <2>. SUFFICES ASSUME NEW k \in 1..Len(s), s[k].do = "save" PROVE s[k].copy.no = no /\ no # 0
        BY <1>1 DEF Carries
    <2>1. CASE k <= Len(p) /\ s[k] = p[k]
        <3>1. k \in DOMAIN p
            BY <1>0, <2>1
        <3>. QED BY <2>1, <3>1 DEF Sound, Carries
    <2>2. CASE k > Len(p) /\ s[k] = q[k - Len(p)]
        <3>1. k - Len(p) \in DOMAIN q
            BY <1>0, <1>1, <2>2
        <3>. QED BY <2>2, <3>1 DEF Sound, Carries
    <2>. QED BY <1>2, <2>1, <2>2
<1>. QED BY <1>1, <1>3 DEF Sound

LEMMA MovedIsIssue ==
    ASSUME NEW copy \in Issue, NEW to \in Statuses
    PROVE  Moved(copy, to) \in Issue /\ Moved(copy, to).no = copy.no /\ Moved(copy, to).status = to
<1>1. copy.no \in Nat /\ copy.assignee \in Agents \cup {NoAgent} /\ copy.reopens \in Nat
    BY IssueFields
<1>. DEFINE n == IF copy.status \in Settled /\ to = "in_progress" THEN copy.reopens + 1
                 ELSE copy.reopens
            t == IF to = "resolved" /\ copy.tier = "none" THEN "agent" ELSE copy.tier
            m == [copy EXCEPT !.status = to, !.reopens = n, !.tier = t]
<1>2. n \in Nat /\ t \in {"none", "bot", "agent"}
    BY <1>1, IssueFields
<1>3. Moved(copy, to) = m
    BY DEF Moved, Issue
<1>. HIDE DEF n, t
<1>4. m \in Issue /\ m.no = copy.no /\ m.status = to
    BY <1>2 DEF Issue
<1>. QED BY <1>3, <1>4

LEMMA EmptyPlan == \A no : Sound(<<>>, no)
BY DEF Sound, Carries

\* A save, then an entry.
LEMMA SaveAndRecord ==
    ASSUME NEW copy \in Issue, NEW entry \in Entry, copy.no # 0
    PROVE  Sound(<< Save(copy), Record(entry) >>, copy.no)
<1>. DEFINE s == Save(copy)
            r == Record(entry)
            p == << s, r >>
<1>1. s \in Step /\ r \in Step /\ s.copy = copy /\ r.do = "record"
    BY StepKinds DEF Save, Record
<1>. HIDE DEF s, r
<1>2. p \in Seq(Step) /\ DOMAIN p = {1, 2} /\ p[1] = s /\ p[2] = r
    BY <1>1
<1>3. Carries(p, copy.no)
    BY <1>1, <1>2 DEF Carries
<1>. QED BY <1>2, <1>3 DEF Sound, s, r

\* An entry alone.
LEMMA RecordAlone ==
    ASSUME NEW entry \in Entry
    PROVE  \A no : Sound(<< Record(entry) >>, no)
<1>. DEFINE r == Record(entry)
            p == << r >>
<1>1. r \in Step /\ r.do = "record"
    BY StepKinds DEF Record
<1>. HIDE DEF r
<1>2. p \in Seq(Step) /\ DOMAIN p = {1} /\ p[1] = r
    BY <1>1
<1>. QED BY <1>1, <1>2 DEF Sound, Carries, r

\* The publication of a resolution, if there is one.
LEMMA PublishesIsPlan ==
    ASSUME NEW copy
    PROVE  \A no : Sound(Publishes(copy), no)
<1>. DEFINE q == [do |-> "publish"]
            p == << q >>
<1>1. q \in Step /\ q.do = "publish"
    BY StepKinds
<1>2. Publishes(copy) = p \/ Publishes(copy) = <<>>
    BY DEF Publishes
<1>. HIDE DEF q
<1>3. p \in Seq(Step) /\ DOMAIN p = {1} /\ p[1] = q
    BY <1>1
<1>4. \A no : Sound(p, no)
    BY <1>1, <1>3 DEF Sound, Carries
<1>. HIDE DEF p
<1>. QED BY <1>2, <1>4, EmptyPlan

LEMMA TransitionIsPlan ==
    ASSUME NEW copy \in Issue, copy.no # 0, NEW to \in Statuses
    PROVE  Sound(Transition(copy, to), copy.no)
<1>. DEFINE e == [type |-> IF copy.status \in Settled /\ to = "in_progress" THEN "reopened"
                           ELSE "status",
                  from |-> copy.status, to |-> to]
<1>1. e \in Entry
    BY IssueFields DEF Entry
<1>2. Transition(copy, to) = IF to \notin Transitions[copy.status] THEN <<>>
                             ELSE << Save(Moved(copy, to)), Record(e) >> \o Publishes(Moved(copy, to))
    BY DEF Transition
<1>. HIDE DEF e
<1>3. Sound(<< Save(Moved(copy, to)), Record(e) >>, copy.no)
    BY <1>1, MovedIsIssue, SaveAndRecord
<1>4. Sound(Publishes(Moved(copy, to)), copy.no)
    BY PublishesIsPlan
<1>. QED BY <1>2, <1>3, <1>4, EmptyPlan, PlansConcatenate

LEMMA OnAcceptIsPlan ==
    ASSUME NEW copy \in Issue, copy.no # 0, NEW a \in Agents \cup {NoAgent}
    PROVE  Sound(OnAccept(copy, a), copy.no)
<1>. DEFINE mine == [copy EXCEPT !.assignee = a]
            p == << Save(mine), Record(Note("assigned")) >>
            q == << Record(Note("tier")) >>
            first == << Save(mine), Record(Note("assigned")), Record(Note("tier")) >>
            second == IF copy.status = "received" THEN Transition(mine, "in_progress") ELSE <<>>
            head == IF copy.assignee = a THEN <<>> ELSE first
<1>1. mine \in Issue /\ mine.no = copy.no
    BY DEF Issue
<1>. HIDE DEF mine
<1>2. Sound(p, copy.no) /\ Sound(q, copy.no)
    BY <1>1, SaveAndRecord, RecordAlone, NotesAreEntries
<1>3. first = p \o q
    OBVIOUS
<1>. HIDE DEF p, q, first
<1>4. Sound(head, copy.no)
    BY <1>2, <1>3, PlansConcatenate, EmptyPlan
<1>5. Sound(second, copy.no)
    BY <1>1, TransitionIsPlan, EmptyPlan DEF Statuses
<1>6. OnAccept(copy, a) = head \o second
    BY DEF OnAccept, mine, first
<1>. HIDE DEF head, second
<1>. QED BY <1>4, <1>5, <1>6, PlansConcatenate

LEMMA OnEndIsPlan ==
    ASSUME NEW copy \in Issue, copy.no # 0, NEW left \in BOOLEAN, NEW answered \in BOOLEAN
    PROVE  Sound(OnEnd(copy, left, answered), copy.no)
<1>. DEFINE bots == [copy EXCEPT !.tier = "bot"]
            p == Transition(bots, "resolved")
            q == Transition(Moved(bots, "resolved"), "closed")
<1>0. bots \in Issue /\ bots.no = copy.no
    BY DEF Issue
<1>. HIDE DEF bots
<1>1. Sound(p, copy.no) /\ Sound(q, copy.no) /\ Sound(Transition(copy, "closed"), copy.no)
    BY <1>0, MovedIsIssue, TransitionIsPlan DEF Statuses
<1>2. OnEnd(copy, left, answered) \in {Transition(copy, "closed"), p \o q, <<>>}
    BY DEF OnEnd, bots
<1>. HIDE DEF p, q
<1>3. Sound(p \o q, copy.no) /\ Sound(<<>>, copy.no)
    BY <1>1, PlansConcatenate, EmptyPlan
<1>. QED BY <1>1, <1>2, <1>3

LEMMA OnAssignIsPlan ==
    ASSUME NEW copy \in Issue, copy.no # 0, NEW a \in Agents
    PROVE  Sound(OnAssign(copy, a), copy.no) /\ OnAssign(copy, a) # <<>>
<1>. DEFINE mine == [copy EXCEPT !.assignee = a,
                                 !.status = IF @ = "received" THEN "in_progress" ELSE @]
            t == [do |-> "point", agent |-> a]
            p == << t >>
            q == << Save(mine), Record(Note("assigned")) >>
<1>1. mine \in Issue /\ mine.no = copy.no
    BY DEF Issue, Statuses
<1>2. OnAssign(copy, a) = p \o q /\ OnAssign(copy, a) # <<>>
    BY DEF OnAssign
<1>. HIDE DEF mine
<1>3. Sound(q, copy.no)
    BY <1>1, SaveAndRecord, NotesAreEntries
<1>4. t \in Step /\ t.do = "point"
    BY StepKinds
<1>. HIDE DEF t, q
<1>5. p \in Seq(Step) /\ DOMAIN p = {1} /\ p[1] = t
    BY <1>4
<1>6. Sound(p, copy.no)
    BY <1>4, <1>5 DEF Sound, Carries
<1>. HIDE DEF p
<1>. QED BY <1>2, <1>3, <1>6, PlansConcatenate

(***************************************************************************)
(* Calls.                                                                   *)
(***************************************************************************)
LEMMA JobIsJob ==
    ASSUME DeskTyped, NEW j \in Callers
    PROVE  /\ jobs[j] \in Job /\ jobs[j].conv \in Convs /\ jobs[j].no \in Nat
           /\ jobs[j].plan \in Seq(Step) /\ jobs[j].again \in BOOLEAN /\ jobs[j].fresh \in BOOLEAN
           /\ jobs[j].pc \in {"read", "number", "insert", "steps", "done"}
           /\ jobs[j].pc = "steps" => jobs[j].plan # <<>>
           /\ Carries(jobs[j].plan, issues[jobs[j].conv].no)
<1>1. jobs[j] \in Job
    BY DEF DeskTyped, DeskTypeOK
<1>. QED BY <1>1 DEF Job, DeskTyped, Working

\* A step of one call that leaves the issues alone.
LEMMA JobMoves ==
    ASSUME DeskTyped, NEW j \in Callers, NEW r \in Job, jobs' = [jobs EXCEPT ![j] = r],
           r.pc = "steps" => r.plan # <<>>, Carries(r.plan, issues[r.conv].no),
           UNCHANGED issues, timeline' \in [Convs -> Seq(Entry)],
           stale' \subseteq Convs, cut' \subseteq Convs, opened' \subseteq Tasks
    PROVE  DeskTyped'
<1>1. jobs' \in [Callers -> Job]
    BY DEF DeskTyped, DeskTypeOK
<1>2. Working'
    <2>. SUFFICES ASSUME NEW k \in Callers
                  PROVE  /\ jobs'[k].pc = "steps" => jobs'[k].plan # <<>>
                         /\ Carries(jobs'[k].plan, issues[jobs'[k].conv].no)
        BY DEF Working
    <2>1. jobs'[k] = IF k = j THEN r ELSE jobs[k]
        BY DEF DeskTyped, DeskTypeOK
    <2>. QED BY <2>1 DEF DeskTyped, Working
<1>3. Greatest(Numbers')
    BY DEF DeskTyped, Numbers
<1>. QED BY <1>1, <1>2, <1>3 DEF DeskTyped, DeskTypeOK

LEMMA BegunIsJob ==
    ASSUME NEW c \in Convs, NEW pc \in {"number", "steps", "done"}, NEW plan \in Seq(Step)
    PROVE  /\ Begun(c, pc, plan) \in Job /\ Begun(c, pc, plan).pc = pc
           /\ Begun(c, pc, plan).conv = c /\ Begun(c, pc, plan).plan = plan
<1>1. NotCalled \in Job
    BY NotCalledIsJob
<1>. QED BY <1>1 DEF Begun, Job

\* A call that begins with a sound plan, or with an insertion.
LEMMA JobBegins ==
    ASSUME DeskTyped, NEW j \in Callers, NEW c \in Convs, NEW plan, Sound(plan, issues[c].no),
           jobs' = [jobs EXCEPT ![j] = Planned(c, plan)] \/ jobs' = [jobs EXCEPT ![j] = Begun(c, "number", <<>>)],
           UNCHANGED <<issues, timeline, stale, cut>>, opened' \subseteq Tasks
    PROVE  DeskTyped'
<1>1. \A r \in Job : /\ jobs' = [jobs EXCEPT ![j] = r] /\ (r.pc = "steps" => r.plan # <<>>)
                      /\ Carries(r.plan, issues[r.conv].no)
                      => DeskTyped'
    BY JobMoves DEF DeskTyped, DeskTypeOK
<1>2. CASE jobs' = [jobs EXCEPT ![j] = Planned(c, plan)]
    <2>. DEFINE pc == IF plan = <<>> THEN "done" ELSE "steps"
    <2>1. plan \in Seq(Step) /\ pc \in {"number", "steps", "done"} /\ Carries(plan, issues[c].no)
        BY DEF Sound
    <2>2. Planned(c, plan) = Begun(c, pc, plan) /\ (pc = "steps" => plan # <<>>)
        BY DEF Planned
    <2>. HIDE DEF pc
    <2>. DEFINE r == Begun(c, pc, plan)
    <2>3. r \in Job /\ r.pc = pc /\ r.conv = c /\ r.plan = plan
        BY <2>1, BegunIsJob
    <2>4. jobs' = [jobs EXCEPT ![j] = r]
        BY <1>2, <2>2
    <2>. HIDE DEF r
    <2>. QED BY <1>1, <2>1, <2>2, <2>3, <2>4
<1>3. CASE jobs' = [jobs EXCEPT ![j] = Begun(c, "number", <<>>)]
    <2>1. Sound(<<>>, issues[c].no)
        BY EmptyPlan
    <2>. DEFINE none == <<>>
                r == Begun(c, "number", none)
    <2>2. none \in Seq(Step) /\ Carries(none, issues[c].no)
        BY <2>1 DEF Sound
    <2>4. jobs' = [jobs EXCEPT ![j] = r]
        BY <1>3
    <2>. HIDE DEF none
    <2>3. r \in Job /\ r.pc = "number" /\ r.conv = c /\ r.plan = none
        BY <2>2, BegunIsJob
    <2>. HIDE DEF r
    <2>. QED BY <1>1, <2>2, <2>3, <2>4
<1>. QED BY <1>2, <1>3

LEMMA EventIsEvent ==
    ASSUME BusTypeOK, NEW i \in DOMAIN events
    PROVE  /\ i \in Tasks /\ events[i] \in Event /\ events[i].conv \in Convs
           /\ events[i].agent \in Agents \cup {NoAgent}
           /\ events[i].kind \in {"escalated", "accepted", "ended", "left"}
<1>1. events \in Seq(Event) /\ Len(events) <= MaxEvents /\ MaxEvents \in Nat
    BY BusAssumption DEF BusTypeOK
<1>2. events[i] \in Event /\ i \in 1..Len(events) /\ Len(events) \in Nat
    BY <1>1
<1>3. i \in Tasks
    BY <1>1, <1>2 DEF Tasks
<1>. QED BY <1>2, <1>3 DEF Event

LEMMA SawIsTasks ==
    ASSUME BusTypeOK, DeskTyped, NEW c \in Convs, NEW status
    PROVE  Saw(c, status) \subseteq Tasks
<1>1. opened \subseteq Tasks /\ \A i \in DOMAIN events : i \in Tasks
    BY EventIsEvent DEF DeskTyped, DeskTypeOK
<1>. QED BY <1>1 DEF Saw

LEMMA HasIssue ==
    ASSUME DeskTyped, NEW c \in Convs
    PROVE  issues[c] \in Issue /\ (Has(c) => issues[c].no # 0)
BY DEF DeskTyped, DeskTypeOK, Has

LEMMA PlanIsPlan ==
    ASSUME NEW event \in Event, NEW copy \in Issue, copy.no # 0, NEW answered \in BOOLEAN
    PROVE  Sound(Plan(event, copy, answered), copy.no)
<1>1. event.kind \in {"escalated", "accepted", "ended", "left"}
      /\ event.agent \in Agents \cup {NoAgent}
    BY DEF Event
<1>2. Sound(OnEscalation(copy), copy.no)
    BY TransitionIsPlan, EmptyPlan DEF OnEscalation, Statuses
<1>3. Sound(OnAccept(copy, event.agent), copy.no)
    BY <1>1, OnAcceptIsPlan
<1>4. Sound(OnEnd(copy, FALSE, answered), copy.no) /\ Sound(OnEnd(copy, TRUE, answered), copy.no)
    BY OnEndIsPlan
<1>5. Plan(event, copy, answered)
        \in {OnEscalation(copy), OnAccept(copy, event.agent), OnEnd(copy, FALSE, answered),
             OnEnd(copy, TRUE, answered)}
    BY <1>1 DEF Plan
<1>. QED BY <1>2, <1>3, <1>4, <1>5

LEMMA ReadIssueTypes ==
    ASSUME BusTypeOK, DeskTyped, NEW i \in Tasks, ReadIssue(i)
    PROVE  DeskTyped'
<1>. DEFINE c == events[i].conv
<1>1. i \in DOMAIN events /\ i \in Callers
    BY DEF ReadIssue, Callers
<1>2. c \in Convs /\ events[i] \in Event
    BY <1>1, EventIsEvent
<1>3. opened' \subseteq Tasks
    BY <1>2, SawIsTasks DEF ReadIssue, DeskTyped, DeskTypeOK
<1>4. PICK answered \in BOOLEAN :
          jobs' = [jobs EXCEPT ![i] =
                   IF Has(c) THEN Planned(c, Plan(events[i], issues[c], answered))
                   ELSE IF events[i].kind = "escalated" THEN Begun(c, "number", <<>>)
                   ELSE Planned(c, <<>>)]
    BY DEF ReadIssue
<1>5. UNCHANGED <<issues, timeline, stale, cut>>
    BY DEF ReadIssue
<1>6. CASE Has(c)
    <2>1. Sound(Plan(events[i], issues[c], answered), issues[c].no)
        BY <1>2, <1>6, HasIssue, PlanIsPlan
    <2>2. jobs' = [jobs EXCEPT ![i] = Planned(c, Plan(events[i], issues[c], answered))]
        BY <1>4, <1>6
    <2>. QED BY <1>1, <1>2, <1>3, <1>5, <2>1, <2>2, JobBegins
<1>7. CASE ~Has(c)
    <2>1. Sound(<<>>, issues[c].no)
        BY EmptyPlan
    <2>2. jobs' = [jobs EXCEPT ![i] = Planned(c, <<>>)]
          \/ jobs' = [jobs EXCEPT ![i] = Begun(c, "number", <<>>)]
        BY <1>4, <1>7
    <2>. QED BY <1>1, <1>2, <1>3, <1>5, <2>1, <2>2, JobBegins
<1>. QED BY <1>6, <1>7

LEMMA AskTransitionTypes ==
    ASSUME BusTypeOK, DeskTyped, NEW a \in Agents, NEW c \in Convs, NEW to \in Statuses,
           AskTransition(a, c, to)
    PROVE  DeskTyped'
<1>1. Sound(Transition(issues[c], to), issues[c].no)
    BY HasIssue, TransitionIsPlan DEF AskTransition
<1>. QED BY <1>1, JobBegins DEF AskTransition, Callers, DeskTyped, DeskTypeOK

LEMMA AskAssignTypes ==
    ASSUME BusTypeOK, DeskTyped, NEW a \in Agents, NEW c \in Convs, NEW target \in Agents,
           AskAssign(a, c, target)
    PROVE  DeskTyped'
<1>1. Sound(OnAssign(issues[c], target), issues[c].no)
    BY HasIssue, OnAssignIsPlan DEF AskAssign
<1>. QED BY <1>1, JobBegins DEF AskAssign, Callers, DeskTyped, DeskTypeOK

LEMMA AskPriorityTypes ==
    ASSUME BusTypeOK, DeskTyped, NEW a \in Agents, NEW c \in Convs, AskPriority(a, c)
    PROVE  DeskTyped'
<1>1. Sound(<< Save(issues[c]), Record(Note("memo")) >>, issues[c].no)
    BY HasIssue, SaveAndRecord, NotesAreEntries DEF AskPriority
<1>. QED BY <1>1, JobBegins DEF AskPriority, Callers, DeskTyped, DeskTypeOK

LEMMA AskFileTypes ==
    ASSUME BusTypeOK, DeskTyped, NEW a \in Agents, NEW c \in Convs, AskFile(a, c)
    PROVE  DeskTyped'
<1>1. Sound(<< Record(Note("memo")) >>, issues[c].no)
    BY RecordAlone, NotesAreEntries
<1>. QED BY <1>1, JobBegins DEF AskFile, Callers, DeskTyped, DeskTypeOK

\* A call that goes on without touching its plan.
LEMMA JobProceeds ==
    ASSUME DeskTyped, NEW j \in Callers, jobs[j].pc # "steps",
           NEW pc \in {"number", "insert", "done"}, NEW no \in Nat, NEW again \in BOOLEAN,
           jobs' = [jobs EXCEPT ![j].pc = pc, ![j].no = no, ![j].again = again],
           UNCHANGED <<issues, timeline, stale, opened>>, cut' \subseteq Convs
    PROVE  DeskTyped'
<1>. DEFINE r == [jobs[j] EXCEPT !.pc = pc, !.no = no, !.again = again]
<1>1. /\ r \in Job /\ r.pc # "steps" /\ r.plan = jobs[j].plan /\ r.conv = jobs[j].conv
      /\ jobs' = [jobs EXCEPT ![j] = r]
    BY JobIsJob DEF Job, DeskTyped, DeskTypeOK
<1>2. Carries(r.plan, issues[r.conv].no)
    BY <1>1, JobIsJob
<1>. HIDE DEF r
<1>. QED BY <1>1, <1>2, JobMoves DEF DeskTyped, DeskTypeOK

LEMMA TakeNumberTypes ==
    ASSUME BusTypeOK, DeskTyped, NEW j \in Callers, TakeNumber(j)
    PROVE  DeskTyped'
<1>. DEFINE n == CHOOSE m \in Numbers : \A k \in Numbers : k <= m
<1>1. n \in Numbers
    BY DEF DeskTyped, Greatest
<1>2. \A m \in Numbers : m \in Nat
    BY HasIssue, IssueFields DEF Numbers
<1>3. 1 + n \in Nat
    BY <1>1, <1>2
<1>4. jobs' = [jobs EXCEPT ![j].pc = "insert", ![j].no = 1 + n]
    BY DEF TakeNumber
<1>. HIDE DEF n
<1>5. jobs' = [jobs EXCEPT ![j].pc = "insert", ![j].no = 1 + n, ![j].again = jobs[j].again]
    BY <1>4, JobIsJob DEF DeskTyped, DeskTypeOK, Job
<1>6. jobs[j].pc # "steps" /\ jobs[j].again \in BOOLEAN /\ cut' \subseteq Convs
      /\ UNCHANGED <<issues, timeline, stale, opened>>
    BY JobIsJob DEF TakeNumber, DeskTyped, DeskTypeOK
<1>. QED BY <1>3, <1>5, <1>6, JobProceeds

LEMMA NumberTakenTypes ==
    ASSUME BusTypeOK, DeskTyped, NEW j \in Callers, NumberTaken(j)
    PROVE  DeskTyped'
<1>. DEFINE pc == IF jobs[j].again THEN "done" ELSE "number"
<1>1. jobs' = [jobs EXCEPT ![j].pc = pc, ![j].again = TRUE]
    BY DEF NumberTaken
<1>2. pc \in {"number", "insert", "done"}
    OBVIOUS
<1>. HIDE DEF pc
<1>3. jobs' = [jobs EXCEPT ![j].pc = pc, ![j].no = jobs[j].no, ![j].again = TRUE]
    BY <1>1, JobIsJob DEF DeskTyped, DeskTypeOK, Job
<1>4. jobs[j].pc # "steps" /\ jobs[j].no \in Nat /\ cut' \subseteq Convs
      /\ UNCHANGED <<issues, timeline, stale, opened>>
    BY JobIsJob DEF NumberTaken, DeskTyped, DeskTypeOK
<1>. QED BY <1>2, <1>3, <1>4, JobProceeds

LEMMA CreatedPlan ==
    ASSUME NEW j \in Callers, DeskTyped
    PROVE  LET r == [jobs[j] EXCEPT !.pc = "steps", !.plan = << Record(Created) >>]
           IN  /\ r \in Job /\ r.pc = "steps" /\ r.plan # <<>> /\ r.conv = jobs[j].conv
               /\ \A no : Carries(r.plan, no)
<1>. DEFINE p == << Record(Created) >>
            r == [jobs[j] EXCEPT !.pc = "steps", !.plan = p]
<1>1. p \in Seq(Step) /\ p # <<>> /\ \A no : Carries(p, no)
    BY RecordAlone, NotesAreEntries DEF Sound
<1>. HIDE DEF p
<1>2. r \in Job /\ r.pc = "steps" /\ r.plan = p /\ r.conv = jobs[j].conv
    BY <1>1, JobIsJob DEF Job
<1>. QED BY <1>1, <1>2 DEF p

LEMMA FindIssueTypes ==
    ASSUME BusTypeOK, DeskTyped, NEW j \in Callers, FindIssue(j)
    PROVE  DeskTyped'
<1>. DEFINE r == [jobs[j] EXCEPT !.pc = "steps", !.plan = << Record(Created) >>]
<1>1. r \in Job /\ r.plan # <<>> /\ Carries(r.plan, issues[r.conv].no)
    BY CreatedPlan
<1>2. jobs' = [jobs EXCEPT ![j] = r] /\ cut' \subseteq Convs
    BY JobIsJob DEF FindIssue, DeskTyped, DeskTypeOK
<1>. HIDE DEF r
<1>. QED BY <1>1, <1>2, JobMoves DEF FindIssue, DeskTyped, DeskTypeOK

\* The numbers of the issues, one issue given another number.
LEMMA InsertIssueTypes ==
    ASSUME BusTypeOK, DeskTyped, NEW j \in Callers, InsertIssue(j)
    PROVE  DeskTyped'
<1>. DEFINE c == jobs[j].conv
            no == jobs[j].no
            new == [NoIssue EXCEPT !.no = no]
            r == [jobs[j] EXCEPT !.pc = "steps", !.plan = << Record(Created) >>]
<1>1. c \in Convs /\ no \in Nat /\ no \notin Numbers /\ issues[c].no = 0
    BY JobIsJob DEF InsertIssue, Has
<1>2. new \in Issue /\ new.no = no
    BY <1>1, NoIssueIsIssue DEF Issue
<1>3. issues' = [issues EXCEPT ![c] = new] /\ issues \in [Convs -> Issue]
    BY DEF InsertIssue, DeskTyped, DeskTypeOK
<1>4. r \in Job /\ r.plan # <<>> /\ r.conv = c /\ \A n : Carries(r.plan, n)
    BY CreatedPlan
<1>5. jobs' = [jobs EXCEPT ![j] = r] /\ jobs \in [Callers -> Job]
    BY DEF InsertIssue, DeskTyped, DeskTypeOK
<1>. HIDE DEF r, new
<1>6. issues' \in [Convs -> Issue] /\ jobs' \in [Callers -> Job]
    BY <1>2, <1>3, <1>4, <1>5
<1>7. Working'
    <2>. SUFFICES ASSUME NEW k \in Callers
                  PROVE  /\ jobs'[k].pc = "steps" => jobs'[k].plan # <<>>
                         /\ Carries(jobs'[k].plan, issues'[jobs'[k].conv].no)
        BY DEF Working
    <2>1. CASE k = j
        BY <1>4, <1>5, <2>1
    <2>2. CASE k # j
        <3>1. jobs'[k] = jobs[k]
            BY <1>5, <2>2
        <3>2. CASE jobs[k].conv = c
            <4>1. \A n \in DOMAIN jobs[k].plan : jobs[k].plan[n].do # "save"
                BY <1>1, <3>2, JobIsJob DEF Carries
            <4>. QED BY <3>1, <4>1, JobIsJob DEF Carries
        <3>3. CASE jobs[k].conv # c
            <4>1. issues'[jobs[k].conv] = issues[jobs[k].conv]
                BY <1>3, <3>3, JobIsJob
            <4>. QED BY <3>1, <4>1, JobIsJob
        <3>. QED BY <3>2, <3>3
    <2>. QED BY <2>1, <2>2
<1>8. Greatest(Numbers')
    <2>1. PICK d \in Convs : \A e \in Convs : issues[e].no <= issues[d].no
        BY DEF DeskTyped, Greatest, Numbers
    <2>2. \A e \in Convs : issues[e].no \in Nat
        BY HasIssue, IssueFields
    <2>3. \A e \in Convs : issues'[e].no = IF e = c THEN no ELSE issues[e].no
        BY <1>1, <1>2, <1>3
    <2>4. CASE issues[d].no <= no
        <3>1. \A e \in Convs : issues'[e].no <= issues'[c].no
            BY <1>1, <2>1, <2>2, <2>3, <2>4
        <3>. QED BY <1>1, <3>1 DEF Greatest, Numbers
    <2>5. CASE no < issues[d].no
        <3>0. d # c
            BY <1>1, <2>5
        <3>1. \A e \in Convs : issues'[e].no <= issues'[d].no
            BY <1>1, <2>1, <2>2, <2>3, <2>5, <3>0
        <3>. QED BY <3>1 DEF Greatest, Numbers
    <2>. QED BY <1>1, <2>2, <2>4, <2>5
<1>9. opened' \subseteq Tasks
    BY <1>1, SawIsTasks DEF InsertIssue
<1>. QED BY <1>6, <1>7, <1>8, <1>9 DEF InsertIssue, DeskTyped, DeskTypeOK

(***************************************************************************)
(* The steps of a plan.                                                     *)
(***************************************************************************)
\* The first step of a plan, and what is left after it.
LEMMA Shifted ==
    ASSUME DeskTyped, NEW j \in Callers, jobs[j].pc = "steps"
    PROVE  LET rest == Tail(jobs[j].plan)
               r == [jobs[j] EXCEPT !.plan = rest, !.pc = IF rest = <<>> THEN "done" ELSE "steps"]
           IN  /\ Head(jobs[j].plan) \in Step
               /\ Head(jobs[j].plan).do = "save"
                     => /\ Head(jobs[j].plan).copy.no = issues[jobs[j].conv].no
                        /\ issues[jobs[j].conv].no # 0
               /\ Shift(j) = [jobs EXCEPT ![j] = r]
               /\ r \in Job /\ (r.pc = "steps" => r.plan # <<>>) /\ r.conv = jobs[j].conv
               /\ Carries(r.plan, issues[r.conv].no)
<1>. DEFINE plan == jobs[j].plan
            rest == Tail(plan)
            pc == IF rest = <<>> THEN "done" ELSE "steps"
            r == [jobs[j] EXCEPT !.plan = rest, !.pc = pc]
<1>1. plan \in Seq(Step) /\ plan # <<>> /\ Carries(plan, issues[jobs[j].conv].no)
    BY JobIsJob
<1>2. rest \in Seq(Step) /\ Head(plan) \in Step /\ Head(plan) = plan[1] /\ 1 \in DOMAIN plan
    BY <1>1
<1>3. Len(rest) = Len(plan) - 1 /\ Len(plan) \in Nat
      /\ \A k \in 1..Len(rest) : rest[k] = plan[k + 1] /\ k + 1 \in DOMAIN plan
    BY <1>1
<1>4. Carries(rest, issues[jobs[j].conv].no)
    BY <1>1, <1>2, <1>3 DEF Carries
<1>5. Shift(j) = [jobs EXCEPT ![j] = r]
    BY DEF Shift
<1>6. pc \in {"done", "steps"} /\ (pc = "steps" => rest # <<>>)
    OBVIOUS
<1>. HIDE DEF plan, rest, pc
<1>7. r \in Job /\ r.plan = rest /\ r.pc = pc /\ r.conv = jobs[j].conv
    BY <1>2, <1>6, JobIsJob DEF Job
<1>. QED BY <1>1, <1>2, <1>4, <1>5, <1>6, <1>7 DEF Carries, plan, rest, pc

LEMMA RecordEntryTypes ==
    ASSUME BusTypeOK, DeskTyped, NEW j \in Callers, RecordEntry(j)
    PROVE  DeskTyped'
<1>1. jobs[j].pc = "steps" /\ Head(jobs[j].plan).do = "record" /\ jobs' = Shift(j)
    BY DEF RecordEntry, Turn
<1>2. PICK r \in Job : /\ Shift(j) = [jobs EXCEPT ![j] = r] /\ (r.pc = "steps" => r.plan # <<>>)
                       /\ Carries(r.plan, issues[r.conv].no)
    BY <1>1, Shifted, ZenonT(60)
<1>3. Head(jobs[j].plan).entry \in Entry
    BY <1>1, Shifted DEF Step
<1>4. timeline' \in [Convs -> Seq(Entry)]
    <2>1. timeline[jobs[j].conv] \in Seq(Entry) /\ timeline \in [Convs -> Seq(Entry)]
        BY JobIsJob DEF DeskTyped, DeskTypeOK
    <2>2. Append(timeline[jobs[j].conv], Head(jobs[j].plan).entry) \in Seq(Entry)
        BY <1>3, <2>1
    <2>. QED BY <2>1, <2>2 DEF RecordEntry
<1>. QED BY <1>1, <1>2, <1>4, JobMoves DEF RecordEntry, DeskTyped, DeskTypeOK

LEMMA PointAgentTypes ==
    ASSUME BusTypeOK, DeskTyped, NEW j \in Callers, PointAgent(j)
    PROVE  DeskTyped' /\ Head(jobs[j].plan).agent \in Agents /\ jobs[j].conv \in Convs
<1>1. jobs[j].pc = "steps" /\ Head(jobs[j].plan).do = "point" /\ jobs' = Shift(j)
    BY DEF PointAgent, Turn
<1>2. PICK r \in Job : /\ Shift(j) = [jobs EXCEPT ![j] = r] /\ (r.pc = "steps" => r.plan # <<>>)
                       /\ Carries(r.plan, issues[r.conv].no)
    BY <1>1, Shifted, ZenonT(60)
<1>3. Head(jobs[j].plan).agent \in Agents
    BY <1>1, Shifted DEF Step
<1>4. DeskTyped'
    BY <1>1, <1>2, JobMoves DEF PointAgent, DeskTyped, DeskTypeOK
<1>. QED BY <1>3, <1>4, JobIsJob

LEMMA PublishResolvedTypes ==
    ASSUME BusTypeOK, DeskTyped, NEW j \in Callers, PublishResolved(j)
    PROVE  DeskTyped'
<1>1. jobs[j].pc = "steps" /\ jobs' = Shift(j)
    BY DEF PublishResolved, Turn
<1>2. PICK r \in Job : /\ Shift(j) = [jobs EXCEPT ![j] = r] /\ (r.pc = "steps" => r.plan # <<>>)
                       /\ Carries(r.plan, issues[r.conv].no)
    BY <1>1, Shifted, ZenonT(60)
<1>. QED BY <1>1, <1>2, JobMoves DEF PublishResolved, DeskTyped, DeskTypeOK

LEMMA SaveCopyTypes ==
    ASSUME BusTypeOK, DeskTyped, NEW j \in Callers, SaveCopy(j)
    PROVE  DeskTyped'
<1>. DEFINE c == jobs[j].conv
            copy == Head(jobs[j].plan).copy
<1>1. jobs[j].pc = "steps" /\ Head(jobs[j].plan).do = "save"
    BY DEF SaveCopy, Turn
<1>2. PICK r \in Job : /\ Shift(j) = [jobs EXCEPT ![j] = r] /\ (r.pc = "steps" => r.plan # <<>>)
                       /\ Carries(r.plan, issues[r.conv].no)
    BY <1>1, Shifted, ZenonT(60)
<1>3. copy \in Issue /\ copy.no = issues[c].no /\ c \in Convs
    BY <1>1, Shifted, JobIsJob DEF Step
<1>4. issues \in [Convs -> Issue] /\ issues' = [issues EXCEPT ![c] = copy]
    BY DEF SaveCopy, DeskTyped, DeskTypeOK
<1>. HIDE DEF copy, c
<1>5. issues' \in [Convs -> Issue] /\ \A d \in Convs : issues'[d].no = issues[d].no
    BY <1>3, <1>4
<1>6. Numbers' = Numbers
    BY <1>5 DEF Numbers
<1>7. ASSUME NEW k \in Callers
      PROVE  /\ jobs'[k] \in Job
             /\ jobs'[k].pc = "steps" => jobs'[k].plan # <<>>
             /\ Carries(jobs'[k].plan, issues[jobs'[k].conv].no)
    <2>. DEFINE o == [jobs[k] EXCEPT !.fresh = FALSE]
    <2>1. o \in Job /\ o.pc = jobs[k].pc /\ o.plan = jobs[k].plan /\ o.conv = jobs[k].conv
        BY JobIsJob DEF Job
    <2>2. jobs'[k] \in {o, Shift(j)[k]}
        BY DEF SaveCopy
    <2>3. Shift(j)[k] = IF k = j THEN r ELSE jobs[k]
        BY <1>2 DEF DeskTyped, DeskTypeOK
    <2>. HIDE DEF o
    <2>. QED BY <1>2, <2>1, <2>2, <2>3, JobIsJob
<1>8. jobs' \in [Callers -> Job]
    <2>. DEFINE e(k) == IF k # j /\ jobs[k].conv = jobs[j].conv /\ jobs[k].pc = "steps"
                        THEN [jobs[k] EXCEPT !.fresh = FALSE] ELSE Shift(j)[k]
    <2>1. jobs' = [k \in Callers |-> e(k)]
        BY DEF SaveCopy
    <2>2. \A k \in Callers : e(k) \in Job
        BY <1>7, <2>1
    <2>. HIDE DEF e
    <2>. QED BY <2>1, <2>2
<1>9. Working'
    <2>. SUFFICES ASSUME NEW k \in Callers
                  PROVE  /\ jobs'[k].pc = "steps" => jobs'[k].plan # <<>>
                         /\ Carries(jobs'[k].plan, issues'[jobs'[k].conv].no)
        BY DEF Working
    <2>1. jobs'[k].conv \in Convs
        BY <1>8 DEF Job
    <2>2. issues'[jobs'[k].conv].no = issues[jobs'[k].conv].no
        BY <1>5, <2>1
    <2>3. jobs'[k].pc = "steps" => jobs'[k].plan # <<>>
        BY <1>7
    <2>4. Carries(jobs'[k].plan, issues[jobs'[k].conv].no)
        BY <1>7
    <2>. QED BY <2>2, <2>3, <2>4
<1>10. stale' \subseteq Convs /\ opened' \subseteq Tasks
    BY <1>3, SawIsTasks DEF SaveCopy, DeskTyped, DeskTypeOK, c
<1>. QED BY <1>5, <1>6, <1>8, <1>9, <1>10 DEF SaveCopy, DeskTyped, DeskTypeOK

LEMMA ConvOfType ==
    ASSUME BusTypeOK, DeskTyped, NEW j \in Callers
    PROVE  ConvOf(j) \in Convs
BY EventIsEvent, JobIsJob DEF ConvOf

\* A call cut off.
LEMMA CutJob ==
    ASSUME DeskTyped, NEW j \in Callers
    PROVE  LET r == [jobs[j] EXCEPT !.pc = "done", !.plan = <<>>]
           IN  r \in Job /\ r.pc # "steps" /\ \A no : Carries(r.plan, no)
<1>. DEFINE r == [jobs[j] EXCEPT !.pc = "done", !.plan = <<>>]
<1>1. <<>> \in Seq(Step)
    OBVIOUS
<1>2. r \in Job /\ r.pc = "done" /\ r.plan = <<>>
    BY <1>1, JobIsJob DEF Job
<1>. QED BY <1>2 DEF Carries

LEMMA JobFailsTypes ==
    ASSUME BusTypeOK, DeskTyped, NEW j \in Callers, JobFails(j)
    PROVE  DeskTyped'
<1>. DEFINE r == [jobs[j] EXCEPT !.pc = "done", !.plan = <<>>]
<1>1. r \in Job /\ r.pc # "steps" /\ Carries(r.plan, issues[r.conv].no)
    BY CutJob
<1>2. jobs' = [jobs EXCEPT ![j] = r] /\ cut' \subseteq Convs
    BY ConvOfType DEF JobFails, DeskTyped, DeskTypeOK
<1>. HIDE DEF r
<1>. QED BY <1>1, <1>2, JobMoves DEF JobFails, DeskTyped, DeskTypeOK

LEMMA DeskRestartTypes ==
    ASSUME BusTypeOK, DeskTyped, DeskRestart
    PROVE  DeskTyped'
<1>1. ASSUME NEW j \in Callers
      PROVE  /\ jobs'[j] \in Job
             /\ jobs'[j].pc = "steps" => jobs'[j].plan # <<>>
             /\ Carries(jobs'[j].plan, issues[jobs'[j].conv].no)
    <2>. DEFINE r == [jobs[j] EXCEPT !.pc = "done", !.plan = <<>>]
    <2>1. jobs'[j] = r \/ jobs'[j] = jobs[j]
        BY DEF DeskRestart
    <2>2. r \in Job /\ r.pc # "steps" /\ Carries(r.plan, issues[r.conv].no)
        BY CutJob
    <2>. HIDE DEF r
    <2>. QED BY <2>1, <2>2, JobIsJob
<1>2. jobs' \in [Callers -> Job]
    <2>. DEFINE e(j) == IF Busy(j) THEN [jobs[j] EXCEPT !.pc = "done", !.plan = <<>>] ELSE jobs[j]
    <2>1. jobs' = [j \in Callers |-> e(j)]
        BY DEF DeskRestart
    <2>2. \A j \in Callers : e(j) \in Job
        BY <1>1, <2>1
    <2>. HIDE DEF e
    <2>. QED BY <2>1, <2>2
<1>3. Working'
    <2>1. issues' = issues
        BY DEF DeskRestart
    <2>. SUFFICES ASSUME NEW j \in Callers
                  PROVE  /\ jobs'[j].pc = "steps" => jobs'[j].plan # <<>>
                         /\ Carries(jobs'[j].plan, issues'[jobs'[j].conv].no)
        BY DEF Working
    <2>2. jobs'[j].pc = "steps" => jobs'[j].plan # <<>>
        BY <1>1
    <2>3. Carries(jobs'[j].plan, issues[jobs'[j].conv].no)
        BY <1>1
    <2>. QED BY <2>1, <2>2, <2>3
<1>4. cut' \subseteq Convs
    BY ConvOfType DEF DeskRestart, DeskTyped, DeskTypeOK
<1>5. Greatest(Numbers')
    BY DEF DeskRestart, DeskTyped, Numbers
<1>. QED BY <1>2, <1>3, <1>4, <1>5 DEF DeskRestart, DeskTyped, DeskTypeOK

\* Every step of the desk keeps its types.
LEMMA DeskNextTypes ==
    ASSUME BusTypeOK, DeskTyped, DeskNext
    PROVE  DeskTyped'
<1>1. ASSUME NEW i \in Tasks, ReadIssue(i) PROVE DeskTyped'
    BY <1>1, ReadIssueTypes
<1>2. ASSUME NEW j \in Callers, JobStep(j) PROVE DeskTyped'
    BY <1>2, TakeNumberTypes, InsertIssueTypes, FindIssueTypes, NumberTakenTypes, SaveCopyTypes,
       RecordEntryTypes, PointAgentTypes DEF JobStep
<1>3. ASSUME NEW j \in Callers, JobFails(j) PROVE DeskTyped'
    BY <1>3, JobFailsTypes
<1>4. ASSUME NEW a \in Agents, NEW c \in Convs,
             \/ \E to \in Statuses : AskTransition(a, c, to)
             \/ \E target \in Agents : AskAssign(a, c, target)
             \/ AskPriority(a, c) \/ AskFile(a, c)
      PROVE  DeskTyped'
    BY <1>4, AskTransitionTypes, AskAssignTypes, AskPriorityTypes, AskFileTypes
<1>. QED BY <1>1, <1>2, <1>3, <1>4 DEF DeskNext

(***************************************************************************)
(* The workflow.  While nobody has saved the issue since a call read it, the *)
(* saves of the call's plan take the issue from the status it has along     *)
(* transitions.                                                             *)
(***************************************************************************)
Follows(s, t) == t = s \/ t \in Transitions[s]

\* h tells the status after each step of the plan.
Tells(h, plan) ==
    \A k \in 1..Len(plan) :
        IF plan[k].do = "save" THEN h[k] = plan[k].copy.status /\ Follows(h[k - 1], h[k])
        ELSE h[k] = h[k - 1]
Takes(plan, from, to) ==
    \E h \in [0..Len(plan) -> Statuses] : h[0] = from /\ h[Len(plan)] = to /\ Tells(h, plan)
Lawful(plan, status) == \E to \in Statuses : Takes(plan, status, to)
LawfulJob(job, status) == job.pc = "steps" /\ job.fresh => Lawful(job.plan, status)
\* A conversation without an issue: the row it gets begins as received.
Unfiled == \A c \in Convs : issues[c].no = 0 => issues[c].status = "received"
LawfulInv == Unfiled /\ \A j \in Callers : LawfulJob(jobs[j], issues[jobs[j].conv].status)

LEMMA LawfulStarts == DeskInit => LawfulInv
BY DEF DeskInit, LawfulInv, LawfulJob, NotCalled, Unfiled, NoIssue

LEMMA EmptyTakes == \A s \in Statuses : Takes(<<>>, s, s)
<1>. SUFFICES ASSUME NEW s \in Statuses PROVE Takes(<<>>, s, s)
    OBVIOUS
<1>. DEFINE h == [k \in 0..0 |-> s]
<1>1. h \in [0..0 -> Statuses] /\ h[0] = s
    OBVIOUS
<1>2. Len(<<>>) = 0
    OBVIOUS
<1>. HIDE DEF h
<1>. QED BY <1>1, <1>2 DEF Takes, Tells

\* One step that is no save.
LEMMA OtherTakes ==
    ASSUME NEW step \in Step, step.do # "save", NEW s \in Statuses
    PROVE  Takes(<< step >>, s, s)
<1>. DEFINE p == << step >>
            h == [k \in 0..1 |-> s]
<1>1. h \in [0..1 -> Statuses] /\ h[0] = s /\ h[1] = s
    OBVIOUS
<1>2. Len(p) = 1 /\ p[1] = step
    OBVIOUS
<1>. HIDE DEF h, p
<1>3. Tells(h, p)
    BY <1>1, <1>2 DEF Tells
<1>. QED BY <1>1, <1>2, <1>3 DEF Takes, p

\* One save.
LEMMA SaveTakes ==
    ASSUME NEW copy \in Issue, NEW s \in Statuses, Follows(s, copy.status)
    PROVE  Takes(<< Save(copy) >>, s, copy.status)
<1>. DEFINE step == Save(copy)
            p == << step >>
            h == [k \in 0..1 |-> IF k = 0 THEN s ELSE copy.status]
<1>0. copy.status \in Statuses /\ step.do = "save" /\ step.copy = copy
    BY IssueFields DEF Save
<1>1. h \in [0..1 -> Statuses] /\ h[0] = s /\ h[1] = copy.status
    BY <1>0
<1>2. Len(p) = 1 /\ p[1] = step
    OBVIOUS
<1>. HIDE DEF h, p, step
<1>3. Tells(h, p)
    BY <1>0, <1>1, <1>2 DEF Tells
<1>. QED BY <1>1, <1>2, <1>3 DEF Takes, p, step

\* One plan after another.
LEMMA TakesJoin ==
    ASSUME NEW p \in Seq(Step), NEW q \in Seq(Step), NEW r, NEW s, NEW t,
           Takes(p, r, s), Takes(q, s, t)
    PROVE  Takes(p \o q, r, t)
<1>1. PICK g \in [0..Len(p) -> Statuses] : g[0] = r /\ g[Len(p)] = s /\ Tells(g, p)
    BY DEF Takes
<1>2. PICK h \in [0..Len(q) -> Statuses] : h[0] = s /\ h[Len(q)] = t /\ Tells(h, q)
    BY DEF Takes
<1>. DEFINE n == Len(p)
            m == Len(q)
            u == p \o q
            f == [k \in 0..(n + m) |-> IF k <= n THEN g[k] ELSE h[k - n]]
<1>3. n \in Nat /\ m \in Nat /\ u \in Seq(Step) /\ Len(u) = n + m
    OBVIOUS
<1>4. /\ \A k \in 1..n : u[k] = p[k]
      /\ \A k \in (n + 1)..(n + m) : u[k] = q[k - n]
    BY <1>3
<1>5. \A k \in 1..n : IF p[k].do = "save" THEN g[k] = p[k].copy.status /\ Follows(g[k - 1], g[k])
                       ELSE g[k] = g[k - 1]
    BY <1>1 DEF Tells
<1>6. \A k \in 1..m : IF q[k].do = "save" THEN h[k] = q[k].copy.status /\ Follows(h[k - 1], h[k])
                       ELSE h[k] = h[k - 1]
    BY <1>2 DEF Tells
<1>. HIDE DEF n, m, u
<1>7. f \in [0..(n + m) -> Statuses]
    <2>1. \A k \in 0..(n + m) : k <= n => g[k] \in Statuses
        BY <1>1, <1>3, SMTT(30) DEF n
    <2>2. \A k \in 0..(n + m) : ~(k <= n) => h[k - n] \in Statuses
        <3>1. \A k \in 0..(n + m) : ~(k <= n) => k - n \in 0..m
            BY <1>3
        <3>. QED BY <1>2, <3>1 DEF m
    <2>. QED BY <2>1, <2>2
<1>8. /\ \A k \in 0..n : f[k] = g[k]
      /\ \A k \in 0..m : f[n + k] = h[k]
    <2>1. \A k \in 0..n : f[k] = g[k]
        BY <1>3
    <2>2. ASSUME NEW k \in 0..m PROVE f[n + k] = h[k]
        <3>1. CASE k = 0
            BY <1>1, <1>2, <1>3, <3>1 DEF n
        <3>2. CASE k # 0
            <4>1. n + k \in 0..(n + m) /\ ~(n + k <= n) /\ (n + k) - n = k
                BY <1>3, <3>2
            <4>. QED BY <4>1
        <3>. QED BY <3>1, <3>2
    <2>. QED BY <2>1, <2>2
<1>9. f[0] = r /\ f[n + m] = t
    BY <1>1, <1>2, <1>3, <1>8 DEF n, m
<1>. HIDE DEF f
<1>10. Tells(f, u)
    <2>. SUFFICES ASSUME NEW k \in 1..(n + m)
                  PROVE  IF u[k].do = "save" THEN f[k] = u[k].copy.status /\ Follows(f[k - 1], f[k])
                         ELSE f[k] = f[k - 1]
        BY <1>3 DEF Tells
    <2>1. CASE k <= n
        <3>1. k \in 1..n /\ k - 1 \in 0..n /\ k \in 0..n
            BY <1>3, <2>1
        <3>2. u[k] = p[k] /\ f[k] = g[k] /\ f[k - 1] = g[k - 1]
            BY <1>4, <1>8, <3>1
        <3>. QED BY <1>5, <3>1, <3>2
    <2>2. CASE ~(k <= n)
        <3>1. k - n \in 1..m /\ k - n - 1 \in 0..m /\ k - n \in 0..m /\ k \in (n + 1)..(n + m)
              /\ n + (k - n) = k /\ n + (k - n - 1) = k - 1
            BY <1>3, <2>2
        <3>2. u[k] = q[k - n] /\ f[k] = h[k - n] /\ f[k - 1] = h[k - n - 1]
            BY <1>4, <1>8, <3>1
        <3>. QED BY <1>6, <3>1, <3>2
    <2>. QED BY <2>1, <2>2
<1>. QED BY <1>3, <1>7, <1>9, <1>10 DEF Takes, u

\* The rest of a plan takes the issue on from where its first step left it.
LEMMA TakesTail ==
    ASSUME NEW plan \in Seq(Step), plan # <<>>, NEW s, Lawful(plan, s)
    PROVE  /\ Head(plan).do = "save" => /\ Follows(s, Head(plan).copy.status)
                                        /\ Lawful(Tail(plan), Head(plan).copy.status)
           /\ Head(plan).do # "save" => Lawful(Tail(plan), s)
<1>1. PICK to \in Statuses, h \in [0..Len(plan) -> Statuses] :
          h[0] = s /\ h[Len(plan)] = to /\ Tells(h, plan)
    BY DEF Lawful, Takes
<1>. DEFINE rest == Tail(plan)
            n == Len(plan)
            f == [k \in 0..(n - 1) |-> h[k + 1]]
<1>2. n \in Nat \ {0} /\ Head(plan) = plan[1] /\ Len(rest) = n - 1
      /\ \A k \in 1..(n - 1) : rest[k] = plan[k + 1]
    OBVIOUS
<1>3. \A k \in 1..n : IF plan[k].do = "save"
                       THEN h[k] = plan[k].copy.status /\ Follows(h[k - 1], h[k])
                       ELSE h[k] = h[k - 1]
    BY <1>1 DEF Tells
<1>4. 1 \in 1..n /\ 1 - 1 = 0
    BY <1>2
<1>5. IF plan[1].do = "save" THEN h[1] = plan[1].copy.status /\ Follows(s, h[1]) ELSE h[1] = s
    BY <1>1, <1>3, <1>4
<1>. HIDE DEF n, rest
<1>6. f \in [0..(n - 1) -> Statuses]
    BY <1>1, <1>2 DEF n
<1>7. \A k \in 0..(n - 1) : f[k] = h[k + 1]
    OBVIOUS
<1>8. f[0] = h[1] /\ f[n - 1] = to
    BY <1>1, <1>2, <1>7 DEF n
<1>. HIDE DEF f
<1>9. Tells(f, rest)
    <2>. SUFFICES ASSUME NEW k \in 1..(n - 1)
                  PROVE  IF rest[k].do = "save"
                         THEN f[k] = rest[k].copy.status /\ Follows(f[k - 1], f[k])
                         ELSE f[k] = f[k - 1]
        BY <1>2 DEF Tells
    <2>1. k + 1 \in 1..n /\ (k + 1) - 1 = k /\ k \in 0..(n - 1) /\ k - 1 \in 0..(n - 1)
          /\ (k - 1) + 1 = k
        BY <1>2
    <2>2. rest[k] = plan[k + 1] /\ f[k] = h[k + 1] /\ f[k - 1] = h[k]
        BY <1>2, <1>7, <2>1
    <2>. QED BY <1>3, <2>1, <2>2
<1>10. Takes(rest, h[1], to)
    BY <1>2, <1>6, <1>8, <1>9 DEF Takes
<1>. QED BY <1>2, <1>5, <1>10 DEF Lawful, rest

(***************************************************************************)
(* Every plan is lawful for the copy it was made from.                      *)
(***************************************************************************)
LEMMA SaveAndRecordTakes ==
    ASSUME NEW copy \in Issue, NEW entry \in Entry, NEW s \in Statuses, Follows(s, copy.status)
    PROVE  Takes(<< Save(copy), Record(entry) >>, s, copy.status)
<1>. DEFINE save == Save(copy)
            record == Record(entry)
            p == << save, record >>
            h == [k \in 0..2 |-> IF k = 0 THEN s ELSE copy.status]
<1>0. copy.status \in Statuses /\ save.do = "save" /\ save.copy = copy /\ record.do # "save"
    BY IssueFields DEF Save, Record
<1>1. h \in [0..2 -> Statuses] /\ h[0] = s /\ h[1] = copy.status /\ h[2] = copy.status
    BY <1>0
<1>2. Len(p) = 2 /\ p[1] = save /\ p[2] = record
    OBVIOUS
<1>. HIDE DEF h, p, save, record
<1>3. Tells(h, p)
    BY <1>0, <1>1, <1>2 DEF Tells
<1>. QED BY <1>1, <1>2, <1>3 DEF Takes, p, save, record

LEMMA PublishesTakes ==
    ASSUME NEW copy, NEW s \in Statuses
    PROVE  Takes(Publishes(copy), s, s)
<1>. DEFINE q == [do |-> "publish"]
<1>1. q \in Step /\ q.do # "save"
    BY StepKinds
<1>2. Publishes(copy) = << q >> \/ Publishes(copy) = <<>>
    BY DEF Publishes
<1>. HIDE DEF q
<1>. QED BY <1>1, <1>2, OtherTakes, EmptyTakes

LEMMA TransitionTakes ==
    ASSUME NEW copy \in Issue, NEW to \in Statuses
    PROVE  Takes(Transition(copy, to), copy.status,
                 IF to \in Transitions[copy.status] THEN to ELSE copy.status)
<1>. DEFINE e == [type |-> IF copy.status \in Settled /\ to = "in_progress" THEN "reopened"
                           ELSE "status",
                  from |-> copy.status, to |-> to]
<1>1. e \in Entry
    BY IssueFields DEF Entry
<1>2. CASE to \in Transitions[copy.status]
    <2>1. Transition(copy, to) = << Save(Moved(copy, to)), Record(e) >> \o Publishes(Moved(copy, to))
        BY <1>2 DEF Transition
    <2>. HIDE DEF e
    <2>2. Moved(copy, to) \in Issue /\ Moved(copy, to).status = to
        BY MovedIsIssue
    <2>3. Follows(copy.status, Moved(copy, to).status)
        BY <1>2, <2>2 DEF Follows
    <2>4. Takes(<< Save(Moved(copy, to)), Record(e) >>, copy.status, Moved(copy, to).status)
        BY <1>1, <2>2, <2>3, IssueFields, SaveAndRecordTakes
    <2>5. << Save(Moved(copy, to)), Record(e) >> \in Seq(Step)
        BY <1>1, <2>2, StepKinds
    <2>6. Publishes(Moved(copy, to)) \in Seq(Step)
        BY PublishesIsPlan DEF Sound
    <2>7. Takes(Publishes(Moved(copy, to)), Moved(copy, to).status, Moved(copy, to).status)
        BY <2>2, IssueFields, PublishesTakes
    <2>. QED BY <1>2, <2>1, <2>2, <2>4, <2>5, <2>6, <2>7, TakesJoin
<1>3. CASE to \notin Transitions[copy.status]
    <2>1. Transition(copy, to) = <<>>
        BY <1>3 DEF Transition
    <2>. QED BY <1>3, <2>1, EmptyTakes, IssueFields
<1>. QED BY <1>2, <1>3

LEMMA TransitionLawful ==
    ASSUME NEW copy \in Issue, NEW to \in Statuses
    PROVE  Lawful(Transition(copy, to), copy.status)
BY TransitionTakes, IssueFields DEF Lawful

LEMMA OnAcceptLawful ==
    ASSUME NEW copy \in Issue, copy.no # 0, NEW a \in Agents \cup {NoAgent}
    PROVE  Lawful(OnAccept(copy, a), copy.status)
<1>. DEFINE mine == [copy EXCEPT !.assignee = a]
            p == << Save(mine), Record(Note("assigned")) >>
            q == << Record(Note("tier")) >>
            first == << Save(mine), Record(Note("assigned")), Record(Note("tier")) >>
            second == IF copy.status = "received" THEN Transition(mine, "in_progress") ELSE <<>>
            head == IF copy.assignee = a THEN <<>> ELSE first
            s == copy.status
<1>1. mine \in Issue /\ mine.status = s /\ mine.no = copy.no /\ s \in Statuses
    BY IssueFields DEF Issue
<1>. HIDE DEF mine
<1>2. Takes(p, s, s) /\ Takes(q, s, s)
    <2>1. Record(Note("tier")) \in Step /\ Record(Note("tier")).do # "save"
        BY StepKinds, NotesAreEntries DEF Record
    <2>2. Follows(s, mine.status)
        BY <1>1 DEF Follows
    <2>. QED BY <1>1, <2>1, <2>2, SaveAndRecordTakes, OtherTakes, NotesAreEntries
<1>3. p \in Seq(Step) /\ q \in Seq(Step)
    <2>1. Sound(p, copy.no) /\ Sound(q, copy.no)
        BY <1>1, SaveAndRecord, RecordAlone, NotesAreEntries
    <2>. QED BY <2>1 DEF Sound
<1>4. first = p \o q
    OBVIOUS
<1>. HIDE DEF p, q, first
<1>5. Takes(first, s, s) /\ first \in Seq(Step)
    BY <1>2, <1>3, <1>4, TakesJoin
<1>6. Takes(head, s, s) /\ head \in Seq(Step)
    <2>1. Takes(<<>>, s, s) /\ <<>> \in Seq(Step)
        BY <1>1, EmptyTakes
    <2>. QED BY <1>5, <2>1
<1>7. Lawful(second, s) /\ second \in Seq(Step)
    <2>1. CASE s = "received"
        <3>1. Sound(Transition(mine, "in_progress"), copy.no)
            BY <1>1, TransitionIsPlan DEF Statuses
        <3>2. Lawful(Transition(mine, "in_progress"), s)
            BY <1>1, TransitionLawful DEF Statuses
        <3>. QED BY <2>1, <3>1, <3>2 DEF Sound
    <2>2. CASE s # "received"
        <3>1. Takes(<<>>, s, s) /\ <<>> \in Seq(Step)
            BY <1>1, EmptyTakes
        <3>. QED BY <1>1, <2>2, <3>1 DEF Lawful
    <2>. QED BY <2>1, <2>2
<1>8. OnAccept(copy, a) = head \o second
    BY DEF OnAccept, mine, first
<1>. HIDE DEF head, second
<1>9. PICK t \in Statuses : Takes(second, s, t)
    BY <1>7 DEF Lawful
<1>10. Takes(head \o second, s, t)
    BY <1>6, <1>7, <1>9, TakesJoin
<1>. QED BY <1>8, <1>10 DEF Lawful

LEMMA OnEndLawful ==
    ASSUME NEW copy \in Issue, copy.no # 0, NEW left \in BOOLEAN, NEW answered \in BOOLEAN
    PROVE  Lawful(OnEnd(copy, left, answered), copy.status)
<1>. DEFINE s == copy.status
            bots == [copy EXCEPT !.tier = "bot"]
            p == Transition(bots, "resolved")
            q == Transition(Moved(bots, "resolved"), "closed")
<1>0. /\ s \in Statuses /\ "resolved" \in Statuses /\ "closed" \in Statuses
      /\ bots \in Issue /\ bots.no = copy.no /\ bots.status = s
    BY IssueFields DEF Statuses, Issue
<1>1. Lawful(Transition(copy, "closed"), s)
    BY <1>0, TransitionLawful
<1>2. Lawful(<<>>, s)
    BY <1>0, EmptyTakes DEF Lawful
<1>3. ASSUME s = "received" PROVE Lawful(p \o q, s)
    <2>1. "resolved" \in Transitions[s]
        BY <1>3 DEF Transitions
    <2>. HIDE DEF bots
    <2>2. Takes(p, s, "resolved")
        BY <1>0, <2>1, TransitionTakes
    <2>3. Moved(bots, "resolved") \in Issue /\ Moved(bots, "resolved").status = "resolved"
          /\ Moved(bots, "resolved").no = copy.no
        BY <1>0, MovedIsIssue
    <2>4. "closed" \in Transitions["resolved"]
        BY DEF Transitions
    <2>5. Takes(q, "resolved", "closed")
        BY <1>0, <2>3, <2>4, TransitionTakes
    <2>6. p \in Seq(Step) /\ q \in Seq(Step)
        BY <1>0, <2>3, TransitionIsPlan DEF Sound
    <2>. HIDE DEF p, q
    <2>7. Takes(p \o q, s, "closed")
        BY <2>2, <2>5, <2>6, TakesJoin
    <2>. QED BY <1>0, <2>7 DEF Lawful
<1>4. \/ OnEnd(copy, left, answered) = Transition(copy, "closed")
      \/ OnEnd(copy, left, answered) = p \o q /\ s = "received"
      \/ OnEnd(copy, left, answered) = <<>>
    BY DEF OnEnd, bots
<1>. HIDE DEF p, q
<1>. QED BY <1>1, <1>2, <1>3, <1>4

LEMMA OnAssignLawful ==
    ASSUME NEW copy \in Issue, copy.no # 0, NEW a \in Agents
    PROVE  Lawful(OnAssign(copy, a), copy.status)
<1>. DEFINE mine == [copy EXCEPT !.assignee = a,
                                 !.status = IF @ = "received" THEN "in_progress" ELSE @]
            t == [do |-> "point", agent |-> a]
            p == << t >>
            q == << Save(mine), Record(Note("assigned")) >>
            s == copy.status
<1>0. s \in Statuses
    BY IssueFields
<1>1. mine \in Issue /\ mine.no = copy.no
      /\ mine.status = IF s = "received" THEN "in_progress" ELSE s
    BY DEF Issue, Statuses
<1>2. OnAssign(copy, a) = p \o q
    BY DEF OnAssign
<1>. HIDE DEF mine
<1>3. Follows(s, mine.status)
    BY <1>1 DEF Follows, Transitions
<1>4. Takes(q, s, mine.status) /\ q \in Seq(Step) /\ mine.status \in Statuses
    BY <1>0, <1>1, <1>3, SaveAndRecordTakes, SaveAndRecord, NotesAreEntries, IssueFields DEF Sound
<1>5. t \in Step /\ t.do # "save"
    BY StepKinds
<1>. HIDE DEF t, q
<1>6. Takes(p, s, s) /\ p \in Seq(Step)
    BY <1>0, <1>5, OtherTakes
<1>. HIDE DEF p
<1>7. Takes(p \o q, s, mine.status)
    BY <1>4, <1>6, TakesJoin
<1>. QED BY <1>2, <1>4, <1>7 DEF Lawful

LEMMA PlanLawful ==
    ASSUME NEW event \in Event, NEW copy \in Issue, copy.no # 0, NEW answered \in BOOLEAN
    PROVE  Lawful(Plan(event, copy, answered), copy.status)
<1>1. event.kind \in {"escalated", "accepted", "ended", "left"}
      /\ event.agent \in Agents \cup {NoAgent} /\ copy.status \in Statuses
    BY IssueFields DEF Event
<1>2. Lawful(OnEscalation(copy), copy.status)
    <2>1. Lawful(<<>>, copy.status)
        BY <1>1, EmptyTakes DEF Lawful
    <2>2. Lawful(Transition(copy, "in_progress"), copy.status)
        BY TransitionLawful DEF Statuses
    <2>. QED BY <2>1, <2>2 DEF OnEscalation
<1>3. Lawful(OnAccept(copy, event.agent), copy.status)
    BY <1>1, OnAcceptLawful
<1>4. Lawful(OnEnd(copy, FALSE, answered), copy.status)
      /\ Lawful(OnEnd(copy, TRUE, answered), copy.status)
    BY OnEndLawful
<1>5. Plan(event, copy, answered)
        \in {OnEscalation(copy), OnAccept(copy, event.agent), OnEnd(copy, FALSE, answered),
             OnEnd(copy, TRUE, answered)}
    BY <1>1 DEF Plan
<1>. QED BY <1>2, <1>3, <1>4, <1>5

(***************************************************************************)
(* Every step keeps the plans lawful.                                       *)
(***************************************************************************)
\* A step of one call that leaves the issues alone.
LEMMA JobLawful ==
    ASSUME DeskTyped, LawfulInv, NEW j \in Callers, NEW r \in Job, jobs' = [jobs EXCEPT ![j] = r],
           UNCHANGED issues, LawfulJob(r, issues[r.conv].status)
    PROVE  LawfulInv'
<1>1. ASSUME NEW k \in Callers PROVE LawfulJob(jobs'[k], issues[jobs'[k].conv].status)
    <2>1. jobs'[k] = IF k = j THEN r ELSE jobs[k]
        BY DEF DeskTyped, DeskTypeOK
    <2>. QED BY <2>1 DEF LawfulInv
<1>. QED BY <1>1 DEF LawfulInv, Unfiled, LawfulJob, Lawful, Takes, Tells, Follows

\* A call that begins, with a lawful plan or with an insertion.
LEMMA PlannedLawful ==
    ASSUME DeskTyped, LawfulInv, NEW j \in Callers, NEW c \in Convs, NEW plan \in Seq(Step),
           Lawful(plan, issues[c].status), UNCHANGED issues,
           jobs' = [jobs EXCEPT ![j] = Planned(c, plan)]
    PROVE  LawfulInv'
<1>. DEFINE pc == IF plan = <<>> THEN "done" ELSE "steps"
            r == Begun(c, pc, plan)
<1>1. pc \in {"number", "steps", "done"} /\ jobs' = [jobs EXCEPT ![j] = r]
    BY DEF Planned
<1>. HIDE DEF pc
<1>2. r \in Job /\ r.conv = c /\ r.plan = plan
    BY <1>1, BegunIsJob
<1>. HIDE DEF r
<1>. QED BY <1>1, <1>2, JobLawful DEF LawfulJob

LEMMA NumberedLawful ==
    ASSUME DeskTyped, LawfulInv, NEW j \in Callers, NEW c \in Convs, UNCHANGED issues,
           jobs' = [jobs EXCEPT ![j] = Begun(c, "number", <<>>)]
    PROVE  LawfulInv'
<1>. DEFINE none == <<>>
            r == Begun(c, "number", none)
<1>1. none \in Seq(Step) /\ jobs' = [jobs EXCEPT ![j] = r]
    OBVIOUS
<1>. HIDE DEF none
<1>2. r \in Job /\ r.pc = "number"
    BY <1>1, BegunIsJob
<1>. HIDE DEF r
<1>. QED BY <1>1, <1>2, JobLawful DEF LawfulJob

LEMMA NoPlanLawful == ASSUME NEW copy \in Issue PROVE Lawful(<<>>, copy.status)
BY EmptyTakes, IssueFields DEF Lawful

LEMMA RecordLawful ==
    ASSUME NEW entry \in Entry, NEW copy \in Issue
    PROVE  Lawful(<< Record(entry) >>, copy.status)
<1>. DEFINE step == Record(entry)
<1>1. step \in Step /\ step.do # "save" /\ copy.status \in Statuses
    BY StepKinds, IssueFields DEF Record
<1>. HIDE DEF step
<1>2. Takes(<< step >>, copy.status, copy.status)
    BY <1>1, OtherTakes
<1>. QED BY <1>1, <1>2 DEF Lawful, step

LEMMA ReadIssueLawful ==
    ASSUME BusTypeOK, DeskTyped, LawfulInv, NEW i \in Tasks, ReadIssue(i)
    PROVE  LawfulInv'
<1>. DEFINE c == events[i].conv
<1>1. i \in DOMAIN events /\ i \in Callers /\ UNCHANGED issues
    BY DEF ReadIssue, Callers
<1>2. c \in Convs /\ events[i] \in Event
    BY <1>1, EventIsEvent
<1>3. PICK answered \in BOOLEAN :
          jobs' = [jobs EXCEPT ![i] =
                   IF Has(c) THEN Planned(c, Plan(events[i], issues[c], answered))
                   ELSE IF events[i].kind = "escalated" THEN Begun(c, "number", <<>>)
                   ELSE Planned(c, <<>>)]
    BY DEF ReadIssue
<1>4. CASE Has(c)
    <2>. DEFINE plan == Plan(events[i], issues[c], answered)
    <2>1. Sound(plan, issues[c].no) /\ Lawful(plan, issues[c].status)
        BY <1>2, <1>4, HasIssue, PlanIsPlan, PlanLawful
    <2>2. jobs' = [jobs EXCEPT ![i] = Planned(c, plan)]
        BY <1>3, <1>4
    <2>. HIDE DEF plan
    <2>. QED BY <1>1, <1>2, <2>1, <2>2, PlannedLawful DEF Sound
<1>5. CASE ~Has(c)
    <2>1. Lawful(<<>>, issues[c].status) /\ <<>> \in Seq(Step)
        BY <1>2, HasIssue, NoPlanLawful
    <2>2. jobs' = [jobs EXCEPT ![i] = Planned(c, <<>>)]
          \/ jobs' = [jobs EXCEPT ![i] = Begun(c, "number", <<>>)]
        BY <1>3, <1>5
    <2>. QED BY <1>1, <1>2, <2>1, <2>2, PlannedLawful, NumberedLawful
<1>. QED BY <1>4, <1>5

LEMMA AskLawful ==
    ASSUME BusTypeOK, DeskTyped, LawfulInv, NEW a \in Agents, NEW c \in Convs,
           \/ \E to \in Statuses : AskTransition(a, c, to)
           \/ \E target \in Agents : AskAssign(a, c, target)
           \/ AskPriority(a, c) \/ AskFile(a, c)
    PROVE  LawfulInv'
<1>1. a \in Callers /\ issues[c] \in Issue
    BY HasIssue DEF Callers
<1>2. ASSUME NEW to \in Statuses, AskTransition(a, c, to) PROVE LawfulInv'
    <2>. DEFINE plan == Transition(issues[c], to)
    <2>1. Sound(plan, issues[c].no) /\ Lawful(plan, issues[c].status)
        BY <1>1, <1>2, HasIssue, TransitionIsPlan, TransitionLawful DEF AskTransition
    <2>2. jobs' = [jobs EXCEPT ![a] = Planned(c, plan)] /\ UNCHANGED issues
        BY <1>2 DEF AskTransition
    <2>. HIDE DEF plan
    <2>. QED BY <1>1, <2>1, <2>2, PlannedLawful DEF Sound
<1>3. ASSUME NEW target \in Agents, AskAssign(a, c, target) PROVE LawfulInv'
    <2>. DEFINE plan == OnAssign(issues[c], target)
    <2>1. Sound(plan, issues[c].no) /\ Lawful(plan, issues[c].status)
        BY <1>1, <1>3, HasIssue, OnAssignIsPlan, OnAssignLawful DEF AskAssign
    <2>2. jobs' = [jobs EXCEPT ![a] = Planned(c, plan)] /\ UNCHANGED issues
        BY <1>3 DEF AskAssign
    <2>. HIDE DEF plan
    <2>. QED BY <1>1, <2>1, <2>2, PlannedLawful DEF Sound
<1>4. CASE AskPriority(a, c)
    <2>. DEFINE plan == << Save(issues[c]), Record(Note("memo")) >>
    <2>1. Follows(issues[c].status, issues[c].status) /\ issues[c].status \in Statuses
        BY <1>1, IssueFields DEF Follows
    <2>2. Lawful(plan, issues[c].status)
        BY <1>1, <2>1, SaveAndRecordTakes, NotesAreEntries DEF Lawful
    <2>3. Sound(plan, issues[c].no)
        BY <1>1, <1>4, HasIssue, SaveAndRecord, NotesAreEntries DEF AskPriority
    <2>4. jobs' = [jobs EXCEPT ![a] = Planned(c, plan)] /\ UNCHANGED issues
        BY <1>4 DEF AskPriority
    <2>. HIDE DEF plan
    <2>. QED BY <1>1, <2>2, <2>3, <2>4, PlannedLawful DEF Sound
<1>5. CASE AskFile(a, c)
    <2>. DEFINE plan == << Record(Note("memo")) >>
    <2>1. Lawful(plan, issues[c].status) /\ plan \in Seq(Step) /\ UNCHANGED issues
        BY <1>1, <1>5, RecordLawful, RecordAlone, NotesAreEntries DEF AskFile, Sound
    <2>2. jobs' = [jobs EXCEPT ![a] = Planned(c, plan)]
          \/ jobs' = [jobs EXCEPT ![a] = Begun(c, "number", <<>>)]
        BY <1>5 DEF AskFile
    <2>. HIDE DEF plan
    <2>. QED BY <1>1, <2>1, <2>2, PlannedLawful, NumberedLawful
<1>. QED BY <1>2, <1>3, <1>4, <1>5

LEMMA NumbersLawful ==
    ASSUME DeskTyped, LawfulInv, NEW j \in Callers, TakeNumber(j) \/ NumberTaken(j)
    PROVE  LawfulInv'
<1>1. UNCHANGED issues
    BY DEF TakeNumber, NumberTaken
<1>2. ASSUME NEW k \in Callers PROVE LawfulJob(jobs'[k], issues[jobs'[k].conv].status)
    <2>1. CASE k # j
        <3>1. jobs'[k] = jobs[k]
            BY <2>1 DEF TakeNumber, NumberTaken, DeskTyped, DeskTypeOK
        <3>. QED BY <3>1 DEF LawfulInv
    <2>2. CASE k = j
        <3>1. jobs'[k].pc # "steps"
            BY <2>2, JobIsJob DEF TakeNumber, NumberTaken, DeskTyped, DeskTypeOK, Job
        <3>. QED BY <3>1 DEF LawfulJob
    <2>. QED BY <2>1, <2>2
<1>. QED BY <1>1, <1>2 DEF LawfulInv, Unfiled

LEMMA FindIssueLawful ==
    ASSUME DeskTyped, LawfulInv, NEW j \in Callers, FindIssue(j)
    PROVE  LawfulInv'
<1>. DEFINE p == << Record(Created) >>
            r == [jobs[j] EXCEPT !.pc = "steps", !.plan = p]
<1>1. r \in Job /\ r.conv = jobs[j].conv /\ jobs[j].conv \in Convs
    BY CreatedPlan, JobIsJob
<1>2. Lawful(p, issues[jobs[j].conv].status)
    BY <1>1, HasIssue, RecordLawful, NotesAreEntries
<1>3. r.plan = p
    BY JobIsJob DEF Job
<1>4. jobs' = [jobs EXCEPT ![j] = r] /\ UNCHANGED issues
    BY JobIsJob DEF FindIssue, DeskTyped, DeskTypeOK
<1>. HIDE DEF p, r
<1>. QED BY <1>1, <1>2, <1>3, <1>4, JobLawful DEF LawfulJob

\* The row that is inserted has the status its conversation's plans begin with.
LEMMA InsertIssueLawful ==
    ASSUME DeskTyped, LawfulInv, NEW j \in Callers, InsertIssue(j)
    PROVE  LawfulInv'
<1>. DEFINE c == jobs[j].conv
            new == [NoIssue EXCEPT !.no = jobs[j].no]
            p == << Record(Created) >>
            r == [jobs[j] EXCEPT !.pc = "steps", !.plan = p]
<1>1. c \in Convs /\ r.conv = c /\ r \in Job
    BY CreatedPlan, JobIsJob
<1>2. r.plan = p
    BY JobIsJob DEF Job
<1>3. issues[c].no = 0 /\ issues[c].status = "received" /\ issues[c] \in Issue
    BY <1>1, HasIssue DEF InsertIssue, Has, LawfulInv, Unfiled
<1>4. new.status = "received"
    BY DEF NoIssue
<1>5. issues' = [issues EXCEPT ![c] = new] /\ issues \in [Convs -> Issue]
    BY DEF InsertIssue, DeskTyped, DeskTypeOK
<1>6. Lawful(p, issues[c].status)
    BY <1>3, RecordLawful, NotesAreEntries
<1>7. jobs' = [jobs EXCEPT ![j] = r] /\ jobs \in [Callers -> Job]
    BY DEF InsertIssue, DeskTyped, DeskTypeOK
<1>. HIDE DEF new, p, r, c
<1>8. \A d \in Convs : issues'[d].status = issues[d].status
    BY <1>1, <1>3, <1>4, <1>5
<1>9. Unfiled'
    <2>1. \A d \in Convs : d # c => issues'[d] = issues[d]
        BY <1>5
    <2>2. issues'[c].status = "received"
        BY <1>1, <1>3, <1>8
    <2>. QED BY <2>1, <2>2 DEF LawfulInv, Unfiled
<1>10. ASSUME NEW k \in Callers PROVE LawfulJob(jobs'[k], issues'[jobs'[k].conv].status)
    <2>1. jobs'[k] = IF k = j THEN r ELSE jobs[k]
        BY <1>7
    <2>2. jobs'[k].conv \in Convs
        BY <1>1, <2>1, JobIsJob
    <2>3. issues'[jobs'[k].conv].status = issues[jobs'[k].conv].status
        BY <1>8, <2>2
    <2>4. LawfulJob(jobs'[k], issues[jobs'[k].conv].status)
        BY <1>1, <1>2, <1>6, <2>1 DEF LawfulInv, LawfulJob
    <2>. QED BY <2>3, <2>4
<1>. QED BY <1>9, <1>10 DEF LawfulInv

\* The call that takes its next step.
LEMMA ShiftedLawful ==
    ASSUME DeskTyped, LawfulInv, NEW j \in Callers, jobs[j].pc = "steps"
    PROVE  LET rest == Tail(jobs[j].plan)
               r == [jobs[j] EXCEPT !.plan = rest, !.pc = IF rest = <<>> THEN "done" ELSE "steps"]
               s == issues[jobs[j].conv].status
           IN  /\ Shift(j) = [jobs EXCEPT ![j] = r]
               /\ r \in Job /\ r.conv = jobs[j].conv /\ r.fresh = jobs[j].fresh
               /\ Head(jobs[j].plan).do # "save" => LawfulJob(r, s)
               /\ Head(jobs[j].plan).do = "save" /\ jobs[j].fresh
                     => /\ Follows(s, Head(jobs[j].plan).copy.status)
                        /\ LawfulJob(r, Head(jobs[j].plan).copy.status)
<1>. DEFINE plan == jobs[j].plan
            rest == Tail(plan)
            pc == IF rest = <<>> THEN "done" ELSE "steps"
            r == [jobs[j] EXCEPT !.plan = rest, !.pc = pc]
            s == issues[jobs[j].conv].status
<1>1. plan \in Seq(Step) /\ plan # <<>> /\ jobs[j] \in Job
    BY JobIsJob
<1>2. jobs[j].fresh => Lawful(plan, s)
    BY DEF LawfulInv, LawfulJob
<1>3. jobs[j].fresh =>
          /\ Head(plan).do = "save" => /\ Follows(s, Head(plan).copy.status)
                                       /\ Lawful(rest, Head(plan).copy.status)
          /\ Head(plan).do # "save" => Lawful(rest, s)
    BY <1>1, <1>2, TakesTail
<1>4. Shift(j) = [jobs EXCEPT ![j] = r] /\ r \in Job /\ r.conv = jobs[j].conv
    BY Shifted
<1>. HIDE DEF plan, rest, pc, s
<1>5. r.plan = rest /\ r.fresh = jobs[j].fresh
    BY <1>1 DEF Job
<1>. QED BY <1>3, <1>4, <1>5 DEF LawfulJob, plan, rest, pc, s

LEMMA OtherStepLawful ==
    ASSUME DeskTyped, LawfulInv, NEW j \in Callers,
           RecordEntry(j) \/ PointAgent(j) \/ PublishResolved(j)
    PROVE  LawfulInv'
<1>1. jobs[j].pc = "steps" /\ Head(jobs[j].plan).do # "save" /\ jobs' = Shift(j) /\ UNCHANGED issues
    BY DEF RecordEntry, PointAgent, PublishResolved, Turn
<1>2. PICK r \in Job : /\ Shift(j) = [jobs EXCEPT ![j] = r] /\ r.conv = jobs[j].conv
                       /\ LawfulJob(r, issues[jobs[j].conv].status)
    BY <1>1, ShiftedLawful
<1>. QED BY <1>1, <1>2, JobLawful

\* The other calls that have read the issue are no longer fresh, so that only the
\* rest of the plan that saved has to be lawful for what it saved.
LEMMA SaveCopyLawful ==
    ASSUME BusTypeOK, DeskTyped, LawfulInv, NEW j \in Callers, SaveCopy(j)
    PROVE  LawfulInv'
<1>. DEFINE c == jobs[j].conv
            copy == Head(jobs[j].plan).copy
<1>1. jobs[j].pc = "steps" /\ Head(jobs[j].plan).do = "save" /\ c \in Convs
    BY JobIsJob DEF SaveCopy, Turn
<1>2. PICK r \in Job : /\ Shift(j) = [jobs EXCEPT ![j] = r] /\ r.conv = c /\ r.fresh = jobs[j].fresh
                       /\ jobs[j].fresh => LawfulJob(r, copy.status)
    BY <1>1, ShiftedLawful
<1>3. copy \in Issue /\ copy.no # 0
    BY <1>1, Shifted DEF Step
<1>4. issues \in [Convs -> Issue] /\ issues' = [issues EXCEPT ![c] = copy]
    BY DEF SaveCopy, DeskTyped, DeskTypeOK
<1>5. \A k \in Callers : jobs'[k] = IF k # j /\ jobs[k].conv = c /\ jobs[k].pc = "steps"
                                     THEN [jobs[k] EXCEPT !.fresh = FALSE] ELSE Shift(j)[k]
    BY DEF SaveCopy
<1>6. \A k \in Callers : Shift(j)[k] = IF k = j THEN r ELSE jobs[k]
    BY <1>2 DEF DeskTyped, DeskTypeOK
<1>. HIDE DEF c, copy
<1>7. issues'[c] = copy /\ \A d \in Convs : d # c => issues'[d] = issues[d]
    BY <1>1, <1>4
<1>8. Unfiled'
    BY <1>3, <1>7 DEF LawfulInv, Unfiled
<1>9. ASSUME NEW k \in Callers PROVE LawfulJob(jobs'[k], issues'[jobs'[k].conv].status)
    <2>1. CASE k = j
        <3>1. jobs'[k] = r
            BY <1>5, <1>6, <2>1
        <3>. QED BY <1>2, <1>7, <3>1 DEF LawfulJob
    <2>2. CASE k # j /\ jobs[k].conv = c /\ jobs[k].pc = "steps"
        <3>1. jobs'[k].fresh = FALSE
            BY <1>5, <2>2, JobIsJob DEF Job
        <3>. QED BY <3>1 DEF LawfulJob
    <2>3. CASE k # j /\ ~(jobs[k].conv = c /\ jobs[k].pc = "steps")
        <3>1. jobs'[k] = jobs[k]
            BY <1>5, <1>6, <2>3
        <3>2. CASE jobs[k].pc # "steps"
            BY <3>1, <3>2 DEF LawfulJob
        <3>3. CASE jobs[k].conv # c
            <4>1. issues'[jobs[k].conv] = issues[jobs[k].conv]
                BY <1>7, <3>3, JobIsJob
            <4>. QED BY <3>1, <4>1 DEF LawfulInv
        <3>. QED BY <2>3, <3>2, <3>3
    <2>. QED BY <2>1, <2>2, <2>3
<1>. QED BY <1>8, <1>9 DEF LawfulInv

LEMMA JobFailsLawful ==
    ASSUME DeskTyped, LawfulInv, NEW j \in Callers, JobFails(j)
    PROVE  LawfulInv'
<1>. DEFINE r == [jobs[j] EXCEPT !.pc = "done", !.plan = <<>>]
<1>1. r \in Job /\ r.pc # "steps"
    BY CutJob
<1>2. jobs' = [jobs EXCEPT ![j] = r] /\ UNCHANGED issues
    BY DEF JobFails, DeskTyped, DeskTypeOK
<1>. HIDE DEF r
<1>. QED BY <1>1, <1>2, JobLawful DEF LawfulJob

LEMMA DeskRestartLawful ==
    ASSUME DeskTyped, LawfulInv, DeskRestart
    PROVE  LawfulInv'
<1>1. UNCHANGED issues
    BY DEF DeskRestart
<1>2. ASSUME NEW j \in Callers PROVE LawfulJob(jobs'[j], issues[jobs'[j].conv].status)
    <2>. DEFINE r == [jobs[j] EXCEPT !.pc = "done", !.plan = <<>>]
    <2>1. jobs'[j] = r \/ jobs'[j] = jobs[j]
        BY DEF DeskRestart
    <2>2. r.pc # "steps"
        BY CutJob
    <2>. HIDE DEF r
    <2>. QED BY <2>1, <2>2 DEF LawfulInv, LawfulJob
<1>. QED BY <1>1, <1>2 DEF LawfulInv, Unfiled

LEMMA DeskNextLawful ==
    ASSUME BusTypeOK, DeskTyped, LawfulInv, DeskNext
    PROVE  LawfulInv'
<1>1. ASSUME NEW i \in Tasks, ReadIssue(i) PROVE LawfulInv'
    BY <1>1, ReadIssueLawful
<1>2. ASSUME NEW j \in Callers, JobStep(j) PROVE LawfulInv'
    BY <1>2, NumbersLawful, InsertIssueLawful, FindIssueLawful, SaveCopyLawful, OtherStepLawful
       DEF JobStep
<1>3. ASSUME NEW j \in Callers, JobFails(j) PROVE LawfulInv'
    BY <1>3, JobFailsLawful
<1>4. ASSUME NEW a \in Agents, NEW c \in Convs,
             \/ \E to \in Statuses : AskTransition(a, c, to)
             \/ \E target \in Agents : AskAssign(a, c, target)
             \/ AskPriority(a, c) \/ AskFile(a, c)
      PROVE  LawfulInv'
    BY <1>4, AskLawful
<1>. QED BY <1>1, <1>2, <1>3, <1>4 DEF DeskNext

(***************************************************************************)
(* A save by a call that is fresh moves the issue along a transition, and    *)
(* nothing else moves it.                                                   *)
(***************************************************************************)
LEMMA SavesMove ==
    ASSUME BusTypeOK, DeskNext, NEW c \in Convs, Has(c), issues'[c] # issues[c], DeskTyped
    PROVE  \E j \in Callers : SaveCopy(j) /\ jobs[j].conv = c
<1>1. ASSUME NEW i \in Tasks, ReadIssue(i) PROVE UNCHANGED issues
    BY <1>1 DEF ReadIssue
<1>2. ASSUME NEW j \in Callers, TakeNumber(j) \/ FindIssue(j) \/ NumberTaken(j) \/ RecordEntry(j)
                                \/ PointAgent(j) \/ JobFails(j)
      PROVE  UNCHANGED issues
    BY <1>2 DEF TakeNumber, FindIssue, NumberTaken, RecordEntry, PointAgent, JobFails
<1>3. ASSUME NEW j \in Callers, InsertIssue(j) PROVE issues'[c] = issues[c]
    <2>1. jobs[j].conv # c
        BY <1>3 DEF InsertIssue
    <2>. QED BY <1>3, <2>1 DEF InsertIssue, DeskTyped, DeskTypeOK
<1>4. ASSUME NEW j \in Callers, SaveCopy(j), jobs[j].conv # c PROVE issues'[c] = issues[c]
    BY <1>4 DEF SaveCopy, DeskTyped, DeskTypeOK
<1>5. ASSUME NEW a \in Agents, NEW d \in Convs,
             \/ \E to \in Statuses : AskTransition(a, d, to)
             \/ \E target \in Agents : AskAssign(a, d, target)
             \/ AskPriority(a, d) \/ AskFile(a, d)
      PROVE  UNCHANGED issues
    BY <1>5 DEF AskTransition, AskAssign, AskPriority, AskFile
<1>6. PICK j \in Callers : SaveCopy(j)
    BY <1>1, <1>2, <1>3, <1>5 DEF DeskNext, JobStep
<1>. QED BY <1>4, <1>6

LEMMA MovesAreLegal ==
    ASSUME BusTypeOK, DeskTyped, LawfulInv, DeskNext, NEW c \in Convs \ stale', Has(c),
           issues'[c].status # issues[c].status
    PROVE  issues'[c].status \in Transitions[issues[c].status]
<1>1. PICK j \in Callers : SaveCopy(j) /\ jobs[j].conv = c
    BY SavesMove
<1>2. jobs[j].pc = "steps" /\ Head(jobs[j].plan).do = "save"
    BY <1>1 DEF SaveCopy, Turn
<1>3. jobs[j].fresh
    BY <1>1 DEF SaveCopy
<1>4. Follows(issues[c].status, Head(jobs[j].plan).copy.status)
    BY <1>1, <1>2, <1>3, ShiftedLawful
<1>5. issues'[c] = Head(jobs[j].plan).copy
    BY <1>1 DEF SaveCopy, DeskTyped, DeskTypeOK
<1>. QED BY <1>4, <1>5 DEF Follows

(***************************************************************************)
(* The timeline.  Each save of a plan is followed by the entry that tells    *)
(* what it changes, and an entry that tells a change follows its save; so a  *)
(* save by a fresh call leaves the call owing exactly what it did.           *)
(***************************************************************************)
\* An entry that tells a change of status.
Loud(e) == e.to # "none" \/ e.from # "none" \/ e.type = "reopened"
\* e is what the timeline says when the issue goes from one copy to another.
Explains(e, was, copy) ==
    IF Loud(e)
    THEN /\ e.from = was.status /\ e.to = copy.status
         /\ copy.reopens = was.reopens + (IF e.type = "reopened" THEN 1 ELSE 0)
    ELSE Phase(copy.status) = Phase(was.status) /\ copy.reopens = was.reopens
Faces == [status : Statuses, reopens : Nat]
Face(copy) == [status |-> copy.status, reopens |-> copy.reopens]
IsLoud(step) == step.do = "record" /\ Loud(step.entry)

\* h tells the status and the reopenings after each step of the plan.
Recounts(h, plan) ==
    \A k \in 1..Len(plan) :
        /\ IF plan[k].do = "save"
           THEN /\ h[k] = Face(plan[k].copy) /\ k + 1 \in 1..Len(plan) /\ plan[k + 1].do = "record"
                /\ Explains(plan[k + 1].entry, h[k - 1], h[k])
           ELSE h[k] = h[k - 1]
        /\ IsLoud(plan[k]) /\ k - 1 \in 1..Len(plan) => plan[k - 1].do = "save"
AccountsTo(plan, was, face) ==
    \E h \in [0..Len(plan) -> Faces] :
        h[0] = was /\ h[Len(plan)] = face /\ Recounts(h, plan)
Accounts(plan, was) == \E face \in Faces : AccountsTo(plan, was, face)
\* A plan that does not begin in the middle of a change.
Opens(plan) == 1 \in 1..Len(plan) => ~IsLoud(plan[1])
\* A call at work has a plan that accounts for the issue it read, which is the issue
\* there is while the call is fresh.
AccountsJob(job, was) ==
    job.pc = "steps" => \E face \in Faces : Accounts(job.plan, face) /\ (job.fresh => face = was)

LEMMA FaceIsFace ==
    ASSUME NEW copy \in Issue
    PROVE  /\ Face(copy) \in Faces
           /\ Face(copy).status = copy.status /\ Face(copy).reopens = copy.reopens
BY IssueFields DEF Face, Faces

LEMMA EmptyAccounts ==
    ASSUME NEW face \in Faces
    PROVE  AccountsTo(<<>>, face, face) /\ Opens(<<>>)
<1>. DEFINE h == [k \in 0..0 |-> face]
<1>1. h \in [0..0 -> Faces] /\ h[0] = face
    OBVIOUS
<1>2. Len(<<>>) = 0
    OBVIOUS
<1>. HIDE DEF h
<1>. QED BY <1>1, <1>2 DEF AccountsTo, Recounts, Opens

\* One step that changes nothing.
LEMMA QuietAccounts ==
    ASSUME NEW step \in Step, step.do # "save", NEW face \in Faces
    PROVE  AccountsTo(<< step >>, face, face) /\ (~IsLoud(step) => Opens(<< step >>))
<1>. DEFINE p == << step >>
            h == [k \in 0..1 |-> face]
<1>1. h \in [0..1 -> Faces] /\ h[0] = face /\ h[1] = face
    OBVIOUS
<1>2. Len(p) = 1 /\ p[1] = step
    OBVIOUS
<1>. HIDE DEF h, p
<1>3. Recounts(h, p)
    BY <1>1, <1>2 DEF Recounts
<1>. QED BY <1>1, <1>2, <1>3 DEF AccountsTo, Opens, p

\* A change of the issue, saved and then told.
LEMMA ChangeAccounts ==
    ASSUME NEW was \in Faces, NEW copy \in Issue, NEW entry \in Entry,
           Explains(entry, was, Face(copy))
    PROVE  /\ AccountsTo(<< Save(copy), Record(entry) >>, was, Face(copy))
           /\ Opens(<< Save(copy), Record(entry) >>)
<1>. DEFINE save == Save(copy)
            record == Record(entry)
            p == << save, record >>
            h == [k \in 0..2 |-> IF k = 0 THEN was ELSE Face(copy)]
<1>0. save.do = "save" /\ save.copy = copy /\ record.do = "record" /\ record.entry = entry
    BY DEF Save, Record
<1>1. h \in [0..2 -> Faces] /\ h[0] = was /\ h[1] = Face(copy) /\ h[2] = Face(copy)
    BY FaceIsFace
<1>2. Len(p) = 2 /\ p[1] = save /\ p[2] = record
    OBVIOUS
<1>. HIDE DEF h, p, save, record
<1>3. Recounts(h, p)
    <2>. SUFFICES ASSUME NEW k \in 1..2
                  PROVE  /\ IF p[k].do = "save"
                            THEN /\ h[k] = Face(p[k].copy) /\ k + 1 \in 1..2 /\ p[k + 1].do = "record"
                                 /\ Explains(p[k + 1].entry, h[k - 1], h[k])
                            ELSE h[k] = h[k - 1]
                         /\ IsLoud(p[k]) /\ k - 1 \in 1..2 => p[k - 1].do = "save"
        BY <1>2 DEF Recounts
    <2>1. CASE k = 1
        <3>1. k + 1 = 2 /\ k - 1 = 0
            BY <2>1
        <3>. QED BY <1>0, <1>1, <1>2, <2>1, <3>1 DEF IsLoud
    <2>2. CASE k = 2
        <3>1. k - 1 = 1
            BY <2>2
        <3>. QED BY <1>0, <1>1, <1>2, <2>2, <3>1
    <2>. QED BY <2>1, <2>2
<1>4. Opens(p)
    BY <1>0, <1>2 DEF Opens, IsLoud
<1>. QED BY <1>1, <1>2, <1>3, <1>4 DEF AccountsTo, p, save, record

\* One plan after another.
LEMMA AccountsJoin ==
    ASSUME NEW p \in Seq(Step), NEW q \in Seq(Step), NEW r, NEW s, NEW t,
           AccountsTo(p, r, s), AccountsTo(q, s, t), Opens(p), Opens(q)
    PROVE  AccountsTo(p \o q, r, t) /\ Opens(p \o q)
<1>1. PICK g \in [0..Len(p) -> Faces] : g[0] = r /\ g[Len(p)] = s /\ Recounts(g, p)
    BY DEF AccountsTo
<1>2. PICK h \in [0..Len(q) -> Faces] : h[0] = s /\ h[Len(q)] = t /\ Recounts(h, q)
    BY DEF AccountsTo
<1>. DEFINE n == Len(p)
            m == Len(q)
            u == p \o q
            f == [k \in 0..(n + m) |-> IF k <= n THEN g[k] ELSE h[k - n]]
<1>3. n \in Nat /\ m \in Nat /\ u \in Seq(Step) /\ Len(u) = n + m
    OBVIOUS
<1>4. /\ \A k \in 1..n : u[k] = p[k]
      /\ \A k \in (n + 1)..(n + m) : u[k] = q[k - n]
    BY <1>3
<1>5. \A k \in 1..n :
          /\ IF p[k].do = "save"
             THEN /\ g[k] = Face(p[k].copy) /\ k + 1 \in 1..n /\ p[k + 1].do = "record"
                  /\ Explains(p[k + 1].entry, g[k - 1], g[k])
             ELSE g[k] = g[k - 1]
          /\ IsLoud(p[k]) /\ k - 1 \in 1..n => p[k - 1].do = "save"
    BY <1>1 DEF Recounts
<1>6. \A k \in 1..m :
          /\ IF q[k].do = "save"
             THEN /\ h[k] = Face(q[k].copy) /\ k + 1 \in 1..m /\ q[k + 1].do = "record"
                  /\ Explains(q[k + 1].entry, h[k - 1], h[k])
             ELSE h[k] = h[k - 1]
          /\ IsLoud(q[k]) /\ k - 1 \in 1..m => q[k - 1].do = "save"
    BY <1>2 DEF Recounts
<1>7. (1 \in 1..n => ~IsLoud(p[1])) /\ (1 \in 1..m => ~IsLoud(q[1]))
    BY DEF Opens
<1>. HIDE DEF n, m, u
<1>8. f \in [0..(n + m) -> Faces]
    <2>1. \A k \in 0..(n + m) : k <= n => k \in 0..n
        BY <1>3
    <2>2. \A k \in 0..(n + m) : k <= n => g[k] \in Faces
        BY <1>1, <2>1 DEF n
    <2>3. \A k \in 0..(n + m) : ~(k <= n) => k - n \in 0..m
        BY <1>3
    <2>4. \A k \in 0..(n + m) : ~(k <= n) => h[k - n] \in Faces
        BY <1>2, <2>3 DEF m
    <2>. QED BY <2>2, <2>4
<1>9. /\ \A k \in 0..n : f[k] = g[k]
      /\ \A k \in 0..m : f[n + k] = h[k]
    <2>1. \A k \in 0..n : f[k] = g[k]
        BY <1>3
    <2>2. ASSUME NEW k \in 0..m PROVE f[n + k] = h[k]
        <3>1. CASE k = 0
            BY <1>1, <1>2, <1>3, <3>1 DEF n
        <3>2. CASE k # 0
            <4>1. n + k \in 0..(n + m) /\ ~(n + k <= n) /\ (n + k) - n = k
                BY <1>3, <3>2
            <4>. QED BY <4>1
        <3>. QED BY <3>1, <3>2
    <2>. QED BY <2>1, <2>2
<1>10. f[0] = r /\ f[n + m] = t
    BY <1>1, <1>2, <1>3, <1>9 DEF n, m
<1>. HIDE DEF f
<1>11. ASSUME NEW k \in 1..(n + m)
       PROVE  /\ IF u[k].do = "save"
                 THEN /\ f[k] = Face(u[k].copy) /\ k + 1 \in 1..(n + m) /\ u[k + 1].do = "record"
                      /\ Explains(u[k + 1].entry, f[k - 1], f[k])
                 ELSE f[k] = f[k - 1]
              /\ IsLoud(u[k]) /\ k - 1 \in 1..(n + m) => u[k - 1].do = "save"
    <2>1. CASE k <= n
        <3>1. k \in 1..n /\ k - 1 \in 0..n /\ k \in 0..n
            BY <1>3, <2>1
        <3>2. u[k] = p[k] /\ f[k] = g[k] /\ f[k - 1] = g[k - 1]
            BY <1>4, <1>9, <3>1
        <3>3. k + 1 \in 1..n => k + 1 \in 1..(n + m) /\ u[k + 1] = p[k + 1]
            BY <1>3, <1>4
        <3>4. k - 1 \in 1..(n + m) => k - 1 \in 1..n /\ u[k - 1] = p[k - 1]
            <4>1. k - 1 \in 1..(n + m) => k - 1 \in 1..n
                BY <1>3, <3>1
            <4>. QED BY <1>4, <4>1
        <3>. QED BY <1>5, <3>1, <3>2, <3>3, <3>4
    <2>2. CASE ~(k <= n)
        <3>1. k - n \in 1..m /\ k - n - 1 \in 0..m /\ k - n \in 0..m /\ k \in (n + 1)..(n + m)
              /\ n + (k - n) = k /\ n + (k - n - 1) = k - 1
            BY <1>3, <2>2
        <3>2. u[k] = q[k - n] /\ f[k] = h[k - n] /\ f[k - 1] = h[k - n - 1]
            BY <1>4, <1>9, <3>1
        <3>3. k - n + 1 \in 1..m => k + 1 \in 1..(n + m) /\ u[k + 1] = q[k - n + 1]
            <4>1. k - n + 1 \in 1..m => k + 1 \in (n + 1)..(n + m) /\ (k + 1) - n = k - n + 1
                                        /\ k + 1 \in 1..(n + m)
                BY <1>3, <3>1
            <4>. QED BY <1>4, <4>1
        <3>4. k - n # 1 => k - n - 1 \in 1..m /\ u[k - 1] = q[k - n - 1]
            <4>1. k - n # 1 => k - n - 1 \in 1..m /\ k - 1 \in (n + 1)..(n + m)
                               /\ (k - 1) - n = k - n - 1
                BY <1>3, <3>1
            <4>. QED BY <1>4, <4>1
        <3>5. k - n = 1 => ~IsLoud(u[k])
            BY <1>7, <3>1, <3>2
        <3>. QED BY <1>6, <3>1, <3>2, <3>3, <3>4, <3>5
    <2>. QED BY <2>1, <2>2
<1>12. Recounts(f, u)
    BY <1>3, <1>11 DEF Recounts
<1>13. Opens(u)
    <2>. SUFFICES ASSUME 1 \in 1..(n + m) PROVE ~IsLoud(u[1])
        BY <1>3 DEF Opens
    <2>1. CASE n = 0
        <3>1. 1 \in 1..m /\ 1 \in (n + 1)..(n + m) /\ 1 - n = 1
            BY <1>3, <2>1
        <3>. QED BY <1>4, <1>7, <3>1
    <2>2. CASE n # 0
        <3>1. 1 \in 1..n
            BY <1>3, <2>2
        <3>. QED BY <1>4, <1>7, <3>1
    <2>. QED BY <2>1, <2>2
<1>. QED BY <1>3, <1>8, <1>10, <1>12, <1>13 DEF AccountsTo, u

\* The rest of a plan accounts for the issue from where its first step left it, and
\* the entry that follows a save explains it.
LEMMA AccountsTail ==
    ASSUME NEW plan \in Seq(Step), plan # <<>>, NEW was, Accounts(plan, was)
    PROVE  LET rest == Tail(plan)
               face == Face(Head(plan).copy)
           IN  /\ Head(plan).do # "save" => Accounts(rest, was)
               /\ Head(plan).do = "save"
                     => /\ Accounts(rest, face) /\ 1 \in 1..Len(rest) /\ rest[1].do = "record"
                        /\ Explains(rest[1].entry, was, face)
               /\ \A k \in 1..Len(rest) : k # 1 /\ rest[k - 1].do # "save" => ~IsLoud(rest[k])
<1>1. PICK to \in Faces, h \in [0..Len(plan) -> Faces] :
          h[0] = was /\ h[Len(plan)] = to /\ Recounts(h, plan)
    BY DEF Accounts, AccountsTo
<1>. DEFINE rest == Tail(plan)
            n == Len(plan)
            f == [k \in 0..(n - 1) |-> h[k + 1]]
<1>2. n \in Nat \ {0} /\ Head(plan) = plan[1] /\ Len(rest) = n - 1
      /\ \A k \in 1..(n - 1) : rest[k] = plan[k + 1]
    OBVIOUS
<1>3. \A k \in 1..n :
          /\ IF plan[k].do = "save"
             THEN /\ h[k] = Face(plan[k].copy) /\ k + 1 \in 1..n /\ plan[k + 1].do = "record"
                  /\ Explains(plan[k + 1].entry, h[k - 1], h[k])
             ELSE h[k] = h[k - 1]
          /\ IsLoud(plan[k]) /\ k - 1 \in 1..n => plan[k - 1].do = "save"
    BY <1>1 DEF Recounts
<1>4. 1 \in 1..n /\ 1 - 1 = 0 /\ 1 + 1 = 2
    BY <1>2
<1>. HIDE DEF n, rest
<1>5. IF plan[1].do = "save"
      THEN /\ h[1] = Face(plan[1].copy) /\ 2 \in 1..n /\ plan[2].do = "record"
           /\ Explains(plan[2].entry, was, h[1])
      ELSE h[1] = was
    BY <1>1, <1>3, <1>4
<1>6. f \in [0..(n - 1) -> Faces]
    <2>1. \A k \in 0..(n - 1) : k + 1 \in 0..n
        BY <1>2
    <2>2. \A k \in 0..(n - 1) : h[k + 1] \in Faces
        BY <1>1, <2>1 DEF n
    <2>. QED BY <2>2
<1>7. \A k \in 0..(n - 1) : f[k] = h[k + 1]
    OBVIOUS
<1>8. f[0] = h[1] /\ f[n - 1] = to
    BY <1>1, <1>2, <1>7 DEF n
<1>. HIDE DEF f
<1>9. ASSUME NEW k \in 1..(n - 1)
      PROVE  /\ IF rest[k].do = "save"
                THEN /\ f[k] = Face(rest[k].copy) /\ k + 1 \in 1..(n - 1) /\ rest[k + 1].do = "record"
                     /\ Explains(rest[k + 1].entry, f[k - 1], f[k])
                ELSE f[k] = f[k - 1]
             /\ IsLoud(rest[k]) /\ k - 1 \in 1..(n - 1) => rest[k - 1].do = "save"
    <2>1. k + 1 \in 1..n /\ (k + 1) - 1 = k /\ k \in 0..(n - 1) /\ k - 1 \in 0..(n - 1)
          /\ (k - 1) + 1 = k /\ k \in 1..n
        BY <1>2
    <2>2. rest[k] = plan[k + 1] /\ f[k] = h[k + 1] /\ f[k - 1] = h[k]
        BY <1>2, <1>7, <2>1
    <2>3. (k + 1) + 1 \in 1..n => k + 1 \in 1..(n - 1) /\ rest[k + 1] = plan[(k + 1) + 1]
        <3>1. (k + 1) + 1 \in 1..n => k + 1 \in 1..(n - 1)
            BY <1>2
        <3>. QED BY <1>2, <3>1
    <2>4. k - 1 \in 1..(n - 1) => rest[k - 1] = plan[k]
        BY <1>2, <2>1
    <2>. QED BY <1>3, <2>1, <2>2, <2>3, <2>4
<1>10. AccountsTo(rest, h[1], to)
    BY <1>2, <1>6, <1>8, <1>9 DEF AccountsTo, Recounts
<1>11. ASSUME NEW k \in 1..(n - 1), k # 1, rest[k - 1].do # "save" PROVE ~IsLoud(rest[k])
    <2>1. k - 1 \in 1..(n - 1)
        BY <1>2, <1>11
    <2>. QED BY <1>9, <1>11, <2>1
<1>12. 2 \in 1..n => 1 \in 1..(n - 1) /\ rest[1] = plan[2]
    BY <1>2
<1>. QED BY <1>1, <1>2, <1>5, <1>10, <1>11, <1>12 DEF Accounts, rest

\* Every plan accounts for what it does to the copy it was made from.
LEMMA NotesAreQuiet ==
    \A type \in {"assigned", "tier", "memo"} :
        /\ Note(type) \in Entry /\ ~Loud(Note(type))
        /\ Record(Note(type)) \in Step /\ Record(Note(type)).do = "record"
        /\ ~IsLoud(Record(Note(type)))
<1>. SUFFICES ASSUME NEW type \in {"assigned", "tier", "memo"}
              PROVE  /\ Note(type) \in Entry /\ ~Loud(Note(type))
                     /\ Record(Note(type)) \in Step /\ Record(Note(type)).do = "record"
                     /\ ~IsLoud(Record(Note(type)))
    OBVIOUS
<1>1. Note(type) \in Entry
    BY NotesAreEntries
<1>2. ~Loud(Note(type))
    BY DEF Loud, Note
<1>. QED BY <1>1, <1>2, StepKinds DEF Record, IsLoud

LEMMA PublishesAccounts ==
    ASSUME NEW copy, NEW face \in Faces
    PROVE  AccountsTo(Publishes(copy), face, face) /\ Opens(Publishes(copy))
<1>. DEFINE q == [do |-> "publish"]
<1>1. q \in Step /\ q.do = "publish"
    BY StepKinds
<1>2. Publishes(copy) = << q >> \/ Publishes(copy) = <<>>
    BY DEF Publishes
<1>. HIDE DEF q
<1>. QED BY <1>1, <1>2, QuietAccounts, EmptyAccounts DEF IsLoud

\* A plan that accounts for the issue from one face to another, or to some other.
TidyTo(plan, was, face) == plan \in Seq(Step) /\ AccountsTo(plan, was, face) /\ Opens(plan)
Tidy(plan, was) == \E face \in Faces : TidyTo(plan, was, face)

LEMMA TidyJoin ==
    ASSUME NEW p, NEW q, NEW r, NEW s, NEW t, TidyTo(p, r, s), TidyTo(q, s, t)
    PROVE  TidyTo(p \o q, r, t)
<1>1. p \in Seq(Step) /\ q \in Seq(Step)
    BY DEF TidyTo
<1>2. p \o q \in Seq(Step)
    BY <1>1
<1>. QED BY <1>1, <1>2, AccountsJoin DEF TidyTo

LEMMA TidyThen ==
    ASSUME NEW p, NEW q, NEW r, NEW s, TidyTo(p, r, s), Tidy(q, s)
    PROVE  Tidy(p \o q, r)
BY TidyJoin DEF Tidy

LEMMA EmptyTidy == \A face \in Faces : TidyTo(<<>>, face, face) /\ Tidy(<<>>, face)
<1>1. <<>> \in Seq(Step)
    OBVIOUS
<1>. QED BY <1>1, EmptyAccounts DEF TidyTo, Tidy

LEMMA TransitionTidy ==
    ASSUME NEW copy \in Issue, copy.no # 0, NEW to \in Statuses
    PROVE  /\ to \in Transitions[copy.status]
                => TidyTo(Transition(copy, to), Face(copy), Face(Moved(copy, to)))
           /\ Tidy(Transition(copy, to), Face(copy))
<1>. DEFINE again == copy.status \in Settled /\ to = "in_progress"
            type == IF again THEN "reopened" ELSE "status"
            e == [type |-> type, from |-> copy.status, to |-> to]
<1>1. e \in Entry /\ Loud(e) /\ e.from = copy.status /\ e.to = to /\ (e.type = "reopened" <=> again)
    BY IssueFields DEF Entry, Loud, Statuses
<1>2. ASSUME to \in Transitions[copy.status]
      PROVE  TidyTo(Transition(copy, to), Face(copy), Face(Moved(copy, to)))
    <2>1. Transition(copy, to) = << Save(Moved(copy, to)), Record(e) >> \o Publishes(Moved(copy, to))
        BY <1>2 DEF Transition
    <2>2. Moved(copy, to) \in Issue /\ Moved(copy, to).status = to
        BY MovedIsIssue
    <2>3. Moved(copy, to).reopens = IF again THEN copy.reopens + 1 ELSE copy.reopens
        BY DEF Moved, Issue
    <2>4. copy.reopens \in Nat
        BY IssueFields
    <2>. HIDE DEF e, again
    <2>5. Explains(e, Face(copy), Face(Moved(copy, to)))
        BY <1>1, <2>2, <2>3, <2>4, FaceIsFace DEF Explains
    <2>6. << Save(Moved(copy, to)), Record(e) >> \in Seq(Step)
        BY <1>1, <2>2, StepKinds
    <2>7. TidyTo(<< Save(Moved(copy, to)), Record(e) >>, Face(copy), Face(Moved(copy, to)))
        BY <1>1, <2>2, <2>5, <2>6, ChangeAccounts, FaceIsFace DEF TidyTo
    <2>8. TidyTo(Publishes(Moved(copy, to)), Face(Moved(copy, to)), Face(Moved(copy, to)))
        BY <2>2, PublishesIsPlan, PublishesAccounts, FaceIsFace DEF TidyTo, Sound
    <2>. QED BY <2>1, <2>7, <2>8, TidyJoin
<1>3. to \notin Transitions[copy.status] => Tidy(Transition(copy, to), Face(copy))
    BY EmptyTidy, FaceIsFace DEF Transition
<1>4. Moved(copy, to) \in Issue
    BY MovedIsIssue
<1>. HIDE DEF e, again
<1>. QED BY <1>2, <1>3, <1>4, FaceIsFace DEF Tidy

LEMMA NoteTidy ==
    ASSUME NEW was \in Issue, NEW copy \in Issue, NEW type \in {"assigned", "memo"},
           copy.reopens = was.reopens, Phase(copy.status) = Phase(was.status)
    PROVE  TidyTo(<< Save(copy), Record(Note(type)) >>, Face(was), Face(copy))
<1>1. Note(type) \in Entry /\ ~Loud(Note(type))
    BY NotesAreQuiet
<1>2. Explains(Note(type), Face(was), Face(copy))
    BY <1>1, FaceIsFace DEF Explains
<1>3. << Save(copy), Record(Note(type)) >> \in Seq(Step)
    BY <1>1, StepKinds
<1>. QED BY <1>1, <1>2, <1>3, ChangeAccounts, FaceIsFace DEF TidyTo

LEMMA QuietTidy ==
    ASSUME NEW step \in Step, step.do # "save", ~IsLoud(step), NEW face \in Faces
    PROVE  TidyTo(<< step >>, face, face) /\ Tidy(<< step >>, face)
<1>1. << step >> \in Seq(Step)
    OBVIOUS
<1>. QED BY <1>1, QuietAccounts DEF TidyTo, Tidy

LEMMA OnAcceptTidy ==
    ASSUME NEW copy \in Issue, copy.no # 0, NEW a \in Agents \cup {NoAgent}
    PROVE  Tidy(OnAccept(copy, a), Face(copy))
<1>. DEFINE mine == [copy EXCEPT !.assignee = a]
            p == << Save(mine), Record(Note("assigned")) >>
            q == << Record(Note("tier")) >>
            first == << Save(mine), Record(Note("assigned")), Record(Note("tier")) >>
            head == IF copy.assignee = a THEN <<>> ELSE first
            rest == IF copy.status = "received" THEN Transition(mine, "in_progress") ELSE <<>>
<1>1. mine \in Issue /\ mine.status = copy.status /\ mine.no = copy.no /\ mine.reopens = copy.reopens
    BY DEF Issue
<1>. HIDE DEF mine
<1>2. Face(mine) = Face(copy) /\ Face(copy) \in Faces
    BY <1>1, FaceIsFace DEF Face
<1>3. TidyTo(p, Face(copy), Face(copy))
    BY <1>1, <1>2, NoteTidy
<1>4. TidyTo(q, Face(copy), Face(copy))
    BY <1>2, NotesAreQuiet, QuietTidy
<1>5. first = p \o q
    OBVIOUS
<1>. HIDE DEF p, q
<1>6. TidyTo(first, Face(copy), Face(copy))
    BY <1>3, <1>4, <1>5, TidyJoin
<1>7. TidyTo(head, Face(copy), Face(copy))
    BY <1>2, <1>6, EmptyTidy
<1>8. Tidy(rest, Face(copy))
    <2>1. Tidy(Transition(mine, "in_progress"), Face(mine))
        BY <1>1, TransitionTidy DEF Statuses
    <2>. QED BY <1>2, <2>1, EmptyTidy
<1>9. OnAccept(copy, a) = head \o rest
    BY DEF OnAccept, mine, first
<1>. HIDE DEF head, rest
<1>. QED BY <1>7, <1>8, <1>9, TidyThen

LEMMA OnEndTidy ==
    ASSUME NEW copy \in Issue, copy.no # 0, NEW left \in BOOLEAN, NEW answered \in BOOLEAN
    PROVE  Tidy(OnEnd(copy, left, answered), Face(copy))
<1>. DEFINE bots == [copy EXCEPT !.tier = "bot"]
            settled == Moved(bots, "resolved")
            p == Transition(bots, "resolved")
            q == Transition(settled, "closed")
<1>0. /\ "resolved" \in Statuses /\ "closed" \in Statuses
      /\ bots \in Issue /\ bots.no = copy.no /\ bots.status = copy.status
      /\ bots.reopens = copy.reopens
    BY DEF Statuses, Issue
<1>1. Tidy(Transition(copy, "closed"), Face(copy)) /\ Tidy(<<>>, Face(copy))
    BY <1>0, TransitionTidy, EmptyTidy, FaceIsFace
<1>2. ASSUME copy.status = "received" PROVE Tidy(p \o q, Face(copy))
    <2>1. "resolved" \in Transitions["received"]
        BY DEF Transitions
    <2>. HIDE DEF bots
    <2>2. settled \in Issue /\ settled.no = copy.no
        BY <1>0, MovedIsIssue
    <2>3. TidyTo(p, Face(bots), Face(settled))
        BY <1>0, <1>2, <2>1, TransitionTidy
    <2>. HIDE DEF settled
    <2>4. Tidy(q, Face(settled))
        BY <1>0, <2>2, TransitionTidy
    <2>5. Face(bots) = Face(copy)
        BY <1>0 DEF Face
    <2>. HIDE DEF p, q
    <2>. QED BY <2>3, <2>4, <2>5, TidyThen
<1>3. \/ OnEnd(copy, left, answered) = Transition(copy, "closed")
      \/ OnEnd(copy, left, answered) = p \o q /\ copy.status = "received"
      \/ OnEnd(copy, left, answered) = <<>>
    BY DEF OnEnd, bots
<1>. HIDE DEF p, q
<1>. QED BY <1>1, <1>2, <1>3

LEMMA OnAssignTidy ==
    ASSUME NEW copy \in Issue, copy.no # 0, NEW a \in Agents
    PROVE  Tidy(OnAssign(copy, a), Face(copy))
<1>. DEFINE mine == [copy EXCEPT !.assignee = a,
                                 !.status = IF @ = "received" THEN "in_progress" ELSE @]
            t == [do |-> "point", agent |-> a]
            p == << t >>
            q == << Save(mine), Record(Note("assigned")) >>
<1>1. mine \in Issue /\ mine.reopens = copy.reopens
      /\ mine.status = IF copy.status = "received" THEN "in_progress" ELSE copy.status
    BY DEF Issue, Statuses
<1>2. OnAssign(copy, a) = p \o q
    BY DEF OnAssign
<1>. HIDE DEF mine
<1>3. Phase(mine.status) = Phase(copy.status)
    BY <1>1 DEF Phase
<1>4. TidyTo(q, Face(copy), Face(mine))
    BY <1>1, <1>3, NoteTidy
<1>5. t \in Step /\ t.do = "point"
    BY StepKinds
<1>. HIDE DEF t, q
<1>6. TidyTo(p, Face(copy), Face(copy))
    BY <1>5, QuietTidy, FaceIsFace DEF IsLoud
<1>. HIDE DEF p
<1>. QED BY <1>1, <1>2, <1>4, <1>6, TidyJoin, FaceIsFace DEF Tidy

LEMMA PlanTidy ==
    ASSUME NEW event \in Event, NEW copy \in Issue, copy.no # 0, NEW answered \in BOOLEAN
    PROVE  Tidy(Plan(event, copy, answered), Face(copy))
<1>1. event.kind \in {"escalated", "accepted", "ended", "left"}
      /\ event.agent \in Agents \cup {NoAgent}
    BY DEF Event
<1>2. Tidy(OnEscalation(copy), Face(copy))
    BY TransitionTidy, EmptyTidy, FaceIsFace DEF OnEscalation, Statuses
<1>3. Tidy(OnAccept(copy, event.agent), Face(copy))
    BY <1>1, OnAcceptTidy
<1>4. Tidy(OnEnd(copy, FALSE, answered), Face(copy))
      /\ Tidy(OnEnd(copy, TRUE, answered), Face(copy))
    BY OnEndTidy
<1>5. Plan(event, copy, answered)
        \in {OnEscalation(copy), OnAccept(copy, event.agent), OnEnd(copy, FALSE, answered),
             OnEnd(copy, TRUE, answered)}
    BY <1>1 DEF Plan
<1>. QED BY <1>2, <1>3, <1>4, <1>5

(***************************************************************************)
(* What the timeline says of an issue, and what its calls have yet to say.   *)
(***************************************************************************)
LoudEntries == {e \in Entry : Loud(e)}
\* The entries a call is to record before it does anything else.
Ahead(plan) == {k \in DOMAIN plan : \A n \in 1..k : plan[n].do = "record"}
OwedBy(job, c, S) == {k \in Ahead(job.plan) : job.conv = c /\ job.plan[k].entry \in S}
Unsaid(j, c, S) == OwedBy(jobs[j], c, S)
Arrears(c, S) == {p \in Callers \X Nat : p[2] \in Unsaid(p[1], c, S)}
Said(c, S) == {k \in DOMAIN timeline[c] : timeline[c][k] \in S}
Tally(c, S) == Cardinality(Said(c, S)) + Cardinality(Arrears(c, S))

EntersOf(phase) == {e \in Entry : e.to # "none" /\ Phase(e.to) = phase}
LeavesOf(phase) == {e \in Entry : e.from # "none" /\ Phase(e.from) = phase}
Reopenings == {e \in Entry : e.type = "reopened"}
Balances(c) ==
    /\ IsFiniteSet(Arrears(c, LoudEntries))
    /\ \A phase \in {"open"} \cup Settled :
           Tally(c, EntersOf(phase)) - Tally(c, LeavesOf(phase))
               = IF Phase(issues[c].status) = phase THEN 1 ELSE 0
    /\ Tally(c, Reopenings) = issues[c].reopens

\* Only an issue there is has a call at work on it and a timeline, and a call that is
\* not at work has nothing left to do.
Filed ==
    /\ \A c \in Convs : issues[c].no = 0 => timeline[c] = <<>>
    /\ \A j \in Callers : IF jobs[j].pc = "steps" THEN issues[jobs[j].conv].no # 0
                          ELSE jobs[j].plan = <<>>
\* A hook at work is a call on the conversation it was called for.
Hooked ==
    \A i \in Tasks : jobs[i].pc \in {"number", "insert", "steps"}
                       => i \in DOMAIN events /\ jobs[i].conv = events[i].conv
AccountsInv == \A j \in Callers : AccountsJob(jobs[j], Face(issues[jobs[j].conv]))
BalanceInv == \A c \in Convs \ (stale \cup cut) : Has(c) => Balances(c)
TimelineInv == Filed /\ Hooked /\ AccountsInv /\ BalanceInv

LEMMA TimelineStarts == DeskInit => TimelineInv
<1>. SUFFICES ASSUME DeskInit PROVE TimelineInv
    OBVIOUS
<1>1. Filed /\ Hooked /\ AccountsInv
    BY DEF DeskInit, Filed, Hooked, AccountsInv, AccountsJob, NotCalled, NoIssue, Callers
<1>2. BalanceInv
    BY DEF DeskInit, BalanceInv, Has, NoIssue
<1>. QED BY <1>1, <1>2 DEF TimelineInv

LEMMA CountsAreLoud ==
    /\ \A phase \in {"open"} \cup Settled :
           EntersOf(phase) \subseteq LoudEntries /\ LeavesOf(phase) \subseteq LoudEntries
    /\ Reopenings \subseteq LoudEntries
BY DEF EntersOf, LeavesOf, Reopenings, LoudEntries, Loud

\* A call that is at work owes the timeline the first entry of its plan at most.
LEMMA UnsaidFirst ==
    ASSUME NEW plan \in Seq(Step), NEW was, Accounts(plan, was)
    PROVE  \A k \in Ahead(plan) : IsLoud(plan[k]) => k = 1
<1>1. PICK h : Recounts(h, plan)
    BY DEF Accounts, AccountsTo
<1>. SUFFICES ASSUME NEW k \in Ahead(plan), IsLoud(plan[k]), k # 1 PROVE FALSE
    OBVIOUS
<1>2. Len(plan) \in Nat /\ DOMAIN plan = 1..Len(plan)
    OBVIOUS
<1>3. k \in 1..Len(plan) /\ \A n \in 1..k : plan[n].do = "record"
    BY <1>2 DEF Ahead
<1>4. k - 1 \in 1..Len(plan) /\ k - 1 \in 1..k
    BY <1>2, <1>3
<1>5. plan[k - 1].do = "save"
    BY <1>1, <1>3, <1>4 DEF Recounts
<1>. QED BY <1>3, <1>4, <1>5

\* What a call owes of entries that tell a change, by the first step of its plan.
LEMMA UnsaidIs ==
    ASSUME NEW plan \in Seq(Step), NEW was, Accounts(plan, was), NEW S \in SUBSET LoudEntries
    PROVE  {k \in Ahead(plan) : plan[k].entry \in S}
               = IF plan # <<>> /\ Head(plan).do = "record" /\ Head(plan).entry \in S
                 THEN {1} ELSE {}
<1>1. Len(plan) \in Nat /\ DOMAIN plan = 1..Len(plan)
    OBVIOUS
<1>2. \A k \in Ahead(plan) : plan[k].entry \in S => IsLoud(plan[k])
    <2>. SUFFICES ASSUME NEW k \in Ahead(plan), plan[k].entry \in S PROVE IsLoud(plan[k])
        OBVIOUS
    <2>1. k \in 1..Len(plan) /\ k \in 1..k
        BY <1>1 DEF Ahead
    <2>2. plan[k].do = "record"
        BY <2>1 DEF Ahead
    <2>. QED BY <2>2 DEF IsLoud, LoudEntries
<1>3. \A k \in Ahead(plan) : plan[k].entry \in S => k = 1
    BY <1>2, UnsaidFirst
<1>4. 1 \in Ahead(plan) <=> plan # <<>> /\ plan[1].do = "record"
    <2>1. 1 \in DOMAIN plan <=> plan # <<>>
        BY <1>1
    <2>2. \A n \in 1..1 : n = 1
        OBVIOUS
    <2>3. 1 \in 1..1
        OBVIOUS
    <2>. QED BY <2>1, <2>2, <2>3 DEF Ahead
<1>5. plan # <<>> => Head(plan) = plan[1]
    OBVIOUS
<1>. QED BY <1>3, <1>4, <1>5

\* The same, of a call; one that is not at work owes nothing.
LEMMA JobOwes ==
    ASSUME NEW job \in Job, NEW was, AccountsJob(job, was), NEW c, NEW S \in SUBSET LoudEntries,
           IF job.pc = "steps" THEN job.plan # <<>> ELSE job.plan = <<>>
    PROVE  OwedBy(job, c, S) = IF /\ job.conv = c /\ job.pc = "steps"
                                  /\ Head(job.plan).do = "record" /\ Head(job.plan).entry \in S
                               THEN {1} ELSE {}
<1>1. job.plan \in Seq(Step)
    BY DEF Job
<1>2. CASE job.pc = "steps"
    <2>1. PICK face : Accounts(job.plan, face)
        BY <1>2 DEF AccountsJob
    <2>2. {k \in Ahead(job.plan) : job.plan[k].entry \in S}
              = IF Head(job.plan).do = "record" /\ Head(job.plan).entry \in S THEN {1} ELSE {}
        BY <1>1, <1>2, <2>1, UnsaidIs
    <2>. QED BY <1>2, <2>2 DEF OwedBy
<1>3. CASE job.pc # "steps"
    <2>1. job.plan = <<>>
        BY <1>3
    <2>2. Ahead(<<>>) = {}
        BY DEF Ahead
    <2>. QED BY <1>3, <2>1, <2>2 DEF OwedBy
<1>. QED BY <1>2, <1>3

LEMMA CallOwes ==
    ASSUME DeskTyped, Filed, AccountsInv, NEW j \in Callers, NEW c \in Convs,
           NEW S \in SUBSET LoudEntries
    PROVE  /\ Unsaid(j, c, S) = IF /\ jobs[j].conv = c /\ jobs[j].pc = "steps"
                                   /\ Head(jobs[j].plan).do = "record"
                                   /\ Head(jobs[j].plan).entry \in S
                                THEN {1} ELSE {}
           /\ issues[c].no = 0 => Unsaid(j, c, S) = {}
<1>1. jobs[j] \in Job /\ (jobs[j].pc = "steps" => jobs[j].plan # <<>>)
    BY JobIsJob
<1>2. AccountsJob(jobs[j], Face(issues[jobs[j].conv]))
    BY DEF AccountsInv
<1>3. Unsaid(j, c, S) = IF /\ jobs[j].conv = c /\ jobs[j].pc = "steps"
                           /\ Head(jobs[j].plan).do = "record"
                           /\ Head(jobs[j].plan).entry \in S
                        THEN {1} ELSE {}
    BY <1>1, <1>2, JobOwes DEF Filed, Unsaid
<1>. QED BY <1>3 DEF Filed

(***************************************************************************)
(* How arrears and tallies move.                                            *)
(***************************************************************************)
LEMMA SaidFinite ==
    ASSUME DeskTyped, NEW c \in Convs, NEW S
    PROVE  IsFiniteSet(Said(c, S)) /\ Cardinality(Said(c, S)) \in Nat
<1>1. timeline[c] \in Seq(Entry)
    BY DEF DeskTyped, DeskTypeOK
<1>2. DOMAIN timeline[c] = 1..Len(timeline[c]) /\ Len(timeline[c]) \in Nat
    BY <1>1
<1>3. IsFiniteSet(1..Len(timeline[c]))
    BY <1>2, FS_Interval
<1>4. Said(c, S) \in SUBSET (1..Len(timeline[c]))
    BY <1>2 DEF Said
<1>. QED BY <1>3, <1>4, FS_Subset, FS_CardinalityType

LEMMA ArrearsFinite ==
    ASSUME NEW c, IsFiniteSet(Arrears(c, LoudEntries)), NEW S \in SUBSET LoudEntries
    PROVE  IsFiniteSet(Arrears(c, S)) /\ Cardinality(Arrears(c, S)) \in Nat
<1>1. Arrears(c, S) \in SUBSET Arrears(c, LoudEntries)
    BY DEF Arrears, Unsaid, OwedBy
<1>. QED BY <1>1, FS_Subset, FS_CardinalityType

LEMMA TallyIsNat ==
    ASSUME DeskTyped, NEW c \in Convs, IsFiniteSet(Arrears(c, LoudEntries)),
           NEW S \in SUBSET LoudEntries
    PROVE  Tally(c, S) \in Nat
BY SaidFinite, ArrearsFinite DEF Tally

\* One when the entry is of the set.
One(e, S) == IF e \in S THEN 1 ELSE 0

LEMMA ArrearsSame ==
    ASSUME NEW c, NEW S, \A k \in Callers : Unsaid(k, c, S)' = Unsaid(k, c, S)
    PROVE  Arrears(c, S)' = Arrears(c, S)
BY DEF Arrears

LEMMA ArrearsGrow ==
    ASSUME NEW c, NEW S, NEW j \in Callers, NEW e, Unsaid(j, c, S) = {},
           Unsaid(j, c, S)' = IF e \in S THEN {1} ELSE {},
           \A k \in Callers \ {j} : Unsaid(k, c, S)' = Unsaid(k, c, S),
           IsFiniteSet(Arrears(c, S))
    PROVE  /\ IsFiniteSet(Arrears(c, S)')
           /\ Cardinality(Arrears(c, S)') = Cardinality(Arrears(c, S)) + One(e, S)
<1>0. Cardinality(Arrears(c, S)) \in Nat
    BY FS_CardinalityType
<1>1. CASE e \in S
    <2>1. Arrears(c, S)' = Arrears(c, S) \cup {<<j, 1>>}
        <3>1. ASSUME NEW k \in Callers, NEW n \in Nat
              PROVE  <<k, n>> \in Arrears(c, S)' <=> <<k, n>> \in Arrears(c, S) \cup {<<j, 1>>}
            BY <1>1 DEF Arrears
        <3>. QED BY <3>1 DEF Arrears
    <2>2. <<j, 1>> \notin Arrears(c, S)
        BY DEF Arrears
    <2>. QED BY <1>1, <2>1, <2>2, FS_AddElement DEF One
<1>2. CASE e \notin S
    <2>1. \A k \in Callers : Unsaid(k, c, S)' = Unsaid(k, c, S)
        BY <1>2
    <2>. QED BY <1>0, <1>2, <2>1, ArrearsSame DEF One
<1>. QED BY <1>1, <1>2

LEMMA ArrearsShrink ==
    ASSUME NEW c, NEW S, NEW j \in Callers, NEW e, Unsaid(j, c, S)' = {},
           Unsaid(j, c, S) = IF e \in S THEN {1} ELSE {},
           \A k \in Callers \ {j} : Unsaid(k, c, S)' = Unsaid(k, c, S),
           IsFiniteSet(Arrears(c, S))
    PROVE  /\ IsFiniteSet(Arrears(c, S)')
           /\ Cardinality(Arrears(c, S)') = Cardinality(Arrears(c, S)) - One(e, S)
<1>0. Cardinality(Arrears(c, S)) \in Nat
    BY FS_CardinalityType
<1>1. CASE e \in S
    <2>1. Arrears(c, S)' = Arrears(c, S) \ {<<j, 1>>}
        <3>1. ASSUME NEW k \in Callers, NEW n \in Nat
              PROVE  <<k, n>> \in Arrears(c, S)' <=> <<k, n>> \in Arrears(c, S) \ {<<j, 1>>}
            BY <1>1 DEF Arrears
        <3>. QED BY <3>1 DEF Arrears
    <2>2. <<j, 1>> \in Arrears(c, S)
        BY <1>1 DEF Arrears
    <2>. QED BY <1>1, <2>1, <2>2, FS_RemoveElement DEF One
<1>2. CASE e \notin S
    <2>1. \A k \in Callers : Unsaid(k, c, S)' = Unsaid(k, c, S)
        BY <1>2
    <2>. QED BY <1>0, <1>2, <2>1, ArrearsSame DEF One
<1>. QED BY <1>1, <1>2

LEMMA SaidGrows ==
    ASSUME DeskTyped, NEW c \in Convs, NEW S, NEW e \in Entry,
           timeline'[c] = Append(timeline[c], e)
    PROVE  Cardinality(Said(c, S)') = Cardinality(Said(c, S)) + One(e, S)
<1>. DEFINE n == Len(timeline[c])
<1>0. IsFiniteSet(Said(c, S)) /\ Cardinality(Said(c, S)) \in Nat
    BY SaidFinite
<1>1. timeline[c] \in Seq(Entry)
    BY DEF DeskTyped, DeskTypeOK
<1>2. /\ n \in Nat /\ DOMAIN timeline[c] = 1..n
      /\ DOMAIN timeline'[c] = 1..(n + 1) /\ timeline'[c][n + 1] = e
      /\ \A k \in 1..n : timeline'[c][k] = timeline[c][k]
    BY <1>1
<1>. HIDE DEF n
<1>3. \A k : k \in 1..(n + 1) <=> k \in 1..n \/ k = n + 1
    BY <1>2
<1>4. n + 1 \notin 1..n
    BY <1>2
<1>5. Said(c, S)' = {k \in 1..(n + 1) : timeline'[c][k] \in S}
    BY <1>2 DEF Said
<1>6. Said(c, S) = {k \in 1..n : timeline[c][k] \in S}
    BY <1>2 DEF Said
<1>7. CASE e \in S
    <2>1. Said(c, S)' = Said(c, S) \cup {n + 1}
        BY <1>2, <1>3, <1>5, <1>6, <1>7
    <2>2. n + 1 \notin Said(c, S)
        BY <1>4, <1>6
    <2>. QED BY <1>0, <1>7, <2>1, <2>2, FS_AddElement DEF One
<1>8. CASE e \notin S
    <2>1. Said(c, S)' = Said(c, S)
        BY <1>2, <1>3, <1>5, <1>6, <1>8
    <2>. QED BY <1>0, <1>8, <2>1 DEF One
<1>. QED BY <1>7, <1>8

(***************************************************************************)
(* Every step keeps the balance.                                            *)
(***************************************************************************)
LEMMA BalanceStill ==
    ASSUME NEW c, Balances(c), issues'[c] = issues[c], timeline'[c] = timeline[c],
           \A S \in SUBSET LoudEntries, k \in Callers : Unsaid(k, c, S)' = Unsaid(k, c, S)
    PROVE  Balances(c)'
<1>1. \A S \in SUBSET LoudEntries : Arrears(c, S)' = Arrears(c, S)
    BY ArrearsSame
<1>2. \A S : Said(c, S)' = Said(c, S)
    BY DEF Said
<1>3. \A S \in SUBSET LoudEntries : Tally(c, S)' = Tally(c, S)
    BY <1>1, <1>2 DEF Tally
<1>4. IsFiniteSet(Arrears(c, LoudEntries)')
    BY <1>1 DEF Balances
<1>. QED BY <1>3, <1>4, CountsAreLoud DEF Balances

\* An entry that explains a change moves the tallies by as much.
LEMMA ExplainedMoves ==
    ASSUME NEW e \in Entry, NEW was \in Faces, NEW face \in Faces, Explains(e, was, face)
    PROVE  /\ \A phase \in {"open"} \cup Settled :
                  One(e, EntersOf(phase)) - One(e, LeavesOf(phase))
                      = (IF Phase(face.status) = phase THEN 1 ELSE 0)
                        - (IF Phase(was.status) = phase THEN 1 ELSE 0)
           /\ face.reopens = was.reopens + One(e, Reopenings)
<1>1. was.status # "none" /\ face.status # "none" /\ was.reopens \in Nat
    BY DEF Faces, Statuses
<1>2. CASE Loud(e)
    <2>1. e.from = was.status /\ e.to = face.status
          /\ face.reopens = was.reopens + (IF e.type = "reopened" THEN 1 ELSE 0)
        BY <1>2 DEF Explains
    <2>2. \A phase : /\ e \in EntersOf(phase) <=> Phase(face.status) = phase
                     /\ e \in LeavesOf(phase) <=> Phase(was.status) = phase
        BY <1>1, <2>1 DEF EntersOf, LeavesOf
    <2>3. e \in Reopenings <=> e.type = "reopened"
        BY DEF Reopenings
    <2>. QED BY <2>1, <2>2, <2>3 DEF One
<1>3. CASE ~Loud(e)
    <2>1. Phase(face.status) = Phase(was.status) /\ face.reopens = was.reopens
        BY <1>3 DEF Explains
    <2>2. e \notin LoudEntries
        BY <1>3 DEF LoudEntries
    <2>3. \A phase \in {"open"} \cup Settled : e \notin EntersOf(phase) /\ e \notin LeavesOf(phase)
        BY <2>2, CountsAreLoud
    <2>4. e \notin Reopenings
        BY <2>2, CountsAreLoud
    <2>. QED BY <1>1, <2>1, <2>3, <2>4 DEF One
<1>. QED BY <1>2, <1>3

\* A call whose plan does not begin in the middle of a change owes nothing.
LEMMA OpensOwes ==
    ASSUME NEW r \in Job, NEW now, AccountsJob(r, now), NEW c, NEW S \in SUBSET LoudEntries,
           IF r.pc = "steps" THEN r.plan # <<>> ELSE r.plan = <<>>,
           r.pc = "steps" /\ r.conv = c => Opens(r.plan)
    PROVE  OwedBy(r, c, S) = {}
<1>1. OwedBy(r, c, S) = IF /\ r.conv = c /\ r.pc = "steps"
                           /\ Head(r.plan).do = "record" /\ Head(r.plan).entry \in S
                        THEN {1} ELSE {}
    BY JobOwes
<1>2. ASSUME r.conv = c, r.pc = "steps" PROVE ~IsLoud(Head(r.plan))
    <2>1. r.plan \in Seq(Step) /\ r.plan # <<>> /\ Opens(r.plan)
        BY <1>2 DEF Job
    <2>2. 1 \in 1..Len(r.plan) /\ Head(r.plan) = r.plan[1]
        BY <2>1
    <2>. QED BY <2>1, <2>2 DEF Opens
<1>. QED BY <1>1, <1>2 DEF IsLoud, LoudEntries

\* A step of one call that saves and records nothing, and that leaves no entry of a
\* change behind unless it is cut off.
LEMMA CallOn ==
    ASSUME DeskTyped, TimelineInv, NEW j \in Callers, NEW r \in Job, jobs' = [jobs EXCEPT ![j] = r],
           UNCHANGED <<issues, timeline>>, stale \subseteq stale', cut \subseteq cut',
           jobs[j].pc = "steps" => jobs[j].conv \in cut' \/ Head(jobs[j].plan).do # "record",
           IF r.pc = "steps"
           THEN /\ r.plan # <<>> /\ issues[r.conv].no # 0
                /\ AccountsJob(r, Face(issues[r.conv]))
                /\ Opens(r.plan) \/ r.conv \in cut'
           ELSE r.plan = <<>>,
           Hooked'
    PROVE  TimelineInv'
<1>1. \A k \in Callers : jobs'[k] = IF k = j THEN r ELSE jobs[k]
    BY DEF DeskTyped, DeskTypeOK
<1>2. Filed'
    BY <1>1 DEF TimelineInv, Filed
<1>3. AccountsInv'
    <2>. SUFFICES ASSUME NEW k \in Callers
                  PROVE  AccountsJob(jobs'[k], Face(issues[jobs'[k].conv]))
        BY DEF AccountsInv
    <2>1. CASE k = j
        BY <1>1, <2>1 DEF AccountsJob
    <2>2. CASE k # j
        BY <1>1, <2>2 DEF TimelineInv, AccountsInv
    <2>. QED BY <2>1, <2>2
<1>4. BalanceInv'
    <2>. SUFFICES ASSUME NEW c \in Convs \ (stale' \cup cut'), Has(c)' PROVE Balances(c)'
        BY DEF BalanceInv
    <2>1. Balances(c)
        BY DEF TimelineInv, BalanceInv, Has
    <2>2. ASSUME NEW S \in SUBSET LoudEntries, NEW k \in Callers
          PROVE  Unsaid(k, c, S)' = Unsaid(k, c, S)
        <3>1. CASE k # j
            BY <1>1, <3>1 DEF Unsaid
        <3>2. CASE k = j
            <4>1. Unsaid(j, c, S) = {}
                BY CallOwes DEF TimelineInv
            <4>2. OwedBy(r, c, S) = {}
                <5>1. AccountsJob(r, Face(issues[r.conv]))
                    BY DEF AccountsJob
                <5>. QED BY <5>1, OpensOwes
            <4>3. Unsaid(j, c, S)' = OwedBy(r, c, S)
                BY <1>1 DEF Unsaid
            <4>. QED BY <3>2, <4>1, <4>2, <4>3
        <3>. QED BY <3>1, <3>2
    <2>. QED BY <2>1, <2>2, BalanceStill
<1>. QED BY <1>2, <1>3, <1>4 DEF TimelineInv

LEMMA HookedOn ==
    ASSUME DeskTyped, Hooked, NEW j \in Callers, NEW r, jobs' = [jobs EXCEPT ![j] = r],
           UNCHANGED events,
           \/ r.conv = jobs[j].conv /\ jobs[j].pc \in {"number", "insert", "steps"}
           \/ j \in DOMAIN events /\ r.conv = events[j].conv
           \/ r.pc \notin {"number", "insert", "steps"}
           \/ j \notin Tasks
    PROVE  Hooked'
<1>1. \A k \in Callers : jobs'[k] = IF k = j THEN r ELSE jobs[k]
    BY DEF DeskTyped, DeskTypeOK
<1>2. Tasks \subseteq Callers
    BY DEF Callers
<1>. SUFFICES ASSUME NEW i \in Tasks, jobs'[i].pc \in {"number", "insert", "steps"}
              PROVE  i \in DOMAIN events /\ jobs'[i].conv = events[i].conv
    BY DEF Hooked
<1>3. CASE i = j
    BY <1>1, <1>2, <1>3 DEF Hooked
<1>4. CASE i # j
    BY <1>1, <1>2, <1>4 DEF Hooked
<1>. QED BY <1>3, <1>4

\* A call that begins, with a plan made from the issue there is or with an insertion.
LEMMA PlanBegins ==
    ASSUME DeskTyped, TimelineInv, NEW j \in Callers, jobs[j].pc \in {"read", "done"},
           NEW c \in Convs, NEW plan,
           \/ plan = <<>>
           \/ issues[c].no # 0 /\ Tidy(plan, Face(issues[c])),
           \/ jobs' = [jobs EXCEPT ![j] = Planned(c, plan)]
           \/ jobs' = [jobs EXCEPT ![j] = Begun(c, "number", <<>>)],
           UNCHANGED <<events, issues, timeline, stale, cut>>,
           \/ j \notin Tasks
           \/ j \in DOMAIN events /\ c = events[j].conv
    PROVE  TimelineInv'
<1>1. <<>> \in Seq(Step) /\ plan \in Seq(Step)
    <2>1. <<>> \in Seq(Step)
        OBVIOUS
    <2>. QED BY <2>1 DEF Tidy, TidyTo
<1>2. ASSUME NEW pc \in {"number", "steps", "done"}, NEW p \in Seq(Step),
             jobs' = [jobs EXCEPT ![j] = Begun(c, pc, p)],
             IF pc = "steps" THEN p # <<>> /\ p = plan ELSE p = <<>>
      PROVE  TimelineInv'
    <2>. DEFINE r == Begun(c, pc, p)
    <2>1. r \in Job /\ r.pc = pc /\ r.conv = c /\ r.plan = p
        BY BegunIsJob
    <2>2. jobs' = [jobs EXCEPT ![j] = r]
        BY <1>2
    <2>. HIDE DEF r
    <2>3. Hooked'
        BY <2>1, <2>2, HookedOn DEF TimelineInv
    <2>4. pc = "steps" => /\ issues[c].no # 0 /\ Opens(p)
                          /\ AccountsJob(r, Face(issues[c]))
        <3>. SUFFICES ASSUME pc = "steps"
                      PROVE  issues[c].no # 0 /\ Opens(p) /\ AccountsJob(r, Face(issues[c]))
            OBVIOUS
        <3>1. issues[c].no # 0 /\ Tidy(p, Face(issues[c]))
            BY <1>2
        <3>2. Opens(p) /\ Accounts(p, Face(issues[c]))
            BY <3>1 DEF Tidy, TidyTo, Accounts
        <3>3. Face(issues[c]) \in Faces
            BY HasIssue, FaceIsFace
        <3>. QED BY <2>1, <3>1, <3>2, <3>3 DEF AccountsJob
    <2>. QED BY <1>2, <2>1, <2>2, <2>3, <2>4, CallOn
<1>3. CASE jobs' = [jobs EXCEPT ![j] = Planned(c, plan)]
    <2>. DEFINE pc == IF plan = <<>> THEN "done" ELSE "steps"
    <2>1. pc \in {"number", "steps", "done"}
          /\ IF pc = "steps" THEN plan # <<>> /\ plan = plan ELSE plan = <<>>
        OBVIOUS
    <2>2. jobs' = [jobs EXCEPT ![j] = Begun(c, pc, plan)]
        BY <1>3 DEF Planned
    <2>. HIDE DEF pc
    <2>. QED BY <1>1, <1>2, <2>1, <2>2
<1>4. CASE jobs' = [jobs EXCEPT ![j] = Begun(c, "number", <<>>)]
    BY <1>1, <1>2, <1>4
<1>. QED BY <1>3, <1>4

LEMMA ReadIssueTimeline ==
    ASSUME BusTypeOK, DeskTyped, TimelineInv, NEW i \in Tasks, ReadIssue(i)
    PROVE  TimelineInv'
<1>. DEFINE c == events[i].conv
<1>1. i \in DOMAIN events /\ i \in Callers /\ jobs[i].pc = "read"
      /\ UNCHANGED <<events, issues, timeline, stale, cut>>
    BY DEF ReadIssue, Callers, bus
<1>2. c \in Convs /\ events[i] \in Event
    BY <1>1, EventIsEvent
<1>3. PICK answered \in BOOLEAN :
          jobs' = [jobs EXCEPT ![i] =
                   IF Has(c) THEN Planned(c, Plan(events[i], issues[c], answered))
                   ELSE IF events[i].kind = "escalated" THEN Begun(c, "number", <<>>)
                   ELSE Planned(c, <<>>)]
    BY DEF ReadIssue
<1>4. CASE Has(c)
    <2>. DEFINE plan == Plan(events[i], issues[c], answered)
    <2>1. Tidy(plan, Face(issues[c])) /\ issues[c].no # 0
        BY <1>2, <1>4, HasIssue, PlanTidy
    <2>2. jobs' = [jobs EXCEPT ![i] = Planned(c, plan)]
        BY <1>3, <1>4
    <2>. HIDE DEF plan
    <2>. QED BY <1>1, <1>2, <2>1, <2>2, PlanBegins
<1>5. CASE ~Has(c)
    <2>1. jobs' = [jobs EXCEPT ![i] = Planned(c, <<>>)]
          \/ jobs' = [jobs EXCEPT ![i] = Begun(c, "number", <<>>)]
        BY <1>3, <1>5
    <2>. QED BY <1>1, <1>2, <2>1, PlanBegins
<1>. QED BY <1>4, <1>5

LEMMA AskTimeline ==
    ASSUME BusTypeOK, DeskTyped, TimelineInv, NEW a \in Agents, NEW c \in Convs,
           \/ \E to \in Statuses : AskTransition(a, c, to)
           \/ \E target \in Agents : AskAssign(a, c, target)
           \/ AskPriority(a, c) \/ AskFile(a, c)
    PROVE  TimelineInv'
<1>1. /\ a \in Callers /\ a \notin Tasks /\ issues[c] \in Issue
      /\ jobs[a].pc \in {"read", "done"}
      /\ UNCHANGED <<events, issues, timeline, stale, cut>>
    BY HasIssue, DeskAssumption
       DEF Callers, AskTransition, AskAssign, AskPriority, AskFile, Ask
<1>2. ASSUME NEW to \in Statuses, AskTransition(a, c, to) PROVE TimelineInv'
    <2>1. issues[c].no # 0
        BY <1>2, HasIssue DEF AskTransition
    <2>2. Tidy(Transition(issues[c], to), Face(issues[c]))
        BY <1>1, <2>1, TransitionTidy
    <2>3. jobs' = [jobs EXCEPT ![a] = Planned(c, Transition(issues[c], to))]
        BY <1>2 DEF AskTransition
    <2>. QED BY <1>1, <2>1, <2>2, <2>3, PlanBegins
<1>3. ASSUME NEW target \in Agents, AskAssign(a, c, target) PROVE TimelineInv'
    <2>1. issues[c].no # 0
        BY <1>3, HasIssue DEF AskAssign
    <2>2. Tidy(OnAssign(issues[c], target), Face(issues[c]))
        BY <1>1, <2>1, OnAssignTidy
    <2>3. jobs' = [jobs EXCEPT ![a] = Planned(c, OnAssign(issues[c], target))]
        BY <1>3 DEF AskAssign
    <2>. QED BY <1>1, <2>1, <2>2, <2>3, PlanBegins
<1>4. CASE AskPriority(a, c)
    <2>. DEFINE plan == << Save(issues[c]), Record(Note("memo")) >>
    <2>1. issues[c].no # 0
        BY <1>4, HasIssue DEF AskPriority
    <2>2. Tidy(plan, Face(issues[c]))
        BY <1>1, NoteTidy, FaceIsFace DEF Tidy
    <2>3. jobs' = [jobs EXCEPT ![a] = Planned(c, plan)]
        BY <1>4 DEF AskPriority
    <2>. HIDE DEF plan
    <2>. QED BY <1>1, <2>1, <2>2, <2>3, PlanBegins
<1>5. CASE AskFile(a, c)
    <2>. DEFINE plan == << Record(Note("memo")) >>
    <2>1. CASE Has(c)
        <3>1. issues[c].no # 0
            BY <2>1, HasIssue
        <3>2. Tidy(plan, Face(issues[c]))
            BY <1>1, NotesAreQuiet, QuietTidy, FaceIsFace
        <3>3. jobs' = [jobs EXCEPT ![a] = Planned(c, plan)]
            BY <1>5, <2>1 DEF AskFile
        <3>. HIDE DEF plan
        <3>. QED BY <1>1, <3>1, <3>2, <3>3, PlanBegins
    <2>2. CASE ~Has(c)
        <3>1. jobs' = [jobs EXCEPT ![a] = Begun(c, "number", <<>>)]
            BY <1>5, <2>2 DEF AskFile
        <3>2. <<>> = <<>>
            OBVIOUS
        <3>. QED BY <1>1, <3>1, <3>2, PlanBegins
    <2>. QED BY <2>1, <2>2
<1>. QED BY <1>1, <1>2, <1>3, <1>4, <1>5

LEMMA NumbersTimeline ==
    ASSUME DeskTyped, TimelineInv, NEW j \in Callers, TakeNumber(j) \/ NumberTaken(j), DeskTyped'
    PROVE  TimelineInv'
<1>. DEFINE r == jobs'[j]
<1>1. r \in Job /\ jobs' \in [Callers -> Job] /\ jobs \in [Callers -> Job]
    BY DEF DeskTyped, DeskTypeOK
<1>2. /\ jobs[j].pc \in {"number", "insert"} /\ r.pc # "steps" /\ r.plan = jobs[j].plan
      /\ r.conv = jobs[j].conv
      /\ \A k \in Callers \ {j} : jobs'[k] = jobs[k]
      /\ UNCHANGED <<issues, timeline, stale>> /\ cut \subseteq cut' /\ UNCHANGED events
    <2>1. CASE TakeNumber(j)
        BY <1>1, <2>1 DEF TakeNumber, Job, bus
    <2>2. CASE NumberTaken(j)
        BY <1>1, <2>2 DEF NumberTaken, Job, bus
    <2>. QED BY <2>1, <2>2
<1>3. jobs' = [jobs EXCEPT ![j] = r]
    BY <1>1, <1>2
<1>. HIDE DEF r
<1>4. Hooked'
    BY <1>2, <1>3, HookedOn DEF TimelineInv
<1>5. r.plan = <<>>
    BY <1>2 DEF TimelineInv, Filed
<1>. QED BY <1>1, <1>2, <1>3, <1>4, <1>5, CallOn

\* The call that records an issue as created, of a face the issue may have.
LEMMA CreatedAccounts ==
    ASSUME NEW job, job.plan = << Record(Created) >>, NEW face \in Faces
    PROVE  AccountsJob(job, face)
<1>1. Record(Created) \in Step /\ Record(Created).do # "save"
    BY StepKinds, NotesAreEntries DEF Record
<1>2. AccountsTo(<< Record(Created) >>, face, face)
    BY <1>1, QuietAccounts
<1>. QED BY <1>2 DEF AccountsJob, Accounts

LEMMA FindIssueTimeline ==
    ASSUME DeskTyped, TimelineInv, NEW j \in Callers, FindIssue(j)
    PROVE  TimelineInv'
<1>. DEFINE p == << Record(Created) >>
            r == [jobs[j] EXCEPT !.pc = "steps", !.plan = p]
<1>1. /\ r \in Job /\ r.pc = "steps" /\ r.plan # <<>> /\ r.conv = jobs[j].conv
      /\ jobs[j].conv \in Convs
    BY CreatedPlan, JobIsJob
<1>2. r.plan = p
    BY JobIsJob DEF Job
<1>3. /\ jobs' = [jobs EXCEPT ![j] = r] /\ jobs[j].pc = "insert"
      /\ UNCHANGED <<events, issues, timeline, stale>> /\ cut' = cut \cup {jobs[j].conv}
      /\ issues[jobs[j].conv].no # 0
    BY JobIsJob DEF FindIssue, DeskTyped, DeskTypeOK, Has, bus
<1>4. Face(issues[r.conv]) \in Faces
    BY <1>1, HasIssue, FaceIsFace
<1>5. AccountsJob(r, Face(issues[r.conv]))
    BY <1>2, <1>4, CreatedAccounts
<1>. HIDE DEF p, r
<1>6. Hooked'
    BY <1>1, <1>3, HookedOn DEF TimelineInv
<1>. QED BY <1>1, <1>3, <1>5, <1>6, CallOn

\* The next step of a plan, and the accounts of what is left of it.
LEMMA ShiftedTimeline ==
    ASSUME DeskTyped, TimelineInv, NEW j \in Callers, jobs[j].pc = "steps"
    PROVE  LET rest == Tail(jobs[j].plan)
               first == Head(jobs[j].plan)
               r == [jobs[j] EXCEPT !.plan = rest, !.pc = IF rest = <<>> THEN "done" ELSE "steps"]
               face == Face(issues[jobs[j].conv])
           IN  /\ Shift(j) = [jobs EXCEPT ![j] = r]
               /\ r \in Job /\ r.conv = jobs[j].conv /\ r.fresh = jobs[j].fresh /\ r.plan = rest
               /\ IF r.pc = "steps" THEN r.plan # <<>> ELSE r.plan = <<>>
               /\ first.do # "save" => AccountsJob(r, face) /\ Opens(rest)
               /\ first.do = "save"
                     => /\ \A now : (r.fresh => now = Face(first.copy)) => AccountsJob(r, now)
                        /\ r.pc = "steps" /\ Head(rest).do = "record"
                        /\ r.fresh => Explains(Head(rest).entry, face, Face(first.copy))
<1>. DEFINE plan == jobs[j].plan
            first == Head(plan)
            rest == Tail(plan)
            pc == IF rest = <<>> THEN "done" ELSE "steps"
            r == [jobs[j] EXCEPT !.plan = rest, !.pc = pc]
            face == Face(issues[jobs[j].conv])
<1>1. plan \in Seq(Step) /\ plan # <<>> /\ jobs[j] \in Job /\ first \in Step
    BY JobIsJob
<1>2. PICK was \in Faces : Accounts(plan, was) /\ (jobs[j].fresh => was = face)
    BY DEF TimelineInv, AccountsInv, AccountsJob
<1>3. /\ first.do # "save" => Accounts(rest, was)
      /\ first.do = "save"
            => /\ Accounts(rest, Face(first.copy)) /\ 1 \in 1..Len(rest) /\ rest[1].do = "record"
               /\ Explains(rest[1].entry, was, Face(first.copy))
    BY <1>1, <1>2, AccountsTail
<1>4. Shift(j) = [jobs EXCEPT ![j] = r] /\ r \in Job /\ r.conv = jobs[j].conv
    BY Shifted
<1>5. first.do # "save" => Opens(rest)
    <2>1. PICK h : Recounts(h, plan)
        BY <1>2 DEF Accounts, AccountsTo
    <2>2. Len(rest) = Len(plan) - 1 /\ Len(plan) \in Nat /\ first = plan[1]
          /\ (1 \in 1..Len(rest) => rest[1] = plan[2])
        BY <1>1
    <2>. HIDE DEF plan, rest, first
    <2>3. 1 \in 1..Len(rest) => 2 \in 1..Len(plan) /\ 1 \in 1..Len(plan)
        BY <2>2
    <2>4. 2 - 1 = 1
        OBVIOUS
    <2>5. 1 \in 1..Len(rest) /\ IsLoud(plan[2]) => plan[1].do = "save"
        BY <2>1, <2>3, <2>4 DEF Recounts
    <2>. QED BY <2>2, <2>5 DEF Opens
<1>6. 1 \in 1..Len(rest) => rest # <<>> /\ Head(rest) = rest[1]
    <2>1. rest \in Seq(Step)
        BY <1>1
    <2>. HIDE DEF rest
    <2>2. CASE rest = <<>>
        <3>1. Len(<<>>) = 0
            OBVIOUS
        <3>. QED BY <2>2, <3>1
    <2>3. CASE rest # <<>>
        BY <2>1, <2>3
    <2>. QED BY <2>2, <2>3
<1>7. first.do = "save" => Face(first.copy) \in Faces
    <2>1. first.do = "save" => first.copy \in Issue
        BY <1>1 DEF Step
    <2>. QED BY <2>1, FaceIsFace
<1>. HIDE DEF plan, rest, pc, face, first
<1>8. r.plan = rest /\ r.pc = pc /\ r.fresh = jobs[j].fresh
    BY <1>1 DEF Job
<1>. HIDE DEF r
<1>9. first.do # "save" => AccountsJob(r, face)
    BY <1>2, <1>3, <1>8 DEF AccountsJob
<1>10. first.do = "save" => \A now : (r.fresh => now = Face(first.copy)) => AccountsJob(r, now)
    BY <1>3, <1>7, <1>8 DEF AccountsJob
<1>11. first.do = "save" => /\ r.pc = "steps" /\ Head(rest).do = "record"
                            /\ r.fresh => Explains(Head(rest).entry, face, Face(first.copy))
    BY <1>2, <1>3, <1>6, <1>8 DEF pc
<1>12. IF r.pc = "steps" THEN r.plan # <<>> ELSE r.plan = <<>>
    BY <1>8 DEF pc
<1>. QED BY <1>4, <1>5, <1>8, <1>9, <1>10, <1>11, <1>12 DEF r, plan, rest, pc, face, first

LEMMA OtherStepTimeline ==
    ASSUME DeskTyped, TimelineInv, NEW j \in Callers, PointAgent(j) \/ PublishResolved(j)
    PROVE  TimelineInv'
<1>1. /\ jobs[j].pc = "steps" /\ Head(jobs[j].plan).do \in {"point", "publish"} /\ jobs' = Shift(j)
      /\ UNCHANGED <<events, issues, timeline, stale, cut>>
    BY DEF PointAgent, PublishResolved, Turn, bus
<1>. DEFINE rest == Tail(jobs[j].plan)
            r == [jobs[j] EXCEPT !.plan = rest, !.pc = IF rest = <<>> THEN "done" ELSE "steps"]
<1>2. /\ Shift(j) = [jobs EXCEPT ![j] = r] /\ r \in Job /\ r.conv = jobs[j].conv
      /\ IF r.pc = "steps" THEN r.plan # <<>> ELSE r.plan = <<>>
      /\ AccountsJob(r, Face(issues[jobs[j].conv])) /\ Opens(r.plan)
    BY <1>1, ShiftedTimeline
<1>. HIDE DEF rest, r
<1>3. Hooked'
    BY <1>1, <1>2, HookedOn DEF TimelineInv
<1>4. issues[jobs[j].conv].no # 0
    BY <1>1 DEF TimelineInv, Filed
<1>. QED BY <1>1, <1>2, <1>3, <1>4, CallOn

\* A call at work is on the conversation it counts for when it is cut off.
LEMMA HookOrRequest ==
    ASSUME BusTypeOK, Hooked, NEW j \in Callers, jobs[j].pc = "steps"
    PROVE  ConvOf(j) = jobs[j].conv
<1>1. j \in DOMAIN events => j \in Tasks
    BY EventIsEvent
<1>. QED BY <1>1 DEF Hooked, ConvOf

LEMMA JobFailsTimeline ==
    ASSUME BusTypeOK, DeskTyped, TimelineInv, NEW j \in Callers, JobFails(j)
    PROVE  TimelineInv'
<1>. DEFINE r == [jobs[j] EXCEPT !.pc = "done", !.plan = <<>>]
<1>1. r \in Job /\ r.pc = "done" /\ r.plan = <<>>
    BY CutJob, JobIsJob DEF Job
<1>2. jobs' = [jobs EXCEPT ![j] = r] /\ cut' = cut \cup {ConvOf(j)}
      /\ UNCHANGED <<events, issues, timeline, stale>>
    BY DEF JobFails
<1>. HIDE DEF r
<1>3. jobs[j].pc = "steps" => ConvOf(j) = jobs[j].conv
    BY HookOrRequest DEF TimelineInv
<1>4. Hooked'
    BY <1>1, <1>2, HookedOn DEF TimelineInv
<1>. QED BY <1>1, <1>2, <1>3, <1>4, CallOn

\* A restart cuts off whoever works on an issue.
LEMMA DeskRestartTimeline ==
    ASSUME BusTypeOK, DeskTyped, TimelineInv, DeskRestart, UNCHANGED events
    PROVE  TimelineInv'
<1>1. ASSUME NEW j \in Callers
      PROVE  /\ jobs'[j].plan = <<>> /\ jobs'[j].pc \notin {"number", "insert", "steps"}
             /\ jobs[j].pc = "steps" => jobs[j].conv \in cut'
    <2>1. jobs'[j] = IF Busy(j) THEN [jobs[j] EXCEPT !.pc = "done", !.plan = <<>>] ELSE jobs[j]
        BY DEF DeskRestart
    <2>2. jobs[j] \in Job
        BY JobIsJob
    <2>3. CASE Busy(j)
        <3>1. jobs'[j].plan = <<>> /\ jobs'[j].pc = "done"
            BY <2>1, <2>2, <2>3 DEF Job
        <3>2. ConvOf(j) \in cut'
            BY <2>3 DEF DeskRestart
        <3>3. jobs[j].pc = "steps" => ConvOf(j) = jobs[j].conv
            BY HookOrRequest DEF TimelineInv
        <3>. QED BY <3>1, <3>2, <3>3
    <2>4. CASE ~Busy(j)
        <3>1. jobs[j].pc \notin {"number", "insert", "steps"} /\ jobs'[j] = jobs[j]
            BY <2>1, <2>4 DEF Busy
        <3>2. jobs[j].plan = <<>>
            BY <3>1 DEF TimelineInv, Filed
        <3>. QED BY <3>1, <3>2
    <2>. QED BY <2>3, <2>4
<1>2. UNCHANGED <<issues, timeline, stale>> /\ cut \subseteq cut'
    BY DEF DeskRestart
<1>3. Filed' /\ Hooked' /\ AccountsInv'
    <2>1. Tasks \subseteq Callers
        BY DEF Callers
    <2>. QED BY <1>1, <1>2, <2>1 DEF TimelineInv, Filed, Hooked, AccountsInv, AccountsJob
<1>4. BalanceInv'
    <2>. SUFFICES ASSUME NEW c \in Convs \ (stale' \cup cut'), Has(c)' PROVE Balances(c)'
        BY DEF BalanceInv
    <2>1. Balances(c)
        BY <1>2 DEF TimelineInv, BalanceInv, Has
    <2>2. ASSUME NEW S \in SUBSET LoudEntries, NEW k \in Callers
          PROVE  Unsaid(k, c, S)' = Unsaid(k, c, S)
        <3>1. Unsaid(k, c, S) = {}
            BY <1>1, CallOwes DEF TimelineInv
        <3>2. Ahead(<<>>) = {}
            BY DEF Ahead
        <3>3. Unsaid(k, c, S)' = {}
            BY <1>1, <3>2 DEF Unsaid, OwedBy
        <3>. QED BY <3>1, <3>3
    <2>. QED BY <1>2, <2>1, <2>2, BalanceStill
<1>. QED BY <1>3, <1>4 DEF TimelineInv

\* What the insertion of an issue will say of it.
LEMMA CreatedMoves ==
    /\ Created \in Entry
    /\ \A phase \in {"open"} \cup Settled :
           One(Created, EntersOf(phase)) - One(Created, LeavesOf(phase))
               = IF Phase("received") = phase THEN 1 ELSE 0
    /\ One(Created, Reopenings) = 0
<1>1. Created \in Entry
    BY NotesAreEntries
<1>2. Created.to = "received" /\ Created.from = "none" /\ Created.type = "created"
    BY DEF Created
<1>3. \A phase : /\ Created \in EntersOf(phase) <=> Phase("received") = phase
                 /\ Created \notin LeavesOf(phase)
    BY <1>1, <1>2 DEF EntersOf, LeavesOf
<1>4. Created \notin Reopenings
    BY <1>2 DEF Reopenings
<1>. QED BY <1>1, <1>3, <1>4 DEF One

\* The rows of the other conversations, when one call moves its own.
LEMMA OthersBalance ==
    ASSUME NEW j \in Callers, NEW c, NEW d, d # c, Balances(d),
           issues'[d] = issues[d], timeline'[d] = timeline[d],
           jobs[j].conv = c, jobs'[j].conv = c,
           \A k \in Callers \ {j} : jobs'[k].conv = jobs[k].conv /\ jobs'[k].plan = jobs[k].plan
    PROVE  Balances(d)'
<1>1. ASSUME NEW S \in SUBSET LoudEntries, NEW k \in Callers
      PROVE  Unsaid(k, d, S)' = Unsaid(k, d, S)
    BY DEF Unsaid, OwedBy
<1>. QED BY <1>1, BalanceStill

LEMMA InsertIssueTimeline ==
    ASSUME DeskTyped, TimelineInv, NEW j \in Callers, InsertIssue(j)
    PROVE  TimelineInv'
<1>0. PICK c \in Convs : jobs[j].conv = c
    BY JobIsJob
<1>. DEFINE p == << Record(Created) >>
            r == [jobs[j] EXCEPT !.pc = "steps", !.plan = p]
            issue == [NoIssue EXCEPT !.no = jobs[j].no]
<1>1. /\ r \in Job /\ r.pc = "steps" /\ r.plan # <<>> /\ r.conv = c
    BY <1>0, CreatedPlan
<1>2. r.plan = p
    BY JobIsJob DEF Job
<1>3. issue.status = "received" /\ issue.reopens = 0 /\ issue.no = jobs[j].no
    BY DEF NoIssue
<1>4. p # <<>> /\ Head(p).do = "record" /\ Head(p).entry = Created
    BY DEF Record
<1>5. /\ jobs' = [jobs EXCEPT ![j] = r] /\ jobs[j].pc = "insert"
      /\ UNCHANGED <<events, timeline, stale, cut>>
      /\ issues[c].no = 0 /\ jobs[j].no \notin Numbers
      /\ issues' = [issues EXCEPT ![c] = issue] /\ issues \in [Convs -> Issue]
    BY <1>0, HasIssue DEF InsertIssue, DeskTyped, DeskTypeOK, Has, bus
<1>6. jobs[j].no # 0
    BY <1>1, <1>5 DEF Numbers
<1>7. issue \in Issue
    BY JobIsJob, NoIssueIsIssue DEF Issue
<1>8. Face(issue) \in Faces
    BY <1>7, FaceIsFace
<1>9. \A now \in Faces : AccountsJob(r, now)
    BY <1>2, CreatedAccounts
<1>. HIDE DEF p, r, issue
<1>10. issues'[c] = issue /\ \A d \in Convs : d # c => issues'[d] = issues[d]
    BY <1>1, <1>5
<1>11. \A k \in Callers : jobs'[k] = IF k = j THEN r ELSE jobs[k]
    BY <1>5 DEF DeskTyped, DeskTypeOK
<1>12. \A k \in Callers : jobs[k].conv = c => jobs[k].pc # "steps"
    BY <1>5 DEF TimelineInv, Filed
<1>13. Filed'
    <2>1. \A d \in Convs : issues'[d].no = 0 => timeline'[d] = <<>>
        BY <1>3, <1>5, <1>6, <1>10 DEF TimelineInv, Filed
    <2>2. ASSUME NEW k \in Callers
          PROVE  IF jobs'[k].pc = "steps" THEN issues'[jobs'[k].conv].no # 0 ELSE jobs'[k].plan = <<>>
        <3>1. CASE k = j
            BY <1>1, <1>3, <1>6, <1>10, <1>11, <3>1
        <3>2. CASE k # j
            <4>1. jobs'[k] = jobs[k] /\ jobs[k].conv \in Convs
                BY <1>11, <3>2, JobIsJob
            <4>. QED BY <4>1, <1>10, <1>12 DEF TimelineInv, Filed
        <3>. QED BY <3>1, <3>2
    <2>. QED BY <2>1, <2>2 DEF Filed
<1>14. Hooked'
    BY <1>0, <1>1, <1>5, HookedOn DEF TimelineInv
<1>15. AccountsInv'
    <2>. SUFFICES ASSUME NEW k \in Callers
                  PROVE  AccountsJob(jobs'[k], Face(issues'[jobs'[k].conv]))
        BY DEF AccountsInv, Face
    <2>1. CASE k = j
        BY <1>1, <1>8, <1>9, <1>10, <1>11, <2>1
    <2>2. CASE k # j
        <3>1. jobs'[k] = jobs[k] /\ jobs[k].conv \in Convs
            BY <1>11, <2>2, JobIsJob
        <3>2. CASE jobs[k].pc = "steps"
            BY <1>10, <1>12, <3>1, <3>2 DEF TimelineInv, AccountsInv
        <3>3. CASE jobs[k].pc # "steps"
            BY <3>1, <3>3 DEF AccountsJob
        <3>. QED BY <3>2, <3>3
    <2>. QED BY <2>1, <2>2
<1>16. ASSUME NEW S \in SUBSET LoudEntries
       PROVE  IsFiniteSet(Arrears(c, S)') /\ Tally(c, S)' = One(Created, S)
    <2>1. \A k \in Callers : Unsaid(k, c, S) = {}
        BY <1>1, <1>5, CallOwes DEF TimelineInv
    <2>2. Arrears(c, S) = {}
        BY <2>1 DEF Arrears
    <2>3. Unsaid(j, c, S)' = IF Created \in S THEN {1} ELSE {}
        <3>1. Unsaid(j, c, S)' = OwedBy(r, c, S)
            BY <1>11 DEF Unsaid
        <3>2. AccountsJob(r, Face(issue))
            BY <1>8, <1>9
        <3>3. OwedBy(r, c, S) = IF /\ r.conv = c /\ r.pc = "steps"
                                   /\ Head(r.plan).do = "record" /\ Head(r.plan).entry \in S
                                THEN {1} ELSE {}
            BY <1>1, <3>2, JobOwes
        <3>. QED BY <1>1, <1>2, <1>4, <3>1, <3>3
    <2>4. \A k \in Callers \ {j} : Unsaid(k, c, S)' = Unsaid(k, c, S)
        BY <1>11 DEF Unsaid
    <2>5. IsFiniteSet({}) /\ Cardinality({}) = 0
        BY FS_EmptySet
    <2>6. IsFiniteSet(Arrears(c, S)') /\ Cardinality(Arrears(c, S)') = 0 + One(Created, S)
        BY <2>1, <2>2, <2>3, <2>4, <2>5, ArrearsGrow
    <2>7. Said(c, S)' = {}
        <3>1. timeline'[c] = <<>>
            BY <1>1, <1>5 DEF TimelineInv, Filed
        <3>. QED BY <3>1 DEF Said
    <2>. QED BY <2>5, <2>6, <2>7 DEF Tally, One
<1>17. BalanceInv'
    <2>. SUFFICES ASSUME NEW d \in Convs \ (stale' \cup cut'), Has(d)' PROVE Balances(d)'
        BY DEF BalanceInv
    <2>1. CASE d = c
        <3>1. /\ \A phase \in {"open"} \cup Settled :
                     /\ Tally(c, EntersOf(phase))' = One(Created, EntersOf(phase))
                     /\ Tally(c, LeavesOf(phase))' = One(Created, LeavesOf(phase))
              /\ Tally(c, Reopenings)' = One(Created, Reopenings)
              /\ IsFiniteSet(Arrears(c, LoudEntries)')
            BY <1>16, CountsAreLoud
        <3>. QED BY <1>3, <1>10, <2>1, <3>1, CreatedMoves DEF Balances
    <2>2. CASE d # c
        <3>1. Balances(d)
            BY <1>5, <1>10, <2>2 DEF TimelineInv, BalanceInv, Has
        <3>. QED BY <1>0, <1>1, <1>5, <1>10, <1>11, <2>2, <3>1, OthersBalance
    <2>. QED BY <2>1, <2>2
<1>. QED BY <1>13, <1>14, <1>15, <1>17 DEF TimelineInv

LEMMA RecordEntryTimeline ==
    ASSUME DeskTyped, TimelineInv, NEW j \in Callers, RecordEntry(j)
    PROVE  TimelineInv'
<1>a. PICK c \in Convs : jobs[j].conv = c
    BY JobIsJob
<1>0. PICK e : jobs[j].conv = c /\ Head(jobs[j].plan).entry = e
    BY <1>a
<1>. DEFINE rest == Tail(jobs[j].plan)
            r == [jobs[j] EXCEPT !.plan = rest, !.pc = IF rest = <<>> THEN "done" ELSE "steps"]
<1>1. /\ jobs[j].pc = "steps" /\ Head(jobs[j].plan).do = "record" /\ jobs' = Shift(j)
      /\ UNCHANGED <<events, issues, stale, cut>>
      /\ timeline' = [timeline EXCEPT ![c] = Append(timeline[c], e)]
      /\ timeline \in [Convs -> Seq(Entry)]
    BY <1>0 DEF RecordEntry, Turn, bus, DeskTyped, DeskTypeOK
<1>2. /\ Shift(j) = [jobs EXCEPT ![j] = r] /\ r \in Job /\ r.conv = c
      /\ IF r.pc = "steps" THEN r.plan # <<>> ELSE r.plan = <<>>
      /\ AccountsJob(r, Face(issues[c])) /\ Opens(r.plan)
    BY <1>0, <1>1, ShiftedTimeline
<1>3. e \in Entry
    <2>1. Head(jobs[j].plan) \in Step
        BY <1>1, Shifted
    <2>. QED BY <1>0, <1>1, <2>1 DEF Step
<1>. HIDE DEF rest, r
<1>4. /\ timeline'[c] = Append(timeline[c], e)
      /\ \A d \in Convs : d # c => timeline'[d] = timeline[d]
    BY <1>1
<1>5. \A k \in Callers : jobs'[k] = IF k = j THEN r ELSE jobs[k]
    BY <1>1, <1>2 DEF DeskTyped, DeskTypeOK
<1>6. issues[c].no # 0
    BY <1>0, <1>1 DEF TimelineInv, Filed
<1>7. Filed'
    BY <1>1, <1>2, <1>4, <1>5, <1>6 DEF TimelineInv, Filed
<1>8. Hooked'
    BY <1>0, <1>1, <1>2, HookedOn DEF TimelineInv
<1>9. AccountsInv'
    <2>. SUFFICES ASSUME NEW k \in Callers
                  PROVE  AccountsJob(jobs'[k], Face(issues[jobs'[k].conv]))
        BY <1>1 DEF AccountsInv
    <2>1. CASE k = j
        BY <1>2, <1>5, <2>1
    <2>2. CASE k # j
        BY <1>5, <2>2 DEF TimelineInv, AccountsInv
    <2>. QED BY <2>1, <2>2
<1>10. ASSUME NEW S \in SUBSET LoudEntries, IsFiniteSet(Arrears(c, LoudEntries))
       PROVE  IsFiniteSet(Arrears(c, S)') /\ Tally(c, S)' = Tally(c, S)
    <2>1. Unsaid(j, c, S) = IF e \in S THEN {1} ELSE {}
        BY <1>0, <1>1, CallOwes DEF TimelineInv
    <2>2. Unsaid(j, c, S)' = {}
        <3>1. OwedBy(r, c, S) = {}
            BY <1>2, OpensOwes
        <3>. QED BY <1>5, <3>1 DEF Unsaid
    <2>3. \A k \in Callers \ {j} : Unsaid(k, c, S)' = Unsaid(k, c, S)
        BY <1>5 DEF Unsaid
    <2>4. IsFiniteSet(Arrears(c, S)) /\ Cardinality(Arrears(c, S)) \in Nat
        BY <1>10, ArrearsFinite
    <2>5. /\ IsFiniteSet(Arrears(c, S)')
          /\ Cardinality(Arrears(c, S)') = Cardinality(Arrears(c, S)) - One(e, S)
        BY <2>1, <2>2, <2>3, <2>4, ArrearsShrink
    <2>6. Cardinality(Said(c, S)') = Cardinality(Said(c, S)) + One(e, S)
        BY <1>1, <1>3, <1>4, SaidGrows
    <2>7. Cardinality(Said(c, S)) \in Nat
        BY <1>1, SaidFinite
    <2>. QED BY <2>4, <2>5, <2>6, <2>7 DEF Tally, One
<1>11. BalanceInv'
    <2>. SUFFICES ASSUME NEW d \in Convs \ (stale' \cup cut'), Has(d)' PROVE Balances(d)'
        BY DEF BalanceInv
    <2>1. Balances(d)
        BY <1>1 DEF TimelineInv, BalanceInv, Has
    <2>2. CASE d = c
        <3>1. IsFiniteSet(Arrears(c, LoudEntries))
            BY <2>1, <2>2 DEF Balances
        <3>2. /\ \A phase \in {"open"} \cup Settled :
                     /\ Tally(c, EntersOf(phase))' = Tally(c, EntersOf(phase))
                     /\ Tally(c, LeavesOf(phase))' = Tally(c, LeavesOf(phase))
              /\ Tally(c, Reopenings)' = Tally(c, Reopenings)
              /\ IsFiniteSet(Arrears(c, LoudEntries)')
            BY <1>10, <3>1, CountsAreLoud
        <3>. QED BY <1>1, <2>1, <2>2, <3>2 DEF Balances
    <2>3. CASE d # c
        BY <1>0, <1>1, <1>2, <1>4, <1>5, <2>1, <2>3, OthersBalance
    <2>. QED BY <2>2, <2>3
<1>. QED BY <1>7, <1>8, <1>9, <1>11 DEF TimelineInv

\* A save by a fresh call: the call owes the entry that explains it, and every other
\* call on the issue is fresh no more.
LEMMA SaveCopyTimeline ==
    ASSUME DeskTyped, TimelineInv, NEW j \in Callers, SaveCopy(j)
    PROVE  TimelineInv'
<1>a. PICK c \in Convs : jobs[j].conv = c
    BY JobIsJob
<1>0. PICK copy, was, e :
          /\ jobs[j].conv = c /\ Head(jobs[j].plan).copy = copy /\ issues[c] = was
          /\ Head(Tail(jobs[j].plan)).entry = e
    BY <1>a
<1>. DEFINE rest == Tail(jobs[j].plan)
            r == [jobs[j] EXCEPT !.plan = rest, !.pc = IF rest = <<>> THEN "done" ELSE "steps"]
<1>1. /\ jobs[j].pc = "steps" /\ Head(jobs[j].plan).do = "save"
      /\ UNCHANGED <<events, timeline, cut>>
      /\ issues' = [issues EXCEPT ![c] = copy] /\ issues \in [Convs -> Issue]
      /\ stale' = IF jobs[j].fresh THEN stale ELSE stale \cup {c}
    BY <1>0 DEF SaveCopy, Turn, bus, DeskTyped, DeskTypeOK
<1>2. /\ Shift(j) = [jobs EXCEPT ![j] = r] /\ r \in Job /\ r.conv = c /\ r.fresh = jobs[j].fresh
      /\ r.plan = rest /\ r.pc = "steps" /\ r.plan # <<>>
      /\ \A now : (r.fresh => now = Face(copy)) => AccountsJob(r, now)
      /\ Head(rest).do = "record" /\ (r.fresh => Explains(e, Face(was), Face(copy)))
    BY <1>0, <1>1, ShiftedTimeline
<1>3. copy \in Issue /\ was \in Issue /\ copy.no # 0 /\ Face(copy) \in Faces /\ Face(was) \in Faces
    <2>1. copy \in Issue /\ copy.no # 0
        BY <1>0, <1>1, Shifted DEF Step
    <2>2. was \in Issue
        BY <1>0, HasIssue
    <2>. QED BY <2>1, <2>2, FaceIsFace
<1>4. e \in Entry
    <2>1. rest \in Seq(Step)
        BY <1>2 DEF Job
    <2>. HIDE DEF rest
    <2>2. Head(rest) \in Step
        BY <1>2, <2>1
    <2>3. Head(rest).entry = e
        BY <1>0 DEF rest
    <2>. QED BY <1>2, <2>2, <2>3 DEF Step
<1>5. Head(rest).entry = e
    BY <1>0
<1>. HIDE DEF rest, r
<1>6. \A k \in Callers : jobs'[k] = IF k # j /\ jobs[k].conv = c /\ jobs[k].pc = "steps"
                                     THEN [jobs[k] EXCEPT !.fresh = FALSE]
                                     ELSE IF k = j THEN r ELSE jobs[k]
    BY <1>0, <1>2 DEF SaveCopy, DeskTyped, DeskTypeOK
<1>7. ASSUME NEW k \in Callers \ {j}
      PROVE  /\ jobs'[k].plan = jobs[k].plan /\ jobs'[k].conv = jobs[k].conv
             /\ jobs'[k].pc = jobs[k].pc /\ jobs[k].conv \in Convs
             /\ jobs[k].conv # c => jobs'[k] = jobs[k]
             /\ jobs[k].conv = c /\ jobs[k].pc = "steps" => jobs'[k].fresh = FALSE
    BY <1>6, JobIsJob DEF Job
<1>8. issues'[c] = copy /\ \A d \in Convs : d # c => issues'[d] = issues[d]
    BY <1>1
<1>9. jobs'[j] = r
    BY <1>6
<1>10. Filed'
    <2>1. \A d \in Convs : issues'[d].no = 0 => timeline'[d] = <<>>
        BY <1>1, <1>3, <1>8 DEF TimelineInv, Filed
    <2>2. ASSUME NEW k \in Callers
          PROVE  IF jobs'[k].pc = "steps" THEN issues'[jobs'[k].conv].no # 0 ELSE jobs'[k].plan = <<>>
        <3>1. CASE k = j
            BY <1>2, <1>3, <1>8, <1>9, <3>1
        <3>2. CASE k # j
            <4>1. IF jobs[k].pc = "steps" THEN issues[jobs[k].conv].no # 0 ELSE jobs[k].plan = <<>>
                BY DEF TimelineInv, Filed
            <4>2. issues[jobs[k].conv].no # 0 => issues'[jobs[k].conv].no # 0
                BY <1>3, <1>7, <1>8, <3>2
            <4>. QED BY <1>7, <3>2, <4>1, <4>2
        <3>. QED BY <3>1, <3>2
    <2>. QED BY <2>1, <2>2 DEF Filed
<1>11. Hooked'
    <2>1. Tasks \subseteq Callers
        BY DEF Callers
    <2>. SUFFICES ASSUME NEW i \in Tasks, jobs'[i].pc \in {"number", "insert", "steps"}
                  PROVE  i \in DOMAIN events /\ jobs'[i].conv = events[i].conv
        BY <1>1 DEF Hooked
    <2>2. jobs'[i].conv = jobs[i].conv /\ jobs[i].pc \in {"number", "insert", "steps"}
        BY <1>0, <1>1, <1>2, <1>7, <1>9, <2>1
    <2>. QED BY <2>2 DEF TimelineInv, Hooked
<1>12. AccountsInv'
    <2>. SUFFICES ASSUME NEW k \in Callers
                  PROVE  AccountsJob(jobs'[k], Face(issues'[jobs'[k].conv]))
        BY DEF AccountsInv, Face
    <2>1. CASE k = j
        BY <1>2, <1>8, <1>9, <2>1
    <2>2. CASE k # j
        <3>1. AccountsJob(jobs[k], Face(issues[jobs[k].conv]))
            BY DEF TimelineInv, AccountsInv
        <3>2. CASE jobs[k].conv = c
            BY <1>7, <2>2, <3>1, <3>2 DEF AccountsJob
        <3>3. CASE jobs[k].conv # c
            BY <1>7, <1>8, <2>2, <3>1, <3>3
        <3>. QED BY <3>2, <3>3
    <2>. QED BY <2>1, <2>2
<1>13. ASSUME NEW S \in SUBSET LoudEntries, IsFiniteSet(Arrears(c, LoudEntries))
       PROVE  /\ IsFiniteSet(Arrears(c, S)') /\ Tally(c, S) \in Nat
              /\ Tally(c, S)' = Tally(c, S) + One(e, S)
    <2>1. Unsaid(j, c, S) = {}
        BY <1>1, CallOwes DEF TimelineInv
    <2>2. Unsaid(j, c, S)' = IF e \in S THEN {1} ELSE {}
        <3>1. Unsaid(j, c, S)' = OwedBy(r, c, S)
            BY <1>9 DEF Unsaid
        <3>2. AccountsJob(r, Face(copy))
            BY <1>2
        <3>3. OwedBy(r, c, S) = IF /\ r.conv = c /\ r.pc = "steps"
                                   /\ Head(r.plan).do = "record" /\ Head(r.plan).entry \in S
                                THEN {1} ELSE {}
            BY <1>2, <3>2, JobOwes
        <3>. QED BY <1>2, <1>5, <3>1, <3>3
    <2>3. \A k \in Callers \ {j} : Unsaid(k, c, S)' = Unsaid(k, c, S)
        BY <1>7 DEF Unsaid, OwedBy
    <2>4. IsFiniteSet(Arrears(c, S)) /\ Cardinality(Arrears(c, S)) \in Nat
        BY <1>13, ArrearsFinite
    <2>5. /\ IsFiniteSet(Arrears(c, S)')
          /\ Cardinality(Arrears(c, S)') = Cardinality(Arrears(c, S)) + One(e, S)
        BY <2>1, <2>2, <2>3, <2>4, ArrearsGrow
    <2>6. Said(c, S)' = Said(c, S)
        BY <1>1 DEF Said
    <2>7. Cardinality(Said(c, S)) \in Nat
        BY SaidFinite
    <2>. QED BY <2>4, <2>5, <2>6, <2>7 DEF Tally, One
<1>14. ASSUME jobs[j].fresh, Balances(c) PROVE Balances(c)'
    <2>1. IsFiniteSet(Arrears(c, LoudEntries))
        BY <1>14 DEF Balances
    <2>2. /\ \A phase \in {"open"} \cup Settled :
                 /\ Tally(c, EntersOf(phase))' = Tally(c, EntersOf(phase)) + One(e, EntersOf(phase))
                 /\ Tally(c, LeavesOf(phase))' = Tally(c, LeavesOf(phase)) + One(e, LeavesOf(phase))
                 /\ Tally(c, EntersOf(phase)) \in Nat /\ Tally(c, LeavesOf(phase)) \in Nat
          /\ Tally(c, Reopenings)' = Tally(c, Reopenings) + One(e, Reopenings)
          /\ IsFiniteSet(Arrears(c, LoudEntries)')
        BY <1>13, <2>1, CountsAreLoud
    <2>3. Explains(e, Face(was), Face(copy))
        BY <1>2, <1>14
    <2>4. /\ Face(was).status = was.status /\ Face(was).reopens = was.reopens
          /\ Face(copy).status = copy.status /\ Face(copy).reopens = copy.reopens
        BY <1>3, FaceIsFace
    <2>5. /\ \A phase \in {"open"} \cup Settled :
                 One(e, EntersOf(phase)) - One(e, LeavesOf(phase))
                     = (IF Phase(copy.status) = phase THEN 1 ELSE 0)
                       - (IF Phase(was.status) = phase THEN 1 ELSE 0)
          /\ copy.reopens = was.reopens + One(e, Reopenings)
        BY <1>3, <1>4, <2>3, <2>4, ExplainedMoves
    <2>6. ASSUME NEW phase \in {"open"} \cup Settled
          PROVE  Tally(c, EntersOf(phase))' - Tally(c, LeavesOf(phase))'
                     = IF Phase(copy.status) = phase THEN 1 ELSE 0
        <3>1. Tally(c, EntersOf(phase)) - Tally(c, LeavesOf(phase))
                  = IF Phase(was.status) = phase THEN 1 ELSE 0
            BY <1>0, <1>14 DEF Balances
        <3>2. \A S : One(e, S) \in {0, 1}
            BY DEF One
        <3>. QED BY <2>2, <2>5, <3>1, <3>2
    <2>7. Tally(c, Reopenings)' = copy.reopens
        BY <1>0, <1>14, <2>2, <2>5 DEF Balances
    <2>. QED BY <1>8, <2>2, <2>6, <2>7 DEF Balances
<1>15. BalanceInv'
    <2>. SUFFICES ASSUME NEW d \in Convs \ (stale' \cup cut'), Has(d)' PROVE Balances(d)'
        BY DEF BalanceInv
    <2>1. CASE d = c
        <3>1. jobs[j].fresh /\ c \in Convs \ (stale \cup cut)
            BY <1>1, <2>1
        <3>2. Has(c)
            BY <1>0, <1>1 DEF TimelineInv, Filed, Has
        <3>. QED BY <1>14, <2>1, <3>1, <3>2 DEF TimelineInv, BalanceInv
    <2>2. CASE d # c
        <3>1. Balances(d)
            BY <1>1, <1>8, <2>2 DEF TimelineInv, BalanceInv, Has
        <3>2. jobs[j].conv = c /\ jobs'[j].conv = c
            BY <1>0, <1>2, <1>9
        <3>3. issues'[d] = issues[d] /\ timeline'[d] = timeline[d]
            BY <1>1, <1>8, <2>2
        <3>4. \A k \in Callers \ {j} : jobs'[k].conv = jobs[k].conv /\ jobs'[k].plan = jobs[k].plan
            BY <1>7
        <3>. QED BY <2>2, <3>1, <3>2, <3>3, <3>4, OthersBalance
    <2>. QED BY <2>1, <2>2
<1>. QED BY <1>10, <1>11, <1>12, <1>15 DEF TimelineInv

LEMMA DeskNextTimeline ==
    ASSUME BusTypeOK, DeskTyped, TimelineInv, DeskNext, DeskTyped'
    PROVE  TimelineInv'
<1>1. ASSUME NEW i \in Tasks, ReadIssue(i) PROVE TimelineInv'
    BY <1>1, ReadIssueTimeline
<1>2. ASSUME NEW j \in Callers, JobStep(j) PROVE TimelineInv'
    BY <1>2, NumbersTimeline, InsertIssueTimeline, FindIssueTimeline, SaveCopyTimeline,
       RecordEntryTimeline, OtherStepTimeline DEF JobStep
<1>3. ASSUME NEW j \in Callers, JobFails(j) PROVE TimelineInv'
    BY <1>3, JobFailsTimeline
<1>4. ASSUME NEW a \in Agents, NEW c \in Convs,
             \/ \E to \in Statuses : AskTransition(a, c, to)
             \/ \E target \in Agents : AskAssign(a, c, target)
             \/ AskPriority(a, c) \/ AskFile(a, c)
      PROVE  TimelineInv'
    BY <1>4, AskTimeline
<1>. QED BY <1>1, <1>2, <1>3, <1>4 DEF DeskNext

\* What the others do adds calls of the hooks at most.
LEMMA TimelineRests ==
    ASSUME TimelineInv, UNCHANGED desk,
           \A i \in DOMAIN events : i \in DOMAIN events' /\ events'[i] = events[i]
    PROVE  TimelineInv'
<1>1. UNCHANGED <<issues, timeline, jobs, stale, cut>>
    BY DEF desk
<1>2. Filed' /\ Hooked' /\ AccountsInv'
    BY <1>1 DEF TimelineInv, Filed, Hooked, AccountsInv
<1>3. BalanceInv'
    <2>. SUFFICES ASSUME NEW c \in Convs \ (stale \cup cut), Has(c) PROVE Balances(c)'
        BY <1>1 DEF BalanceInv, Has
    <2>1. Balances(c)
        BY DEF TimelineInv, BalanceInv
    <2>2. \A S \in SUBSET LoudEntries, k \in Callers : Unsaid(k, c, S)' = Unsaid(k, c, S)
        BY <1>1 DEF Unsaid
    <2>. QED BY <1>1, <2>1, <2>2, BalanceStill
<1>. QED BY <1>2, <1>3 DEF TimelineInv

(***************************************************************************)
(* The balance is the property's.                                           *)
(***************************************************************************)
LEMMA PendingIsAhead ==
    ASSUME DeskTyped, NEW j \in Callers
    PROVE  Pending(j) = Ahead(jobs[j].plan) /\ \A k \in Pending(j) : jobs[j].plan[k].entry \in Entry
<1>1. Pending(j) = Ahead(jobs[j].plan)
    BY DEF Pending, Ahead
<1>2. ASSUME NEW k \in Pending(j) PROVE jobs[j].plan[k].entry \in Entry
    <2>1. jobs[j].plan \in Seq(Step)
        BY JobIsJob
    <2>2. k \in 1..Len(jobs[j].plan) /\ Len(jobs[j].plan) \in Nat
        BY <2>1, <1>2 DEF Pending
    <2>3. k \in 1..k
        BY <2>2
    <2>4. jobs[j].plan[k].do = "record" /\ jobs[j].plan[k] \in Step
        BY <1>2, <2>1, <2>2, <2>3 DEF Pending
    <2>. QED BY <2>4 DEF Step
<1>. QED BY <1>1, <1>2

\* The arrears, as the property counts them.
LEMMA ArrearsArePending ==
    ASSUME DeskTyped, NEW c, NEW S
    PROVE  Arrears(c, S) = UNION {{j} \X {k \in Pending(j) : jobs[j].plan[k].entry \in S} :
                                      j \in {i \in Callers : jobs[i].conv = c}}
<1>. DEFINE U == UNION {{j} \X {k \in Pending(j) : jobs[j].plan[k].entry \in S} :
                            j \in {i \in Callers : jobs[i].conv = c}}
<1>1. \A j \in Callers : Pending(j) = Ahead(jobs[j].plan)
    BY PendingIsAhead
<1>2. ASSUME NEW p \in Arrears(c, S) PROVE p \in U
    <2>1. PICK j \in Callers, n \in Nat : p = <<j, n>>
        BY DEF Arrears
    <2>2. n \in Unsaid(j, c, S)
        BY <2>1 DEF Arrears
    <2>3. jobs[j].conv = c /\ n \in Pending(j) /\ jobs[j].plan[n].entry \in S
        BY <1>1, <2>2 DEF Unsaid, OwedBy
    <2>4. p \in {j} \X {k \in Pending(j) : jobs[j].plan[k].entry \in S}
        BY <2>1, <2>3
    <2>. QED BY <2>3, <2>4
<1>3. ASSUME NEW p \in U PROVE p \in Arrears(c, S)
    <2>1. PICK j \in Callers : jobs[j].conv = c
                               /\ p \in {j} \X {k \in Pending(j) : jobs[j].plan[k].entry \in S}
        OBVIOUS
    <2>2. PICK n : p = <<j, n>> /\ n \in Pending(j) /\ jobs[j].plan[n].entry \in S
        BY <2>1
    <2>3. n \in Nat
        <3>1. jobs[j].plan \in Seq(Step)
            BY JobIsJob
        <3>. QED BY <2>2, <3>1 DEF Pending
    <2>4. n \in Unsaid(j, c, S)
        BY <1>1, <2>1, <2>2 DEF Unsaid, OwedBy
    <2>. QED BY <2>2, <2>3, <2>4 DEF Arrears
<1>. HIDE DEF U
<1>4. Arrears(c, S) = U
    BY <1>2, <1>3
<1>. QED BY <1>4 DEF U

LEMMA TimelineSuffices ==
    ASSUME DeskTyped, TimelineInv
    PROVE  TimelineBalances
<1>1. ASSUME NEW c \in Convs
      PROVE  /\ \A k \in DOMAIN timeline[c] : timeline[c][k] \in Entry
             /\ \A j \in Callers : \A k \in Pending(j) : jobs[j].plan[k].entry \in Entry
    BY PendingIsAhead DEF DeskTyped, DeskTypeOK
<1>2. ASSUME NEW c \in Convs \ (stale \cup cut), Has(c), NEW phase \in {"open"} \cup Settled
      PROVE  LET Enters(e) == e.to # "none" /\ Phase(e.to) = phase
                 Leaves(e) == e.from # "none" /\ Phase(e.from) = phase
             IN  Count(c, Enters) - Count(c, Leaves)
                     = IF Phase(issues[c].status) = phase THEN 1 ELSE 0
    <2>. DEFINE x == IF Phase(issues[c].status) = phase THEN 1 ELSE 0
    <2>1. Tally(c, EntersOf(phase)) - Tally(c, LeavesOf(phase)) = x
        BY <1>2 DEF TimelineInv, BalanceInv, Balances
    <2>2. Said(c, EntersOf(phase))
              = {k \in DOMAIN timeline[c] :
                     timeline[c][k].to # "none" /\ Phase(timeline[c][k].to) = phase}
        BY <1>1 DEF Said, EntersOf
    <2>3. Said(c, LeavesOf(phase))
              = {k \in DOMAIN timeline[c] :
                     timeline[c][k].from # "none" /\ Phase(timeline[c][k].from) = phase}
        BY <1>1 DEF Said, LeavesOf
    <2>4. Arrears(c, EntersOf(phase))
              = UNION {{j} \X {k \in Pending(j) : /\ jobs[j].plan[k].entry.to # "none"
                                                  /\ Phase(jobs[j].plan[k].entry.to) = phase} :
                           j \in {i \in Callers : jobs[i].conv = c}}
        <3>1. \A j \in Callers : {k \in Pending(j) : jobs[j].plan[k].entry \in EntersOf(phase)}
                  = {k \in Pending(j) : /\ jobs[j].plan[k].entry.to # "none"
                                        /\ Phase(jobs[j].plan[k].entry.to) = phase}
            BY <1>1 DEF EntersOf
        <3>. QED BY <3>1, ArrearsArePending
    <2>5. Arrears(c, LeavesOf(phase))
              = UNION {{j} \X {k \in Pending(j) : /\ jobs[j].plan[k].entry.from # "none"
                                                  /\ Phase(jobs[j].plan[k].entry.from) = phase} :
                           j \in {i \in Callers : jobs[i].conv = c}}
        <3>1. \A j \in Callers : {k \in Pending(j) : jobs[j].plan[k].entry \in LeavesOf(phase)}
                  = {k \in Pending(j) : /\ jobs[j].plan[k].entry.from # "none"
                                        /\ Phase(jobs[j].plan[k].entry.from) = phase}
            BY <1>1 DEF LeavesOf
        <3>. QED BY <3>1, ArrearsArePending
    <2>. QED BY <2>1, <2>2, <2>3, <2>4, <2>5, ZenonT(60) DEF Count, Tally
<1>3. ASSUME NEW c \in Convs \ (stale \cup cut), Has(c)
      PROVE  LET Reopening(e) == e.type = "reopened"
             IN  Count(c, Reopening) = issues[c].reopens
    <2>1. Tally(c, Reopenings) = issues[c].reopens
        BY <1>3 DEF TimelineInv, BalanceInv, Balances
    <2>2. Said(c, Reopenings) = {k \in DOMAIN timeline[c] : timeline[c][k].type = "reopened"}
        BY <1>1 DEF Said, Reopenings
    <2>3. Arrears(c, Reopenings)
              = UNION {{j} \X {k \in Pending(j) : jobs[j].plan[k].entry.type = "reopened"} :
                           j \in {i \in Callers : jobs[i].conv = c}}
        <3>1. \A j \in Callers : {k \in Pending(j) : jobs[j].plan[k].entry \in Reopenings}
                  = {k \in Pending(j) : jobs[j].plan[k].entry.type = "reopened"}
            BY <1>1 DEF Reopenings
        <3>. QED BY <3>1, ArrearsArePending
    <2>. QED BY <2>1, <2>2, <2>3, ZenonT(60) DEF Count, Tally
<1>. QED BY <1>2, <1>3, ZenonT(60) DEF TimelineBalances, Count
=============================================================================
