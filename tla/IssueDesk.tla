------------------------------ MODULE IssueDesk ------------------------------
(***************************************************************************)
(* The issues of a tenant that works with them (IssueService): an           *)
(* escalation opens its conversation's issue or reopens it, an accept puts   *)
(* it in progress, an end closes it, and the console files, moves, assigns   *)
(* and prioritises it.  Every one of these reads the issue, decides on what  *)
(* it read, and then saves the whole copy and records an entry of the        *)
(* timeline, one awaited call after the other.                               *)
(***************************************************************************)
EXTENDS EscalationBus

CONSTANTS Managers

\* An agent is no number of a hook: both make calls (Callers).
ASSUME DeskAssumption == Managers \subseteq Agents /\ Agents \cap Tasks = {}

VARIABLES
    issues,     \* issues, one row at most per conversation (uk_issue_conv)
    timeline,   \* issue_events of each conversation's issue
    jobs,       \* the hook of each call, and one console request of each agent
    stale,      \* observer: conversations whose issue was saved from an old copy
    cut,        \* observer: conversations with a call cut off, failed or doubled
    opened      \* observer: escalations whose issue has been open since
desk == <<issues, timeline, jobs, stale, cut, opened>>

Statuses == {"received", "in_progress", "resolved", "rejected", "closed"}
\* REOPEN_FROM
Settled == {"resolved", "rejected", "closed"}
Transitions ==
    [received |-> {"in_progress", "resolved", "rejected"},
     in_progress |-> {"resolved", "rejected"},
     resolved |-> {"closed", "in_progress"},
     rejected |-> {"closed", "in_progress"},
     closed |-> {"in_progress"}]

\* tier: who is credited with the first resolution (resolvedTier).
Issue == [no : Nat, status : Statuses, assignee : Agents \cup {NoAgent}, reopens : Nat,
          tier : {"none", "bot", "agent"}]
NoIssue == [no |-> 0, status |-> "received", assignee |-> NoAgent, reopens |-> 0,
            tier |-> "none"]
Has(c) == issues[c].no # 0

Entry == [type : {"created", "assigned", "tier", "status", "reopened", "memo"},
          from : Statuses \cup {"none"}, to : Statuses \cup {"none"}]
Note(type) == [type |-> type, from |-> "none", to |-> "none"]
Created == [type |-> "created", from |-> "none", to |-> "received"]

\* What a call still has to do: save a copy, record an entry, give the
\* conversation an agent, or publish a resolution.
Step == [do : {"save"}, copy : Issue] \cup [do : {"record"}, entry : Entry]
            \cup [do : {"point"}, agent : Agents] \cup [do : {"publish"}]
Save(copy) == [do |-> "save", copy |-> copy]
Record(entry) == [do |-> "record", entry |-> entry]

\* fresh: nobody has saved the issue since the call read it.  no: the number it
\* will insert.  again: its second attempt to insert.
Callers == Tasks \cup Agents
Job == [pc : {"read", "number", "insert", "steps", "done"}, conv : Convs, no : Nat,
        again : BOOLEAN, fresh : BOOLEAN, plan : Seq(Step)]
NotCalled == [pc |-> "read", conv |-> CHOOSE c \in Convs : TRUE, no |-> 0, again |-> FALSE,
              fresh |-> TRUE, plan |-> <<>>]

DeskTypeOK ==
    /\ issues \in [Convs -> Issue]
    /\ timeline \in [Convs -> Seq(Entry)]
    /\ jobs \in [Callers -> Job]
    /\ stale \subseteq Convs /\ cut \subseteq Convs /\ opened \subseteq Tasks

DeskInit ==
    /\ issues = [c \in Convs |-> NoIssue]
    /\ timeline = [c \in Convs |-> <<>>]
    /\ jobs = [j \in Callers |-> NotCalled]
    /\ stale = {} /\ cut = {} /\ opened = {}

(***************************************************************************)
(* What a call will do, decided on the copy it read.                        *)
(***************************************************************************)
\* Mutant: a reopened issue keeps its count.
UncountedMove(copy, to) ==
    [copy EXCEPT !.status = to, !.tier = IF to = "resolved" /\ @ = "none" THEN "agent" ELSE @]

Moved(copy, to) ==
    [copy EXCEPT !.status = to,
                 !.reopens = IF copy.status \in Settled /\ to = "in_progress" THEN @ + 1 ELSE @,
                 !.tier = IF to = "resolved" /\ @ = "none" THEN "agent" ELSE @]

\* An agent's resolution is published, to whoever keeps the knowledge.
Publishes(copy) ==
    IF copy.status = "resolved" /\ copy.tier = "agent" THEN << [do |-> "publish"] >> ELSE <<>>

\* Mutant: no transition is refused.
EveryTransition(copy, to) ==
    << Save(Moved(copy, to)), Record([type |-> "status", from |-> copy.status, to |-> to]) >>

\* applyTransition: nothing but the error when the transition is not allowed.
Transition(copy, to) ==
    IF to \notin Transitions[copy.status] THEN <<>>
    ELSE << Save(Moved(copy, to)),
            Record([type |-> IF copy.status \in Settled /\ to = "in_progress" THEN "reopened"
                             ELSE "status",
                    from |-> copy.status, to |-> to]) >> \o Publishes(Moved(copy, to))

OnEscalation(copy) == IF copy.status \in Settled THEN Transition(copy, "in_progress") ELSE <<>>

OnAccept(copy, a) ==
    LET mine == [copy EXCEPT !.assignee = a]
    IN  (IF copy.assignee = a THEN <<>>
         ELSE << Save(mine), Record(Note("assigned")), Record(Note("tier")) >>)
        \o (IF copy.status = "received" THEN Transition(mine, "in_progress") ELSE <<>>)

\* A conversation the shopper left is settled with it when nobody had taken it and
\* the last answer of the AI was good enough (autoResolveTier).
OnEnd(copy, left, answered) ==
    IF copy.status \in {"resolved", "rejected"} THEN Transition(copy, "closed")
    ELSE IF left /\ answered /\ copy.status = "received" /\ copy.assignee = NoAgent
         THEN LET bots == [copy EXCEPT !.tier = "bot"]
              IN  Transition(bots, "resolved") \o Transition(Moved(bots, "resolved"), "closed")
         ELSE <<>>

OnAssign(copy, a) ==
    << [do |-> "point", agent |-> a],
       Save([copy EXCEPT !.assignee = a,
                         !.status = IF @ = "received" THEN "in_progress" ELSE @]),
       Record(Note("assigned")) >>

(***************************************************************************)
(* The hooks and the console.                                               *)
(***************************************************************************)
Begun(c, pc, plan) ==
    [NotCalled EXCEPT !.pc = pc, !.conv = c, !.plan = plan]
Planned(c, plan) == Begun(c, IF plan = <<>> THEN "done" ELSE "steps", plan)

\* The escalations of c made so far have seen its issue in this status.
Saw(c, status) ==
    IF status \in {"received", "in_progress"}
    THEN opened \cup {i \in DOMAIN events : Escalated(i) /\ events[i].conv = c} ELSE opened

\* Each hook reads the issue of its conversation first.
Plan(event, copy, answered) ==
    CASE event.kind = "escalated" -> OnEscalation(copy)
      [] event.kind = "accepted" -> OnAccept(copy, event.agent)
      [] event.kind = "ended" -> OnEnd(copy, FALSE, answered)
      [] event.kind = "left" -> OnEnd(copy, TRUE, answered)
ReadIssue(i) ==
    /\ "issues" \in setup.parts /\ i \in DOMAIN events /\ jobs[i].pc = "read"
    /\ LET c == events[i].conv
       IN  /\ \E answered \in BOOLEAN :
               jobs' = [jobs EXCEPT ![i] =
                   IF Has(c) THEN Planned(c, Plan(events[i], issues[c], answered))
                   ELSE IF events[i].kind = "escalated" THEN Begun(c, "number", <<>>)
                   ELSE Planned(c, <<>>)]
           /\ opened' = IF Has(c) THEN Saw(c, issues[c].status) ELSE opened
    /\ UNCHANGED <<bus, issues, timeline, stale, cut>>

\* A console request of a, permitted on the issue as it was read.
Ask(a, move, c) ==
    /\ "issues" \in setup.parts /\ Spend(move) /\ c \in setup.convs
    /\ jobs[a].pc \in {"read", "done"}
MayMove(a, c) == a \in Managers \/ issues[c].assignee = a
AskTransition(a, c, to) ==
    /\ Ask(a, "transition", c) /\ Has(c) /\ MayMove(a, c)
    /\ to = "rejected" => a \in Managers
    /\ Transition(issues[c], to) # <<>>
    /\ jobs' = [jobs EXCEPT ![a] = Planned(c, Transition(issues[c], to))]
    /\ UNCHANGED <<setup, convs, picking, events, issues, timeline, stale, cut, opened>>
AskAssign(a, c, target) ==
    /\ Ask(a, "assign", c) /\ Has(c) /\ a \in Managers
    /\ jobs' = [jobs EXCEPT ![a] = Planned(c, OnAssign(issues[c], target))]
    /\ UNCHANGED <<setup, convs, picking, events, issues, timeline, stale, cut, opened>>
\* setPriority: the priority is not told apart, the copy that carries it is.
AskPriority(a, c) ==
    /\ Ask(a, "memo", c) /\ Has(c) /\ MayMove(a, c)
    /\ jobs' = [jobs EXCEPT ![a] = Planned(c, << Save(issues[c]), Record(Note("memo")) >>)]
    /\ UNCHANGED <<setup, convs, picking, events, issues, timeline, stale, cut, opened>>
\* createManual: a note on the issue there is, or a new issue.
AskFile(a, c) ==
    /\ Ask(a, "file", c)
    /\ jobs' = [jobs EXCEPT ![a] =
           IF Has(c) THEN Planned(c, << Record(Note("memo")) >>) ELSE Begun(c, "number", <<>>)]
    /\ UNCHANGED <<setup, convs, picking, events, issues, timeline, stale, cut, opened>>

(***************************************************************************)
(* insertWithSequence: the next number, then the row; two keys may refuse.  *)
(***************************************************************************)
Numbers == {issues[c].no : c \in Convs}
TakeNumber(j) ==
    /\ jobs[j].pc = "number"
    /\ jobs' = [jobs EXCEPT ![j].pc = "insert",
                            ![j].no = 1 + CHOOSE n \in Numbers : \A m \in Numbers : m <= n]
    /\ UNCHANGED <<bus, issues, timeline, stale, cut, opened>>

InsertIssue(j) ==
    LET c == jobs[j].conv
    IN  /\ jobs[j].pc = "insert" /\ ~Has(c) /\ jobs[j].no \notin Numbers
        /\ issues' = [issues EXCEPT ![c] = [NoIssue EXCEPT !.no = jobs[j].no]]
        /\ jobs' = [jobs EXCEPT ![j].pc = "steps", ![j].plan = << Record(Created) >>]
        /\ opened' = Saw(c, "received")
        /\ UNCHANGED <<bus, timeline, stale, cut>>

\* uk_issue_conv: "that row IS the issue we wanted", and is recorded as created.
FindIssue(j) ==
    LET c == jobs[j].conv
    IN  /\ jobs[j].pc = "insert" /\ Has(c)
        /\ jobs' = [jobs EXCEPT ![j].pc = "steps", ![j].plan = << Record(Created) >>]
        /\ cut' = cut \cup {c}
        /\ UNCHANGED <<bus, issues, timeline, stale, opened>>

\* Mutant: a number that was taken is given up on at once.
GiveUp(j) ==
    /\ jobs[j].pc = "insert" /\ jobs[j].no \in Numbers
    /\ jobs' = [jobs EXCEPT ![j].pc = "done"]
    /\ UNCHANGED <<bus, issues, timeline, stale, cut, opened>>

\* uk_issue_no: once more, with another number; a second time is an error.
NumberTaken(j) ==
    /\ jobs[j].pc = "insert" /\ jobs[j].no \in Numbers
    /\ jobs' = [jobs EXCEPT ![j].pc = IF jobs[j].again THEN "done" ELSE "number",
                            ![j].again = TRUE]
    /\ cut' = IF jobs[j].again THEN cut \cup {jobs[j].conv} ELSE cut
    /\ UNCHANGED <<bus, issues, timeline, stale, opened>>

(***************************************************************************)
(* The steps of a call.                                                     *)
(***************************************************************************)
Turn(j, do) == jobs[j].pc = "steps" /\ Head(jobs[j].plan).do = do
Shift(j) ==
    LET rest == Tail(jobs[j].plan)
    IN  [jobs EXCEPT ![j].plan = rest, ![j].pc = IF rest = <<>> THEN "done" ELSE "steps"]

\* save() of the copy: every column of the row becomes the copy's.
SaveCopy(j) ==
    LET c == jobs[j].conv
    IN  /\ Turn(j, "save")
        /\ issues' = [issues EXCEPT ![c] = Head(jobs[j].plan).copy]
        /\ stale' = IF jobs[j].fresh THEN stale ELSE stale \cup {c}
        /\ jobs' = [k \in Callers |->
                       IF k # j /\ jobs[k].conv = c /\ jobs[k].pc = "steps"
                       THEN [jobs[k] EXCEPT !.fresh = FALSE] ELSE Shift(j)[k]]
        /\ opened' = Saw(c, Head(jobs[j].plan).copy.status)
        /\ UNCHANGED <<bus, timeline, cut>>

RecordEntry(j) ==
    LET c == jobs[j].conv
    IN  /\ Turn(j, "record")
        /\ timeline' = [timeline EXCEPT ![c] = Append(@, Head(jobs[j].plan).entry)]
        /\ jobs' = Shift(j)
        /\ UNCHANGED <<bus, issues, stale, cut, opened>>

PointAgent(j) ==
    /\ Turn(j, "point")
    /\ convs' = [convs EXCEPT ![jobs[j].conv].agent = Head(jobs[j].plan).agent]
    /\ jobs' = Shift(j)
    /\ UNCHANGED <<setup, picking, events, spent, issues, timeline, stale, cut, opened>>

\* ISSUE_RESOLVED; EscalationDesk says who hears it.
PublishResolved(j) ==
    /\ Turn(j, "publish")
    /\ jobs' = Shift(j)
    /\ UNCHANGED <<bus, issues, timeline, stale, cut, opened>>

Busy(j) == \/ jobs[j].pc \in {"number", "insert", "steps"}
           \/ jobs[j].pc = "read" /\ j \in DOMAIN events
ConvOf(j) == IF j \in DOMAIN events THEN events[j].conv ELSE jobs[j].conv
JobFails(j) ==
    /\ "issues" \in setup.parts /\ Busy(j) /\ Spend("error")
    /\ jobs' = [jobs EXCEPT ![j].pc = "done", ![j].plan = <<>>]
    /\ cut' = cut \cup {ConvOf(j)}
    /\ UNCHANGED <<setup, convs, picking, events, issues, timeline, stale, opened>>

\* A restart cuts the hooks and the console requests off.
DeskRestart ==
    /\ cut' = cut \cup {ConvOf(j) : j \in {k \in Callers : Busy(k)}}
    /\ jobs' = [j \in Callers |->
                   IF Busy(j) THEN [jobs[j] EXCEPT !.pc = "done", !.plan = <<>>] ELSE jobs[j]]
    /\ UNCHANGED <<issues, timeline, stale, opened>>

JobStep(j) ==
    \/ TakeNumber(j) \/ InsertIssue(j) \/ FindIssue(j) \/ NumberTaken(j)
    \/ SaveCopy(j) \/ RecordEntry(j) \/ PointAgent(j)
DeskNext ==
    \/ \E i \in Tasks : ReadIssue(i)
    \/ \E j \in Callers : JobStep(j) \/ JobFails(j)
    \/ \E a \in Agents, c \in Convs :
        \/ \E to \in Statuses : AskTransition(a, c, to)
        \/ \E target \in Agents : AskAssign(a, c, target)
        \/ AskPriority(a, c) \/ AskFile(a, c)

(***************************************************************************)
(* Properties.                                                              *)
(***************************************************************************)
\* An assignment puts a received issue in progress without an entry of its own.
Phase(status) == IF status \in {"received", "in_progress"} THEN "open" ELSE status
\* The entries of saves already made that a call has yet to record.
Pending(j) ==
    {k \in DOMAIN jobs[j].plan : \A n \in 1..k : jobs[j].plan[n].do = "record"}
Count(c, Test(_)) ==
    Cardinality({k \in DOMAIN timeline[c] : Test(timeline[c][k])})
        + Cardinality(UNION {{j} \X {k \in Pending(j) : Test(jobs[j].plan[k].entry)} :
                             j \in {i \in Callers : jobs[i].conv = c}})

\* The timeline accounts for the issue: what it says entered a status, less what it
\* says left it, is the status the issue has, and it tells every reopening the row
\* counts, however many calls are on the issue at once, unless one saved over
\* another, was cut off, or found the issue it wanted to create.
TimelineBalances ==
    \A c \in Convs \ (stale \cup cut) : Has(c) =>
        /\ \A phase \in {"open"} \cup Settled :
               LET Enters(e) == e.to # "none" /\ Phase(e.to) = phase
                   Leaves(e) == e.from # "none" /\ Phase(e.from) = phase
               IN  Count(c, Enters) - Count(c, Leaves)
                       = IF Phase(issues[c].status) = phase THEN 1 ELSE 0
        /\ LET Reopening(e) == e.type = "reopened"
           IN  Count(c, Reopening) = issues[c].reopens

\* However calls overlap, an issue only ever moves along the transitions of the
\* workflow, unless a call saves an old copy: what is closed is reopened before it
\* is resolved again.
LegalMoves ==
    [][\A c \in Convs \ stale' :
          Has(c) /\ issues'[c].status # issues[c].status
              => issues'[c].status \in Transitions[issues[c].status]]_<<issues, stale>>

\* Every published escalation comes to have had an open issue, opened or reopened
\* for it, unless its handler was cut off, failed, or lost the race for a number twice.
EscalationOpensIssue ==
    []<>("issues" \in setup.parts =>
            \A i \in Tasks : Escalated(i) => i \in opened \/ events[i].conv \in cut)
=============================================================================
