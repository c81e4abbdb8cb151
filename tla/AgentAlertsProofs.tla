--------------------------- MODULE AgentAlertsProofs ---------------------------
(***************************************************************************)
(* The steps of the pager keep its types, mail no row a second reminder, do  *)
(* not ring twice for one reason, and leave nobody in the queue unheard.     *)
(***************************************************************************)
EXTENDS AgentAlerts, FiniteSetTheorems, WellFoundedInduction, TLAPS

(***************************************************************************)
(* Types.                                                                   *)
(***************************************************************************)
\* Every row has its count of mails; an acknowledgement has a row, a sweep some.
AlertsPlaced ==
    /\ Len(reminders) = Len(alarms)
    /\ \A a \in Agents : acking[a].pc # "idle" => acking[a].id \in DOMAIN alarms
    /\ sweep.pc # "idle" => sweep.due # {} /\ sweep.due \subseteq DOMAIN alarms
AlertsTyped == AlertsTypeOK /\ AlertsPlaced

\* A set of naturals has a least element.
LEMMA LeastElement ==
    ASSUME NEW T \in SUBSET Nat, T # {}
    PROVE  \E x \in T : \A y \in T : x <= y
<1>. DEFINE R == {pair \in Nat \X Nat : pair[1] < pair[2]}
<1>1. R = OpToRel(<, Nat)
    BY DEF OpToRel
<1>2. IsWellFoundedOn(R, Nat)
    BY <1>1, NatLessThanWellFounded
<1>3. PICK x \in T : \A y \in T : ~(<<y, x>> \in R)
    BY <1>2, WFMin
<1>4. ASSUME NEW y \in T PROVE x <= y
    <2>1. y \in Nat /\ x \in Nat
        OBVIOUS
    <2>2. ~(<<y, x>> \in R)
        BY <1>3
    <2>3. ~(y < x)
        BY <2>1, <2>2
    <2>. QED BY <2>1, <2>3
<1>. QED BY <1>4

LEMMA AlertsStart == AlertsInit => AlertsTyped
<1>. SUFFICES ASSUME AlertsInit PROVE AlertsTyped
    OBVIOUS
<1>1. <<>> \in Seq(Alarm) /\ <<>> \in Seq(Nat) /\ NotAcking \in Acker /\ Resting \in Sweeper
    BY DEF NotAcking, Acker, Resting, Sweeper
<1>. QED BY <1>1 DEF AlertsInit, AlertsTyped, AlertsTypeOK, AlertsPlaced, Ringer, NotAcking, Resting

LEMMA AlarmIsAlarm ==
    ASSUME AlertsTyped, NEW id \in DOMAIN alarms
    PROVE  /\ alarms[id] \in Alarm /\ alarms[id].conv \in Convs /\ alarms[id].reason \in Reasons
           /\ alarms[id].target \in Agents \cup {NoAgent} /\ id \in Nat /\ id \in DOMAIN reminders
           /\ reminders[id] \in Nat
<1>1. alarms \in Seq(Alarm) /\ reminders \in Seq(Nat) /\ Len(reminders) = Len(alarms)
    BY DEF AlertsTyped, AlertsTypeOK, AlertsPlaced
<1>2. alarms[id] \in Alarm
    BY <1>1
<1>. QED BY <1>1, <1>2 DEF Alarm

LEMMA AlertEvent ==
    ASSUME BusTypeOK, NEW i \in DOMAIN events
    PROVE  events[i].conv \in Convs /\ events[i].reason \in Reasons /\ i \in Nat
<1>1. events \in Seq(Event)
    BY DEF BusTypeOK
<1>2. events[i] \in Event
    BY <1>1
<1>. QED BY <1>1, <1>2 DEF Event

\* An enumeration lists its set.
LEMMA EnumerationLists ==
    ASSUME NEW S, IsFiniteSet(S)
    PROVE  /\ Cardinality(S) \in Nat
           /\ Enumeration(S) \in [1..Cardinality(S) -> S]
<1>1. Cardinality(S) \in Nat /\ ExistsBijection(1..Cardinality(S), S)
    BY FS_CardinalityType
<1>2. PICK f \in Bijection(1..Cardinality(S), S) : TRUE
    BY <1>1 DEF ExistsBijection
<1>3. /\ f \in [1..Cardinality(S) -> S]
      /\ \A i, j \in DOMAIN f : f[i] = f[j] => i = j
    BY <1>2 DEF Bijection, Injection, IsInjective
<1>. QED BY <1>1, <1>3 DEF Enumeration

\* What a step keeps of the rows there are.
Done(row) == row.reminded \/ row.status = "acked"
Kept(t, u) ==
    /\ DOMAIN t \subseteq DOMAIN u
    /\ \A id \in DOMAIN t : u[id].conv = t[id].conv /\ (Done(t[id]) => Done(u[id]))

\* Rows changed one by one.
LEMMA RowsChanged ==
    ASSUME AlertsTyped, NEW u, DOMAIN u = DOMAIN alarms, u = [id \in DOMAIN alarms |-> u[id]],
           \A id \in DOMAIN alarms :
               u[id] \in Alarm /\ u[id].conv = alarms[id].conv /\ (Done(alarms[id]) => Done(u[id]))
    PROVE  u \in Seq(Alarm) /\ Len(u) = Len(alarms) /\ Kept(alarms, u)
<1>1. alarms \in Seq(Alarm) /\ Len(alarms) \in Nat /\ DOMAIN alarms = 1..Len(alarms)
    BY DEF AlertsTyped, AlertsTypeOK
<1>2. u \in [1..Len(alarms) -> Alarm]
    BY <1>1
<1>3. u \in Seq(Alarm)
    BY <1>1, <1>2
<1>4. Len(u) = Len(alarms)
    BY <1>1, <1>3
<1>. QED BY <1>3, <1>4 DEF Kept

LEMMA AckedRow ==
    ASSUME NEW row \in Alarm, NEW by \in Agents \cup {NoAgent}
    PROVE  LET r == [row EXCEPT !.status = "acked", !.by = by]
           IN  r \in Alarm /\ r.conv = row.conv /\ Done(r)
BY DEF Alarm, Done

LEMMA AckedIsTyped ==
    ASSUME AlertsTyped, NEW S, NEW by \in Agents \cup {NoAgent}
    PROVE  Acked(S, by) \in Seq(Alarm) /\ Len(Acked(S, by)) = Len(alarms) /\ Kept(alarms, Acked(S, by))
<1>. DEFINE u == Acked(S, by)
<1>1. DOMAIN u = DOMAIN alarms /\ u = [id \in DOMAIN alarms |-> u[id]]
    BY DEF Acked
<1>2. \A id \in DOMAIN alarms :
          u[id] = alarms[id] \/ u[id] = [alarms[id] EXCEPT !.status = "acked", !.by = by]
    BY DEF Acked
<1>. HIDE DEF u
<1>3. ASSUME NEW id \in DOMAIN alarms
      PROVE  u[id] \in Alarm /\ u[id].conv = alarms[id].conv /\ (Done(alarms[id]) => Done(u[id]))
    <2>. DEFINE r == [alarms[id] EXCEPT !.status = "acked", !.by = by]
    <2>1. u[id] = alarms[id] \/ u[id] = r
        BY <1>2
    <2>2. alarms[id] \in Alarm
        BY AlarmIsAlarm
    <2>3. r \in Alarm /\ r.conv = alarms[id].conv /\ Done(r)
        BY <2>2, AckedRow
    <2>. HIDE DEF r
    <2>. QED BY <2>1, <2>2, <2>3
<1>4. u \in Seq(Alarm) /\ Len(u) = Len(alarms) /\ Kept(alarms, u)
    BY <1>1, <1>3, RowsChanged
<1>. QED BY <1>4 DEF u

LEMMA Joined ==
    ASSUME NEW T, NEW s \in Seq(T), NEW t \in Seq(T)
    PROVE  s \o t \in Seq(T) /\ Len(s \o t) = Len(s) + Len(t)
OBVIOUS

\* Rows added, each with its count.
LEMMA RowsAdded ==
    ASSUME AlertsTyped, NEW rows \in Seq(Alarm), NEW counts \in Seq(Nat), Len(counts) = Len(rows)
    PROVE  /\ alarms \o rows \in Seq(Alarm) /\ reminders \o counts \in Seq(Nat)
           /\ Len(reminders \o counts) = Len(alarms \o rows)
           /\ Kept(alarms, alarms \o rows)
           /\ \A id \in DOMAIN reminders : (reminders \o counts)[id] = reminders[id]
           /\ \A id \in DOMAIN (reminders \o counts) \ DOMAIN reminders :
                 \E k \in DOMAIN rows : /\ (reminders \o counts)[id] = counts[k]
                                        /\ (alarms \o rows)[id] = rows[k]
<1>1. alarms \in Seq(Alarm) /\ reminders \in Seq(Nat) /\ Len(reminders) = Len(alarms)
      /\ Len(alarms) \in Nat
    BY DEF AlertsTyped, AlertsTypeOK, AlertsPlaced
<1>2. /\ alarms \o rows \in Seq(Alarm) /\ reminders \o counts \in Seq(Nat)
      /\ Len(reminders \o counts) = Len(alarms \o rows)
    <2>1. alarms \o rows \in Seq(Alarm) /\ Len(alarms \o rows) = Len(alarms) + Len(rows)
        BY <1>1
    <2>2. reminders \o counts \in Seq(Nat) /\ Len(reminders \o counts) = Len(reminders) + Len(counts)
        BY <1>1, Joined
    <2>. QED BY <1>1, <2>1, <2>2
<1>3. \A id \in DOMAIN alarms : id \in DOMAIN (alarms \o rows) /\ (alarms \o rows)[id] = alarms[id]
    BY <1>1
<1>4. \A id \in DOMAIN reminders : (reminders \o counts)[id] = reminders[id]
    BY <1>1
<1>5. ASSUME NEW id \in DOMAIN (reminders \o counts) \ DOMAIN reminders
      PROVE  \E k \in DOMAIN rows : /\ (reminders \o counts)[id] = counts[k]
                                    /\ (alarms \o rows)[id] = rows[k]
    <2>1. id \in 1..(Len(alarms) + Len(rows)) /\ id > Len(alarms) /\ Len(rows) \in Nat
        BY <1>1
    <2>2. id - Len(alarms) \in DOMAIN rows
        BY <2>1, <1>1
    <2>3. (alarms \o rows)[id] = rows[id - Len(alarms)]
        BY <2>1, <1>1
    <2>4. (reminders \o counts)[id] = counts[id - Len(alarms)]
        BY <2>1, <1>1
    <2>. QED BY <2>2, <2>3, <2>4
<1>. QED BY <1>2, <1>3, <1>4, <1>5 DEF Kept

(***************************************************************************)
(* A step of the pager that keeps the rows, and moves no more than it says.  *)
(***************************************************************************)
LEMMA KeptTyped ==
    ASSUME AlertsTyped, alarms' \in Seq(Alarm), Kept(alarms, alarms'),
           reminders' \in Seq(Nat), Len(reminders') = Len(alarms'),
           ringing' \in [Tasks -> Ringer], acking' \in [Agents -> Acker],
           \A a \in Agents : acking'[a].pc # "idle" => acking'[a].id \in DOMAIN alarms,
           sweep' \in Sweeper,
           sweep'.pc # "idle" => sweep'.due # {} /\ sweep'.due \subseteq DOMAIN alarms,
           crossed' \subseteq Convs, unrung' \subseteq Convs
    PROVE  AlertsTyped'
BY DEF AlertsTyped, AlertsTypeOK, AlertsPlaced, Kept

LEMMA SameKept ==
    ASSUME UNCHANGED alarms
    PROVE  Kept(alarms, alarms')
BY DEF Kept

\* Nothing but the handlers moves.
LEMMA RingingTyped ==
    ASSUME AlertsTyped, NEW i \in Tasks, NEW pc \in Ringer, ringing' = [ringing EXCEPT ![i] = pc],
           alarms' \in Seq(Alarm), Kept(alarms, alarms'),
           reminders' \in Seq(Nat), Len(reminders') = Len(alarms'),
           UNCHANGED <<acking, sweep>>, crossed' \subseteq Convs, unrung' \subseteq Convs
    PROVE  AlertsTyped'
<1>1. ringing' \in [Tasks -> Ringer]
    BY DEF AlertsTyped, AlertsTypeOK
<1>. QED BY <1>1, KeptTyped DEF AlertsTyped, AlertsTypeOK, AlertsPlaced

LEMMA CheckAlarmTypes ==
    ASSUME BusTypeOK, AlertsTyped, NEW i \in Tasks, CheckAlarm(i)
    PROVE  AlertsTyped'
<1>1. AfterCheck(i) \in Ringer
    BY DEF AfterCheck, Ringer
<1>. QED BY <1>1, RingingTyped, SameKept DEF CheckAlarm, AlertsTyped, AlertsTypeOK, AlertsPlaced

LEMMA StandDownTypes ==
    ASSUME BusTypeOK, AlertsTyped, NEW i \in Tasks, StandDown(i)
    PROVE  AlertsTyped'
<1>1. alarms' \in Seq(Alarm) /\ Len(alarms') = Len(alarms) /\ Kept(alarms, alarms')
    BY AckedIsTyped DEF StandDown
<1>2. "ring" \in Ringer
    BY DEF Ringer
<1>. QED BY <1>1, <1>2, RingingTyped DEF StandDown, AlertsTyped, AlertsTypeOK, AlertsPlaced

LEMMA RowsOfTyped ==
    ASSUME BusTypeOK, NEW i \in DOMAIN events, NEW A \in Audiences
    PROVE  /\ RowsOf(i, A) \in Seq(Alarm)
           /\ [k \in 1..Cardinality(A) |-> 0] \in Seq(Nat)
           /\ Len(RowsOf(i, A)) = Len([k \in 1..Cardinality(A) |-> 0])
<1>1. A \subseteq Agents \cup {NoAgent} /\ IsFiniteSet(A)
    BY AlertsAssumption
<1>2. Cardinality(A) \in Nat /\ Enumeration(A) \in [1..Cardinality(A) -> A]
    BY <1>1, EnumerationLists
<1>. DEFINE n == Cardinality(A)
            row(k) == [conv |-> events[i].conv, reason |-> events[i].reason, event |-> i,
                       target |-> Enumeration(A)[k], status |-> "new", by |-> NoAgent,
                       reminded |-> FALSE]
            zero == [k \in 1..n |-> 0]
<1>3. RowsOf(i, A) = [k \in 1..n |-> row(k)]
    BY DEF RowsOf
<1>4. \A k \in 1..n : row(k) \in Alarm
    BY <1>1, <1>2, AlertEvent DEF Alarm
<1>. HIDE DEF n, row
<1>5. n \in Nat
    BY <1>2 DEF n
<1>6. RowsOf(i, A) \in Seq(Alarm) /\ Len(RowsOf(i, A)) = n
    BY <1>3, <1>4, <1>5
<1>7. zero \in Seq(Nat) /\ Len(zero) = n
    BY <1>5
<1>. QED BY <1>6, <1>7 DEF n

LEMMA RingTypes ==
    ASSUME BusTypeOK, AlertsTyped, NEW i \in Tasks, Ring(i)
    PROVE  AlertsTyped'
<1>0. i \in DOMAIN events
    BY DEF Ring, Handles, Escalated
<1>1. PICK A \in Audiences : /\ Insert(i, events[i].conv, RowsOf(i, A))
                             /\ reminders' = reminders \o [k \in 1..Cardinality(A) |-> 0]
    BY DEF Ring
<1>2. /\ alarms' \in Seq(Alarm) /\ reminders' \in Seq(Nat) /\ Len(reminders') = Len(alarms')
      /\ Kept(alarms, alarms')
    BY <1>0, <1>1, RowsOfTyped, RowsAdded DEF Insert
<1>3. crossed' \subseteq Convs
    BY <1>0, <1>1, AlertEvent DEF Insert, AlertsTyped, AlertsTypeOK
<1>4. "done" \in Ringer
    BY DEF Ringer
<1>. QED BY <1>2, <1>3, <1>4, RingingTyped DEF Ring, AlertsTyped, AlertsTypeOK

LEMMA RingFailsTypes ==
    ASSUME BusTypeOK, AlertsTyped, NEW i \in Tasks, RingFails(i)
    PROVE  AlertsTyped'
<1>1. events[i].conv \in Convs
    BY AlertEvent DEF RingFails, Handles, Escalated
<1>2. "done" \in Ringer
    BY DEF Ringer
<1>. QED BY <1>1, <1>2, RingingTyped, SameKept
     DEF RingFails, AlertsTyped, AlertsTypeOK, AlertsPlaced

\* Nothing but an acknowledgement moves.
LEMMA AckingTyped ==
    ASSUME AlertsTyped, NEW a \in Agents, NEW r \in Acker, acking' = [acking EXCEPT ![a] = r],
           r.pc # "idle" => r.id \in DOMAIN alarms,
           alarms' \in Seq(Alarm), Kept(alarms, alarms'), Len(alarms') = Len(alarms),
           UNCHANGED <<ringing, sweep, reminders, crossed, unrung>>
    PROVE  AlertsTyped'
<1>1. acking' \in [Agents -> Acker]
    BY DEF AlertsTyped, AlertsTypeOK
<1>2. \A b \in Agents : acking'[b].pc # "idle" => acking'[b].id \in DOMAIN alarms
    BY DEF AlertsTyped, AlertsTypeOK, AlertsPlaced
<1>. QED BY <1>1, <1>2, KeptTyped DEF AlertsTyped, AlertsTypeOK, AlertsPlaced

LEMMA ReadAlarmTypes ==
    ASSUME BusTypeOK, AlertsTyped, NEW a \in Agents, NEW id \in DOMAIN alarms, ReadAlarm(a, id)
    PROVE  AlertsTyped'
<1>. DEFINE r == [pc |-> "save", id |-> id, reminded |-> alarms[id].reminded]
<1>1. r \in Acker /\ r.id \in DOMAIN alarms
    BY AlarmIsAlarm DEF Acker, Alarm
<1>2. acking' = [acking EXCEPT ![a] = r]
    BY DEF ReadAlarm
<1>. HIDE DEF r
<1>. QED BY <1>1, <1>2, AckingTyped, SameKept DEF ReadAlarm, AlertsTyped, AlertsTypeOK

LEMMA AckIsAck ==
    ASSUME AlertsTyped, NEW a \in Agents, acking[a].pc # "idle"
    PROVE  acking[a] \in Acker /\ acking[a].id \in DOMAIN alarms /\ acking[a].reminded \in BOOLEAN
<1>1. acking[a] \in Acker
    BY DEF AlertsTyped, AlertsTypeOK
<1>. QED BY <1>1 DEF AlertsTyped, AlertsPlaced, Acker

LEMMA SavedRow ==
    ASSUME NEW row \in Alarm, NEW by \in Agents, NEW reminded \in BOOLEAN
    PROVE  LET r == [row EXCEPT !.status = "acked", !.by = by, !.reminded = reminded]
           IN  r \in Alarm /\ r.conv = row.conv /\ Done(r)
<1>. DEFINE r == [row EXCEPT !.status = "acked", !.by = by, !.reminded = reminded]
<1>1. r \in Alarm /\ r.conv = row.conv /\ r.status = "acked"
    BY DEF Alarm
<1>. QED BY <1>1 DEF Done

LEMMA AckRowTypes ==
    ASSUME BusTypeOK, AlertsTyped, NEW a \in Agents, AckRow(a)
    PROVE  AlertsTyped' /\ Kept(alarms, alarms')
<1>. DEFINE id == acking[a].id
            row == [alarms[id] EXCEPT !.status = "acked", !.by = a, !.reminded = acking[a].reminded]
            u == [alarms EXCEPT ![id] = row]
            r == [acking[a] EXCEPT !.pc = "siblings"]
<1>1. id \in DOMAIN alarms /\ acking[a].reminded \in BOOLEAN /\ acking[a] \in Acker
    BY AckIsAck DEF AckRow
<1>2. alarms' = u
    BY DEF AckRow
<1>3. row \in Alarm /\ row.conv = alarms[id].conv /\ Done(row)
    BY <1>1, AlarmIsAlarm, SavedRow, ZenonT(60)
<1>4. r \in Acker /\ r.id = id /\ acking' = [acking EXCEPT ![a] = r]
    BY <1>1 DEF Acker, AckRow
<1>. HIDE DEF row, id
<1>5. DOMAIN u = DOMAIN alarms /\ u = [k \in DOMAIN alarms |-> u[k]]
    OBVIOUS
<1>6. \A k \in DOMAIN alarms : u[k] = IF k = id THEN row ELSE alarms[k]
    BY <1>1
<1>. HIDE DEF u
<1>7. ASSUME NEW k \in DOMAIN alarms
      PROVE  u[k] \in Alarm /\ u[k].conv = alarms[k].conv /\ (Done(alarms[k]) => Done(u[k]))
    BY <1>3, <1>6, AlarmIsAlarm
<1>8. u \in Seq(Alarm) /\ Len(u) = Len(alarms) /\ Kept(alarms, u)
    BY <1>5, <1>7, RowsChanged
<1>. HIDE DEF r
<1>. QED BY <1>1, <1>2, <1>4, <1>8, AckingTyped, ZenonT(60) DEF AckRow

LEMMA AckSiblingsTypes ==
    ASSUME BusTypeOK, AlertsTyped, NEW a \in Agents, AckSiblings(a)
    PROVE  AlertsTyped' /\ Kept(alarms, alarms')
<1>1. alarms' \in Seq(Alarm) /\ Len(alarms') = Len(alarms) /\ Kept(alarms, alarms')
    BY AckedIsTyped DEF AckSiblings
<1>2. NotAcking \in Acker /\ NotAcking.pc = "idle"
    BY DEF NotAcking, Acker
<1>. QED BY <1>1, <1>2, AckingTyped DEF AckSiblings

(***************************************************************************)
(* The sweep.                                                               *)
(***************************************************************************)
LEMMA SweepingTyped ==
    ASSUME AlertsTyped, sweep' \in Sweeper,
           sweep'.pc # "idle" => sweep'.due # {} /\ sweep'.due \subseteq DOMAIN alarms,
           alarms' \in Seq(Alarm), Kept(alarms, alarms'),
           reminders' \in Seq(Nat), Len(reminders') = Len(alarms'), crossed' \subseteq Convs,
           UNCHANGED <<ringing, acking, unrung>>
    PROVE  AlertsTyped'
BY KeptTyped DEF AlertsTyped, AlertsTypeOK, AlertsPlaced

LEMMA SweepIsSweep ==
    ASSUME AlertsTyped
    PROVE  /\ sweep \in Sweeper /\ sweep.due \in SUBSET Nat /\ sweep.waiting \subseteq Convs
           /\ sweep = [pc |-> sweep.pc, due |-> sweep.due, waiting |-> sweep.waiting]
           /\ sweep.pc # "idle" => sweep.due # {} /\ sweep.due \subseteq DOMAIN alarms
<1>1. sweep \in Sweeper
    BY DEF AlertsTyped, AlertsTypeOK
<1>. QED BY <1>1 DEF AlertsTyped, AlertsPlaced, Sweeper

\* The conversation at work is that of a row found.
LEMMA AtWork ==
    ASSUME AlertsTyped, sweep.pc # "idle"
    PROVE  Next1 \in sweep.due /\ Next1 \in DOMAIN alarms /\ Current \in Convs
<1>1. \E id \in sweep.due : \A k \in sweep.due : id <= k
    BY SweepIsSweep, LeastElement
<1>2. Next1 \in sweep.due
    BY <1>1 DEF Next1
<1>3. Next1 \in DOMAIN alarms
    BY <1>2, SweepIsSweep
<1>. QED BY <1>2, <1>3, AlarmIsAlarm DEF Current

LEMMA RestingIsSweeper == Resting \in Sweeper /\ Resting.pc = "idle" /\ Resting.due = {}
BY DEF Resting, Sweeper

LEMMA DropIsSweeper ==
    ASSUME AlertsTyped, sweep.pc # "idle"
    PROVE  /\ DropCurrent \in Sweeper
           /\ DropCurrent.pc # "idle" => DropCurrent.due # {} /\ DropCurrent.due \subseteq DOMAIN alarms
           /\ DropCurrent.pc \in {"idle", "stamp"}
           /\ DropCurrent.due \subseteq sweep.due \ Mine
<1>1. Mine \subseteq sweep.due
    BY DEF Mine
<1>2. CASE sweep.due = Mine
    BY <1>2, RestingIsSweeper DEF DropCurrent
<1>3. CASE sweep.due # Mine
    <2>. DEFINE d == [sweep EXCEPT !.pc = "stamp", !.due = @ \ Mine]
    <2>1. DropCurrent = d
        BY <1>3 DEF DropCurrent
    <2>2. d \in Sweeper /\ d.pc = "stamp" /\ d.due = sweep.due \ Mine
        BY SweepIsSweep DEF Sweeper
    <2>3. d.due # {} /\ d.due \subseteq DOMAIN alarms
        BY <1>1, <1>3, <2>2, SweepIsSweep
    <2>. HIDE DEF d
    <2>. QED BY <2>1, <2>2, <2>3
<1>. QED BY <1>2, <1>3

LEMMA FindDueTypes ==
    ASSUME BusTypeOK, AlertsTyped, FindDue
    PROVE  AlertsTyped'
<1>1. PICK age \in DOMAIN alarms :
          Due(age) # {} /\ sweep' = [pc |-> "look", due |-> FirstOf(Due(age)), waiting |-> {}]
    BY DEF FindDue
<1>2. age \in Nat /\ alarms \in Seq(Alarm) /\ \A id \in 1..age : id \in DOMAIN alarms /\ id \in Nat
    BY DEF AlertsTyped, AlertsTypeOK
<1>3. Due(age) \in SUBSET Nat /\ Due(age) \subseteq DOMAIN alarms
    BY <1>2 DEF Due
<1>4. FirstOf(Due(age)) \subseteq Due(age)
    BY DEF FirstOf
<1>5. FirstOf(Due(age)) # {}
    <2>1. PICK x \in Due(age) : \A y \in Due(age) : x <= y
        BY <1>1, <1>3, LeastElement
    <2>2. {k \in Due(age) : k < x} = {}
        BY <1>3, <2>1
    <2>3. Cardinality({k \in Due(age) : k < x}) = 0
        BY <2>2, FS_EmptySet
    <2>4. SweepBatch \in Nat /\ 0 < SweepBatch
        BY AlertsAssumption
    <2>. QED BY <2>1, <2>3, <2>4 DEF FirstOf
<1>6. sweep' \in Sweeper /\ sweep'.due = FirstOf(Due(age))
    BY <1>1, <1>3, <1>4 DEF Sweeper
<1>. QED BY <1>3, <1>4, <1>5, <1>6, SweepingTyped, SameKept
     DEF FindDue, AlertsTyped, AlertsTypeOK, AlertsPlaced

LEMMA LookWaitingTypes ==
    ASSUME BusTypeOK, AlertsTyped, LookWaiting
    PROVE  AlertsTyped'
<1>. DEFINE W == {c \in Convs : convs[c].status = "waiting" /\ \E id \in sweep.due : alarms[id].conv = c}
<1>1. sweep' = [sweep EXCEPT !.pc = "stamp", !.waiting = W] /\ W \subseteq Convs
    BY DEF LookWaiting
<1>. HIDE DEF W
<1>2. sweep' \in Sweeper /\ sweep'.due = sweep.due
    BY <1>1, SweepIsSweep DEF Sweeper
<1>3. sweep.due # {} /\ sweep.due \subseteq DOMAIN alarms
    BY SweepIsSweep DEF LookWaiting
<1>. QED BY <1>2, <1>3, SweepingTyped, SameKept
     DEF LookWaiting, AlertsTyped, AlertsTypeOK, AlertsPlaced

\* Stamped: every row of the conversation that is not acknowledged.
LEMMA StampKeeps ==
    ASSUME BusTypeOK, AlertsTyped, Stamp
    PROVE  /\ alarms' \in Seq(Alarm) /\ Len(alarms') = Len(alarms) /\ Kept(alarms, alarms')
           /\ \A id \in DOMAIN alarms : alarms[id].conv = Current => Done(alarms'[id])
<1>. DEFINE u == alarms'
<1>1. /\ DOMAIN u = DOMAIN alarms /\ u = [id \in DOMAIN alarms |-> u[id]]
      /\ \A id \in DOMAIN alarms :
             u[id] = IF id \in New(Current) THEN [alarms[id] EXCEPT !.reminded = TRUE] ELSE alarms[id]
    BY DEF Stamp
<1>. HIDE DEF u
<1>2. ASSUME NEW id \in DOMAIN alarms
      PROVE  /\ u[id] \in Alarm /\ u[id].conv = alarms[id].conv /\ (Done(alarms[id]) => Done(u[id]))
             /\ alarms[id].conv = Current => Done(u[id])
    <2>. DEFINE r == [alarms[id] EXCEPT !.reminded = TRUE]
    <2>1. r \in Alarm /\ r.conv = alarms[id].conv /\ r.reminded = TRUE
        BY AlarmIsAlarm DEF Alarm
    <2>2. Done(r)
        BY <2>1 DEF Done
    <2>3. CASE id \in New(Current)
        <3>1. u[id] = r
            BY <1>1, <2>3
        <3>. HIDE DEF r
        <3>. QED BY <2>1, <2>2, <3>1
    <2>4. CASE id \notin New(Current)
        <3>1. u[id] = alarms[id]
            BY <1>1, <2>4
        <3>2. alarms[id].conv = Current => alarms[id].status = "acked"
            BY <2>4, AlarmIsAlarm DEF New, Alarm
        <3>. QED BY <3>1, <3>2, AlarmIsAlarm DEF Done
    <2>. QED BY <2>3, <2>4
<1>3. u \in Seq(Alarm) /\ Len(u) = Len(alarms) /\ Kept(alarms, u)
    BY <1>1, <1>2, RowsChanged
<1>. QED BY <1>2, <1>3 DEF u

LEMMA StampTypes ==
    ASSUME BusTypeOK, AlertsTyped, Stamp
    PROVE  AlertsTyped'
<1>0. sweep.pc # "idle"
    BY DEF Stamp
<1>1. [sweep EXCEPT !.pc = "mail"] \in Sweeper /\ [sweep EXCEPT !.pc = "mail"].due = sweep.due
    BY SweepIsSweep DEF Sweeper
<1>2. sweep' = [sweep EXCEPT !.pc = "mail"] \/ sweep' = DropCurrent
    BY DEF Stamp
<1>3. sweep' \in Sweeper
      /\ (sweep'.pc # "idle" => sweep'.due # {} /\ sweep'.due \subseteq DOMAIN alarms)
    BY <1>0, <1>1, <1>2, SweepIsSweep, DropIsSweeper
<1>. QED BY <1>3, StampKeeps, SweepingTyped DEF Stamp, AlertsTyped, AlertsTypeOK, AlertsPlaced

LEMMA MailAgentsTypes ==
    ASSUME BusTypeOK, AlertsTyped, MailAgents
    PROVE  AlertsTyped'
<1>1. sweep' \in Sweeper /\ sweep'.due = sweep.due
    BY SweepIsSweep DEF MailAgents, Sweeper
<1>2. sweep.due # {} /\ sweep.due \subseteq DOMAIN alarms
    BY SweepIsSweep DEF MailAgents
<1>3. reminders \in Seq(Nat) /\ Len(reminders) \in Nat /\ DOMAIN reminders = 1..Len(reminders)
    BY DEF AlertsTyped, AlertsTypeOK
<1>. DEFINE e(id) == IF id \in Mine THEN reminders[id] + 1 ELSE reminders[id]
<1>4. \A id \in DOMAIN reminders : e(id) \in Nat
    BY <1>3
<1>5. reminders' = [id \in DOMAIN reminders |-> e(id)]
    BY DEF MailAgents
<1>. HIDE DEF e
<1>6. reminders' \in [1..Len(reminders) -> Nat]
    BY <1>3, <1>4, <1>5
<1>7. reminders' \in Seq(Nat) /\ Len(reminders') = Len(reminders)
    BY <1>3, <1>6
<1>. QED BY <1>1, <1>2, <1>7, SweepingTyped, SameKept
     DEF MailAgents, AlertsTyped, AlertsTypeOK, AlertsPlaced

LEMMA LeadRowsTyped ==
    ASSUME BusTypeOK, AlertsTyped, sweep.pc # "idle"
    PROVE  /\ LeadRows \in Seq(Alarm) /\ \A k \in DOMAIN LeadRows : Done(LeadRows[k])
           /\ [k \in 1..Cardinality(NewLeads) |-> 1] \in Seq(Nat)
           /\ Len(LeadRows) = Len([k \in 1..Cardinality(NewLeads) |-> 1])
           /\ DOMAIN LeadRows = 1..Cardinality(NewLeads)
<1>1. NewLeads \subseteq Leads /\ Leads \subseteq Agents /\ IsFiniteSet(Leads)
    BY AlertsAssumption DEF NewLeads
<1>2. IsFiniteSet(NewLeads)
    BY <1>1, FS_Subset
<1>3. Cardinality(NewLeads) \in Nat /\ Enumeration(NewLeads) \in [1..Cardinality(NewLeads) -> NewLeads]
    BY <1>2, EnumerationLists
<1>. DEFINE n == Cardinality(NewLeads)
            row(k) == [conv |-> Current, reason |-> alarms[Next1].reason, event |-> 0,
                       target |-> Enumeration(NewLeads)[k], status |-> "new", by |-> NoAgent,
                       reminded |-> TRUE]
            one == [k \in 1..n |-> 1]
<1>4. LeadRows = [k \in 1..n |-> row(k)]
    BY DEF LeadRows
<1>5. \A k \in 1..n : row(k) \in Alarm /\ row(k).reminded = TRUE
    BY <1>1, <1>3, AtWork, AlarmIsAlarm DEF Alarm
<1>. HIDE DEF n, row
<1>6. n \in Nat
    BY <1>3 DEF n
<1>7. LeadRows \in Seq(Alarm) /\ Len(LeadRows) = n /\ DOMAIN LeadRows = 1..n
    BY <1>4, <1>5, <1>6
<1>8. one \in Seq(Nat) /\ Len(one) = n
    BY <1>6
<1>9. \A k \in 1..n : Done(LeadRows[k])
    BY <1>4, <1>5 DEF Done
<1>. QED BY <1>7, <1>8, <1>9 DEF n

LEMMA PageLeadsTypes ==
    ASSUME BusTypeOK, AlertsTyped, PageLeads
    PROVE  AlertsTyped'
<1>0. sweep.pc # "idle"
    BY DEF PageLeads
<1>1. alarms' = alarms \o LeadRows /\ reminders' = reminders \o [k \in 1..Cardinality(NewLeads) |-> 1]
    BY DEF PageLeads, Insert
<1>2. /\ alarms' \in Seq(Alarm) /\ reminders' \in Seq(Nat) /\ Len(reminders') = Len(alarms')
      /\ Kept(alarms, alarms')
    BY <1>0, <1>1, LeadRowsTyped, RowsAdded
<1>3. crossed' \subseteq Convs
    BY <1>0, AtWork DEF PageLeads, Insert, AlertsTyped, AlertsTypeOK
<1>4. sweep' \in Sweeper
      /\ (sweep'.pc # "idle" => sweep'.due # {} /\ sweep'.due \subseteq DOMAIN alarms)
    BY <1>0, DropIsSweeper DEF PageLeads
<1>. QED BY <1>2, <1>3, <1>4, SweepingTyped DEF PageLeads

LEMMA SweepFailsTypes ==
    ASSUME BusTypeOK, AlertsTyped, SweepFails
    PROVE  AlertsTyped'
BY RestingIsSweeper, SweepingTyped, SameKept DEF SweepFails, AlertsTyped, AlertsTypeOK, AlertsPlaced

LEMMA AlertsRestartTypes ==
    ASSUME BusTypeOK, AlertsTyped, AlertsRestart
    PROVE  AlertsTyped'
<1>1. ringing' \in [Tasks -> Ringer] /\ acking' \in [Agents -> Acker]
      /\ \A a \in Agents : acking'[a].pc = "idle"
    BY DEF AlertsRestart, Ringer, NotAcking, Acker
<1>2. unrung' \subseteq Convs
    BY AlertEvent DEF AlertsRestart, QueuedUnheard, Escalated, AlertsTyped, AlertsTypeOK
<1>. QED BY <1>1, <1>2, RestingIsSweeper, KeptTyped, SameKept
     DEF AlertsRestart, AlertsTyped, AlertsTypeOK, AlertsPlaced

\* Every step of the pager keeps its types.
LEMMA AlertsNextTypes ==
    ASSUME BusTypeOK, AlertsTyped, AlertsNext
    PROVE  AlertsTyped'
<1>1. ASSUME NEW i \in Tasks, RingStep(i) \/ RingFails(i) PROVE AlertsTyped'
    BY <1>1, CheckAlarmTypes, StandDownTypes, RingTypes, RingFailsTypes DEF RingStep
<1>2. ASSUME NEW a \in Agents, AckStep(a) \/ \E id \in DOMAIN alarms : ReadAlarm(a, id)
      PROVE  AlertsTyped'
    BY <1>2, AckRowTypes, AckSiblingsTypes, ReadAlarmTypes DEF AckStep
<1>3. ASSUME FindDue \/ SweepStep \/ SweepFails PROVE AlertsTyped'
    BY <1>3, FindDueTypes, LookWaitingTypes, StampTypes, MailAgentsTypes, PageLeadsTypes,
       SweepFailsTypes DEF SweepStep
<1>. QED BY <1>1, <1>2, <1>3 DEF AlertsNext

(***************************************************************************)
(* One reminder.  A row that was mailed is stamped or acknowledged, and      *)
(* stays so; a sweep mails rows of one conversation after it stamped them,   *)
(* and the rows it has yet to come to were not mailed.                      *)
(***************************************************************************)
MailedDone ==
    \A id \in DOMAIN reminders : reminders[id] <= 1 /\ (reminders[id] = 1 => Done(alarms[id]))
DueUnmailed ==
    /\ sweep.pc \in {"look", "stamp", "mail"} => \A id \in sweep.due : reminders[id] = 0
    /\ sweep.pc = "lead" => \A id \in sweep.due \ Mine : reminders[id] = 0
MineDone == sweep.pc \in {"mail", "lead"} => \A id \in Mine : Done(alarms[id])
RemindedInv == MailedDone /\ DueUnmailed /\ MineDone

LEMMA RemindedSuffices == RemindedInv => RemindedOnce
BY DEF RemindedInv, MailedDone, RemindedOnce

LEMMA RemindedStarts == AlertsInit => RemindedInv
BY DEF AlertsInit, RemindedInv, MailedDone, DueUnmailed, MineDone, Resting

\* The rows of the conversation at work stay the same while the sweep does.
LEMMA MineSame ==
    ASSUME AlertsTyped, sweep.pc # "idle", UNCHANGED sweep, Kept(alarms, alarms')
    PROVE  Mine' = Mine /\ Current' = Current
<1>1. Next1' = Next1
    BY DEF Next1
<1>2. Current' = Current
    BY <1>1, AtWork DEF Current, Kept
<1>3. \A id \in sweep.due : alarms'[id].conv = alarms[id].conv
    BY SweepIsSweep DEF Kept
<1>. QED BY <1>2, <1>3 DEF Mine

\* Rows are kept, and the counts of the rows there were; a new row was mailed only
\* if it is a reminder already.
Counted ==
    /\ Kept(alarms, alarms')
    /\ \A id \in DOMAIN reminders : reminders'[id] = reminders[id]
    /\ \A id \in DOMAIN reminders' \ DOMAIN reminders :
           reminders'[id] <= 1 /\ (reminders'[id] = 1 => Done(alarms'[id]))

LEMMA CountedMailed ==
    ASSUME AlertsTyped, AlertsTyped', MailedDone, Counted
    PROVE  MailedDone'
<1>. SUFFICES ASSUME NEW id \in DOMAIN reminders'
              PROVE  reminders'[id] <= 1 /\ (reminders'[id] = 1 => Done(alarms'[id]))
    BY DEF MailedDone
<1>1. CASE id \in DOMAIN reminders
    <2>1. reminders'[id] = reminders[id] /\ reminders[id] <= 1
          /\ (reminders[id] = 1 => Done(alarms[id]))
        BY <1>1 DEF Counted, MailedDone
    <2>2. id \in DOMAIN alarms
        BY <1>1 DEF AlertsTyped, AlertsTypeOK, AlertsPlaced
    <2>3. Done(alarms[id]) => Done(alarms'[id])
        BY <2>2 DEF Counted, Kept
    <2>. QED BY <2>1, <2>3
<1>2. CASE id \notin DOMAIN reminders
    BY <1>2 DEF Counted
<1>. QED BY <1>1, <1>2

\* Nothing but the sweep changes what the sweep relies on.
LEMMA SameSweepReminded ==
    ASSUME AlertsTyped, AlertsTyped', RemindedInv, UNCHANGED sweep, Counted
    PROVE  RemindedInv'
<1>1. MailedDone'
    BY CountedMailed DEF RemindedInv
<1>2. ASSUME sweep.pc # "idle"
      PROVE  /\ Mine' = Mine /\ sweep.due \subseteq DOMAIN alarms /\ Mine \subseteq sweep.due
             /\ \A id \in sweep.due : reminders'[id] = reminders[id]
    <2>1. Mine' = Mine
        BY <1>2, MineSame DEF Counted
    <2>2. sweep.due \subseteq DOMAIN alarms /\ Mine \subseteq sweep.due
        BY <1>2, SweepIsSweep DEF Mine
    <2>3. \A id \in DOMAIN alarms : id \in DOMAIN reminders
        BY AlarmIsAlarm
    <2>. QED BY <2>1, <2>2, <2>3 DEF Counted
<1>3. DueUnmailed'
    BY <1>2 DEF RemindedInv, DueUnmailed
<1>4. MineDone'
    BY <1>2 DEF RemindedInv, MineDone, Counted, Kept
<1>. QED BY <1>1, <1>3, <1>4 DEF RemindedInv

LEMMA KeptCounted ==
    ASSUME AlertsTyped, Kept(alarms, alarms'), UNCHANGED reminders
    PROVE  Counted
BY DEF Counted

LEMMA CheckAlarmReminded ==
    ASSUME BusTypeOK, AlertsTyped, RemindedInv, NEW i \in Tasks, CheckAlarm(i) \/ RingFails(i)
    PROVE  RemindedInv'
<1>1. AlertsTyped'
    BY CheckAlarmTypes, RingFailsTypes
<1>. QED BY <1>1, SameKept, KeptCounted, SameSweepReminded DEF CheckAlarm, RingFails

LEMMA StandDownReminded ==
    ASSUME BusTypeOK, AlertsTyped, RemindedInv, NEW i \in Tasks, StandDown(i)
    PROVE  RemindedInv'
<1>1. AlertsTyped' /\ Kept(alarms, alarms')
    BY StandDownTypes, AckedIsTyped DEF StandDown
<1>. QED BY <1>1, KeptCounted, SameSweepReminded DEF StandDown

LEMMA RingReminded ==
    ASSUME BusTypeOK, AlertsTyped, RemindedInv, NEW i \in Tasks, Ring(i)
    PROVE  RemindedInv'
<1>0. i \in DOMAIN events /\ AlertsTyped'
    BY RingTypes DEF Ring, Handles, Escalated
<1>1. PICK A \in Audiences : /\ Insert(i, events[i].conv, RowsOf(i, A))
                             /\ reminders' = reminders \o [k \in 1..Cardinality(A) |-> 0]
    BY DEF Ring
<1>. DEFINE page == RowsOf(i, A)
            zero == [k \in 1..Cardinality(A) |-> 0]
<1>2. /\ page \in Seq(Alarm) /\ zero \in Seq(Nat) /\ Len(zero) = Len(page)
      /\ DOMAIN page = 1..Cardinality(A)
    BY <1>0, RowsOfTyped DEF RowsOf
<1>3. alarms' = alarms \o page /\ reminders' = reminders \o zero
    BY <1>1 DEF Insert
<1>4. \A k \in DOMAIN page : zero[k] = 0
    BY <1>2
<1>. HIDE DEF page, zero
<1>5. Counted
    <2>1. Kept(alarms, alarms') /\ \A id \in DOMAIN reminders : reminders'[id] = reminders[id]
        BY <1>2, <1>3, RowsAdded
    <2>2. ASSUME NEW id \in DOMAIN reminders' \ DOMAIN reminders PROVE reminders'[id] = 0
        <3>0. \A n \in DOMAIN (reminders \o zero) \ DOMAIN reminders :
                \E k \in DOMAIN page : /\ (reminders \o zero)[n] = zero[k]
                                       /\ (alarms \o page)[n] = page[k]
            BY <1>2, RowsAdded
        <3>1. PICK k \in DOMAIN page : reminders'[id] = zero[k] /\ alarms'[id] = page[k]
            BY <1>3, <2>2, <3>0
        <3>. QED BY <1>4, <3>1
    <2>. QED BY <2>1, <2>2 DEF Counted
<1>. QED BY <1>0, <1>5, SameSweepReminded DEF Ring

LEMMA AckingReminded ==
    ASSUME BusTypeOK, AlertsTyped, RemindedInv, NEW a \in Agents,
           AckStep(a) \/ \E id \in DOMAIN alarms : ReadAlarm(a, id)
    PROVE  RemindedInv'
<1>1. AlertsTyped' /\ Kept(alarms, alarms')
    BY AckRowTypes, AckSiblingsTypes, ReadAlarmTypes, SameKept DEF AckStep, ReadAlarm
<1>. QED BY <1>1, KeptCounted, SameSweepReminded DEF AckStep, AckRow, AckSiblings, ReadAlarm

(***************************************************************************)
(* The sweep's own steps.                                                   *)
(***************************************************************************)
LEMMA FindDueReminded ==
    ASSUME BusTypeOK, AlertsTyped, RemindedInv, FindDue
    PROVE  RemindedInv'
<1>0. AlertsTyped'
    BY FindDueTypes
<1>1. PICK age \in DOMAIN alarms :
          sweep' = [pc |-> "look", due |-> FirstOf(Due(age)), waiting |-> {}]
    BY DEF FindDue
<1>2. \A id \in 1..age : id \in DOMAIN alarms
    BY DEF AlertsTyped, AlertsTypeOK
<1>3. ASSUME NEW id \in FirstOf(Due(age)) PROVE reminders[id] = 0
    <2>1. id \in DOMAIN alarms /\ alarms[id].status = "new" /\ ~alarms[id].reminded
        BY <1>2, <1>3 DEF FirstOf, Due
    <2>2. ~Done(alarms[id])
        BY <2>1 DEF Done
    <2>3. id \in DOMAIN reminders /\ reminders[id] \in Nat
        BY <2>1, AlarmIsAlarm
    <2>. QED BY <2>2, <2>3 DEF RemindedInv, MailedDone
<1>4. sweep'.pc = "look" /\ sweep'.due = FirstOf(Due(age))
    BY <1>1
<1>5. MailedDone'
    BY <1>0, SameKept, KeptCounted, CountedMailed DEF FindDue, RemindedInv
<1>6. DueUnmailed' /\ MineDone'
    BY <1>3, <1>4 DEF FindDue, DueUnmailed, MineDone
<1>. QED BY <1>5, <1>6 DEF RemindedInv

LEMMA LookWaitingReminded ==
    ASSUME BusTypeOK, AlertsTyped, RemindedInv, LookWaiting
    PROVE  RemindedInv'
<1>0. AlertsTyped'
    BY LookWaitingTypes
<1>1. sweep'.pc = "stamp" /\ sweep'.due = sweep.due
    BY SweepIsSweep DEF LookWaiting, Sweeper
<1>2. MailedDone'
    BY <1>0, SameKept, KeptCounted, CountedMailed DEF LookWaiting, RemindedInv
<1>3. DueUnmailed' /\ MineDone'
    BY <1>1 DEF LookWaiting, RemindedInv, DueUnmailed, MineDone
<1>. QED BY <1>2, <1>3 DEF RemindedInv

\* What a sweep does after the conversation at work is done with.
LEMMA DroppedUnmailed ==
    ASSUME AlertsTyped, sweep.pc # "idle", sweep' = DropCurrent,
           \A id \in sweep.due \ Mine : reminders'[id] = 0
    PROVE  DueUnmailed' /\ MineDone'
<1>1. sweep'.pc \in {"idle", "stamp"} /\ sweep'.due \subseteq sweep.due \ Mine
    BY DropIsSweeper
<1>. QED BY <1>1 DEF DueUnmailed, MineDone

LEMMA StampReminded ==
    ASSUME BusTypeOK, AlertsTyped, RemindedInv, Stamp
    PROVE  RemindedInv'
<1>0. AlertsTyped' /\ Kept(alarms, alarms') /\ sweep.pc = "stamp"
    BY StampTypes, StampKeeps DEF Stamp
<1>1. MailedDone'
    BY <1>0, KeptCounted, CountedMailed DEF Stamp, RemindedInv
<1>2. \A id \in sweep.due : reminders'[id] = 0
    BY <1>0 DEF RemindedInv, DueUnmailed, Stamp
<1>3. CASE sweep' = DropCurrent
    BY <1>0, <1>1, <1>2, <1>3, DroppedUnmailed DEF RemindedInv
<1>4. CASE sweep' = [sweep EXCEPT !.pc = "mail"]
    <2>1. sweep'.pc = "mail" /\ sweep'.due = sweep.due
        BY <1>4, SweepIsSweep DEF Sweeper
    <2>2. Next1' = Next1
        BY <2>1 DEF Next1
    <2>3. Current' = Current
        BY <1>0, <2>2, AtWork DEF Current, Kept
    <2>4. ASSUME NEW id \in Mine' PROVE Done(alarms'[id])
        <3>1. id \in sweep.due /\ id \in DOMAIN alarms /\ alarms'[id].conv = Current
            BY <1>0, <2>1, <2>3, <2>4, SweepIsSweep DEF Mine
        <3>2. alarms[id].conv = Current
            BY <1>0, <3>1 DEF Kept
        <3>. QED BY <3>1, <3>2, StampKeeps
    <2>5. MineDone'
        BY <2>4 DEF MineDone
    <2>6. DueUnmailed'
        BY <1>2, <2>1 DEF DueUnmailed
    <2>. QED BY <1>1, <2>5, <2>6 DEF RemindedInv
<1>. QED BY <1>3, <1>4 DEF Stamp

LEMMA MailAgentsReminded ==
    ASSUME BusTypeOK, AlertsTyped, RemindedInv, MailAgents
    PROVE  RemindedInv'
<1>0. sweep.pc = "mail" /\ alarms' = alarms
    BY DEF MailAgents
<1>1. sweep'.pc = "lead" /\ sweep'.due = sweep.due
    BY SweepIsSweep DEF MailAgents, Sweeper
<1>2. Mine' = Mine
    BY <1>0, <1>1 DEF Mine, Current, Next1
<1>3. /\ DOMAIN reminders' = DOMAIN reminders
      /\ \A id \in DOMAIN reminders :
            reminders'[id] = IF id \in Mine THEN reminders[id] + 1 ELSE reminders[id]
    BY DEF MailAgents
<1>4. Mine \subseteq sweep.due /\ sweep.due \subseteq DOMAIN alarms
    BY <1>0, SweepIsSweep DEF Mine
<1>5. \A id \in DOMAIN alarms : id \in DOMAIN reminders
    BY AlarmIsAlarm
<1>6. MailedDone'
    <2>. SUFFICES ASSUME NEW id \in DOMAIN reminders
                  PROVE  reminders'[id] <= 1 /\ (reminders'[id] = 1 => Done(alarms[id]))
        BY <1>0, <1>3 DEF MailedDone
    <2>1. CASE id \in Mine
        <3>1. reminders[id] = 0 /\ reminders'[id] = reminders[id] + 1
            BY <1>0, <1>3, <1>4, <2>1 DEF RemindedInv, DueUnmailed
        <3>2. Done(alarms[id])
            BY <1>0, <2>1 DEF RemindedInv, MineDone
        <3>. QED BY <3>1, <3>2
    <2>2. CASE id \notin Mine
        BY <1>3, <2>2 DEF RemindedInv, MailedDone
    <2>. QED BY <2>1, <2>2
<1>7. DueUnmailed'
    BY <1>0, <1>1, <1>2, <1>3, <1>4, <1>5 DEF RemindedInv, DueUnmailed
<1>8. MineDone'
    BY <1>0, <1>2 DEF RemindedInv, MineDone
<1>. QED BY <1>6, <1>7, <1>8 DEF RemindedInv

LEMMA PageLeadsReminded ==
    ASSUME BusTypeOK, AlertsTyped, RemindedInv, PageLeads
    PROVE  RemindedInv'
<1>. DEFINE one == [k \in 1..Cardinality(NewLeads) |-> 1]
<1>0. sweep.pc = "lead" /\ sweep' = DropCurrent /\ AlertsTyped'
    BY PageLeadsTypes DEF PageLeads
<1>1. alarms' = alarms \o LeadRows /\ reminders' = reminders \o one
    BY DEF PageLeads, Insert
<1>2. /\ LeadRows \in Seq(Alarm) /\ one \in Seq(Nat) /\ Len(LeadRows) = Len(one)
      /\ \A k \in DOMAIN LeadRows : Done(LeadRows[k]) /\ one[k] = 1
    BY <1>0, LeadRowsTyped
<1>. HIDE DEF one
<1>3. Counted
    <2>1. Kept(alarms, alarms') /\ \A id \in DOMAIN reminders : reminders'[id] = reminders[id]
        BY <1>1, <1>2, RowsAdded
    <2>2. ASSUME NEW id \in DOMAIN reminders' \ DOMAIN reminders
          PROVE  reminders'[id] = 1 /\ Done(alarms'[id])
        <3>0. \A n \in DOMAIN (reminders \o one) \ DOMAIN reminders :
                \E k \in DOMAIN LeadRows : /\ (reminders \o one)[n] = one[k]
                                       /\ (alarms \o LeadRows)[n] = LeadRows[k]
            BY <1>2, RowsAdded
        <3>1. PICK k \in DOMAIN LeadRows : reminders'[id] = one[k] /\ alarms'[id] = LeadRows[k]
            BY <1>1, <2>2, <3>0
        <3>. QED BY <1>2, <3>1
    <2>. QED BY <2>1, <2>2 DEF Counted
<1>4. MailedDone'
    BY <1>0, <1>3, CountedMailed DEF RemindedInv
<1>5. \A id \in sweep.due \ Mine : reminders'[id] = 0
    <2>1. \A id \in sweep.due : id \in DOMAIN reminders
        BY <1>0, SweepIsSweep, AlarmIsAlarm
    <2>. QED BY <1>0, <1>3, <2>1 DEF Counted, RemindedInv, DueUnmailed
<1>. QED BY <1>0, <1>4, <1>5, DroppedUnmailed DEF RemindedInv

\* A sweep or the process cut off.
LEMMA RestsReminded ==
    ASSUME BusTypeOK, AlertsTyped, RemindedInv, SweepFails \/ AlertsRestart
    PROVE  RemindedInv'
<1>0. sweep'.pc = "idle" /\ UNCHANGED <<alarms, reminders>>
    BY RestingIsSweeper DEF SweepFails, AlertsRestart
<1>1. MailedDone'
    BY <1>0 DEF RemindedInv, MailedDone
<1>2. DueUnmailed' /\ MineDone'
    BY <1>0 DEF DueUnmailed, MineDone
<1>. QED BY <1>1, <1>2 DEF RemindedInv

\* No step of the pager mails a row again.
LEMMA AlertsNextReminded ==
    ASSUME BusTypeOK, AlertsTyped, RemindedInv, AlertsNext
    PROVE  RemindedInv'
<1>1. ASSUME NEW i \in Tasks, RingStep(i) \/ RingFails(i) PROVE RemindedInv'
    BY <1>1, CheckAlarmReminded, StandDownReminded, RingReminded DEF RingStep
<1>2. ASSUME NEW a \in Agents, AckStep(a) \/ \E id \in DOMAIN alarms : ReadAlarm(a, id)
      PROVE  RemindedInv'
    BY <1>2, AckingReminded
<1>3. ASSUME FindDue \/ SweepStep \/ SweepFails PROVE RemindedInv'
    BY <1>3, FindDueReminded, LookWaitingReminded, StampReminded, MailAgentsReminded,
       PageLeadsReminded, RestsReminded DEF SweepStep
<1>. QED BY <1>1, <1>2, <1>3 DEF AlertsNext

(***************************************************************************)
(* One alarm.  A handler past its check knows that no alarm of its reason    *)
(* rings, and once it has stood the first page down that none does, unless   *)
(* another handler or a sweep stores rows meanwhile: then they have crossed. *)
(***************************************************************************)
Underway == \A i \in Tasks : ringing[i] # "check" => i \in DOMAIN events
Past(i) == Escalated(i) /\ ringing[i] \in {"stand", "ring"}
Cleared(i) ==
    /\ \A id \in New(events[i].conv) : alarms[id].reason # events[i].reason
    /\ ringing[i] = "ring" /\ events[i].reason = "category_selected" => New(events[i].conv) = {}
CheckedInv == \A i \in Tasks : Past(i) /\ events[i].conv \notin crossed => Cleared(i)
PagerInv == Underway /\ CheckedInv /\ OneAlarm /\ FirstPageStandsDown

LEMMA PagerStarts == BusInit /\ AlertsInit => PagerInv
<1>. SUFFICES ASSUME BusInit, AlertsInit PROVE PagerInv
    OBVIOUS
<1>1. events = <<>> /\ alarms = <<>> /\ \A i \in Tasks : ringing[i] = "check"
    BY DEF BusInit, AlertsInit
<1>. QED BY <1>1 DEF PagerInv, Underway, CheckedInv, Past, Escalated, OneAlarm, New, FirstPageStandsDown

\* The rows are those there were, and none rings that did not.
Quieter(t, u) ==
    /\ DOMAIN u = DOMAIN t
    /\ \A id \in DOMAIN t :
          /\ u[id].conv = t[id].conv /\ u[id].reason = t[id].reason /\ u[id].event = t[id].event
          /\ u[id].status = "new" => t[id].status = "new"

LEMMA AlarmStatus ==
    ASSUME AlertsTyped, NEW id \in DOMAIN alarms
    PROVE  alarms[id].status \in {"new", "acked"}
BY AlarmIsAlarm DEF Alarm

LEMMA QuieterNew ==
    ASSUME Quieter(alarms, alarms'), NEW c
    PROVE  New(c)' \subseteq New(c)
BY DEF Quieter, New

LEMMA QuieterPages ==
    ASSUME AlertsTyped, AlertsTyped', OneAlarm, FirstPageStandsDown,
           Quieter(alarms, alarms'), crossed \subseteq crossed'
    PROVE  OneAlarm' /\ FirstPageStandsDown'
<1>1. OneAlarm'
    BY QuieterNew DEF OneAlarm, Quieter, New
<1>2. \A id \in DOMAIN alarms : alarms[id].status = "acked" => alarms'[id].status = "acked"
    <2>. SUFFICES ASSUME NEW id \in DOMAIN alarms, alarms[id].status = "acked"
                  PROVE  alarms'[id].status = "acked"
        OBVIOUS
    <2>1. id \in DOMAIN alarms' /\ alarms'[id].status # "new"
        BY DEF Quieter
    <2>2. alarms'[id] \in Alarm
        BY <2>1 DEF AlertsTyped, AlertsTypeOK
    <2>. QED BY <2>1, <2>2 DEF Alarm
<1>3. FirstPageStandsDown'
    BY <1>2 DEF FirstPageStandsDown, Quieter
<1>. QED BY <1>1, <1>3

\* No handler begins to store.
LEMMA QuieterPager ==
    ASSUME AlertsTyped, AlertsTyped', PagerInv, Quieter(alarms, alarms'), crossed \subseteq crossed',
           Underway', \A i \in Tasks : Past(i)' => /\ Past(i) /\ ringing'[i] = ringing[i]
                                                   /\ events'[i] = events[i]
    PROVE  PagerInv'
<1>1. ASSUME NEW i \in Tasks, Past(i)', events'[i].conv \notin crossed' PROVE Cleared(i)'
    <2>1. Past(i) /\ ringing'[i] = ringing[i] /\ events'[i] = events[i] /\ events[i].conv \notin crossed
        BY <1>1
    <2>2. Cleared(i)
        BY <2>1 DEF PagerInv, CheckedInv
    <2>3. New(events[i].conv)' \subseteq New(events[i].conv)
        BY <2>1 DEF Quieter, New
    <2>4. \A id \in New(events[i].conv) : alarms'[id].reason = alarms[id].reason
        BY DEF Quieter, New
    <2>. QED BY <2>1, <2>2, <2>3, <2>4 DEF Cleared, New
<1>2. CheckedInv'
    BY <1>1 DEF CheckedInv
<1>. QED BY <1>2, QuieterPages DEF PagerInv

LEMMA SameQuieter == ASSUME UNCHANGED alarms PROVE Quieter(alarms, alarms')
BY DEF Quieter

LEMMA AckedQuieter ==
    ASSUME AlertsTyped, NEW S, NEW by, alarms' = Acked(S, by)
    PROVE  /\ Quieter(alarms, alarms')
           /\ \A id \in S \cap DOMAIN alarms : alarms'[id].status = "acked" /\ alarms'[id].by = by
           /\ \A id \in DOMAIN alarms \ S : alarms'[id] = alarms[id]
<1>1. DOMAIN alarms' = DOMAIN alarms
    BY DEF Acked
<1>2. ASSUME NEW id \in DOMAIN alarms
      PROVE  /\ alarms'[id].conv = alarms[id].conv /\ alarms'[id].reason = alarms[id].reason
             /\ alarms'[id].event = alarms[id].event
             /\ alarms'[id].status = "new" => alarms[id].status = "new"
             /\ id \in S => alarms'[id].status = "acked" /\ alarms'[id].by = by
             /\ id \notin S => alarms'[id] = alarms[id]
    <2>. DEFINE r == [alarms[id] EXCEPT !.status = "acked", !.by = by]
    <2>1. alarms'[id] = IF id \in S THEN r ELSE alarms[id]
        BY DEF Acked
    <2>2. alarms[id] \in Alarm
        BY AlarmIsAlarm
    <2>3. /\ r.conv = alarms[id].conv /\ r.reason = alarms[id].reason /\ r.event = alarms[id].event
          /\ r.status = "acked" /\ r.by = by
        BY <2>2 DEF Alarm
    <2>. HIDE DEF r
    <2>. QED BY <2>1, <2>3
<1>. QED BY <1>1, <1>2 DEF Quieter

(***************************************************************************)
(* The handlers.                                                            *)
(***************************************************************************)
LEMMA CheckAlarmPager ==
    ASSUME BusTypeOK, AlertsTyped, PagerInv, NEW i \in Tasks, CheckAlarm(i)
    PROVE  PagerInv'
<1>0. /\ AlertsTyped' /\ Escalated(i) /\ ringing' = [ringing EXCEPT ![i] = AfterCheck(i)]
      /\ UNCHANGED <<events, alarms, crossed>>
    BY CheckAlarmTypes DEF CheckAlarm, Handles, bus
<1>1. /\ \A j \in Tasks \ {i} : ringing'[j] = ringing[j]
      /\ ringing'[i] = AfterCheck(i)
    BY <1>0 DEF AlertsTyped, AlertsTypeOK
<1>2. Underway'
    BY <1>0, <1>1 DEF PagerInv, Underway, Escalated
<1>3. ASSUME NEW j \in Tasks, Past(j)', events'[j].conv \notin crossed' PROVE Cleared(j)'
    <2>1. CASE j # i
        <3>1. Past(j) /\ events[j].conv \notin crossed
            BY <1>0, <1>1, <1>3, <2>1 DEF Past, Escalated
        <3>2. Cleared(j)
            BY <3>1 DEF PagerInv, CheckedInv
        <3>. QED BY <1>0, <1>1, <2>1, <3>2 DEF Cleared, New
    <2>2. CASE j = i
        <3>1. ~Rung(i) /\ (AfterCheck(i) = "ring" => events[i].reason # "category_selected")
            BY <1>1, <1>3, <2>2 DEF Past, AfterCheck
        <3>. QED BY <1>0, <1>1, <2>2, <3>1 DEF Cleared, Rung, New
    <2>. QED BY <2>1, <2>2
<1>4. CheckedInv'
    BY <1>3 DEF CheckedInv
<1>. QED BY <1>0, <1>2, <1>4, SameQuieter, QuieterPages DEF PagerInv

LEMMA StandDownPager ==
    ASSUME BusTypeOK, AlertsTyped, PagerInv, NEW i \in Tasks, StandDown(i)
    PROVE  PagerInv'
<1>0. /\ AlertsTyped' /\ Escalated(i) /\ ringing[i] = "stand"
      /\ ringing' = [ringing EXCEPT ![i] = "ring"]
      /\ alarms' = Acked(New(events[i].conv), NoAgent) /\ UNCHANGED <<events, crossed>>
    BY StandDownTypes DEF StandDown, Handles, bus
<1>1. /\ \A j \in Tasks \ {i} : ringing'[j] = ringing[j]
      /\ ringing'[i] = "ring"
    BY <1>0 DEF AlertsTyped, AlertsTypeOK
<1>2. Underway'
    BY <1>0, <1>1 DEF PagerInv, Underway, Escalated
<1>3. Quieter(alarms, alarms') /\ \A id \in New(events[i].conv) : alarms'[id].status = "acked"
    BY <1>0, AckedQuieter DEF New
<1>4. New(events[i].conv)' = {}
    BY <1>0, <1>3, QuieterNew DEF New
<1>5. ASSUME NEW j \in Tasks, Past(j)', events'[j].conv \notin crossed' PROVE Cleared(j)'
    <2>1. CASE j # i
        <3>1. Past(j) /\ events[j].conv \notin crossed
            BY <1>0, <1>1, <1>5, <2>1 DEF Past, Escalated
        <3>2. Cleared(j) /\ New(events[j].conv)' \subseteq New(events[j].conv)
            BY <1>0, <1>3, <3>1 DEF PagerInv, CheckedInv, Quieter, New
        <3>3. \A id \in New(events[j].conv) : alarms'[id].reason = alarms[id].reason
            BY <1>3 DEF Quieter, New
        <3>. QED BY <1>0, <1>1, <2>1, <3>2, <3>3 DEF Cleared, New
    <2>2. CASE j = i
        BY <1>0, <1>4, <2>2 DEF Cleared, New
    <2>. QED BY <2>1, <2>2
<1>6. CheckedInv'
    BY <1>5 DEF CheckedInv
<1>. QED BY <1>0, <1>2, <1>3, <1>6, QuieterPages DEF PagerInv

\* Rows stored after those there were.
LEMMA RowsJoined ==
    ASSUME AlertsTyped, NEW rows \in Seq(Alarm)
    PROVE  /\ \A id \in DOMAIN alarms : id \in DOMAIN (alarms \o rows) /\ (alarms \o rows)[id] = alarms[id]
           /\ \A id \in DOMAIN (alarms \o rows) \ DOMAIN alarms :
                 /\ \E k \in DOMAIN rows : (alarms \o rows)[id] = rows[k]
                 /\ \A j \in DOMAIN alarms : j < id
<1>1. alarms \in Seq(Alarm) /\ Len(alarms) \in Nat /\ Len(rows) \in Nat
    BY DEF AlertsTyped, AlertsTypeOK
<1>2. ASSUME NEW id \in DOMAIN (alarms \o rows) \ DOMAIN alarms
      PROVE  /\ \E k \in DOMAIN rows : (alarms \o rows)[id] = rows[k]
             /\ \A j \in DOMAIN alarms : j < id
    <2>1. id \in 1..(Len(alarms) + Len(rows)) /\ id > Len(alarms)
        BY <1>1
    <2>2. id - Len(alarms) \in DOMAIN rows
        BY <1>1, <2>1
    <2>3. (alarms \o rows)[id] = rows[id - Len(alarms)]
        BY <1>1, <2>1
    <2>. QED BY <1>1, <2>1, <2>2, <2>3
<1>3. \A id \in DOMAIN alarms : id \in DOMAIN (alarms \o rows) /\ (alarms \o rows)[id] = alarms[id]
    BY <1>1
<1>. QED BY <1>2, <1>3

\* What a page or a reminder of c for an event (0: a lead's) stores.
PageOf(rows, c, reason, event) ==
    \A k \in DOMAIN rows :
        rows[k].conv = c /\ rows[k].reason = reason /\ rows[k].event = event /\ rows[k].status = "new"

\* Rows of c are stored by i (0: the sweep); i has cleared the way for them.
LEMMA InsertPager ==
    ASSUME AlertsTyped, AlertsTyped', PagerInv, NEW i \in Nat, NEW c \in Convs, NEW reason,
           NEW rows \in Seq(Alarm), PageOf(rows, c, reason, i), Insert(i, c, rows),
           Underway', UNCHANGED events,
           \A j \in Tasks : Past(j)' => j # i /\ Past(j) /\ ringing'[j] = ringing[j],
           i # 0 /\ c \notin crossed =>
               /\ \A id \in New(c) : alarms[id].reason # reason
               /\ reason = "category_selected" => New(c) = {}
    PROVE  PagerInv'
<1>1. alarms' = alarms \o rows /\ crossed \subseteq crossed' /\ (Crossing(i, c) => c \in crossed')
    BY DEF Insert
<1>2. /\ \A id \in DOMAIN alarms : id \in DOMAIN alarms' /\ alarms'[id] = alarms[id]
      /\ \A id \in DOMAIN alarms' \ DOMAIN alarms :
            /\ alarms'[id].conv = c /\ alarms'[id].reason = reason /\ alarms'[id].event = i
            /\ alarms'[id].status = "new"
            /\ \A j \in DOMAIN alarms : j < id
    BY <1>1, RowsJoined DEF PageOf
<1>3. \A d : d # c => New(d)' = New(d)
    BY <1>2 DEF New
<1>4. ASSUME NEW j \in Tasks, Past(j)', events'[j].conv \notin crossed' PROVE Cleared(j)'
    <2>1. j # i /\ Past(j) /\ ringing'[j] = ringing[j] /\ events[j].conv \notin crossed
        BY <1>1, <1>4
    <2>2. events[j].conv # c
        BY <1>1, <1>4, <2>1 DEF Crossing, Past
    <2>3. Cleared(j)
        BY <2>1 DEF PagerInv, CheckedInv
    <2>4. New(events[j].conv)' = New(events[j].conv)
        BY <1>3, <2>2
    <2>. QED BY <1>2, <2>1, <2>3, <2>4 DEF Cleared, New
<1>5. OneAlarm'
    <2>. SUFFICES ASSUME NEW d \in Convs \ crossed', NEW j \in New(d)', NEW k \in New(d)',
                         alarms'[j].reason = alarms'[k].reason,
                         alarms'[j].event # 0, alarms'[k].event # 0
                  PROVE  alarms'[j].event = alarms'[k].event
        BY DEF OneAlarm
    <2>0. d \notin crossed /\ j \in DOMAIN alarms' /\ k \in DOMAIN alarms'
        BY <1>1 DEF New
    <2>1. CASE j \in DOMAIN alarms /\ k \in DOMAIN alarms
        BY <1>2, <2>0, <2>1 DEF PagerInv, OneAlarm, New
    <2>2. CASE j \notin DOMAIN alarms /\ k \notin DOMAIN alarms
        BY <1>2, <2>0, <2>2
    <2>3. CASE j \in DOMAIN alarms /\ k \notin DOMAIN alarms
        <3>1. d = c /\ i # 0 /\ j \in New(c) /\ alarms[j].reason = reason
            BY <1>2, <2>0, <2>3 DEF New
        <3>. QED BY <2>0, <3>1
    <2>4. CASE j \notin DOMAIN alarms /\ k \in DOMAIN alarms
        <3>1. d = c /\ i # 0 /\ k \in New(c) /\ alarms[k].reason = reason
            BY <1>2, <2>0, <2>4 DEF New
        <3>. QED BY <2>0, <3>1
    <2>. QED BY <2>1, <2>2, <2>3, <2>4
<1>6. FirstPageStandsDown'
    <2>. SUFFICES ASSUME NEW j \in DOMAIN alarms', NEW k \in DOMAIN alarms',
                         alarms'[k].event # 0, alarms'[k].reason = "category_selected",
                         alarms'[j].conv = alarms'[k].conv, alarms'[j].event # alarms'[k].event,
                         j < k, alarms'[j].conv \notin crossed'
                  PROVE  alarms'[j].status = "acked"
        BY DEF FirstPageStandsDown
    <2>1. CASE k \in DOMAIN alarms
        <3>1. j \in DOMAIN alarms
            BY <1>2, <2>1 DEF AlertsTyped, AlertsTypeOK
        <3>. QED BY <1>1, <1>2, <2>1, <3>1, SMTT(30) DEF PagerInv, FirstPageStandsDown
    <2>2. CASE k \notin DOMAIN alarms
        <3>1. j \in DOMAIN alarms /\ i # 0 /\ alarms[j].conv = c /\ reason = "category_selected"
            BY <1>2, <2>2
        <3>2. New(c) = {}
            BY <1>1, <1>2, <3>1
        <3>. QED BY <1>2, <3>1, <3>2, AlarmStatus DEF New
    <2>. QED BY <2>1, <2>2
<1>7. CheckedInv'
    BY <1>4 DEF CheckedInv
<1>. QED BY <1>5, <1>6, <1>7 DEF PagerInv

LEMMA RingPager ==
    ASSUME BusTypeOK, AlertsTyped, PagerInv, NEW i \in Tasks, Ring(i)
    PROVE  PagerInv'
<1>. DEFINE c == events[i].conv
<1>0. /\ AlertsTyped' /\ Escalated(i) /\ i \in DOMAIN events /\ ringing[i] = "ring"
      /\ ringing' = [ringing EXCEPT ![i] = "done"] /\ UNCHANGED events
    BY RingTypes DEF Ring, Handles, Escalated, bus
<1>1. PICK A \in Audiences : Insert(i, c, RowsOf(i, A))
    BY DEF Ring
<1>2. RowsOf(i, A) \in Seq(Alarm) /\ PageOf(RowsOf(i, A), c, events[i].reason, i)
    BY <1>0, RowsOfTyped DEF PageOf, RowsOf
<1>3. (\A j \in Tasks \ {i} : ringing'[j] = ringing[j]) /\ ringing'[i] = "done"
    BY <1>0 DEF AlertsTyped, AlertsTypeOK
<1>4. Underway'
    BY <1>0, <1>3 DEF PagerInv, Underway
<1>5. \A j \in Tasks : Past(j)' => j # i /\ Past(j) /\ ringing'[j] = ringing[j]
    BY <1>0, <1>3 DEF Past, Escalated
<1>6. c \notin crossed => Cleared(i)
    BY <1>0 DEF PagerInv, CheckedInv, Past
<1>7. c \in Convs /\ i \in Nat
    BY <1>0, AlertEvent
<1>. QED BY <1>0, <1>1, <1>2, <1>4, <1>5, <1>6, <1>7, InsertPager DEF Cleared

LEMMA RingFailsPager ==
    ASSUME BusTypeOK, AlertsTyped, PagerInv, NEW i \in Tasks, RingFails(i)
    PROVE  PagerInv'
<1>0. /\ AlertsTyped' /\ Escalated(i) /\ ringing' = [ringing EXCEPT ![i] = "done"]
      /\ UNCHANGED <<events, alarms, crossed>>
    BY RingFailsTypes DEF RingFails, Handles
<1>1. (\A j \in Tasks \ {i} : ringing'[j] = ringing[j]) /\ ringing'[i] = "done"
    BY <1>0 DEF AlertsTyped, AlertsTypeOK
<1>2. Underway'
    BY <1>0, <1>1 DEF PagerInv, Underway, Escalated
<1>3. \A j \in Tasks : Past(j)' => Past(j) /\ ringing'[j] = ringing[j] /\ events'[j] = events[j]
    BY <1>0, <1>1 DEF Past, Escalated
<1>. QED BY <1>0, <1>2, <1>3, SameQuieter, QuieterPager

(***************************************************************************)
(* Acknowledgements and the sweep.                                          *)
(***************************************************************************)
LEMMA SameHandlersPager ==
    ASSUME AlertsTyped, AlertsTyped', PagerInv, Quieter(alarms, alarms'), crossed \subseteq crossed',
           UNCHANGED <<events, ringing>>
    PROVE  PagerInv'
<1>1. Underway'
    BY DEF PagerInv, Underway
<1>2. \A j \in Tasks : Past(j)' => Past(j) /\ ringing'[j] = ringing[j] /\ events'[j] = events[j]
    BY DEF Past, Escalated
<1>. QED BY <1>1, <1>2, QuieterPager

\* Whoever acknowledges a row is named in it.
LEMMA AckRowQuieter ==
    ASSUME BusTypeOK, AlertsTyped, NEW a \in Agents, AckRow(a)
    PROVE  /\ Quieter(alarms, alarms')
           /\ \A id \in DOMAIN alarms : alarms'[id] = alarms[id] \/ alarms'[id].by = a
<1>. DEFINE id == acking[a].id
            row == [alarms[id] EXCEPT !.status = "acked", !.by = a, !.reminded = acking[a].reminded]
<1>1. id \in DOMAIN alarms
    BY AckIsAck DEF AckRow
<1>2. alarms' = [alarms EXCEPT ![id] = row]
    BY DEF AckRow
<1>3. alarms[id] \in Alarm
    BY <1>1, AlarmIsAlarm
<1>4. /\ row.conv = alarms[id].conv /\ row.reason = alarms[id].reason
      /\ row.event = alarms[id].event /\ row.status = "acked" /\ row.by = a
    BY <1>3 DEF Alarm
<1>. HIDE DEF row, id
<1>5. DOMAIN alarms' = DOMAIN alarms /\ \A k \in DOMAIN alarms : alarms'[k] = IF k = id THEN row ELSE alarms[k]
    BY <1>1, <1>2
<1>. QED BY <1>4, <1>5 DEF Quieter

LEMMA StampQuieter ==
    ASSUME BusTypeOK, AlertsTyped, Stamp
    PROVE  /\ Quieter(alarms, alarms')
           /\ \A id \in DOMAIN alarms : /\ alarms'[id].status = alarms[id].status
                                        /\ alarms'[id].by = alarms[id].by
<1>1. DOMAIN alarms' = DOMAIN alarms
    BY DEF Stamp
<1>2. ASSUME NEW id \in DOMAIN alarms
      PROVE  /\ alarms'[id].conv = alarms[id].conv /\ alarms'[id].reason = alarms[id].reason
             /\ alarms'[id].event = alarms[id].event /\ alarms'[id].status = alarms[id].status
             /\ alarms'[id].by = alarms[id].by
    <2>. DEFINE r == [alarms[id] EXCEPT !.reminded = TRUE]
    <2>1. alarms'[id] = IF id \in New(Current) THEN r ELSE alarms[id]
        BY DEF Stamp
    <2>2. alarms[id] \in Alarm
        BY AlarmIsAlarm
    <2>3. /\ r.conv = alarms[id].conv /\ r.reason = alarms[id].reason /\ r.event = alarms[id].event
          /\ r.status = alarms[id].status /\ r.by = alarms[id].by
        BY <2>2 DEF Alarm
    <2>. HIDE DEF r
    <2>. QED BY <2>1, <2>3
<1>. QED BY <1>1, <1>2 DEF Quieter

LEMMA AckingPager ==
    ASSUME BusTypeOK, AlertsTyped, PagerInv, NEW a \in Agents,
           AckStep(a) \/ \E id \in DOMAIN alarms : ReadAlarm(a, id)
    PROVE  PagerInv'
<1>1. AlertsTyped' /\ UNCHANGED <<events, ringing, crossed>>
    BY AckRowTypes, AckSiblingsTypes, ReadAlarmTypes
       DEF AckStep, AckRow, AckSiblings, ReadAlarm, bus
<1>2. Quieter(alarms, alarms')
    BY AckRowQuieter, AckedQuieter, SameQuieter DEF AckStep, AckSiblings, ReadAlarm
<1>. QED BY <1>1, <1>2, SameHandlersPager

LEMMA LeadRowsPage ==
    PageOf(LeadRows, Current, alarms[Next1].reason, 0)
BY DEF PageOf, LeadRows

LEMMA SweepPager ==
    ASSUME BusTypeOK, AlertsTyped, PagerInv, FindDue \/ SweepStep \/ SweepFails
    PROVE  PagerInv'
<1>1. CASE FindDue \/ LookWaiting \/ MailAgents \/ SweepFails
    <2>1. AlertsTyped' /\ UNCHANGED <<events, alarms, ringing, crossed>>
        BY <1>1, FindDueTypes, LookWaitingTypes, MailAgentsTypes, SweepFailsTypes
           DEF FindDue, LookWaiting, MailAgents, SweepFails, bus
    <2>. QED BY <2>1, SameQuieter, SameHandlersPager
<1>2. CASE Stamp
    <2>1. AlertsTyped' /\ UNCHANGED <<events, ringing, crossed>>
        BY <1>2, StampTypes DEF Stamp, bus
    <2>. QED BY <1>2, <2>1, StampQuieter, SameHandlersPager
<1>3. CASE PageLeads
    <2>1. /\ AlertsTyped' /\ UNCHANGED <<events, ringing>> /\ sweep.pc # "idle"
          /\ Insert(0, Current, LeadRows)
        BY <1>3, PageLeadsTypes DEF PageLeads, bus
    <2>2. Current \in Convs /\ LeadRows \in Seq(Alarm)
        BY <2>1, AtWork, LeadRowsTyped
    <2>3. Underway' /\ \A j \in Tasks : Past(j)' => j # 0 /\ Past(j) /\ ringing'[j] = ringing[j]
        BY <2>1 DEF PagerInv, Underway, Past, Escalated, Tasks
    <2>. QED BY <2>1, <2>2, <2>3, LeadRowsPage, InsertPager
<1>. QED BY <1>1, <1>2, <1>3 DEF SweepStep

LEMMA AlertsRestartPager ==
    ASSUME BusTypeOK, AlertsTyped, PagerInv, AlertsRestart, UNCHANGED events
    PROVE  PagerInv'
<1>1. AlertsTyped' /\ UNCHANGED <<alarms, crossed>>
    BY AlertsRestartTypes DEF AlertsRestart
<1>2. \A i \in Tasks : ringing'[i] = IF i \in DOMAIN events THEN "done" ELSE "check"
    BY DEF AlertsRestart
<1>3. Underway' /\ \A i \in Tasks : ~Past(i)'
    BY <1>2 DEF Underway, Past, Escalated
<1>. QED BY <1>1, <1>3, SameQuieter, QuieterPager

\* No step of the pager rings twice for one reason, or leaves a first page ringing.
LEMMA AlertsNextPager ==
    ASSUME BusTypeOK, AlertsTyped, PagerInv, AlertsNext
    PROVE  PagerInv'
<1>1. ASSUME NEW i \in Tasks, RingStep(i) \/ RingFails(i) PROVE PagerInv'
    BY <1>1, CheckAlarmPager, StandDownPager, RingPager, RingFailsPager DEF RingStep
<1>2. ASSUME NEW a \in Agents, AckStep(a) \/ \E id \in DOMAIN alarms : ReadAlarm(a, id)
      PROVE  PagerInv'
    BY <1>2, AckingPager
<1>. QED BY <1>1, <1>2, SweepPager DEF AlertsNext

(***************************************************************************)
(* Nobody is left unheard.  A conversation that was escalated has a handler  *)
(* at work, an alarm that rings or one an agent acknowledged; only a failed  *)
(* or cut handler takes that from it.                                       *)
(***************************************************************************)
Rings(c) ==
    New(c) # {} \/ \E id \in DOMAIN alarms : alarms[id].conv = c /\ alarms[id].by # NoAgent
Answered(c) == c \in unrung \/ Settling(c) \/ Rings(c)
Summoned(c) == \E i \in Tasks : Handles(i) /\ events[i].conv = c
QueuedInv == \A c \in Convs : Summoned(c) => Answered(c)

LEMMA QueuedStarts == BusInit => QueuedInv
<1>. SUFFICES ASSUME BusInit PROVE QueuedInv
    OBVIOUS
<1>1. events = <<>>
    BY DEF BusInit
<1>. QED BY <1>1 DEF QueuedInv, Summoned, Handles, Escalated

\* A row rings on, or is acknowledged by an agent.
Heard(row) == row.status = "new" \/ row.by # NoAgent

LEMMA HeardRings ==
    ASSUME AlertsTyped, NEW c,
           \A id \in DOMAIN alarms :
               id \in DOMAIN alarms' /\ alarms'[id].conv = alarms[id].conv
               /\ (alarms[id].conv = c /\ Heard(alarms[id]) => Heard(alarms'[id]))
    PROVE  Rings(c) => Rings(c)'
<1>1. Rings(c) <=> \E id \in DOMAIN alarms : alarms[id].conv = c /\ Heard(alarms[id])
    BY DEF Rings, New, Heard
<1>2. Rings(c)' <=> \E id \in DOMAIN alarms' : alarms'[id].conv = c /\ Heard(alarms'[id])
    BY DEF Rings, New, Heard
<1>. QED BY <1>1, <1>2

LEMMA AnsweredQueued ==
    ASSUME BusTypeOK, QueuedInv, UNCHANGED <<setup, events>>,
           \A c \in Convs : Answered(c) => Answered(c)'
    PROVE  QueuedInv'
<1>1. \A c \in Convs : Summoned(c)' => Summoned(c)
    BY DEF Summoned, Handles, Escalated
<1>. QED BY <1>1 DEF QueuedInv

\* The handlers stay, and the rows that ring or were acknowledged.
LEMMA SameHandlersQueued ==
    ASSUME BusTypeOK, AlertsTyped, QueuedInv, UNCHANGED <<setup, events, ringing, unrung>>,
           \A id \in DOMAIN alarms :
               id \in DOMAIN alarms' /\ alarms'[id].conv = alarms[id].conv
               /\ (Heard(alarms[id]) => Heard(alarms'[id]))
    PROVE  QueuedInv'
<1>1. ASSUME NEW c \in Convs, Answered(c) PROVE Answered(c)'
    <2>1. Rings(c) => Rings(c)'
        BY HeardRings
    <2>. QED BY <1>1, <2>1 DEF Answered, Settling, Escalated
<1>. QED BY <1>1, AnsweredQueued

LEMMA CheckAlarmQueued ==
    ASSUME BusTypeOK, AlertsTyped, QueuedInv, NEW i \in Tasks, CheckAlarm(i)
    PROVE  QueuedInv'
<1>0. /\ Escalated(i) /\ ringing' = [ringing EXCEPT ![i] = AfterCheck(i)]
      /\ UNCHANGED <<setup, events, alarms, unrung>>
    BY DEF CheckAlarm, Handles, bus
<1>1. (\A j \in Tasks \ {i} : ringing'[j] = ringing[j]) /\ ringing'[i] = AfterCheck(i)
    BY <1>0 DEF AlertsTyped, AlertsTypeOK
<1>2. ASSUME NEW c \in Convs, Answered(c) PROVE Answered(c)'
    <2>1. Rings(c) => Rings(c)'
        BY <1>0 DEF Rings, New
    <2>2. ASSUME Settling(c) PROVE Settling(c)' \/ Rings(c)'
        <3>1. PICK j \in Tasks : Escalated(j) /\ events[j].conv = c /\ ringing[j] # "done"
            BY <2>2 DEF Settling
        <3>2. CASE j # i \/ ~Rung(i)
            <4>1. ringing'[j] # "done"
                BY <1>1, <3>1, <3>2 DEF AfterCheck
            <4>. QED BY <1>0, <3>1, <4>1 DEF Settling, Escalated
        <3>3. CASE j = i /\ Rung(i)
            BY <1>0, <3>1, <3>3 DEF Rung, Rings, New
        <3>. QED BY <3>2, <3>3
    <2>. QED BY <1>0, <1>2, <2>1, <2>2 DEF Answered
<1>. QED BY <1>0, <1>2, AnsweredQueued

LEMMA StandDownQueued ==
    ASSUME BusTypeOK, AlertsTyped, QueuedInv, NEW i \in Tasks, StandDown(i)
    PROVE  QueuedInv'
<1>0. /\ Escalated(i) /\ ringing' = [ringing EXCEPT ![i] = "ring"]
      /\ alarms' = Acked(New(events[i].conv), NoAgent) /\ UNCHANGED <<setup, events, unrung>>
    BY DEF StandDown, Handles, bus
<1>1. (\A j \in Tasks \ {i} : ringing'[j] = ringing[j]) /\ ringing'[i] = "ring"
    BY <1>0 DEF AlertsTyped, AlertsTypeOK
<1>2. ASSUME NEW c \in Convs, Answered(c) PROVE Answered(c)'
    <2>1. Settling(c) => Settling(c)'
        BY <1>0, <1>1 DEF Settling, Escalated
    <2>2. CASE c = events[i].conv
        BY <1>0, <1>1, <2>2 DEF Answered, Settling, Escalated
    <2>3. CASE c # events[i].conv
        <3>1. Quieter(alarms, alarms') /\ \A id \in DOMAIN alarms \ New(events[i].conv) : alarms'[id] = alarms[id]
            BY <1>0, AckedQuieter
        <3>2. \A id \in DOMAIN alarms :
                  id \in DOMAIN alarms' /\ alarms'[id].conv = alarms[id].conv
                  /\ (alarms[id].conv = c /\ Heard(alarms[id]) => Heard(alarms'[id]))
            BY <2>3, <3>1 DEF Quieter, New
        <3>3. Rings(c) => Rings(c)'
            BY <3>2, HeardRings
        <3>. QED BY <1>0, <1>2, <2>1, <3>3 DEF Answered
    <2>. QED BY <2>2, <2>3
<1>. QED BY <1>0, <1>2, AnsweredQueued

LEMMA RingQueued ==
    ASSUME BusTypeOK, AlertsTyped, QueuedInv, NEW i \in Tasks, Ring(i)
    PROVE  QueuedInv'
<1>0. /\ Escalated(i) /\ i \in DOMAIN events /\ ringing' = [ringing EXCEPT ![i] = "done"]
      /\ UNCHANGED <<setup, events, unrung>>
    BY DEF Ring, Handles, Escalated, bus
<1>1. PICK A \in Audiences : alarms' = alarms \o RowsOf(i, A)
    BY DEF Ring, Insert
<1>. DEFINE page == RowsOf(i, A)
<1>2. page \in Seq(Alarm) /\ PageOf(page, events[i].conv, events[i].reason, i)
    BY <1>0, RowsOfTyped DEF PageOf, RowsOf
<1>3. Len(page) \in Nat \ {0}
    <2>1. A # {} /\ IsFiniteSet(A)
        BY AlertsAssumption
    <2>2. Cardinality(A) \in Nat \ {0}
        BY <2>1, FS_CardinalityType, FS_EmptySet
    <2>3. Len(page) = Cardinality(A)
        BY <2>2 DEF RowsOf
    <2>. QED BY <2>2, <2>3
<1>4. (\A j \in Tasks \ {i} : ringing'[j] = ringing[j]) /\ ringing'[i] = "done"
    BY <1>0 DEF AlertsTyped, AlertsTypeOK
<1>. HIDE DEF page
<1>5. \A id \in DOMAIN alarms : id \in DOMAIN alarms' /\ alarms'[id] = alarms[id]
    BY <1>1, <1>2, RowsJoined DEF page
<1>6. \E id \in DOMAIN alarms' : alarms'[id].conv = events[i].conv /\ alarms'[id].status = "new"
    <2>1. alarms \in Seq(Alarm) /\ alarms' = alarms \o page
        BY <1>1 DEF AlertsTyped, AlertsTypeOK, page
    <2>2. Len(alarms) + 1 \in DOMAIN alarms' /\ alarms'[Len(alarms) + 1] = page[1]
        BY <1>2, <1>3, <2>1
    <2>3. 1 \in DOMAIN page
        BY <1>2, <1>3
    <2>. QED BY <1>2, <2>2, <2>3 DEF PageOf
<1>7. ASSUME NEW c \in Convs, Answered(c) PROVE Answered(c)'
    <2>1. Rings(c) => Rings(c)'
        BY <1>5, HeardRings
    <2>2. c = events[i].conv => Rings(c)'
        BY <1>6 DEF Rings, New
    <2>3. Settling(c) /\ c # events[i].conv => Settling(c)'
        BY <1>0, <1>4 DEF Settling, Escalated
    <2>. QED BY <1>0, <1>7, <2>1, <2>2, <2>3 DEF Answered
<1>. QED BY <1>0, <1>7, AnsweredQueued

LEMMA RingFailsQueued ==
    ASSUME BusTypeOK, AlertsTyped, QueuedInv, NEW i \in Tasks, RingFails(i)
    PROVE  QueuedInv'
<1>0. /\ ringing' = [ringing EXCEPT ![i] = "done"] /\ unrung' = unrung \cup {events[i].conv}
      /\ UNCHANGED <<setup, events, alarms>>
    BY DEF RingFails
<1>1. \A j \in Tasks \ {i} : ringing'[j] = ringing[j]
    BY <1>0 DEF AlertsTyped, AlertsTypeOK
<1>2. ASSUME NEW c \in Convs, Answered(c) PROVE Answered(c)'
    <2>1. Rings(c) => Rings(c)'
        BY <1>0 DEF Rings, New
    <2>2. Settling(c) /\ c # events[i].conv => Settling(c)'
        BY <1>0, <1>1 DEF Settling, Escalated
    <2>. QED BY <1>0, <1>2, <2>1, <2>2 DEF Answered
<1>. QED BY <1>0, <1>2, AnsweredQueued

LEMMA AckingQueued ==
    ASSUME BusTypeOK, AlertsTyped, QueuedInv, NEW a \in Agents,
           AckStep(a) \/ \E id \in DOMAIN alarms : ReadAlarm(a, id)
    PROVE  QueuedInv'
<1>0. UNCHANGED <<setup, events, ringing, unrung>> /\ a # NoAgent
    BY BusAssumption DEF AckStep, AckRow, AckSiblings, ReadAlarm, bus
<1>1. CASE AckRow(a)
    <2>1. /\ Quieter(alarms, alarms')
          /\ \A id \in DOMAIN alarms : alarms'[id] = alarms[id] \/ alarms'[id].by = a
        BY <1>1, AckRowQuieter
    <2>. QED BY <1>0, <2>1, SameHandlersQueued DEF Quieter, Heard
<1>2. CASE AckSiblings(a)
    <2>1. alarms' = Acked(Siblings(acking[a].id), a)
        BY <1>2 DEF AckSiblings
    <2>2. /\ Quieter(alarms, alarms')
          /\ \A id \in DOMAIN alarms : alarms'[id] = alarms[id] \/ alarms'[id].by = a
        BY <2>1, AckedQuieter
    <2>. QED BY <1>0, <2>2, SameHandlersQueued DEF Quieter, Heard
<1>3. CASE \E id \in DOMAIN alarms : ReadAlarm(a, id)
    <2>1. UNCHANGED alarms
        BY <1>3 DEF ReadAlarm
    <2>. QED BY <1>0, <2>1, SameHandlersQueued
<1>. QED BY <1>1, <1>2, <1>3 DEF AckStep

LEMMA SweepQueued ==
    ASSUME BusTypeOK, AlertsTyped, QueuedInv, FindDue \/ SweepStep \/ SweepFails
    PROVE  QueuedInv'
<1>0. UNCHANGED <<setup, events, ringing, unrung>>
    BY DEF FindDue, SweepStep, SweepFails, LookWaiting, Stamp, MailAgents, PageLeads, bus
<1>1. CASE UNCHANGED alarms
    BY <1>0, <1>1, SameHandlersQueued
<1>2. CASE Stamp
    BY <1>0, <1>2, StampQuieter, SameHandlersQueued DEF Quieter, Heard
<1>3. CASE PageLeads
    <2>1. alarms' = alarms \o LeadRows /\ sweep.pc # "idle"
        BY <1>3 DEF PageLeads, Insert
    <2>2. \A id \in DOMAIN alarms : id \in DOMAIN alarms' /\ alarms'[id] = alarms[id]
        BY <2>1, LeadRowsTyped, RowsJoined
    <2>. QED BY <1>0, <2>2, SameHandlersQueued
<1>4. UNCHANGED alarms \/ Stamp \/ PageLeads
    BY DEF FindDue, SweepStep, SweepFails, LookWaiting, MailAgents
<1>. QED BY <1>1, <1>2, <1>3, <1>4

LEMMA AlertsRestartQueued ==
    ASSUME BusTypeOK, AlertsTyped, QueuedInv, AlertsRestart, UNCHANGED <<setup, events>>
    PROVE  QueuedInv'
<1>1. /\ unrung' = unrung \cup QueuedUnheard
                       \cup {events[i].conv : i \in {j \in Tasks : Escalated(j) /\ ringing[j] # "done"}}
      /\ UNCHANGED alarms
    BY DEF AlertsRestart
<1>2. ASSUME NEW c \in Convs, Answered(c) PROVE Answered(c)'
    <2>1. Rings(c) => Rings(c)'
        BY <1>1 DEF Rings, New
    <2>2. Settling(c) => c \in unrung'
        BY <1>1 DEF Settling
    <2>. QED BY <1>1, <1>2, <2>1, <2>2 DEF Answered
<1>. QED BY <1>2, AnsweredQueued

\* No step of the pager leaves an escalated conversation unheard.
LEMMA AlertsNextQueued ==
    ASSUME BusTypeOK, AlertsTyped, QueuedInv, AlertsNext
    PROVE  QueuedInv'
<1>1. ASSUME NEW i \in Tasks, RingStep(i) \/ RingFails(i) PROVE QueuedInv'
    BY <1>1, CheckAlarmQueued, StandDownQueued, RingQueued, RingFailsQueued DEF RingStep
<1>2. ASSUME NEW a \in Agents, AckStep(a) \/ \E id \in DOMAIN alarms : ReadAlarm(a, id)
      PROVE  QueuedInv'
    BY <1>2, AckingQueued
<1>. QED BY <1>1, <1>2, SweepQueued DEF AlertsNext
=============================================================================
