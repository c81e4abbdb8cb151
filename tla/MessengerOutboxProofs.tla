------------------------ MODULE MessengerOutboxProofs ------------------------
(***************************************************************************)
(* What MessengerOutbox keeps for every number of messages, threads,        *)
(* handlers and attempts, and every mix of faults.                          *)
(*                                                                          *)
(* The properties speak of the tables; a deliverer writes to them from what *)
(* it read some awaits ago.  The invariant therefore adds what a deliverer  *)
(* may still rely on then (LocalInv): only facts that grow (Growth) -- a    *)
(* committed message, a queued row, an accepted copy, a map row.            *)
(*                                                                          *)
(* Two further invariants stand on it, for the properties that hold only    *)
(* under conditions: AloneInv for a relay with the worker alone             *)
(* (WorkerAlone), and OrderInv where inserts do not overlap (InOrder).      *)
(***************************************************************************)
EXTENDS MessengerOutbox, FiniteSetTheorems, TLAPS

\* There is a thread for an idle deliverer to stand on.
LEMMA HomeIsThread == Home \in Threads
BY OutboxAssumption DEF Home

\* The idle record is well-typed.
LEMMA IdleIsDeliverer == Idle \in Deliverer
BY HomeIsThread DEF Idle, Deliverer, NoThread, Thread, Steps, Outcome, Errors,
   MsgOrNone, NoMsg

\* Turning a deliverer to a well-typed record keeps proc well-typed.
LEMMA BecomeType ==
    ASSUME proc \in [Deliverers -> Deliverer],
           NEW d \in Deliverers, NEW r \in Deliverer, Become(d, r)
    PROVE  proc' \in [Deliverers -> Deliverer]
BY DEF Become

\* Dropping the row in hand keeps proc well-typed.
LEMMA DropType ==
    ASSUME TypeOK, NEW d \in Deliverers, Drop(d), proc[d].msg \in MsgIds
    PROVE  proc' \in [Deliverers -> Deliverer]
<1> DEFINE m == proc[d].msg
           r == [proc[d] EXCEPT
              !.pc = IF proc[d].pc = "settle" THEN "confirm" ELSE "deliver",
                   !.batch = @ \ {m}, !.seen = [@ EXCEPT ![m] = 0],
                   !.msg = NoMsg, !.outcome = "none", !.error = "none"]
<1>1. proc[d] \in Deliverer
  BY DEF TypeOK
<1>2. r \in Deliverer
  BY <1>1, ZenonT(60) DEF Deliverer, Steps, MsgOrNone, NoMsg, Outcome, Errors
<1>3. Become(d, r)
  BY DEF Drop
<1>4. QED
  BY <1>2, <1>3, BecomeType DEF TypeOK

(***************************************************************************)
(* The inductive invariant.                                                 *)
(***************************************************************************)
\* TypeOK without proc.
SharedOK ==
    /\ opened \subseteq Convs
    /\ msgs \in [MsgIds -> Message]
    /\ threads \in [Threads -> Thread]
    /\ channelUp \in BOOLEAN
    /\ outbox \in [MsgIds -> Row]
    /\ nextRowId \in Nat \ {0}
    /\ mapIn \subseteq MsgIds
    /\ mapOut \subseteq MsgIds
    /\ faults \in Nat
    /\ copies \in [MsgIds -> Nat]
    /\ proved \subseteq MsgIds
    /\ waived \subseteq MsgIds

\* What the tables say of one message.
RowInv(m) ==
    /\ m \in mapIn => Saved(m) /\ msgs[m].kind = "user"
    /\ Queued(m) => Saved(m) /\ msgs[m].kind \in Relayable
    /\ copies[m] > 0 => Queued(m)
    /\ outbox[m].status \in {"sent", "unconfirmed"} \/ m \in mapOut
          => copies[m] > 0
    /\ Pending(m) => outbox[m].attempts < MaxAttempts
    /\ outbox[m].status = "failed"
          /\ outbox[m].lastError \in {"provider", "inactive"}
        => outbox[m].attempts >= MaxAttempts

\* What a deliverer knows of the row it is working on, however long ago it
\* looked: every clause is about a fact that no step can take back.
LocalInv(d) ==
    LET p == proc[d]
    IN  /\ \A m \in p.scan : Saved(m)
        /\ \A m \in p.batch : Queued(m)
        /\ \A m \in MsgIds : p.seen[m] < MaxAttempts
        /\ p.pc \in {"lookup", "send", "map", "mark", "promote", "fail",
                     "settle"} => p.msg \in MsgIds /\ Queued(p.msg)
        /\ p.pc \in {"map", "mark"} =>
              copies[p.msg] > 0 /\ p.outcome \in {"sent", "unconfirmed"}
        /\ p.pc = "promote" => p.msg \in mapOut
        /\ p.pc = "settle" =>
              copies[p.msg] > 0 /\ p.outcome \in {"sent", "failed"}
        /\ p.pc \in {"confirm", "settle"} => \A m \in p.batch : copies[m] > 0
        /\ p.pc = "fail" =>
              p.error \in {"inactive", "receiveOnly", "provider", "missing"}

IInv ==
    /\ TypeOK
    /\ \A m \in MsgIds : RowInv(m)
    /\ \A d \in Deliverers : LocalInv(d)

\* The facts that no step takes back.
Growth ==
    \A m \in MsgIds :
        /\ Saved(m) => Saved(m)'
        /\ Queued(m) => Queued(m)'
        /\ copies[m] > 0 => (copies[m])' > 0
        /\ m \in mapOut => (m \in mapOut)'

\* A deliverer that does not move stays right while the others add facts.
LEMMA GrowthKeepsLocal ==
    ASSUME TypeOK, Growth, NEW e \in Deliverers, LocalInv(e),
           (proc[e])' = proc[e]
    PROVE  LocalInv(e)'
<1>1. proc[e] \in Deliverer
  BY DEF TypeOK
<1>2. /\ proc[e].scan \subseteq MsgIds
      /\ proc[e].batch \subseteq MsgIds
  BY <1>1 DEF Deliverer
<1>3. QED
  BY <1>2 DEF LocalInv, Growth

\* A deliverer with nothing in hand knows nothing that could be wrong.
LEMMA IdleIsLocal ==
    ASSUME NEW d \in Deliverers, (proc[d])' = Idle
    PROVE  LocalInv(d)'
BY OutboxAssumption DEF LocalInv, Idle

\* A deliverer between two rows, having dropped some of what it had in hand.
LEMMA RestIsLocal ==
    ASSUME IInv, Growth, NEW d \in Deliverers, NEW q, (proc[d])' = q,
           q.scan \subseteq proc[d].scan, q.batch \subseteq proc[d].batch,
           \A m \in MsgIds : q.seen[m] < MaxAttempts,
           q.pc \in {"sweep", "read", "scan", "queue", "select", "deliver"}
    PROVE  LocalInv(d)'
<1>1. proc[d] \in Deliverer /\ LocalInv(d)
  BY DEF IInv, TypeOK
<1>2. proc[d].scan \subseteq MsgIds /\ proc[d].batch \subseteq MsgIds
  BY <1>1 DEF Deliverer
<1>3. /\ \A m \in q.scan : Saved(m)'
      /\ \A m \in q.batch : Queued(m)'
  BY <1>1, <1>2 DEF LocalInv, Growth
<1>4. QED
  BY <1>3 DEF LocalInv

\* One deliverer moves: what is left to show of each action.
LEMMA StepKeeps ==
    ASSUME IInv, NEW d \in Deliverers, NEW r \in Deliverer, Become(d, r),
           SharedOK', \A m \in MsgIds : RowInv(m)', Growth, LocalInv(d)'
    PROVE  IInv'
<1>1. proc' \in [Deliverers -> Deliverer]
  BY BecomeType DEF IInv, TypeOK
<1>2. ASSUME NEW e \in Deliverers PROVE LocalInv(e)'
  <2>1. CASE e = d
    BY <2>1
  <2>2. CASE e # d
    <3>1. (proc[e])' = proc[e]
      BY <2>2 DEF Become, IInv, TypeOK
    <3>2. QED
      BY <3>1, GrowthKeepsLocal DEF IInv
  <2>3. QED
    BY <2>1, <2>2
<1>3. QED
  BY <1>1, <1>2 DEF IInv, TypeOK, SharedOK

\* A step that leaves the tables of the invariant alone.
LEMMA QuietKeepsRows ==
    ASSUME IInv, UNCHANGED <<msgs, outbox, mapIn, mapOut, copies>>
    PROVE  Growth /\ \A m \in MsgIds : RowInv(m)'
BY DEF IInv, RowInv, Growth, Saved, Queued, Pending

\* Such a step by one deliverer.
LEMMA QuietStep ==
    ASSUME IInv, NEW d \in Deliverers, NEW r \in Deliverer, Become(d, r),
           UNCHANGED <<opened, msgs, channelUp, outbox, nextRowId, mapIn,
                       mapOut, copies>>,
           threads' \in [Threads -> Thread], faults' \in Nat,
           proved' \subseteq MsgIds, waived' \subseteq MsgIds, LocalInv(d)'
    PROVE  IInv'
<1>1. SharedOK'
  BY DEF SharedOK, IInv, TypeOK
<1>2. QED
  BY <1>1, QuietKeepsRows, StepKeeps

\* Nothing has been queued, sent or read yet.
LEMMA InitIInv == Init => IInv
<1> SUFFICES ASSUME Init PROVE IInv
  OBVIOUS
<1>1. TypeOK
  BY HomeIsThread, IdleIsDeliverer, OutboxAssumption
     DEF Init, TypeOK, Message, Thread, Row, NoRow, RowStatus, Errors,
         MsgOrNone, NoMsg
<1>2. \A m \in MsgIds : RowInv(m)
  BY DEF Init, RowInv, Saved, Queued, Pending, NoRow
<1>3. \A d \in Deliverers : LocalInv(d)
  BY OutboxAssumption DEF Init, LocalInv, Idle
<1>4. QED
  BY <1>1, <1>2, <1>3 DEF IInv

(***************************************************************************)
(* The environment.                                                         *)
(***************************************************************************)
\* Nobody's local state changes.
LEMMA EnvironmentKeeps ==
    ASSUME IInv, proc' = proc, SharedOK', \A m \in MsgIds : RowInv(m)', Growth
    PROVE  IInv'
<1>1. \A e \in Deliverers : LocalInv(e)'
  BY GrowthKeepsLocal DEF IInv
<1>2. QED
  BY <1>1 DEF IInv, TypeOK, SharedOK

\* An insert that has not committed is not a relayable message yet.
LEMMA BeginSaveKeeps ==
    ASSUME IInv, NEW m \in MsgIds, NEW c \in Convs, NEW kind \in Kinds,
           BeginSave(m, c, kind)
    PROVE  IInv'
<1> USE DEF BeginSave, rows, maps, observers
<1>1. msgs' \in [MsgIds -> Message]
  BY OutboxAssumption DEF IInv, TypeOK, Message
<1>2. SharedOK'
  BY <1>1 DEF SharedOK, IInv, TypeOK
<1>3. Growth
  BY DEF IInv, TypeOK, Growth, Saved, Queued
<1>4. \A n \in MsgIds : RowInv(n)'
  BY DEF IInv, TypeOK, RowInv, Saved, Queued, Pending
<1>5. QED
  BY <1>2, <1>3, <1>4, EnvironmentKeeps

\* A commit only adds a saved message, with the kind it was begun with.
LEMMA CommitSaveKeeps ==
    ASSUME IInv, NEW m \in MsgIds, CommitSave(m)
    PROVE  IInv'
<1> USE DEF CommitSave, rows, maps, observers
<1>1. msgs' \in [MsgIds -> Message]
  BY DEF IInv, TypeOK, Message
<1>2. SharedOK'
  BY <1>1 DEF SharedOK, IInv, TypeOK
<1>3. Growth
  BY DEF IInv, TypeOK, Growth, Saved, Queued, Message
<1>4. \A n \in MsgIds : RowInv(n)'
  BY DEF IInv, TypeOK, RowInv, Saved, Queued, Pending, Message
<1>5. QED
  BY <1>2, <1>3, <1>4, EnvironmentKeeps

\* Only the shopper's own messages are mapped inbound.
LEMMA MapInboundKeeps ==
    ASSUME IInv, NEW m \in MsgIds, MapInbound(m)
    PROVE  IInv'
<1> USE DEF MapInbound, rows, observers
<1>1. SharedOK'
  BY DEF SharedOK, IInv, TypeOK
<1>2. Growth
  BY DEF Growth, Saved, Queued
<1>3. \A n \in MsgIds : RowInv(n)'
  BY DEF IInv, RowInv, Saved, Queued, Pending
<1>4. QED
  BY <1>1, <1>2, <1>3, EnvironmentKeeps

\* The thread and the channel are in no clause but the type.
LEMMA RebindKeeps ==
    ASSUME IInv, NEW t \in Threads, NEW c \in Convs, Rebind(t, c)
    PROVE  IInv'
<1> USE DEF Rebind, rows, maps, observers, Fault
<1>1. threads' \in [Threads -> Thread]
  BY DEF IInv, TypeOK, Thread
<1>2. SharedOK'
  BY <1>1 DEF SharedOK, IInv, TypeOK
<1>3. QED
  BY <1>2, QuietKeepsRows, EnvironmentKeeps

\* A change of the reply permission is in no clause but the type.
LEMMA SetReplyKeeps ==
    ASSUME IInv, NEW t \in Threads, SetReply(t)
    PROVE  IInv'
<1> USE DEF SetReply, rows, maps, observers, Fault
<1>1. (~threads[t].reply) \in BOOLEAN
  BY Zenon
<1>2. threads' \in [Threads -> Thread]
  BY <1>1 DEF IInv, TypeOK, Thread
<1>3. SharedOK'
  BY <1>2 DEF SharedOK, IInv, TypeOK
<1>4. QED
  BY <1>3, QuietKeepsRows, EnvironmentKeeps

\* Nor is switching the channel off or on.
LEMMA SetChannelKeeps ==
    ASSUME IInv, SetChannel
    PROVE  IInv'
<1> USE DEF SetChannel, rows, maps, observers, Fault
<1>1. channelUp' \in BOOLEAN
  BY Zenon
<1>2. SharedOK'
  BY <1>1 DEF SharedOK, IInv, TypeOK
<1>3. QED
  BY <1>2, QuietKeepsRows, EnvironmentKeeps

\* A backoff that ends changes no status and no attempts.
LEMMA BackoffKeeps ==
    ASSUME IInv, NEW m \in MsgIds, BackoffElapses(m)
    PROVE  IInv'
<1> USE DEF BackoffElapses, maps, observers
<1>1. outbox' \in [MsgIds -> Row]
  BY DEF IInv, TypeOK, Row
<1>2. SharedOK'
  BY <1>1 DEF SharedOK, IInv, TypeOK
<1>3. \A n \in MsgIds : /\ (outbox[n].status)' = outbox[n].status
                        /\ (outbox[n].attempts)' = outbox[n].attempts
                        /\ (outbox[n].lastError)' = outbox[n].lastError
  BY DEF IInv, TypeOK, Row
<1>4. Growth
  BY <1>3 DEF Growth, Saved, Queued
<1>5. \A n \in MsgIds : RowInv(n)'
  BY <1>3 DEF IInv, RowInv, Saved, Queued, Pending
<1>6. QED
  BY <1>2, <1>4, <1>5, EnvironmentKeeps

\* A restart forgets what the deliverers knew, which only weakens LocalInv.
LEMMA CrashKeeps ==
    ASSUME IInv, Crash
    PROVE  IInv'
<1> USE DEF Crash, rows, maps, observers, Fault
<1>1. SharedOK'
  BY DEF SharedOK, IInv, TypeOK
<1>2. Growth /\ \A m \in MsgIds : RowInv(m)'
  BY QuietKeepsRows
<1>3. proc' \in [Deliverers -> Deliverer]
  BY IdleIsDeliverer
<1>4. \A e \in Deliverers : LocalInv(e)'
  BY OutboxAssumption DEF LocalInv, Idle
<1>5. QED
  BY <1>1, <1>2, <1>3, <1>4 DEF IInv, TypeOK, SharedOK

(***************************************************************************)
(* flushThread.                                                             *)
(***************************************************************************)
\* A deliverer that starts afresh knows nothing that could be wrong.
LEMMA BeginFlushKeeps ==
    ASSUME IInv, NEW f \in Flushers, NEW t \in Threads, BeginFlush(f, t)
    PROVE  IInv'
<1> DEFINE r == [Idle EXCEPT !.pc = "read", !.thread = t]
<1>1. f \in Deliverers /\ r \in Deliverer
  BY IdleIsDeliverer DEF Deliverers, Deliverer, Steps
<1>2. Become(f, r)
  BY DEF BeginFlush
<1>3. (proc[f])' = r
  BY <1>1, <1>2 DEF Become, IInv, TypeOK
<1>4. LocalInv(f)'
  BY <1>3, OutboxAssumption DEF LocalInv, Idle
<1>5. UNCHANGED <<opened, msgs, channelUp, outbox, nextRowId, mapIn, mapOut,
                  copies, threads, faults, proved, waived>>
  BY DEF BeginFlush, outside, rows, observers
<1>6. QED
  BY <1>1, <1>2, <1>4, <1>5, QuietStep DEF IInv, TypeOK

\* flushThread reads its thread: nothing queued changes.
LEMMA ReadThreadKeeps ==
    ASSUME IInv, NEW d \in Deliverers, ReadThread(d)
    PROVE  IInv'
<1> DEFINE t == proc[d].thread
           r == IF threads[t].conv = NoConv
                THEN IF d = Worker THEN [proc[d] EXCEPT !.pc = "sweep"]
                                   ELSE Idle
                ELSE [proc[d] EXCEPT !.pc = "scan", !.snap = threads[t],
                                     !.last = threads[t].cursor]
<1>1. proc[d] \in Deliverer /\ threads[t] \in Thread
  BY DEF IInv, TypeOK, Deliverer
<1>2. [proc[d] EXCEPT !.pc = "sweep"] \in Deliverer
  BY <1>1 DEF Deliverer, Steps
<1>3. [proc[d] EXCEPT !.pc = "scan", !.snap = threads[t],
                      !.last = threads[t].cursor] \in Deliverer
  BY <1>1 DEF Deliverer, Steps, Thread
<1>4. r \in Deliverer
  BY <1>2, <1>3, IdleIsDeliverer
<1>5. Become(d, r)
  BY DEF ReadThread
<1>6. UNCHANGED <<opened, msgs, channelUp, outbox, nextRowId, mapIn, mapOut,
                  copies, threads, faults, proved, waived>>
  BY DEF ReadThread, outside, rows, observers
<1>7. (proc[d])' = r
  BY <1>5 DEF Become, IInv, TypeOK
<1>8. LocalInv(d)'
  <2> HIDE DEF r
  <2>1. CASE r = Idle
    BY <1>7, <2>1, IdleIsLocal
  <2>2. CASE r # Idle
    <3>1. /\ r.scan = proc[d].scan /\ r.batch = proc[d].batch
          /\ r.seen = proc[d].seen /\ r.pc \in {"sweep", "scan"}
      BY <1>1, <2>2 DEF Deliverer, r
    <3>2. QED
      BY <1>6, <1>7, <3>1 DEF IInv, LocalInv, Saved, Queued
  <2>3. QED
    BY <2>1, <2>2
<1>9. QED
  BY <1>4, <1>5, <1>6, <1>8, QuietStep DEF IInv, TypeOK

\* Only committed messages are scanned.
LEMMA ScanMessagesKeeps ==
    ASSUME IInv, NEW d \in Deliverers, ScanMessages(d)
    PROVE  IInv'
<1> DEFINE S == FirstIds(Unscanned(proc[d].snap.conv, proc[d].snap.cursor),
                         ScanLimit)
           r == [proc[d] EXCEPT !.pc = "queue", !.scan = S]
<1>1. proc[d] \in Deliverer
  BY DEF IInv, TypeOK
<1>2. S \in SUBSET MsgIds /\ \A m \in S : Saved(m)
  BY DEF FirstIds, Unscanned
<1>3. r \in Deliverer
  BY <1>1, <1>2 DEF Deliverer, Steps
<1>4. Become(d, r)
  BY DEF ScanMessages
<1>5. UNCHANGED <<opened, msgs, channelUp, outbox, nextRowId, mapIn, mapOut,
                  copies, threads, faults, proved, waived>>
  BY DEF ScanMessages, outside, rows, observers
<1>6. (proc[d])' = r
  BY <1>4 DEF Become, IInv, TypeOK
<1>7. /\ r.scan = S /\ r.batch = proc[d].batch
      /\ r.seen = proc[d].seen /\ r.pc = "queue"
  BY <1>1, <1>2 DEF Deliverer
<1>8. LocalInv(d)'
  BY <1>2, <1>5, <1>6, <1>7 DEF IInv, LocalInv, Saved, Queued
<1>9. QED
  BY <1>3, <1>4, <1>5, <1>8, QuietStep DEF IInv, TypeOK

\* Walk advances the scan; what it has in hand only shrinks.
LEMMA WalkKeeps ==
    ASSUME IInv, NEW d \in Deliverers, NEW m \in proc[d].scan, At(d, "queue"),
           Walk(d, m), SharedOK', \A n \in MsgIds : RowInv(n)', Growth
    PROVE  IInv'
<1> DEFINE r == [proc[d] EXCEPT !.scan = @ \ {m}, !.last = m]
<1>1. proc[d] \in Deliverer /\ LocalInv(d)
  BY DEF IInv, TypeOK
<1>2. m \in MsgIds
  BY <1>1 DEF Deliverer
<1>3. r \in Deliverer
  BY <1>1, <1>2 DEF Deliverer, MsgOrNone
<1>4. Become(d, r)
  BY DEF Walk
<1>5. (proc[d])' = r
  BY <1>4 DEF Become, IInv, TypeOK
<1>6. /\ r.scan \subseteq proc[d].scan /\ r.batch = proc[d].batch
      /\ r.seen = proc[d].seen /\ r.pc = "queue"
  BY <1>1 DEF Deliverer, At
<1>7. LocalInv(d)'
  BY <1>1, <1>5, <1>6, RestIsLocal DEF LocalInv
<1>8. QED
  BY <1>3, <1>4, <1>7, StepKeeps

\* Walking past a message leaves the tables alone.
LEMMA SkipMessageKeeps ==
    ASSUME IInv, NEW d \in Deliverers, SkipMessage(d)
    PROVE  IInv'
<1>1. PICK m \in proc[d].scan : /\ At(d, "queue") /\ Walk(d, m)
                                /\ waived' \in {waived, waived \cup {m}}
                                /\ UNCHANGED <<outside, threads, rows, mapOut,
                                               faults, copies, proved>>
  BY DEF SkipMessage
<1>2. m \in MsgIds
  BY DEF IInv, TypeOK, Deliverer
<1>3. SharedOK'
  BY <1>1, <1>2 DEF SharedOK, IInv, TypeOK, outside, rows
<1>4. Growth /\ \A n \in MsgIds : RowInv(n)'
  BY <1>1, QuietKeepsRows DEF outside, rows
<1>5. QED
  BY <1>1, <1>3, <1>4, WalkKeeps

\* A swallowed insert error leaves the tables alone too.
LEMMA LoseInsertKeeps ==
    ASSUME IInv, NEW d \in Deliverers, LoseInsert(d)
    PROVE  IInv'
<1>1. PICK m \in proc[d].scan : /\ At(d, "queue") /\ Walk(d, m)
                                /\ Fault("dbError")
                                /\ UNCHANGED <<outside, threads, rows, mapOut,
                                               observers>>
  BY DEF LoseInsert
<1>2. SharedOK'
  BY <1>1 DEF SharedOK, IInv, TypeOK, outside, rows, observers, Fault
<1>3. Growth /\ \A n \in MsgIds : RowInv(n)'
  BY <1>1, QuietKeepsRows DEF outside, rows, observers
<1>4. QED
  BY <1>1, <1>2, <1>3, WalkKeeps

\* The only step that creates a row: its message was scanned, so it is
\* committed, and it was not skipped, so it is relayable.
LEMMA QueueMessageKeeps ==
    ASSUME IInv, NEW d \in Deliverers, QueueMessage(d)
    PROVE  IInv'
<1>1. PICK m \in proc[d].scan :
         /\ At(d, "queue") /\ Walk(d, m) /\ ~Skipped(d, m)
         /\ IF Queued(m)
            THEN UNCHANGED rows
            ELSE /\ outbox' = [outbox EXCEPT ![m] =
                                 [id |-> nextRowId, thread |-> proc[d].thread,
                                  status |-> "pending", attempts |-> 0,
                                  backoff |-> FALSE, lastError |-> "none"]]
                 /\ nextRowId' = nextRowId + 1
         /\ UNCHANGED <<outside, threads, mapOut, faults, observers>>
  BY DEF QueueMessage
<1>2. proc[d] \in Deliverer /\ LocalInv(d)
  BY DEF IInv, TypeOK
<1>3. m \in MsgIds /\ Saved(m) /\ proc[d].thread \in Threads
  BY <1>2 DEF Deliverer, LocalInv
<1>4. CASE Queued(m)
  <2>1. SharedOK'
    BY <1>1, <1>4 DEF SharedOK, IInv, TypeOK, outside, rows, observers
  <2>2. Growth /\ \A n \in MsgIds : RowInv(n)'
    BY <1>1, <1>4, QuietKeepsRows DEF outside, rows, observers
  <2>3. QED
    BY <1>1, <2>1, <2>2, WalkKeeps
<1>5. CASE ~Queued(m)
  <2> DEFINE row == [id |-> nextRowId, thread |-> proc[d].thread,
                     status |-> "pending", attempts |-> 0,
                     backoff |-> FALSE, lastError |-> "none"]
  <2>1. row \in Row
    BY <1>3 DEF Row, RowStatus, Errors, IInv, TypeOK
  <2>2. outbox' = [outbox EXCEPT ![m] = row] /\ nextRowId' = nextRowId + 1
    BY <1>1, <1>5
  <2>3. outbox' \in [MsgIds -> Row]
    BY <2>1, <2>2 DEF IInv, TypeOK
  <2>4. SharedOK'
    BY <1>1, <2>2, <2>3 DEF SharedOK, IInv, TypeOK, outside, observers
  <2>5. Growth
    BY <1>1, <1>3, <2>2 DEF Growth, Saved, Queued, outside, observers, IInv,
       TypeOK
  <2>6. msgs[m].kind \in Relayable
    BY <1>1, <1>3, OutboxAssumption
       DEF Skipped, Relayable, IInv, TypeOK, Message
  <2>7. \A n \in MsgIds : RowInv(n)'
    <3>1. ASSUME NEW n \in MsgIds PROVE RowInv(n)'
      <4>1. CASE n = m
        BY <1>1, <1>3, <1>5, <2>2, <2>6, <4>1, OutboxAssumption
           DEF RowInv, Saved, Queued, Pending, outside, observers, IInv, TypeOK
      <4>2. CASE n # m
        BY <1>1, <2>2, <4>2 DEF RowInv, Saved, Queued, Pending, outside,
           observers, IInv, TypeOK
      <4>3. QED
        BY <4>1, <4>2
    <3>2. QED
      BY <3>1
  <2>8. QED
    BY <1>1, <2>4, <2>5, <2>7, WalkKeeps
<1>6. QED
  BY <1>4, <1>5

\* The cursor is in no clause but the type.
LEMMA StoreCursorKeeps ==
    ASSUME IInv, NEW d \in Deliverers, StoreCursor(d)
    PROVE  IInv'
<1> DEFINE r == [proc[d] EXCEPT !.pc = "select", !.snap = NoThread,
                                !.last = NoMsg]
<1>1. proc[d] \in Deliverer /\ LocalInv(d)
  BY DEF IInv, TypeOK
<1>2. r \in Deliverer
  BY <1>1 DEF Deliverer, Steps, NoThread, Thread, MsgOrNone, NoMsg
<1>3. Become(d, r)
  BY DEF StoreCursor
<1>4. (proc[d])' = r
  BY <1>3 DEF Become, IInv, TypeOK
<1>5. UNCHANGED <<opened, msgs, channelUp, outbox, nextRowId, mapIn, mapOut,
                  copies, faults, proved, waived>>
  BY DEF StoreCursor, outside, rows, observers
<1>6. NewCursor(proc[d]) \in MsgOrNone
  BY <1>1 DEF NewCursor, Deliverer, IInv, TypeOK, Thread
<1>7. threads' \in [Threads -> Thread]
  BY <1>6 DEF StoreCursor, IInv, TypeOK, Thread
<1>8. /\ r.scan = proc[d].scan /\ r.batch = proc[d].batch
      /\ r.seen = proc[d].seen /\ r.pc = "select"
  BY <1>1 DEF Deliverer
<1>9. LocalInv(d)'
  BY <1>1, <1>4, <1>5, <1>8, RestIsLocal, QuietKeepsRows DEF LocalInv
<1>10. QED
  BY <1>2, <1>3, <1>5, <1>7, <1>9, QuietStep DEF IInv, TypeOK

\* deliverPendingForThread reads the attempts of pending rows.
LEMMA SelectPendingKeeps ==
    ASSUME IInv, NEW d \in Deliverers, SelectPending(d)
    PROVE  IInv'
<1> DEFINE B == FirstRows({m \in MsgIds : /\ Pending(m)
                                          /\ outbox[m].thread = proc[d].thread},
                          ScanLimit)
           s == [m \in MsgIds |-> IF m \in B THEN outbox[m].attempts ELSE 0]
           r == [proc[d] EXCEPT !.pc = "deliver", !.batch = B, !.seen = s]
<1>1. proc[d] \in Deliverer /\ LocalInv(d)
  BY DEF IInv, TypeOK
<1>2. B \in SUBSET MsgIds /\ \A m \in B : Pending(m)
  BY DEF FirstRows
<1> HIDE DEF B
<1>3. s \in [MsgIds -> Nat] /\ \A m \in MsgIds : s[m] < MaxAttempts
  BY <1>2, OutboxAssumption DEF IInv, TypeOK, Row, RowInv
<1> HIDE DEF s
<1>4. r \in Deliverer
  BY <1>1, <1>2, <1>3 DEF Deliverer, Steps
<1>5. Become(d, r)
  BY DEF SelectPending, Deliver, B, s
<1>6. (proc[d])' = r
  BY <1>5 DEF Become, IInv, TypeOK
<1>7. UNCHANGED <<opened, msgs, channelUp, outbox, nextRowId, mapIn, mapOut,
                  copies, threads, faults, proved, waived>>
  BY DEF SelectPending, outside, rows, observers
<1>8. r.scan = proc[d].scan /\ r.batch = B /\ r.seen = s /\ r.pc = "deliver"
  BY <1>1 DEF Deliverer
<1>9. LocalInv(d)'
  BY <1>1, <1>2, <1>3, <1>6, <1>7, <1>8
     DEF LocalInv, Saved, Queued, Pending
<1>10. QED
  BY <1>4, <1>5, <1>7, <1>9, QuietStep DEF IInv, TypeOK

(***************************************************************************)
(* deliver and fail.                                                        *)
(***************************************************************************)
\* A deliverer at work on a row it holds, in a step with no promise of its own
\* (lookup, send) or one whose promise is given.
LEMMA WorkIsLocal ==
    ASSUME IInv, Growth, NEW d \in Deliverers, NEW q, (proc[d])' = q,
           q.scan = proc[d].scan, q.batch = proc[d].batch,
           q.seen = proc[d].seen, q.msg \in MsgIds, Queued(q.msg),
           \/ q.pc \in {"lookup", "send"}
           \/ q.pc \in {"map", "mark"} /\ copies'[q.msg] > 0
                /\ q.outcome \in {"sent", "unconfirmed"}
           \/ q.pc = "promote" /\ q.msg \in mapOut'
           \/ q.pc = "fail" /\ q.error \in {"inactive", "receiveOnly",
                                            "provider", "missing"}
    PROVE  LocalInv(d)'
<1>1. proc[d] \in Deliverer /\ LocalInv(d)
  BY DEF IInv, TypeOK
<1>2. proc[d].scan \subseteq MsgIds /\ proc[d].batch \subseteq MsgIds
  BY <1>1 DEF Deliverer
<1>3. /\ \A m \in q.scan : Saved(m)'
      /\ \A m \in q.batch : Queued(m)'
      /\ \A m \in MsgIds : q.seen[m] < MaxAttempts
      /\ Queued(q.msg)'
  BY <1>1, <1>2 DEF LocalInv, Growth
<1>4. QED
  BY <1>3 DEF LocalInv

\* The gates of deliver(): the row is looked up, or a reason recorded.
LEMMA TakeRowKeeps ==
    ASSUME IInv, NEW d \in Deliverers, TakeRow(d)
    PROVE  IInv'
<1>1. PICK m \in proc[d].batch, reason \in {"receiveOnly", "inactive", "none"} :
         Become(d, IF reason = "none"
                   THEN [proc[d] EXCEPT !.pc = "lookup", !.msg = m]
                   ELSE [proc[d] EXCEPT !.pc = "fail", !.msg = m,
                                        !.error = reason])
  BY DEF TakeRow
<1> DEFINE r == IF reason = "none"
                THEN [proc[d] EXCEPT !.pc = "lookup", !.msg = m]
                ELSE [proc[d] EXCEPT !.pc = "fail", !.msg = m,
                                     !.error = reason]
<1>2. proc[d] \in Deliverer /\ LocalInv(d)
  BY DEF IInv, TypeOK
<1>3. m \in MsgIds /\ Queued(m)
  BY <1>2 DEF Deliverer, LocalInv
<1>4. r \in Deliverer
  BY <1>2, <1>3 DEF Deliverer, Steps, MsgOrNone, Errors
<1>5. UNCHANGED <<opened, msgs, channelUp, outbox, nextRowId, mapIn, mapOut,
                  copies, threads, faults, proved, waived>>
  BY DEF TakeRow, outside, rows, observers
<1>6. (proc[d])' = r
  BY <1>1 DEF Become, IInv, TypeOK
<1>7. /\ r.scan = proc[d].scan /\ r.batch = proc[d].batch
      /\ r.seen = proc[d].seen /\ r.msg = m
      /\ \/ r.pc = "lookup"
         \/ r.pc = "fail" /\ r.error \in {"receiveOnly", "inactive"}
  BY <1>2 DEF Deliverer
<1> HIDE DEF r
<1>8. LocalInv(d)'
  BY <1>3, <1>5, <1>6, <1>7, QuietKeepsRows, WorkIsLocal
<1>9. Become(d, r)
  BY <1>1 DEF r
<1>10. QED
  BY <1>4, <1>9, <1>5, <1>8, QuietStep DEF IInv, TypeOK

\* promote is reached only from an OUTBOUND map row.
LEMMA LookUpMapKeeps ==
    ASSUME IInv, NEW d \in Deliverers, LookUpMap(d)
    PROVE  IInv'
<1> DEFINE step == IF Already(proc[d].msg) THEN "promote" ELSE "send"
           r == [proc[d] EXCEPT !.pc = step]
<1>0. \/ step = "send"
      \/ step = "promote" /\ proc[d].msg \in mapOut
  BY DEF Already
<1>1. proc[d] \in Deliverer /\ LocalInv(d) /\ proc[d].pc = "lookup"
  BY DEF IInv, TypeOK, LookUpMap, At
<1>2. proc[d].msg \in MsgIds /\ Queued(proc[d].msg)
  BY <1>1 DEF LocalInv
<1>3. r \in Deliverer
  BY <1>0, <1>1 DEF Deliverer, Steps
<1>4. Become(d, r)
  BY DEF LookUpMap, GoTo
<1>5. UNCHANGED <<opened, msgs, channelUp, outbox, nextRowId, mapIn, mapOut,
                  copies, threads, faults, proved, waived>>
  BY DEF LookUpMap, outside, rows, observers
<1>6. (proc[d])' = r
  BY <1>4 DEF Become, IInv, TypeOK
<1>7. /\ r.scan = proc[d].scan /\ r.batch = proc[d].batch
      /\ r.seen = proc[d].seen /\ r.msg = proc[d].msg
      /\ r.pc = step
  BY <1>1 DEF Deliverer
<1> HIDE DEF r, step
<1>8. LocalInv(d)'
  BY <1>0, <1>2, <1>5, <1>6, <1>7, QuietKeepsRows, WorkIsLocal
<1>9. QED
  BY <1>3, <1>4, <1>5, <1>8, QuietStep DEF IInv, TypeOK

\* An attachment with no link is recorded as a failure.
LEMMA NothingToSendKeeps ==
    ASSUME IInv, NEW d \in Deliverers, NothingToSend(d)
    PROVE  IInv'
<1> DEFINE r == [proc[d] EXCEPT !.pc = "fail", !.error = "missing"]
<1>1. proc[d] \in Deliverer /\ LocalInv(d) /\ proc[d].pc = "send"
  BY DEF IInv, TypeOK, NothingToSend, At
<1>2. proc[d].msg \in MsgIds /\ Queued(proc[d].msg)
  BY <1>1 DEF LocalInv
<1>3. r \in Deliverer
  BY <1>1 DEF Deliverer, Steps, Errors
<1>4. Become(d, r)
  BY DEF NothingToSend
<1>5. UNCHANGED <<opened, msgs, channelUp, outbox, nextRowId, mapIn, mapOut,
                  copies, threads, faults, proved, waived>>
  BY DEF NothingToSend, outside, rows, observers
<1>6. (proc[d])' = r
  BY <1>4 DEF Become, IInv, TypeOK
<1>7. /\ r.scan = proc[d].scan /\ r.batch = proc[d].batch
      /\ r.seen = proc[d].seen /\ r.msg = proc[d].msg
      /\ r.pc = "fail" /\ r.error = "missing"
  BY <1>1 DEF Deliverer
<1>8. LocalInv(d)'
  BY <1>2, <1>5, <1>6, <1>7, QuietKeepsRows, WorkIsLocal
<1>9. QED
  BY <1>3, <1>4, <1>5, <1>8, QuietStep DEF IInv, TypeOK

\* A status update that fails is recorded as a failed send.
LEMMA MarkFailsKeeps ==
    ASSUME IInv, NEW d \in Deliverers, MarkFails(d)
    PROVE  IInv'
<1> DEFINE r == [proc[d] EXCEPT !.pc = "fail", !.error = "provider"]
<1>1. proc[d] \in Deliverer /\ LocalInv(d) /\ proc[d].pc = "mark"
  BY DEF IInv, TypeOK, MarkFails, At
<1>2. proc[d].msg \in MsgIds /\ Queued(proc[d].msg)
  BY <1>1 DEF LocalInv
<1>3. r \in Deliverer
  BY <1>1 DEF Deliverer, Steps, Errors
<1>4. Become(d, r)
  BY DEF MarkFails
<1>5. UNCHANGED <<opened, msgs, channelUp, outbox, nextRowId, mapIn, mapOut,
                  copies, threads, proved, waived>>
  BY DEF MarkFails, outside, rows, observers
<1>6. faults' \in Nat
  BY DEF MarkFails, Fault, IInv, TypeOK
<1>7. (proc[d])' = r
  BY <1>4 DEF Become, IInv, TypeOK
<1>8. /\ r.scan = proc[d].scan /\ r.batch = proc[d].batch
      /\ r.seen = proc[d].seen /\ r.msg = proc[d].msg
      /\ r.pc = "fail" /\ r.error = "provider"
  BY <1>1 DEF Deliverer
<1>9. LocalInv(d)'
  BY <1>2, <1>5, <1>7, <1>8, QuietKeepsRows, WorkIsLocal
<1>10. QED
  BY <1>3, <1>4, <1>5, <1>6, <1>9, QuietStep DEF IInv, TypeOK

\* The provider takes a copy of a queued message.
LEMMA CopyKeepsRows ==
    ASSUME IInv, NEW m \in MsgIds, Queued(m),
           copies' = [copies EXCEPT ![m] = @ + 1],
           UNCHANGED <<msgs, outbox, mapIn, mapOut>>
    PROVE  /\ Growth /\ \A n \in MsgIds : RowInv(n)'
           /\ copies' \in [MsgIds -> Nat] /\ copies'[m] > 0
<1>1. copies \in [MsgIds -> Nat]
  BY DEF IInv, TypeOK
<1>2. /\ copies' \in [MsgIds -> Nat] /\ copies'[m] > 0
      /\ \A n \in MsgIds \ {m} : copies'[n] = copies[n]
  BY <1>1
<1>3. Growth
  BY <1>2 DEF Growth, Saved, Queued
<1>4. ASSUME NEW n \in MsgIds PROVE RowInv(n)'
  <2>1. CASE n = m
    BY <1>2, <2>1 DEF IInv, RowInv, Saved, Queued, Pending
  <2>2. CASE n # m
    BY <1>2, <2>2 DEF IInv, RowInv, Saved, Queued, Pending
  <2>3. QED
    BY <2>1, <2>2
<1>5. QED
  BY <1>2, <1>3, <1>4

\* After the provider took it, the message has a copy for ever.
LEMMA SendAcceptedKeeps ==
    ASSUME IInv, NEW d \in Deliverers, SendAccepted(d)
    PROVE  IInv'
<1> DEFINE m == proc[d].msg
           r == [proc[d] EXCEPT !.pc = "map", !.outcome = AfterSend]
<1>1. proc[d] \in Deliverer /\ LocalInv(d) /\ proc[d].pc = "send"
  BY DEF IInv, TypeOK, SendAccepted, At
<1>2. m \in MsgIds /\ Queued(m)
  BY <1>1 DEF LocalInv
<1>3. AfterSend \in {"sent", "unconfirmed"}
  BY DEF AfterSend
<1>4. r \in Deliverer
  BY <1>1, <1>3 DEF Deliverer, Steps, Outcome
<1>5. Become(d, r) /\ copies' = [copies EXCEPT ![m] = @ + 1]
  BY DEF SendAccepted
<1>6. UNCHANGED <<opened, msgs, channelUp, outbox, nextRowId, mapIn, mapOut,
                  threads, faults, waived>>
  BY DEF SendAccepted, outside, rows
<1>7. (proc[d])' = r
  BY <1>5 DEF Become, IInv, TypeOK
<1>8. /\ Growth /\ \A n \in MsgIds : RowInv(n)'
      /\ copies' \in [MsgIds -> Nat] /\ copies'[m] > 0
  BY <1>2, <1>5, <1>6, CopyKeepsRows
<1>9. proved' \subseteq MsgIds
  BY <1>2 DEF SendAccepted, IInv, TypeOK
<1>10. SharedOK'
  BY <1>6, <1>8, <1>9 DEF SharedOK, IInv, TypeOK
<1>11. /\ r.scan = proc[d].scan /\ r.batch = proc[d].batch
       /\ r.seen = proc[d].seen /\ r.msg = m
       /\ r.pc = "map" /\ r.outcome = AfterSend
  BY <1>1 DEF Deliverer
<1> HIDE DEF r
<1>12. LocalInv(d)'
  BY <1>2, <1>3, <1>7, <1>8, <1>11, WorkIsLocal
<1>13. QED
  BY <1>4, <1>5, <1>8, <1>10, <1>12, StepKeeps

\* A send that throws may have been accepted all the same.
LEMMA SendThrowsKeeps ==
    ASSUME IInv, NEW d \in Deliverers, SendThrows(d)
    PROVE  IInv'
<1> DEFINE m == proc[d].msg
           r == [proc[d] EXCEPT !.pc = "fail", !.error = "provider"]
<1>1. proc[d] \in Deliverer /\ LocalInv(d) /\ proc[d].pc = "send"
  BY DEF IInv, TypeOK, SendThrows, At
<1>2. m \in MsgIds /\ Queued(m)
  BY <1>1 DEF LocalInv
<1>3. r \in Deliverer
  BY <1>1 DEF Deliverer, Steps, Errors
<1>4. Become(d, r)
  BY DEF SendThrows
<1>5. UNCHANGED <<opened, msgs, channelUp, outbox, nextRowId, mapIn, mapOut,
                  threads, proved, waived>>
  BY DEF SendThrows, outside, rows
<1>6. faults' \in Nat
  BY DEF SendThrows, Fault, IInv, TypeOK
<1>7. (proc[d])' = r
  BY <1>4 DEF Become, IInv, TypeOK
<1>8. /\ Growth /\ \A n \in MsgIds : RowInv(n)'
      /\ copies' \in [MsgIds -> Nat]
  <2>1. CASE copies' = copies
    BY <1>5, <2>1, QuietKeepsRows DEF IInv, TypeOK
  <2>2. CASE copies' = [copies EXCEPT ![m] = @ + 1]
    BY <1>2, <1>5, <2>2, CopyKeepsRows
  <2>3. QED
    BY <2>1, <2>2 DEF SendThrows
<1>9. SharedOK'
  BY <1>5, <1>6, <1>8 DEF SharedOK, IInv, TypeOK
<1>10. /\ r.scan = proc[d].scan /\ r.batch = proc[d].batch
       /\ r.seen = proc[d].seen /\ r.msg = m
       /\ r.pc = "fail" /\ r.error = "provider"
  BY <1>1 DEF Deliverer
<1> HIDE DEF r
<1>11. LocalInv(d)'
  BY <1>2, <1>7, <1>8, <1>10, WorkIsLocal
<1>12. QED
  BY <1>3, <1>4, <1>8, <1>9, <1>11, StepKeeps

\* The only step that maps a message outbound: a copy of it was accepted.
LEMMA SaveMapKeeps ==
    ASSUME IInv, NEW d \in Deliverers, SaveMap(d)
    PROVE  IInv'
<1> DEFINE m == proc[d].msg
           r == [proc[d] EXCEPT !.pc = "mark"]
<1>1. proc[d] \in Deliverer /\ LocalInv(d) /\ proc[d].pc = "map"
  BY DEF IInv, TypeOK, SaveMap, At
<1>2. /\ m \in MsgIds /\ Queued(m) /\ copies[m] > 0
      /\ proc[d].outcome \in {"sent", "unconfirmed"}
  BY <1>1 DEF LocalInv
<1>3. r \in Deliverer
  BY <1>1 DEF Deliverer, Steps
<1>4. Become(d, r) /\ mapOut' \in {mapOut, mapOut \cup {m}}
  BY DEF SaveMap, GoTo
<1>5. UNCHANGED <<opened, msgs, channelUp, outbox, nextRowId, mapIn, copies,
                  threads, proved, waived>>
  BY DEF SaveMap, outside, rows, observers
<1>6. faults' \in Nat
  BY DEF SaveMap, Fault, IInv, TypeOK
<1>7. (proc[d])' = r
  BY <1>4 DEF Become, IInv, TypeOK
<1>8. Growth
  BY <1>4, <1>5 DEF Growth, Saved, Queued
<1>9. \A n \in MsgIds : RowInv(n)'
  BY <1>2, <1>4, <1>5 DEF IInv, RowInv, Saved, Queued, Pending
<1>10. SharedOK'
  BY <1>2, <1>4, <1>5, <1>6 DEF SharedOK, IInv, TypeOK
<1>11. /\ r.scan = proc[d].scan /\ r.batch = proc[d].batch
       /\ r.seen = proc[d].seen /\ r.msg = m
       /\ r.pc = "mark" /\ r.outcome = proc[d].outcome
  BY <1>1 DEF Deliverer
<1> HIDE DEF r
<1>12. LocalInv(d)'
  BY <1>2, <1>5, <1>7, <1>8, <1>11, WorkIsLocal
<1>13. QED
  BY <1>3, <1>4, <1>8, <1>9, <1>10, <1>12, StepKeeps

(***************************************************************************)
(* The steps that write the row and drop it.                                *)
(***************************************************************************)
\* A deliverer that drops the row in hand knows only what still holds.
LEMMA DropIsLocal ==
    ASSUME IInv, Growth, NEW d \in Deliverers, Drop(d), proc[d].msg \in MsgIds
    PROVE  LocalInv(d)'
<1> DEFINE m == proc[d].msg
           r == [proc[d] EXCEPT
              !.pc = IF proc[d].pc = "settle" THEN "confirm" ELSE "deliver",
                   !.batch = @ \ {m}, !.seen = [@ EXCEPT ![m] = 0],
                   !.msg = NoMsg, !.outcome = "none", !.error = "none"]
<1>1. proc[d] \in Deliverer /\ LocalInv(d)
  BY DEF IInv, TypeOK
<1>2. (proc[d])' = r
  BY DEF Drop, Become, IInv, TypeOK
<1>3. /\ r.scan = proc[d].scan /\ r.batch \subseteq proc[d].batch
      /\ r.seen = [proc[d].seen EXCEPT ![m] = 0]
      /\ \/ r.pc = "deliver"
         \/ r.pc = "confirm" /\ proc[d].pc = "settle"
  BY <1>1 DEF Deliverer
<1>4. \A n \in MsgIds : r.seen[n] < MaxAttempts
  BY <1>1, <1>3, OutboxAssumption DEF Deliverer, LocalInv
<1> HIDE DEF r
<1>5. CASE r.pc = "deliver"
  BY <1>2, <1>3, <1>4, <1>5, RestIsLocal
<1>6. CASE r.pc = "confirm" /\ proc[d].pc = "settle"
  <2>1. proc[d].scan \subseteq MsgIds /\ proc[d].batch \subseteq MsgIds
    BY <1>1 DEF Deliverer
  <2>2. /\ \A n \in r.scan : Saved(n)'
        /\ \A n \in r.batch : Queued(n)' /\ copies'[n] > 0
    BY <1>1, <1>3, <1>6, <2>1 DEF LocalInv, Growth
  <2>3. QED
    BY <1>2, <1>4, <1>6, <2>2 DEF LocalInv
<1>7. QED
  BY <1>3, <1>5, <1>6

\* What a deliverer may write into the row it is working on.
LEMMA WriteRowKeeps ==
    ASSUME IInv, NEW d \in Deliverers, Drop(d), NEW m \in MsgIds,
           m = proc[d].msg, Queued(m), NEW row \in Row, row.status # "none",
           row.status \in {"sent", "unconfirmed"} => copies[m] > 0,
           row.status = "pending" => row.attempts < MaxAttempts,
           row.status = "failed" /\ row.lastError \in {"provider", "inactive"}
             => row.attempts >= MaxAttempts,
           outbox' = [outbox EXCEPT ![m] = row],
           UNCHANGED <<outside, threads, nextRowId, mapOut, faults, observers>>
    PROVE  IInv'
<1> USE DEF outside, observers
<1>1. outbox' \in [MsgIds -> Row]
  BY DEF IInv, TypeOK
<1>2. SharedOK'
  BY <1>1 DEF SharedOK, IInv, TypeOK
<1>3. outbox'[m] = row /\ \A n \in MsgIds \ {m} : outbox'[n] = outbox[n]
  BY DEF IInv, TypeOK
<1>4. Growth
  BY <1>3 DEF Growth, Saved, Queued
<1>5. ASSUME NEW n \in MsgIds PROVE RowInv(n)'
  <2>1. CASE n = m
    BY <1>3, <2>1 DEF IInv, RowInv, Saved, Queued, Pending
  <2>2. CASE n # m
    BY <1>3, <2>2 DEF IInv, RowInv, Saved, Queued, Pending
  <2>3. QED
    BY <2>1, <2>2
<1>6. LocalInv(d)'
  BY <1>4, DropIsLocal
<1>7. proc' \in [Deliverers -> Deliverer]
  BY DropType DEF IInv
<1>8. ASSUME NEW e \in Deliverers PROVE LocalInv(e)'
  <2>1. CASE e = d
    BY <1>6, <2>1
  <2>2. CASE e # d
    <3>1. (proc[e])' = proc[e]
      BY <2>2 DEF Drop, Become, IInv, TypeOK
    <3>2. QED
      BY <1>4, <3>1, GrowthKeepsLocal DEF IInv
  <2>3. QED
    BY <2>1, <2>2
<1>9. QED
  BY <1>2, <1>5, <1>7, <1>8 DEF IInv, TypeOK, SharedOK

\* promote and mark keep the attempts the row has; what they may not do is
\* leave it pending with none to spare, and they do not leave it pending.
LEMMA PromoteKeeps ==
    ASSUME IInv, NEW d \in Deliverers, Promote(d)
    PROVE  IInv'
<1> DEFINE m == proc[d].msg
           row == [outbox[m] EXCEPT !.status = "sent", !.lastError = "none"]
<1>1. proc[d] \in Deliverer /\ LocalInv(d) /\ proc[d].pc = "promote"
  BY DEF IInv, TypeOK, Promote, At
<1>2. m \in MsgIds /\ Queued(m) /\ m \in mapOut
  BY <1>1 DEF LocalInv
<1>3. copies[m] > 0
  BY <1>2 DEF IInv, RowInv
<1>4. row \in Row /\ row.status = "sent"
  <2>1. outbox[m] \in Row
    BY <1>2 DEF IInv, TypeOK
  <2>2. QED
    BY <2>1 DEF Row, RowStatus, Errors
<1>5. outbox' = [outbox EXCEPT ![m] = row]
  BY <1>2 DEF Promote, IInv, TypeOK, Row
<1>6. Drop(d) /\ UNCHANGED <<outside, threads, nextRowId, mapOut, faults,
                             observers>>
  BY DEF Promote
<1> HIDE DEF row
<1>7. QED
  BY <1>2, <1>3, <1>4, <1>5, <1>6, WriteRowKeeps

\* The outcome in hand comes from an accepted send.
LEMMA MarkKeeps ==
    ASSUME IInv, NEW d \in Deliverers, Mark(d)
    PROVE  IInv'
<1> DEFINE m == proc[d].msg
           row == [outbox[m] EXCEPT !.status = proc[d].outcome,
                                    !.lastError = "none"]
<1>1. proc[d] \in Deliverer /\ LocalInv(d) /\ proc[d].pc = "mark"
  BY DEF IInv, TypeOK, Mark, At
<1>2. /\ m \in MsgIds /\ Queued(m) /\ copies[m] > 0
      /\ proc[d].outcome \in {"sent", "unconfirmed"}
  BY <1>1 DEF LocalInv
<1>3. row \in Row /\ row.status \in {"sent", "unconfirmed"}
  <2>1. outbox[m] \in Row
    BY <1>2 DEF IInv, TypeOK
  <2>2. QED
    BY <1>2, <2>1 DEF Row, RowStatus, Errors
<1>4. outbox' = [outbox EXCEPT ![m] = row]
  BY <1>2 DEF Mark, IInv, TypeOK, Row
<1>5. Drop(d) /\ UNCHANGED <<outside, threads, nextRowId, mapOut, faults,
                             observers>>
  BY DEF Mark
<1> HIDE DEF row
<1>6. QED
  BY <1>2, <1>3, <1>4, <1>5, WriteRowKeeps

\* So does the update that is followed by a failing one of the channel; the
\* deliverer goes on with the row in hand.
LEMMA ChannelFailsKeeps ==
    ASSUME IInv, NEW d \in Deliverers, ChannelFails(d)
    PROVE  IInv'
<1> DEFINE m == proc[d].msg
           row == [outbox[m] EXCEPT !.status = proc[d].outcome,
                                    !.lastError = "none"]
           r == [proc[d] EXCEPT !.pc = "fail", !.error = "provider"]
<1>1. proc[d] \in Deliverer /\ LocalInv(d) /\ proc[d].pc = "mark"
  BY DEF IInv, TypeOK, ChannelFails, At
<1>2. /\ m \in MsgIds /\ Queued(m) /\ copies[m] > 0
      /\ proc[d].outcome \in {"sent", "unconfirmed"}
  BY <1>1 DEF LocalInv
<1>3. row \in Row /\ row.status \in {"sent", "unconfirmed"}
  <2>1. outbox[m] \in Row
    BY <1>2 DEF IInv, TypeOK
  <2>2. QED
    BY <1>2, <2>1 DEF Row, RowStatus, Errors
<1>4. outbox' = [outbox EXCEPT ![m] = row]
  BY <1>2 DEF ChannelFails, IInv, TypeOK, Row
<1>5. /\ Become(d, r) /\ faults' \in Nat
      /\ UNCHANGED <<outside, threads, nextRowId, mapOut, observers>>
  BY DEF ChannelFails, Fault, IInv, TypeOK
<1>6. r \in Deliverer /\ proc'[d] = r
  BY <1>1, <1>5 DEF Deliverer, Steps, Errors, Become, IInv, TypeOK
<1>7. /\ r.scan = proc[d].scan /\ r.batch = proc[d].batch
      /\ r.seen = proc[d].seen /\ r.msg = m
      /\ r.pc = "fail" /\ r.error = "provider"
  BY <1>1 DEF Deliverer
<1> HIDE DEF row, r
<1>8. outbox' \in [MsgIds -> Row]
  BY <1>3, <1>4 DEF IInv, TypeOK
<1>9. SharedOK'
  BY <1>5, <1>8 DEF SharedOK, IInv, TypeOK, outside, observers
<1>10. outbox'[m] = row /\ \A n \in MsgIds \ {m} : outbox'[n] = outbox[n]
  BY <1>2, <1>4 DEF IInv, TypeOK
<1>11. UNCHANGED <<msgs, mapIn, mapOut, copies>>
  BY <1>5 DEF outside, observers
<1>12. Growth
  BY <1>3, <1>10, <1>11 DEF Growth, Saved, Queued
<1>13. ASSUME NEW n \in MsgIds PROVE RowInv(n)'
  <2>1. CASE n = m
    BY <1>2, <1>3, <1>10, <1>11, <2>1 DEF IInv, RowInv, Saved, Queued, Pending
  <2>2. CASE n # m
    BY <1>10, <1>11, <2>2 DEF IInv, RowInv, Saved, Queued, Pending
  <2>3. QED
    BY <2>1, <2>2
<1>14. LocalInv(d)'
  BY <1>2, <1>6, <1>7, <1>12, WorkIsLocal
<1>15. QED
  BY <1>5, <1>6, <1>9, <1>12, <1>13, <1>14, StepKeeps

\* The attempts written are those the deliverer saw, plus one: below the budget
\* when the row stays pending, however stale what it saw has become.
LEMMA RecordFailureKeeps ==
    ASSUME IInv, NEW d \in Deliverers, RecordFailure(d)
    PROVE  IInv'
<1> DEFINE m == proc[d].msg
           reason == proc[d].error
           attempts == NextAttempts(d, m)
           exhausted == Exhausted(reason, attempts)
           row == [outbox[m] EXCEPT !.status = IF exhausted THEN "failed"
                                               ELSE "pending",
                                    !.attempts = attempts,
                                    !.lastError = reason,
                                    !.backoff = ~exhausted]
<1>1. proc[d] \in Deliverer /\ LocalInv(d) /\ proc[d].pc = "fail"
  BY DEF IInv, TypeOK, RecordFailure, At
<1>2. /\ m \in MsgIds /\ Queued(m)
      /\ reason \in {"inactive", "receiveOnly", "provider", "missing"}
  BY <1>1 DEF LocalInv
<1>3. attempts \in Nat
  BY <1>1, <1>2 DEF NextAttempts, Deliverer
<1>4. (~exhausted) \in BOOLEAN
  BY Zenon
<1>5. outbox[m] \in Row
  BY <1>2 DEF IInv, TypeOK
<1>6. outbox' = [outbox EXCEPT ![m] = row]
  BY <1>2 DEF RecordFailure, IInv, TypeOK, Row
<1>7. exhausted <=> reason \in Terminal \/ attempts >= MaxAttempts
  BY DEF Exhausted
<1> HIDE DEF attempts, exhausted
<1>8. row \in Row
  BY <1>2, <1>3, <1>4, <1>5 DEF Row, RowStatus, Errors
<1>9. /\ row.status = IF exhausted THEN "failed" ELSE "pending"
      /\ row.attempts = attempts /\ row.lastError = reason
  BY <1>5 DEF Row
<1>10. /\ row.status \in {"failed", "pending"}
       /\ row.status = "pending" => attempts < MaxAttempts
       /\ row.status = "failed" /\ reason \in {"provider", "inactive"}
            => attempts >= MaxAttempts
  BY <1>3, <1>7, <1>9, OutboxAssumption DEF Terminal
<1>11. Drop(d) /\ UNCHANGED <<outside, threads, nextRowId, mapOut, faults,
                              observers>>
  BY DEF RecordFailure
<1> HIDE DEF row
<1>12. QED
  BY <1>2, <1>6, <1>8, <1>9, <1>10, <1>11, WriteRowKeeps

\* What the worker asked about had been accepted before it asked.
LEMMA SettleKeeps ==
    ASSUME IInv, Settle
    PROVE  IInv'
<1> DEFINE m == proc[Worker].msg
           row == [outbox[m] EXCEPT
                     !.status = proc[Worker].outcome,
                     !.lastError = IF proc[Worker].outcome = "sent"
                                   THEN "none" ELSE "agent"]
<1>1. /\ Worker \in Deliverers /\ LocalInv(Worker)
      /\ proc[Worker].pc = "settle"
  BY DEF IInv, Settle, At, Deliverers
<1>2. /\ m \in MsgIds /\ Queued(m) /\ copies[m] > 0
      /\ proc[Worker].outcome \in {"sent", "failed"}
  BY <1>1 DEF LocalInv
<1>3. /\ row \in Row /\ row.status \in {"sent", "failed"}
      /\ row.status = "failed" => row.lastError = "agent"
  <2>1. outbox[m] \in Row
    BY <1>2 DEF IInv, TypeOK
  <2>2. QED
    BY <1>2, <2>1 DEF Row, RowStatus, Errors
<1>4. outbox' = [outbox EXCEPT ![m] = row]
  BY <1>2 DEF Settle, IInv, TypeOK, Row
<1>5. Drop(Worker) /\ UNCHANGED <<outside, threads, nextRowId, mapOut, faults,
                                  observers>>
  BY DEF Settle
<1> HIDE DEF row
<1>6. QED
  BY <1>1, <1>2, <1>3, <1>4, <1>5, WriteRowKeeps

\* A deliverer that has tried every row it selected.
LEMMA EndDeliveryKeeps ==
    ASSUME IInv, NEW d \in Deliverers, EndDelivery(d)
    PROVE  IInv'
<1> DEFINE r == IF d # Worker THEN Idle
                ELSE IF proc[d].due THEN [Idle EXCEPT !.pc = "poll"]
                ELSE [proc[d] EXCEPT !.pc = "sweep"]
<1>1. proc[d] \in Deliverer /\ LocalInv(d)
  BY DEF IInv, TypeOK
<1>2. r \in Deliverer
  BY <1>1, IdleIsDeliverer DEF Deliverer, Steps
<1>3. Become(d, r)
  BY DEF EndDelivery
<1>4. UNCHANGED <<opened, msgs, channelUp, outbox, nextRowId, mapIn, mapOut,
                  copies, threads, faults, proved, waived>>
  BY DEF EndDelivery, outside, rows, observers
<1>5. (proc[d])' = r
  BY <1>3 DEF Become, IInv, TypeOK
<1>6. \/ r = Idle
      \/ r = [Idle EXCEPT !.pc = "poll"]
      \/ /\ r.scan = proc[d].scan /\ r.batch = proc[d].batch
         /\ r.seen = proc[d].seen /\ r.pc = "sweep"
  BY <1>1 DEF Deliverer
<1> HIDE DEF r
<1>7. LocalInv(d)'
  <2>1. CASE r = Idle
    BY <1>5, <2>1, IdleIsLocal
  <2>2. CASE r = [Idle EXCEPT !.pc = "poll"]
    BY <1>5, <2>2, OutboxAssumption DEF LocalInv, Idle
  <2>3. CASE /\ r.scan = proc[d].scan /\ r.batch = proc[d].batch
             /\ r.seen = proc[d].seen /\ r.pc = "sweep"
    BY <1>1, <1>4, <1>5, <2>3, QuietKeepsRows, RestIsLocal DEF LocalInv
  <2>4. QED
    BY <1>6, <2>1, <2>2, <2>3
<1>8. QED
  BY <1>2, <1>3, <1>4, <1>7, QuietStep DEF IInv, TypeOK

(***************************************************************************)
(* The worker's tick.                                                       *)
(***************************************************************************)
\* A quiet step of the worker to a known record.
LEMMA WorkerStep ==
    ASSUME IInv, NEW r \in Deliverer, Become(Worker, r),
           UNCHANGED <<outside, threads, rows, mapOut, faults, copies, waived>>,
           proved' \subseteq MsgIds,
           (proc[Worker])' = r => LocalInv(Worker)'
    PROVE  IInv'
<1>1. Worker \in Deliverers
  BY DEF Deliverers
<1>2. (proc[Worker])' = r
  BY <1>1 DEF Become, IInv, TypeOK
<1>3. UNCHANGED <<opened, msgs, channelUp, outbox, nextRowId, mapIn, mapOut,
                  copies, threads, faults, waived>>
  BY DEF outside, rows
<1>4. QED
  BY <1>1, <1>2, <1>3, QuietStep DEF IInv, TypeOK

\* A tick starts with nothing in hand.
LEMMA BeginTickKeeps ==
    ASSUME IInv, BeginTick
    PROVE  IInv'
<1>1. PICK S \in SUBSET Threads :
         Become(Worker, [Idle EXCEPT !.pc = "sweep", !.todo = S])
  BY DEF BeginTick
<1> DEFINE r == [Idle EXCEPT !.pc = "sweep", !.todo = S]
<1>2. r \in Deliverer
  BY <1>1, IdleIsDeliverer DEF Deliverer, Steps
<1>3. ASSUME (proc[Worker])' = r PROVE LocalInv(Worker)'
  BY <1>3, OutboxAssumption DEF LocalInv, Idle
<1>4. QED
  BY <1>1, <1>2, <1>3, WorkerStep DEF BeginTick, observers, IInv, TypeOK

\* flushAllThreads turns to its next thread.
LEMMA SweepThreadKeeps ==
    ASSUME IInv, SweepThread
    PROVE  IInv'
<1>1. PICK t \in proc[Worker].todo :
         /\ Become(Worker, [proc[Worker] EXCEPT !.pc = "read", !.thread = t,
                                                !.todo = @ \ {t}])
         /\ UNCHANGED <<outside, threads, rows, mapOut, faults, observers>>
  BY DEF SweepThread
<1> DEFINE r == [proc[Worker] EXCEPT !.pc = "read", !.thread = t,
                                     !.todo = @ \ {t}]
<1>2. Worker \in Deliverers /\ proc[Worker] \in Deliverer /\ LocalInv(Worker)
  BY DEF IInv, TypeOK, Deliverers
<1>3. r \in Deliverer
  BY <1>2 DEF Deliverer, Steps
<1>4. /\ r.scan = proc[Worker].scan /\ r.batch = proc[Worker].batch
      /\ r.seen = proc[Worker].seen /\ r.pc = "read"
  BY <1>2 DEF Deliverer
<1>5. Growth
  BY <1>1, QuietKeepsRows DEF outside, rows, observers
<1>6. Become(Worker, r)
  BY <1>1
<1> HIDE DEF r
<1>7. ASSUME (proc[Worker])' = r PROVE LocalInv(Worker)'
  BY <1>2, <1>4, <1>5, <1>7, RestIsLocal DEF LocalInv
<1>8. QED
  BY <1>1, <1>3, <1>6, <1>7, WorkerStep DEF observers, IInv, TypeOK

\* The attempts it reads are those of pending rows.
LEMMA SelectDueKeeps ==
    ASSUME IInv, SelectDue
    PROVE  IInv'
<1> DEFINE B == FirstRows({m \in MsgIds : Pending(m) /\ ~outbox[m].backoff},
                          Batch)
           s == [m \in MsgIds |-> IF m \in B THEN outbox[m].attempts ELSE 0]
           r == [Idle EXCEPT !.pc = "deliver", !.due = TRUE, !.batch = B,
                             !.seen = s]
<1>1. Become(Worker, r)
  BY DEF SelectDue
<1>2. B \in SUBSET MsgIds /\ \A m \in B : Pending(m)
  BY DEF FirstRows
<1> HIDE DEF B
<1>3. s \in [MsgIds -> Nat] /\ \A m \in MsgIds : s[m] < MaxAttempts
  BY <1>2, OutboxAssumption DEF IInv, TypeOK, Row, RowInv
<1> HIDE DEF s
<1>4. r \in Deliverer
  BY <1>2, <1>3, IdleIsDeliverer DEF Deliverer, Steps
<1>5. UNCHANGED <<msgs, outbox>>
  BY DEF SelectDue, outside, rows
<1>6. ASSUME (proc[Worker])' = r PROVE LocalInv(Worker)'
  BY <1>2, <1>3, <1>5, <1>6 DEF LocalInv, Idle, Saved, Queued, Pending
<1>7. QED
  BY <1>1, <1>4, <1>6, WorkerStep DEF SelectDue, observers, IInv, TypeOK

\* An unconfirmed row was accepted.
LEMMA SelectUnconfirmedKeeps ==
    ASSUME IInv, SelectUnconfirmed
    PROVE  IInv'
<1> DEFINE B == FirstRows(Unconfirmed, Batch)
           r == [Idle EXCEPT !.pc = "confirm", !.batch = B]
<1>1. Become(Worker, r)
  BY DEF SelectUnconfirmed
<1>2. B \in SUBSET MsgIds /\ \A m \in B : Queued(m) /\ copies[m] > 0
  BY DEF FirstRows, Unconfirmed, Queued, IInv, RowInv
<1> HIDE DEF B
<1>3. r \in Deliverer
  BY <1>2, IdleIsDeliverer DEF Deliverer, Steps
<1>4. UNCHANGED <<msgs, outbox, copies>>
  BY DEF SelectUnconfirmed, outside, rows, observers
<1>5. ASSUME (proc[Worker])' = r PROVE LocalInv(Worker)'
  BY <1>2, <1>4, <1>5, OutboxAssumption DEF LocalInv, Idle, Queued
<1>6. QED
  BY <1>1, <1>3, <1>5, WorkerStep DEF SelectUnconfirmed, observers, IInv, TypeOK

\* The verdict is about an unconfirmed row, which was accepted.
LEMMA AskProviderKeeps ==
    ASSUME IInv, AskProvider
    PROVE  IInv'
<1>1. PICK m \in proc[Worker].batch, verdict \in {"none", "sent", "failed"} :
         /\ At(Worker, "confirm")
         /\ Become(Worker,
              IF verdict = "none"
              THEN [proc[Worker] EXCEPT !.batch = @ \ {m}]
              ELSE [proc[Worker] EXCEPT !.pc = "settle", !.msg = m,
                                        !.outcome = verdict])
         /\ proved' = IF verdict = "sent" THEN proved \cup {m} ELSE proved
         /\ UNCHANGED <<outside, threads, rows, mapOut, faults, copies, waived>>
  BY DEF AskProvider
<1> DEFINE r == IF verdict = "none"
                THEN [proc[Worker] EXCEPT !.batch = @ \ {m}]
                ELSE [proc[Worker] EXCEPT !.pc = "settle", !.msg = m,
                                          !.outcome = verdict]
<1>2. /\ Worker \in Deliverers /\ proc[Worker] \in Deliverer
      /\ LocalInv(Worker) /\ proc[Worker].pc = "confirm"
  BY <1>1 DEF IInv, TypeOK, Deliverers, At
<1>3. m \in MsgIds /\ Queued(m) /\ copies[m] > 0
  BY <1>2 DEF Deliverer, LocalInv
<1>4. r \in Deliverer
  BY <1>2, <1>3 DEF Deliverer, Steps, MsgOrNone, Outcome
<1>5. proved' \subseteq MsgIds
  BY <1>1, <1>3 DEF IInv, TypeOK
<1>6. UNCHANGED <<msgs, outbox, copies>>
  BY <1>1 DEF outside, rows
<1>7. /\ r.scan = proc[Worker].scan /\ r.batch \subseteq proc[Worker].batch
      /\ r.seen = proc[Worker].seen
      /\ \/ r.pc = "confirm"
         \/ r.pc = "settle" /\ r.msg = m /\ r.outcome \in {"sent", "failed"}
  BY <1>2 DEF Deliverer
<1>8. Become(Worker, r)
  BY <1>1
<1> HIDE DEF r
<1>9. ASSUME (proc[Worker])' = r PROVE LocalInv(Worker)'
  BY <1>2, <1>3, <1>6, <1>7, <1>9 DEF LocalInv, Saved, Queued
<1>10. QED
  BY <1>1, <1>4, <1>5, <1>8, <1>9, WorkerStep

\* A tick ends with nothing in hand.
LEMMA EndTickKeeps ==
    ASSUME IInv, EndTick
    PROVE  IInv'
<1>1. Worker \in Deliverers
  BY DEF Deliverers
<1>2. ASSUME (proc[Worker])' = Idle PROVE LocalInv(Worker)'
  BY <1>1, <1>2, IdleIsLocal
<1>3. QED
  BY <1>2, IdleIsDeliverer, WorkerStep DEF EndTick, observers, IInv, TypeOK

(***************************************************************************)
(* The invariant holds.                                                     *)
(***************************************************************************)
\* Deadlines, crashes and whoever else writes: nothing outside breaks it.
LEMMA EnvironmentStep == IInv /\ Environment => IInv'
BY BeginSaveKeeps, CommitSaveKeeps, MapInboundKeeps, BackoffKeeps, RebindKeeps,
   SetReplyKeeps, BeginFlushKeeps, SetChannelKeeps, CrashKeeps DEF Environment

\* Every step of flushThread keeps the invariant.
LEMMA FlushStep ==
    ASSUME IInv, NEW d \in Deliverers, Flush(d)
    PROVE  IInv'
BY ReadThreadKeeps, ScanMessagesKeeps, SkipMessageKeeps, QueueMessageKeeps,
   LoseInsertKeeps, StoreCursorKeeps, SelectPendingKeeps DEF Flush

\* Every step of deliver() and fail() keeps the invariant.
LEMMA DeliveryStep ==
    ASSUME IInv, NEW d \in Deliverers, DeliverStep(d)
    PROVE  IInv'
BY TakeRowKeeps, LookUpMapKeeps, PromoteKeeps, NothingToSendKeeps,
   SendAcceptedKeeps, SendThrowsKeeps, SaveMapKeeps, MarkKeeps,
   MarkFailsKeeps, ChannelFailsKeeps, RecordFailureKeeps, EndDeliveryKeeps DEF DeliverStep

\* Every step of the worker's own keeps the invariant.
LEMMA TickStep == IInv /\ Tick => IInv'
BY BeginTickKeeps, SweepThreadKeeps, SelectDueKeeps, SelectUnconfirmedKeeps,
   AskProviderKeeps, SettleKeeps, EndTickKeeps DEF Tick

\* So does a step in which nothing happens.
LEMMA StutterStep == IInv /\ UNCHANGED vars => IInv'
<1> SUFFICES ASSUME IInv, UNCHANGED vars PROVE IInv'
  OBVIOUS
<1>1. SharedOK' /\ proc' = proc
  BY DEF vars, SharedOK, IInv, TypeOK
<1>2. Growth /\ \A m \in MsgIds : RowInv(m)'
  BY QuietKeepsRows DEF vars
<1>3. QED
  BY <1>1, <1>2, EnvironmentKeeps

\* So does every step.
LEMMA NextKeeps == IInv /\ [Next]_vars => IInv'
BY EnvironmentStep, FlushStep, DeliveryStep, TickStep, StutterStep DEF Next

\* The inductive invariant of the relay.
THEOREM Inductive == Spec => []IInv
BY InitIInv, NextKeeps, PTL DEF Spec

\* Every table and every deliverer stays well-typed, whatever overlaps.
THEOREM TypeCorrect == Spec => []TypeOK
<1>1. IInv => TypeOK
  BY DEF IInv
<1>2. QED
  BY <1>1, Inductive, PTL

\* Loop prevention: the shopper's own words are never queued or sent back.
THEOREM NoEcho == Spec => []NeverEchoed
<1>1. IInv => NeverEchoed
  BY DEF IInv, RowInv, NeverEchoed, Relayable
<1>2. QED
  BY <1>1, Inductive, PTL

\* A row that reads sent or unconfirmed, and an OUTBOUND map row, stand for a
\* reply the provider accepted.
THEOREM ClaimsAreBacked == Spec => []ClaimsBacked
<1>1. IInv => ClaimsBacked
  BY DEF IInv, RowInv, ClaimsBacked
<1>2. QED
  BY <1>1, Inductive, PTL

\* The attempt budget survives attempts written from a stale row.
THEOREM BudgetIsKept == Spec => []BudgetKept
<1>1. IInv => BudgetKept
  BY DEF IInv, RowInv, BudgetKept
<1>2. QED
  BY <1>1, Inductive, PTL

(***************************************************************************)
(* A relay whose only deliverer is the worker.                              *)
(*                                                                          *)
(* Without an inline flush, a crash, a swallowed database error and a lost  *)
(* reply, a row is in nobody else's hand: what the worker selected stays    *)
(* as it was selected until the worker writes it, and a pending row with a  *)
(* copy is the one between its send and its mark.                           *)
(***************************************************************************)
WorkerAlone ==
    /\ Flushers = {}
    /\ Faults \cap {"crash", "dbError", "lostReply"} = {}

\* What the worker selected is as it was, the row in hand is one of them, and
\* the only pending row with a copy is the one in hand after its send.
AloneInv ==
    LET p == proc[Worker]
    IN  /\ \A m \in MsgIds :
              /\ copies[m] <= 1
              /\ outbox[m].status = "sent" => m \in proved
              /\ Pending(m) /\ copies[m] > 0
                    => p.pc \in {"map", "mark"} /\ p.msg = m
        /\ p.pc # "promote"
        /\ p.pc \in {"deliver", "lookup", "send", "map", "mark", "fail"}
              => \A m \in p.batch : Pending(m)
        /\ p.pc \in {"lookup", "send", "map", "mark", "fail", "settle"}
              => p.msg \in p.batch
        /\ p.pc \in {"map", "mark", "settle"} /\ p.outcome = "sent"
              => p.msg \in proved
        /\ p.pc \in {"confirm", "settle"}
              => \A m \in p.batch : outbox[m].status = "unconfirmed"

\* What FinalStaysFinal says of one step.
FinalStep ==
    \A m \in MsgIds : outbox[m].status \in {"sent", "failed"} =>
        outbox'[m].status = outbox[m].status

\* Before any message, the worker holds nothing.
LEMMA InitAlone == Init => AloneInv
BY DEF Init, AloneInv, Pending, NoRow, Idle, Deliverers

\* Nobody else runs.
LEMMA OnlyWorker ==
    ASSUME WorkerAlone, NEW d \in Deliverers
    PROVE  d = Worker
BY DEF WorkerAlone, Deliverers

\* The worker's own record after a step of its own.
LEMMA WorkerMoves ==
    ASSUME IInv, NEW r, Become(Worker, r)
    PROVE  (proc[Worker])' = r
BY DEF Become, IInv, TypeOK, Deliverers

\* A step that moves neither the worker nor a status, a copy or a report.
LEMMA AloneStill ==
    ASSUME IInv, AloneInv, UNCHANGED <<proc, copies, proved>>,
           \A m \in MsgIds : (outbox[m].status)' = outbox[m].status
    PROVE  AloneInv' /\ FinalStep
<1>1. proc[Worker].batch \subseteq MsgIds
  BY DEF IInv, TypeOK, Deliverers, Deliverer
<1>2. (proc[Worker])' = proc[Worker]
  OBVIOUS
<1>3. QED
  BY <1>1, <1>2 DEF AloneInv, FinalStep, Pending

\* The worker moves on with nothing selected that it still relies on.
LEMMA AloneRests ==
    ASSUME IInv, AloneInv, NEW q, (proc[Worker])' = q,
           UNCHANGED <<copies, proved>>,
           \A m \in MsgIds : (outbox[m].status)' = outbox[m].status,
           proc[Worker].pc \notin {"map", "mark"},
           q.pc \in {"idle", "sweep", "read", "scan", "queue", "select", "poll"}
    PROVE  AloneInv' /\ FinalStep
BY DEF AloneInv, FinalStep, Pending

\* The worker moves on with the rows it has, none of which was written.
LEMMA AloneWorks ==
    ASSUME IInv, AloneInv, NEW q, (proc[Worker])' = q,
           UNCHANGED <<outbox, copies, proved>>,
           q.batch \subseteq proc[Worker].batch,
           proc[Worker].pc \in {"deliver", "lookup", "send", "fail"},
           q.pc \in {"deliver", "lookup", "send", "fail"},
           q.pc # "deliver" => q.msg \in q.batch
    PROVE  AloneInv' /\ FinalStep
BY DEF AloneInv, FinalStep, Pending

\* The worker drops the row in hand, having written it: from pending, or with
\* the verdict on an unconfirmed one.
LEMMA AloneWrites ==
    ASSUME IInv, AloneInv, NEW m \in MsgIds, m = proc[Worker].msg,
           Drop(Worker), UNCHANGED <<copies, proved>>, NEW status,
           outbox[m].status \in {"pending", "unconfirmed"},
           proc[Worker].pc \in {"mark", "fail", "settle"},
           status = "pending" => copies[m] = 0,
           status = "sent" => m \in proved,
           \A n \in MsgIds : (outbox[n].status)' =
                                IF n = m THEN status ELSE outbox[n].status
    PROVE  AloneInv' /\ FinalStep
<1> DEFINE r == [proc[Worker] EXCEPT
              !.pc = IF proc[Worker].pc = "settle" THEN "confirm"
                                                   ELSE "deliver",
              !.batch = @ \ {m}, !.seen = [@ EXCEPT ![m] = 0],
              !.msg = NoMsg, !.outcome = "none", !.error = "none"]
<1>1. proc[Worker] \in Deliverer
  BY DEF IInv, TypeOK, Deliverers
<1>2. (proc[Worker])' = r
  BY WorkerMoves DEF Drop
<1>3. /\ r.batch = proc[Worker].batch \ {m}
      /\ r.pc = IF proc[Worker].pc = "settle" THEN "confirm" ELSE "deliver"
  BY <1>1 DEF Deliverer
<1>4. proc[Worker].batch \subseteq MsgIds
  BY <1>1 DEF Deliverer
<1> HIDE DEF r
<1>5. \A n \in MsgIds : /\ copies'[n] <= 1
                        /\ (outbox[n].status)' = "sent" => n \in proved'
                        /\ ~((outbox[n].status)' = "pending" /\ copies'[n] > 0)
  BY DEF AloneInv, Pending
<1>6. /\ r.pc = "deliver" =>
            \A n \in r.batch : (outbox[n].status)' = "pending"
      /\ r.pc = "confirm" =>
            \A n \in r.batch : (outbox[n].status)' = "unconfirmed"
      /\ r.pc \in {"deliver", "confirm"}
  BY <1>3, <1>4 DEF AloneInv, Pending
<1>7. AloneInv'
  BY <1>2, <1>5, <1>6 DEF AloneInv, Pending
<1>8. FinalStep
  BY DEF FinalStep
<1>9. QED
  BY <1>7, <1>8

\* Nothing outside touches the row in the worker's hand.
LEMMA EnvironmentAlone ==
    ASSUME WorkerAlone, IInv, AloneInv, Environment
    PROVE  AloneInv' /\ FinalStep
<1> USE DEF rows, maps, observers
<1>1. UNCHANGED <<proc, copies, proved>>
  BY DEF Environment, BeginSave, CommitSave, MapInbound, BackoffElapses,
     Rebind, SetReply, SetChannel, Crash, Fault, WorkerAlone
<1>2. \A m \in MsgIds : (outbox[m].status)' = outbox[m].status
  <2>1. CASE outbox' = outbox
    BY <2>1
  <2>2. CASE \E m \in MsgIds : BackoffElapses(m)
    BY <2>2 DEF BackoffElapses, IInv, TypeOK, Row
  <2>3. QED
    BY <2>1, <2>2 DEF Environment, BeginSave, CommitSave, MapInbound, Rebind,
       SetReply, SetChannel, Crash, Fault, WorkerAlone
<1>3. QED
  BY <1>1, <1>2, AloneStill

\* flushThread: what it queues has no copy yet, what it selects is pending.
LEMMA FlushAlone ==
    ASSUME WorkerAlone, IInv, AloneInv, Flush(Worker)
    PROVE  AloneInv' /\ FinalStep
<1> USE DEF rows, outside, observers
<1> DEFINE p == proc[Worker]
<1>0. p \in Deliverer
  BY DEF IInv, TypeOK, Deliverers
<1>1. CASE ReadThread(Worker)
  <2> DEFINE t == p.thread
             r == IF threads[t].conv = NoConv
                  THEN [p EXCEPT !.pc = "sweep"]
                  ELSE [p EXCEPT !.pc = "scan", !.snap = threads[t],
                                 !.last = threads[t].cursor]
  <2>1. Become(Worker, r)
    BY <1>1 DEF ReadThread
  <2>2. r.pc \in {"sweep", "scan"} /\ p.pc = "read"
    BY <1>0, <1>1 DEF ReadThread, At, Deliverer
  <2> HIDE DEF r
  <2>3. QED
    BY <1>1, <2>1, <2>2, WorkerMoves, AloneRests DEF ReadThread
<1>2. CASE ScanMessages(Worker)
  <2> DEFINE r == [p EXCEPT !.pc = "queue",
                     !.scan = FirstIds(Unscanned(p.snap.conv, p.snap.cursor),
                                       ScanLimit)]
  <2>1. Become(Worker, r)
    BY <1>2 DEF ScanMessages
  <2>2. r.pc = "queue" /\ p.pc = "scan"
    BY <1>0, <1>2 DEF ScanMessages, At, Deliverer
  <2> HIDE DEF r
  <2>3. QED
    BY <1>2, <2>1, <2>2, WorkerMoves, AloneRests DEF ScanMessages
<1>3. CASE SkipMessage(Worker)
  <2>1. PICK m \in p.scan : Walk(Worker, m)
    BY <1>3 DEF SkipMessage
  <2> DEFINE r == [p EXCEPT !.scan = @ \ {m}, !.last = m]
  <2>2. Become(Worker, r)
    BY <2>1 DEF Walk
  <2>3. r.pc = "queue" /\ p.pc = "queue"
    BY <1>0, <1>3 DEF SkipMessage, At, Deliverer
  <2> HIDE DEF r
  <2>4. QED
    BY <1>3, <2>2, <2>3, WorkerMoves, AloneRests DEF SkipMessage
<1>4. CASE QueueMessage(Worker)
  <2>1. PICK m \in p.scan :
          /\ Walk(Worker, m)
          /\ IF Queued(m)
             THEN UNCHANGED rows
             ELSE /\ outbox' = [outbox EXCEPT ![m] =
                                  [id |-> nextRowId, thread |-> p.thread,
                                   status |-> "pending", attempts |-> 0,
                                   backoff |-> FALSE, lastError |-> "none"]]
                  /\ nextRowId' = nextRowId + 1
    BY <1>4 DEF QueueMessage
  <2>2. m \in MsgIds
    BY <1>0 DEF Deliverer
  <2> DEFINE r == [p EXCEPT !.scan = @ \ {m}, !.last = m]
  <2>3. (proc[Worker])' = r
    BY <2>1, WorkerMoves DEF Walk
  <2>4. r.pc = "queue" /\ p.pc = "queue" /\ UNCHANGED <<copies, proved>>
    BY <1>0, <1>4 DEF QueueMessage, At, Deliverer
  <2> HIDE DEF r
  <2>5. CASE Queued(m)
    BY <2>1, <2>3, <2>4, <2>5, AloneRests
  <2>6. CASE ~Queued(m)
    <3>1. \A n \in MsgIds : (outbox[n].status)' =
                               IF n = m THEN "pending" ELSE outbox[n].status
      BY <2>1, <2>2, <2>6 DEF IInv, TypeOK
    <3>2. outbox[m].status = "none" /\ copies[m] = 0
      BY <2>2, <2>6 DEF Queued, IInv, TypeOK, RowInv
    <3>3. \A n \in MsgIds : ~(Pending(n) /\ copies[n] > 0)
      BY <2>4 DEF AloneInv
    <3>4. QED
      BY <2>3, <2>4, <3>1, <3>2, <3>3 DEF AloneInv, FinalStep, Pending
  <2>7. QED
    BY <2>5, <2>6
<1>5. CASE StoreCursor(Worker)
  <2> DEFINE r == [p EXCEPT !.pc = "select", !.snap = NoThread, !.last = NoMsg]
  <2>1. Become(Worker, r)
    BY <1>5 DEF StoreCursor
  <2>2. r.pc = "select" /\ p.pc = "queue"
    BY <1>0, <1>5 DEF StoreCursor, At, Deliverer
  <2> HIDE DEF r
  <2>3. QED
    BY <1>5, <2>1, <2>2, WorkerMoves, AloneRests DEF StoreCursor
<1>6. CASE SelectPending(Worker)
  <2> DEFINE B == FirstRows({m \in MsgIds : /\ Pending(m)
                                            /\ outbox[m].thread = p.thread},
                            ScanLimit)
             r == [p EXCEPT !.pc = "deliver", !.batch = B,
                     !.seen = [m \in MsgIds |->
                                 IF m \in B THEN outbox[m].attempts ELSE 0]]
  <2>1. Become(Worker, r)
    BY <1>6 DEF SelectPending, Deliver
  <2>2. \A m \in B : m \in MsgIds /\ Pending(m)
    BY DEF FirstRows
  <2>3. r.pc = "deliver" /\ r.batch = B /\ p.pc = "select"
    BY <1>0, <1>6 DEF SelectPending, At, Deliverer
  <2>4. (proc[Worker])' = r
    BY <2>1, WorkerMoves
  <2> HIDE DEF r, B
  <2>5. UNCHANGED <<outbox, copies, proved>>
    BY <1>6 DEF SelectPending
  <2>6. QED
    BY <2>2, <2>3, <2>4, <2>5 DEF AloneInv, FinalStep, Pending
<1>7. QED
  BY <1>1, <1>2, <1>3, <1>4, <1>5, <1>6
     DEF Flush, LoseInsert, Fault, WorkerAlone

\* A row the worker selected is pending and, until its send, has no copy.
LEMMA NoCopyYet ==
    ASSUME IInv, AloneInv, NEW m \in proc[Worker].batch,
           proc[Worker].pc \in {"deliver", "lookup", "send", "fail"}
    PROVE  m \in MsgIds /\ Pending(m) /\ copies[m] = 0 /\ m \notin mapOut
<1>1. m \in MsgIds /\ Worker \in Deliverers
  BY DEF IInv, TypeOK, Deliverers, Deliverer
<1>2. Pending(m) /\ copies[m] \in Nat
  BY <1>1 DEF AloneInv, IInv, TypeOK
<1>3. ~(copies[m] > 0)
  BY <1>1, <1>2 DEF AloneInv
<1>4. m \notin mapOut
  BY <1>1, <1>3 DEF IInv, RowInv
<1>5. QED
  BY <1>1, <1>2, <1>3, <1>4

\* The send: the one step that adds a copy, to a row that has none.
LEMMA SendAlone ==
    ASSUME WorkerAlone, IInv, AloneInv,
           SendAccepted(Worker) \/ SendThrows(Worker)
    PROVE  AloneInv' /\ FinalStep
<1> USE DEF rows, outside, observers
<1> DEFINE p == proc[Worker]
           m == p.msg
<1>1. p \in Deliverer /\ p.pc = "send" /\ m \in p.batch
  BY DEF IInv, TypeOK, Deliverers, SendAccepted, SendThrows, At, AloneInv
<1>2. m \in MsgIds /\ Pending(m) /\ copies[m] = 0
  BY <1>1, NoCopyYet
<1>3. CASE SendAccepted(Worker)
  <2> DEFINE r == [p EXCEPT !.pc = "map", !.outcome = AfterSend]
  <2>1. (proc[Worker])' = r
    BY <1>3, WorkerMoves DEF SendAccepted
  <2>2. r.pc = "map" /\ r.batch = p.batch /\ r.msg = m /\ r.outcome = AfterSend
    BY <1>1 DEF Deliverer
  <2>3. /\ outbox' = outbox
        /\ \A n \in MsgIds : copies'[n] = IF n = m THEN 1 ELSE copies[n]
        /\ proved \subseteq proved' /\ (AfterSend = "sent" => m \in proved')
    BY <1>2, <1>3 DEF SendAccepted, AfterSend, IInv, TypeOK
  <2>4. \A n \in MsgIds : ~(Pending(n) /\ copies[n] > 0)
    BY <1>1 DEF AloneInv
  <2> HIDE DEF r
  <2>5. \A n \in p.batch : n \in MsgIds /\ Pending(n)
    BY <1>1, NoCopyYet
  <2>6. \A n \in MsgIds : /\ copies'[n] <= 1
                          /\ (outbox[n].status)' = "sent" => n \in proved'
                          /\ Pending(n)' /\ copies'[n] > 0 => n = m
    BY <2>3, <2>4 DEF AloneInv, Pending
  <2>7. AloneInv'
    BY <1>1, <2>1, <2>2, <2>3, <2>5, <2>6 DEF AloneInv, Pending
  <2>8. QED
    BY <2>3, <2>7 DEF FinalStep
<1>4. CASE SendThrows(Worker)
  <2> DEFINE r == [p EXCEPT !.pc = "fail", !.error = "provider"]
  <2>1. (proc[Worker])' = r
    BY <1>4, WorkerMoves DEF SendThrows
  <2>2. r.pc = "fail" /\ r.batch = p.batch /\ r.msg = m
    BY <1>1 DEF Deliverer
  <2>3. UNCHANGED <<outbox, copies, proved>>
    BY <1>4 DEF SendThrows, Fault, WorkerAlone
  <2> HIDE DEF r
  <2>4. QED
    BY <1>1, <2>1, <2>2, <2>3, AloneWorks
<1>5. QED
  BY <1>3, <1>4

\* The steps up to the send leave the selected rows as they were.
LEMMA ApproachAlone ==
    ASSUME WorkerAlone, IInv, AloneInv,
           \/ TakeRow(Worker) \/ LookUpMap(Worker) \/ NothingToSend(Worker)
    PROVE  AloneInv' /\ FinalStep
<1> USE DEF rows, outside, observers
<1> DEFINE p == proc[Worker]
<1>1. p \in Deliverer
  BY DEF IInv, TypeOK, Deliverers
<1>2. CASE TakeRow(Worker)
  <2>1. PICK m \in p.batch, reason \in {"receiveOnly", "inactive", "none"} :
          Become(Worker, IF reason = "none"
                         THEN [p EXCEPT !.pc = "lookup", !.msg = m]
                         ELSE [p EXCEPT !.pc = "fail", !.msg = m,
                                        !.error = reason])
    BY <1>2 DEF TakeRow
  <2> DEFINE r == IF reason = "none"
                  THEN [p EXCEPT !.pc = "lookup", !.msg = m]
                  ELSE [p EXCEPT !.pc = "fail", !.msg = m, !.error = reason]
  <2>2. (proc[Worker])' = r
    BY <2>1, WorkerMoves
  <2>3. /\ r.pc \in {"lookup", "fail"} /\ r.batch = p.batch /\ r.msg = m
        /\ p.pc = "deliver" /\ UNCHANGED <<outbox, copies, proved>>
    BY <1>1, <1>2 DEF TakeRow, At, Deliverer
  <2> HIDE DEF r
  <2>4. QED
    BY <2>2, <2>3, AloneWorks
<1>3. CASE LookUpMap(Worker)
  <2>1. p.pc = "lookup" /\ p.msg \in p.batch
    BY <1>3 DEF LookUpMap, At, AloneInv
  <2>2. ~Already(p.msg)
    BY <2>1, NoCopyYet DEF Already
  <2> DEFINE r == [p EXCEPT !.pc = "send"]
  <2>3. (proc[Worker])' = r
    BY <1>3, <2>2, WorkerMoves DEF LookUpMap, GoTo
  <2>4. /\ r.pc = "send" /\ r.batch = p.batch /\ r.msg = p.msg
        /\ UNCHANGED <<outbox, copies, proved>>
    BY <1>1, <1>3 DEF LookUpMap, Deliverer
  <2> HIDE DEF r
  <2>5. QED
    BY <2>1, <2>3, <2>4, AloneWorks
<1>4. CASE NothingToSend(Worker)
  <2>1. p.pc = "send" /\ p.msg \in p.batch
    BY <1>4 DEF NothingToSend, At, AloneInv
  <2> DEFINE r == [p EXCEPT !.pc = "fail", !.error = "missing"]
  <2>2. (proc[Worker])' = r
    BY <1>4, WorkerMoves DEF NothingToSend
  <2>3. /\ r.pc = "fail" /\ r.batch = p.batch /\ r.msg = p.msg
        /\ UNCHANGED <<outbox, copies, proved>>
    BY <1>1, <1>4 DEF NothingToSend, Deliverer
  <2> HIDE DEF r
  <2>4. QED
    BY <2>1, <2>2, <2>3, AloneWorks
<1>5. QED
  BY <1>2, <1>3, <1>4

\* After the send: the map row, the mark, a recorded failure, the end.
LEMMA RecordAlone ==
    ASSUME WorkerAlone, IInv, AloneInv,
           \/ SaveMap(Worker) \/ Mark(Worker) \/ RecordFailure(Worker)
           \/ EndDelivery(Worker)
    PROVE  AloneInv' /\ FinalStep
<1> USE DEF rows, outside, observers
<1> DEFINE p == proc[Worker]
           m == p.msg
<1>1. p \in Deliverer /\ LocalInv(Worker) /\ Worker \in Deliverers
  BY DEF IInv, TypeOK, Deliverers
<1>2. CASE SaveMap(Worker)
  <2> DEFINE r == [p EXCEPT !.pc = "mark"]
  <2>1. (proc[Worker])' = r
    BY <1>2, WorkerMoves DEF SaveMap, GoTo
  <2>2. /\ r.pc = "mark" /\ r.batch = p.batch /\ r.msg = m
        /\ r.outcome = p.outcome /\ p.pc = "map"
        /\ UNCHANGED <<outbox, copies, proved>>
    BY <1>1, <1>2 DEF SaveMap, At, Deliverer
  <2> HIDE DEF r
  <2>3. QED
    BY <2>1, <2>2 DEF AloneInv, FinalStep, Pending
<1>3. CASE Mark(Worker)
  <2>1. p.pc = "mark" /\ m \in p.batch
    BY <1>3 DEF Mark, At, AloneInv
  <2>2. /\ m \in MsgIds /\ Pending(m)
        /\ p.outcome \in {"sent", "unconfirmed"}
        /\ p.outcome = "sent" => m \in proved
    BY <1>1, <2>1 DEF AloneInv, LocalInv
  <2>3. \A n \in MsgIds : (outbox[n].status)' =
                             IF n = m THEN p.outcome ELSE outbox[n].status
    BY <1>3, <2>2 DEF Mark, IInv, TypeOK, Row
  <2>4. Drop(Worker) /\ UNCHANGED <<copies, proved>>
    BY <1>3 DEF Mark
  <2>5. QED
    BY <2>1, <2>2, <2>3, <2>4, AloneWrites DEF Pending
<1>4. CASE RecordFailure(Worker)
  <2>1. p.pc = "fail" /\ m \in p.batch
    BY <1>4 DEF RecordFailure, At, AloneInv
  <2>2. m \in MsgIds /\ Pending(m) /\ copies[m] = 0
    BY <2>1, NoCopyYet
  <2>3. PICK status \in {"failed", "pending"} :
          \A n \in MsgIds : (outbox[n].status)' =
                               IF n = m THEN status ELSE outbox[n].status
    <3> DEFINE exhausted == Exhausted(p.error, NextAttempts(Worker, m))
               status == IF exhausted THEN "failed" ELSE "pending"
    <3>1. \A n \in MsgIds : (outbox[n].status)' =
                               IF n = m THEN status ELSE outbox[n].status
      BY <1>4, <2>2 DEF RecordFailure, IInv, TypeOK, Row
    <3>2. QED
      BY <3>1
  <2>4. Drop(Worker) /\ UNCHANGED <<copies, proved>>
    BY <1>4 DEF RecordFailure
  <2>5. QED
    BY <2>1, <2>2, <2>3, <2>4, AloneWrites DEF Pending
<1>5. CASE EndDelivery(Worker)
  <2> DEFINE r == IF p.due THEN [Idle EXCEPT !.pc = "poll"]
                  ELSE [p EXCEPT !.pc = "sweep"]
  <2>1. (proc[Worker])' = r
    BY <1>5, WorkerMoves DEF EndDelivery
  <2>2. /\ r.pc \in {"poll", "sweep"} /\ p.pc = "deliver"
        /\ UNCHANGED <<outbox, copies, proved>>
    BY <1>1, <1>5 DEF EndDelivery, At, Deliverer, Idle
  <2> HIDE DEF r
  <2>3. QED
    BY <2>1, <2>2, AloneRests
<1>6. QED
  BY <1>2, <1>3, <1>4, <1>5

\* deliver(): promote and a failing mark are out of reach.
LEMMA DeliveryAlone ==
    ASSUME WorkerAlone, IInv, AloneInv, DeliverStep(Worker)
    PROVE  AloneInv' /\ FinalStep
<1>1. ~Promote(Worker)
  BY DEF Promote, At, AloneInv
<1>2. ~MarkFails(Worker) /\ ~ChannelFails(Worker)
  BY DEF MarkFails, ChannelFails, Fault, WorkerAlone
<1>3. QED
  BY <1>1, <1>2, SendAlone, ApproachAlone, RecordAlone DEF DeliverStep

\* The tick: it selects pending rows to send and unconfirmed ones to ask about.
LEMMA TickAlone ==
    ASSUME WorkerAlone, IInv, AloneInv, Tick
    PROVE  AloneInv' /\ FinalStep
<1> USE DEF rows, outside, observers
<1> DEFINE p == proc[Worker]
<1>1. p \in Deliverer /\ LocalInv(Worker) /\ Worker \in Deliverers
  BY DEF IInv, TypeOK, Deliverers
<1>2. CASE BeginTick
  <2>0. PICK S \in SUBSET Threads :
          Become(Worker, [Idle EXCEPT !.pc = "sweep", !.todo = S])
    BY <1>2 DEF BeginTick
  <2> DEFINE r == [Idle EXCEPT !.pc = "sweep", !.todo = S]
  <2>1. (proc[Worker])' = r
    BY <2>0, WorkerMoves
  <2>2. /\ r.pc = "sweep" /\ p.pc = "idle"
        /\ UNCHANGED <<outbox, copies, proved>>
    BY <1>2 DEF BeginTick, NotRunning, At, Idle
  <2> HIDE DEF r
  <2>3. QED
    BY <2>1, <2>2, AloneRests
<1>3. CASE SweepThread
  <2>1. PICK t \in p.todo :
          Become(Worker, [p EXCEPT !.pc = "read", !.thread = t,
                                   !.todo = @ \ {t}])
    BY <1>3 DEF SweepThread
  <2> DEFINE r == [p EXCEPT !.pc = "read", !.thread = t, !.todo = @ \ {t}]
  <2>2. (proc[Worker])' = r
    BY <2>1, WorkerMoves
  <2>3. /\ r.pc = "read" /\ p.pc = "sweep"
        /\ UNCHANGED <<outbox, copies, proved>>
    BY <1>1, <1>3 DEF SweepThread, At, Deliverer
  <2> HIDE DEF r
  <2>4. QED
    BY <2>2, <2>3, AloneRests
<1>4. CASE SelectDue
  <2> DEFINE B == FirstRows({m \in MsgIds : Pending(m) /\ ~outbox[m].backoff},
                            Batch)
             r == [Idle EXCEPT !.pc = "deliver", !.due = TRUE, !.batch = B,
                     !.seen = [m \in MsgIds |->
                                 IF m \in B THEN outbox[m].attempts ELSE 0]]
  <2>1. (proc[Worker])' = r
    BY <1>4, WorkerMoves DEF SelectDue
  <2>2. /\ r.pc = "deliver" /\ r.batch = B /\ p.pc = "sweep"
        /\ UNCHANGED <<outbox, copies, proved>>
    BY <1>4 DEF SelectDue, At, Idle
  <2>3. \A m \in B : m \in MsgIds /\ Pending(m)
    BY DEF FirstRows
  <2> HIDE DEF r, B
  <2>4. QED
    BY <2>1, <2>2, <2>3 DEF AloneInv, FinalStep, Pending
<1>5. CASE SelectUnconfirmed
  <2> DEFINE B == FirstRows(Unconfirmed, Batch)
             r == [Idle EXCEPT !.pc = "confirm", !.batch = B]
  <2>1. (proc[Worker])' = r
    BY <1>5, WorkerMoves DEF SelectUnconfirmed
  <2>2. /\ r.pc = "confirm" /\ r.batch = B /\ p.pc = "poll"
        /\ UNCHANGED <<outbox, copies, proved>>
    BY <1>5 DEF SelectUnconfirmed, At, Idle
  <2>3. \A m \in B : m \in MsgIds /\ outbox[m].status = "unconfirmed"
    BY DEF FirstRows, Unconfirmed
  <2> HIDE DEF r, B
  <2>4. QED
    BY <2>1, <2>2, <2>3 DEF AloneInv, FinalStep, Pending
<1>6. CASE AskProvider
  <2>1. PICK m \in p.batch, verdict \in {"none", "sent", "failed"} :
          /\ Become(Worker,
               IF verdict = "none" THEN [p EXCEPT !.batch = @ \ {m}]
               ELSE [p EXCEPT !.pc = "settle", !.msg = m, !.outcome = verdict])
          /\ proved' = IF verdict = "sent" THEN proved \cup {m} ELSE proved
    BY <1>6 DEF AskProvider
  <2> DEFINE r == IF verdict = "none" THEN [p EXCEPT !.batch = @ \ {m}]
                  ELSE [p EXCEPT !.pc = "settle", !.msg = m,
                                 !.outcome = verdict]
  <2>2. (proc[Worker])' = r
    BY <2>1, WorkerMoves
  <2>3. /\ p.pc = "confirm" /\ UNCHANGED <<outbox, copies>>
        /\ proved \subseteq proved' /\ r.batch \subseteq p.batch
        /\ \/ r.pc = "confirm"
           \/ /\ r.pc = "settle" /\ r.msg = m /\ m \in r.batch
              /\ r.outcome = "sent" => m \in proved'
    BY <1>1, <1>6, <2>1 DEF AskProvider, At, Deliverer
  <2>4. p.batch \subseteq MsgIds
    BY <1>1 DEF Deliverer
  <2> HIDE DEF r
  <2>5. QED
    BY <2>2, <2>3, <2>4 DEF AloneInv, FinalStep, Pending
<1>7. CASE Settle
  <2> DEFINE m == p.msg
  <2>1. p.pc = "settle"
    BY <1>7 DEF Settle, At
  <2>2. /\ m \in MsgIds /\ outbox[m].status = "unconfirmed"
        /\ p.outcome \in {"sent", "failed"}
        /\ p.outcome = "sent" => m \in proved
    BY <1>1, <2>1 DEF AloneInv, LocalInv
  <2>3. \A n \in MsgIds : (outbox[n].status)' =
                             IF n = m THEN p.outcome ELSE outbox[n].status
    BY <1>7, <2>2 DEF Settle, IInv, TypeOK, Row
  <2>4. Drop(Worker) /\ UNCHANGED <<copies, proved>>
    BY <1>7 DEF Settle
  <2>5. QED
    BY <2>1, <2>2, <2>3, <2>4, AloneWrites
<1>8. CASE EndTick
  <2>1. (proc[Worker])' = Idle
    BY <1>8, WorkerMoves DEF EndTick
  <2>2. /\ Idle.pc = "idle" /\ p.pc = "confirm"
        /\ UNCHANGED <<outbox, copies, proved>>
    BY <1>8 DEF EndTick, At, Idle
  <2>3. QED
    BY <2>1, <2>2, AloneRests
<1>9. QED
  BY <1>2, <1>3, <1>4, <1>5, <1>6, <1>7, <1>8 DEF Tick

\* Every step of a relay with the worker alone.
LEMMA NextAlone ==
    ASSUME WorkerAlone, IInv, AloneInv, [Next]_vars
    PROVE  AloneInv' /\ FinalStep
<1>1. CASE Environment
  BY <1>1, EnvironmentAlone
<1>2. CASE \E d \in Deliverers : Flush(d) \/ DeliverStep(d)
  BY <1>2, OnlyWorker, FlushAlone, DeliveryAlone
<1>3. CASE Tick
  BY <1>3, TickAlone
<1>4. CASE UNCHANGED vars
  BY <1>4, AloneStill DEF vars
<1>5. QED
  BY <1>1, <1>2, <1>3, <1>4 DEF Next

\* The rows stay in the worker's hand.
LEMMA AloneInductive ==
    ASSUME WorkerAlone
    PROVE  Spec => []AloneInv
<1>1. IInv /\ AloneInv /\ [Next]_vars => AloneInv'
  BY NextAlone
<1>2. QED
  BY <1>1, InitAlone, Inductive, PTL DEF Spec

\* "a retried send cannot deliver twice": with the worker alone and none of the
\* three faults, however often a send is retried.
THEOREM SentOnce ==
    ASSUME WorkerAlone
    PROVE  Spec => []NeverTwice
<1>1. AloneInv => NeverTwice
  BY DEF AloneInv, NeverTwice
<1>2. QED
  BY <1>1, AloneInductive, PTL

\* A row of such a relay reads sent only once the provider reported the
\* delivery, synchronous or not.
THEOREM SentWasReported ==
    ASSUME WorkerAlone
    PROVE  Spec => []SentIsProven
<1>1. AloneInv => SentIsProven
  BY DEF AloneInv, SentIsProven
<1>2. QED
  BY <1>1, AloneInductive, PTL

\* Sent and failed are final in such a relay.
THEOREM FinalIsFinal ==
    ASSUME WorkerAlone
    PROVE  Spec => FinalStaysFinal
<1>1. IInv /\ AloneInv /\ [Next]_vars =>
        [\A m \in MsgIds : outbox[m].status \in {"sent", "failed"} =>
            outbox'[m].status = outbox[m].status]_vars
  BY NextAlone DEF FinalStep
<1>2. QED
  BY <1>1, Inductive, AloneInductive, PTL DEF Spec, FinalStaysFinal

(***************************************************************************)
(* Nothing is passed over.                                                  *)
(*                                                                          *)
(* Inserts that do not overlap commit in id order, so nothing can appear    *)
(* behind a cursor that stands on a committed message.  With one            *)
(* conversation to a thread, a cursor then covers all that is behind it --  *)
(* the thread's own, and the one a deliverer is carrying to it, whoever     *)
(* else flushes the thread meanwhile.                                       *)
(***************************************************************************)
InOrder ==
    /\ ~OverlappingSaves
    /\ "dbError" \notin Faults
    /\ \A c, e \in Convs : Owner[c] = Owner[e] => c = e

\* A message the cursor may pass.
Settled(m) == Queued(m) \/ m \in waived

\* A cursor k into conversation c: on a committed message, with nothing
\* relayable behind it that was not queued or waived.
Covers(c, k) ==
    /\ k # NoMsg => k \in MsgIds /\ Saved(k)
    /\ \A m \in MsgIds :
          Saved(m) /\ msgs[m].kind \in Relayable /\ msgs[m].conv = c /\ m <= k
             => Settled(m)

\* What a deliverer between its read and its write of the cursor carries.
CarryInv(d) ==
    LET p == proc[d]
    IN  /\ p.pc \in {"scan", "queue"} =>
              /\ p.snap.conv \in Convs /\ Owner[p.snap.conv] = p.thread
              /\ Covers(p.snap.conv, p.last)
        /\ p.pc = "scan" => p.last = p.snap.cursor
        /\ p.pc = "queue" =>
              /\ \A m \in p.scan : msgs[m].conv = p.snap.conv /\ p.last < m
              /\ \A n \in Unscanned(p.snap.conv, p.last) :
                    n \in p.scan \/ \A m \in p.scan : m <= n

\* Messages commit in id order, each to a conversation.
CommitOrder ==
    /\ \A m, n \in MsgIds : m < n /\ msgs[n].state # "none" => Saved(m)
    /\ \A m \in MsgIds : msgs[m].state # "none" => msgs[m].conv \in Convs

\* A thread points at its own conversation, and its cursor covers it.
CursorInv ==
    /\ \A t \in Threads : threads[t].conv # NoConv =>
                             Owner[threads[t].conv] = t
    /\ \A c \in Convs : Covers(c, threads[Owner[c]].cursor)

\* The invariant behind NothingPassedOver.
OrderInv ==
    /\ CommitOrder
    /\ CursorInv
    /\ \A d \in Deliverers : CarryInv(d)

\* The facts about messages that no step takes back; what commits is newer
\* than everything committed.
OrderGrowth ==
    /\ \A m \in MsgIds : Saved(m) => Saved(m)' /\ msgs'[m] = msgs[m]
    /\ \A m \in MsgIds : Settled(m) => Settled(m)'
    /\ \A m, n \in MsgIds : Saved(m)' /\ ~Saved(m) /\ Saved(n) => n < m

\* A page of messages has no gap.
LEMMA FirstIdsIsPrefix ==
    ASSUME NEW S \in SUBSET MsgIds, NEW k \in Nat, NEW m \in FirstIds(S, k),
           NEW n \in S, n < m
    PROVE  n \in FirstIds(S, k)
<1> DEFINE Below(x) == {y \in S : y < x}
<1>1. m \in Nat /\ n \in Nat /\ S \subseteq Nat /\ m \in S
  BY OutboxAssumption DEF FirstIds
<1>2. Below(m) \in SUBSET Nat /\ \A y \in Below(m) : y <= m
  <2>1. Below(m) \subseteq Nat
    BY <1>1
  <2>2. ASSUME NEW y \in Below(m) PROVE y <= m
    <3>1. y < m /\ y \in Nat
      BY <2>1
    <3>2. QED
      BY <1>1, <3>1
  <2>3. QED
    BY <2>1, <2>2
<1> HIDE DEF Below
<1>3. IsFiniteSet(Below(m))
  BY <1>1, <1>2, FS_BoundedSetOfNaturals
<1>4. Below(n) \in SUBSET Below(m)
  <2>1. ASSUME NEW y \in Below(n) PROVE y \in Below(m)
    <3>1. y \in S /\ y \in Nat /\ y < n
      BY <1>1 DEF Below
    <3>2. QED
      BY <1>1, <3>1 DEF Below
  <2>2. QED
    BY <2>1
<1>5. /\ Cardinality(Below(n)) <= Cardinality(Below(m))
      /\ IsFiniteSet(Below(n))
  BY <1>3, <1>4, FS_Subset
<1>6. Cardinality(Below(n)) \in Nat /\ Cardinality(Below(m)) \in Nat
  BY <1>3, <1>5, FS_CardinalityType
<1>7. Cardinality(Below(m)) < k
  BY DEF FirstIds, Below
<1>8. Cardinality(Below(n)) < k
  BY <1>5, <1>6, <1>7
<1>9. QED
  BY <1>8 DEF FirstIds, Below

\* A cursor goes on covering: nothing appears behind it.
LEMMA CoversStays ==
    ASSUME OrderGrowth, NEW c, NEW k \in MsgOrNone, Covers(c, k)
    PROVE  Covers(c, k)'
<1>1. k # NoMsg => k \in MsgIds /\ Saved(k)'
  BY DEF Covers, OrderGrowth
<1>2. ASSUME NEW m \in MsgIds, Saved(m)', (msgs[m].kind)' \in Relayable,
             (msgs[m].conv)' = c, m <= k
      PROVE  Settled(m)'
  <2>1. m \in Nat \ {0} /\ k \in Nat
    BY OutboxAssumption DEF MsgOrNone, NoMsg
  <2>2. k # NoMsg /\ k \in MsgIds /\ Saved(k)
    BY <1>2, <2>1 DEF Covers, NoMsg
  <2>3. Saved(m)
    BY <1>2, <2>1, <2>2 DEF OrderGrowth
  <2>4. QED
    BY <1>2, <2>3 DEF Covers, OrderGrowth
<1>3. QED
  BY <1>1, <1>2 DEF Covers

\* So does the one a deliverer carries while others move.
LEMMA CarryStays ==
    ASSUME IInv, OrderGrowth, NEW e \in Deliverers, CarryInv(e),
           (proc[e])' = proc[e]
    PROVE  CarryInv(e)'
<1> DEFINE p == proc[e]
<1>1. p \in Deliverer /\ LocalInv(e)
  BY DEF IInv, TypeOK
<1>2. p.last \in MsgOrNone /\ p.scan \subseteq MsgIds
  BY <1>1 DEF Deliverer
<1>3. PICK c, k : c = p.snap.conv /\ k = p.last
  OBVIOUS
<1>4. p.pc \in {"scan", "queue"} => Covers(c, k)'
  BY <1>2, <1>3, CoversStays DEF CarryInv
<1>5. p.pc \in {"scan", "queue"} => Covers(p.snap.conv, p.last)'
  BY <1>3, <1>4
<1>6. ASSUME p.pc = "queue"
      PROVE  /\ \A m \in p.scan : (msgs[m].conv)' = p.snap.conv
             /\ \A n \in Unscanned(p.snap.conv, p.last)' :
                   n \in p.scan \/ \A m \in p.scan : m <= n
  <2>1. \A m \in p.scan : Saved(m) /\ m \in MsgIds /\ m \in Nat
    BY <1>1, <1>2, OutboxAssumption DEF LocalInv
  <2>2. ASSUME NEW n \in Unscanned(p.snap.conv, p.last)'
        PROVE  n \in p.scan \/ \A m \in p.scan : m <= n
    <3>1. /\ n \in MsgIds /\ n \in Nat /\ Saved(n)' /\ n > p.last
          /\ (msgs[n].conv)' = p.snap.conv
      BY OutboxAssumption DEF Unscanned
    <3>2. CASE Saved(n)
      BY <1>6, <3>1, <3>2 DEF Unscanned, CarryInv, OrderGrowth
    <3>3. CASE ~Saved(n)
      BY <2>1, <3>1, <3>3 DEF OrderGrowth
    <3>4. QED
      BY <3>2, <3>3
  <2>3. QED
    BY <1>6, <2>1, <2>2 DEF CarryInv, OrderGrowth
<1>7. QED
  BY <1>5, <1>6 DEF CarryInv

\* Before any message, every cursor stands before the first.
LEMMA InitOrder == Init => OrderInv
<1> SUFFICES ASSUME Init PROVE OrderInv
  OBVIOUS
<1>1. CommitOrder
  BY DEF Init, CommitOrder
<1>2. CursorInv
  BY OutboxAssumption DEF Init, CursorInv, Covers, Saved
<1>3. \A d \in Deliverers : CarryInv(d)
  BY DEF Init, CarryInv, Idle
<1>4. QED
  BY <1>1, <1>2, <1>3 DEF OrderInv

\* Thread cursors go on covering when none of them moves.
LEMMA CursorsStay ==
    ASSUME IInv, CursorInv, OrderGrowth,
           \A t \in Threads :
              /\ threads'[t].cursor = threads[t].cursor
              /\ threads'[t].conv # NoConv => Owner[threads'[t].conv] = t
    PROVE  CursorInv'
<1>1. ASSUME NEW c \in Convs PROVE Covers(c, threads[Owner[c]].cursor)'
  <2>1. Owner[c] \in Threads /\ threads[Owner[c]] \in Thread
    BY OutboxAssumption DEF IInv, TypeOK
  <2>2. PICK k \in MsgOrNone : k = threads[Owner[c]].cursor
    BY <2>1 DEF Thread
  <2>3. Covers(c, k)'
    BY <2>2, CoversStays DEF CursorInv
  <2>4. k = (threads[Owner[c]].cursor)'
    BY <2>1, <2>2
  <2>5. QED
    BY <2>3, <2>4
<1>2. QED
  BY <1>1 DEF CursorInv

\* A deliverer moves, writing neither message nor thread.
LEMMA OrderStep ==
    ASSUME IInv, OrderInv, OrderGrowth, UNCHANGED <<msgs, threads>>,
           NEW d \in Deliverers, CarryInv(d)',
           \A e \in Deliverers \ {d} : proc'[e] = proc[e]
    PROVE  OrderInv'
<1>1. CommitOrder'
  BY DEF OrderInv, CommitOrder, Saved
<1>2. CursorInv'
  BY CursorsStay DEF OrderInv, CursorInv
<1>3. ASSUME NEW e \in Deliverers PROVE CarryInv(e)'
  <2>1. CASE e = d
    BY <2>1
  <2>2. CASE e # d
    BY <2>2, CarryStays DEF OrderInv
  <2>3. QED
    BY <2>1, <2>2
<1>4. QED
  BY <1>1, <1>2, <1>3 DEF OrderInv

\* A deliverer outside flushThread's walk carries no cursor.
LEMMA OrderElsewhere ==
    ASSUME IInv, OrderInv, OrderGrowth, UNCHANGED <<msgs, threads>>,
           NEW d \in Deliverers, NEW r, Become(d, r),
           r.pc \notin {"scan", "queue"}
    PROVE  OrderInv'
<1>1. (proc[d])' = r /\ \A e \in Deliverers \ {d} : proc'[e] = proc[e]
  BY DEF Become, IInv, TypeOK
<1>2. CarryInv(d)'
  BY <1>1 DEF CarryInv
<1>3. QED
  BY <1>1, <1>2, OrderStep

\* Nothing of what the order is about grows when no table of it is written.
LEMMA QuietGrowth ==
    ASSUME UNCHANGED <<msgs, outbox, waived>>
    PROVE  OrderGrowth
BY DEF OrderGrowth, Saved, Settled, Queued

\* A write to a row that leaves it a row takes nothing back.
LEMMA RowGrowth ==
    ASSUME IInv, UNCHANGED <<msgs, waived>>, NEW m \in MsgIds, NEW status,
           status # "none",
           \A n \in MsgIds : (outbox[n].status)' =
                                IF n = m THEN status ELSE outbox[n].status
    PROVE  OrderGrowth
BY DEF OrderGrowth, Saved, Settled, Queued

(***************************************************************************)
(* The environment.                                                         *)
(***************************************************************************)
\* The new message is the newest, and the only one not committed.
LEMMA BeginSaveOrder ==
    ASSUME InOrder, IInv, OrderInv, NEW m \in MsgIds, NEW c \in Convs,
           NEW kind \in Kinds, BeginSave(m, c, kind)
    PROVE  OrderInv'
<1> USE DEF BeginSave, rows, maps, observers
<1>1. \A n \in MsgIds : n \in Nat /\ msgs[n] \in Message
  BY OutboxAssumption DEF IInv, TypeOK
<1>2. \A n \in MsgIds : n < m => Saved(n)
  BY <1>1 DEF InOrder, Saved, Message
<1>3. \A n \in MsgIds : n > m => msgs[n].state = "none"
  BY <1>1 DEF OrderInv, CommitOrder, Saved
<1>4. /\ \A n \in MsgIds \ {m} : msgs'[n] = msgs[n]
      /\ msgs'[m] = [conv |-> c, kind |-> kind, state |-> "saving"]
  BY DEF IInv, TypeOK
<1>5. CommitOrder'
  <2>1. ASSUME NEW x \in MsgIds, NEW y \in MsgIds, x < y,
               msgs'[y].state # "none"
        PROVE  Saved(x)'
    <3>1. CASE y = m
      BY <1>1, <1>2, <1>4, <2>1, <3>1 DEF Saved
    <3>2. CASE y # m
      <4>1. Saved(x) /\ x # m
        BY <1>4, <2>1, <3>2 DEF OrderInv, CommitOrder, Saved
      <4>2. QED
        BY <1>4, <4>1 DEF Saved
    <3>3. QED
      BY <3>1, <3>2
  <2>2. QED
    BY <1>4, <2>1 DEF OrderInv, CommitOrder
<1>6. OrderGrowth
  BY <1>4 DEF OrderGrowth, Saved, Settled, Queued
<1>7. CursorInv'
  BY <1>6, CursorsStay DEF OrderInv, CursorInv
<1>8. \A d \in Deliverers : CarryInv(d)'
  BY <1>6, CarryStays DEF OrderInv
<1>9. QED
  BY <1>5, <1>7, <1>8 DEF OrderInv

\* What commits is newer than all that is committed.
LEMMA CommitSaveOrder ==
    ASSUME InOrder, IInv, OrderInv, NEW m \in MsgIds, CommitSave(m)
    PROVE  OrderInv'
<1> USE DEF CommitSave, rows, maps, observers
<1>1. /\ \A n \in MsgIds \ {m} : msgs'[n] = msgs[n]
      /\ msgs'[m].conv = msgs[m].conv /\ Saved(m)' /\ ~Saved(m)
  BY DEF IInv, TypeOK, Message, Saved
<1>2. \A n \in MsgIds : n \in Nat
  BY OutboxAssumption
<1>3. \A n \in MsgIds : Saved(n) => n < m
  BY <1>1, <1>2 DEF OrderInv, CommitOrder, Saved
<1>4. OrderGrowth
  BY <1>1, <1>3 DEF OrderGrowth, Saved, Settled, Queued
<1>5. CommitOrder'
  BY <1>1 DEF OrderInv, CommitOrder, Saved
<1>6. CursorInv'
  BY <1>4, CursorsStay DEF OrderInv, CursorInv
<1>7. \A d \in Deliverers : CarryInv(d)'
  BY <1>4, CarryStays DEF OrderInv
<1>8. QED
  BY <1>5, <1>6, <1>7 DEF OrderInv

\* Nobody moves and no message changes.
LEMMA OrderStill ==
    ASSUME IInv, OrderInv, OrderGrowth, UNCHANGED <<msgs, proc>>,
           \A t \in Threads :
              /\ threads'[t].cursor = threads[t].cursor
              /\ threads'[t].conv # NoConv => Owner[threads'[t].conv] = t
    PROVE  OrderInv'
<1>1. CommitOrder'
  BY DEF OrderInv, CommitOrder, Saved
<1>2. CursorInv'
  BY CursorsStay DEF OrderInv
<1>3. \A d \in Deliverers : CarryInv(d)'
  BY CarryStays DEF OrderInv
<1>4. QED
  BY <1>1, <1>2, <1>3 DEF OrderInv

\* The environment moves no cursor, and a crash only forgets what was carried.
LEMMA EnvironmentOrder ==
    ASSUME InOrder, IInv, OrderInv, Environment
    PROVE  OrderInv'
<1> USE DEF rows, maps, observers
<1>1. CASE \E m \in MsgIds, c \in Convs, kind \in Kinds : BeginSave(m, c, kind)
  BY <1>1, BeginSaveOrder
<1>2. CASE \E m \in MsgIds : CommitSave(m)
  BY <1>2, CommitSaveOrder
<1>3. CASE \E m \in MsgIds : MapInbound(m)
  BY <1>3, QuietGrowth, OrderStill DEF MapInbound, OrderInv, CursorInv
<1>4. CASE \E m \in MsgIds : BackoffElapses(m)
  <2>1. PICK m \in MsgIds : BackoffElapses(m)
    BY <1>4
  <2>2. \A n \in MsgIds : (outbox[n].status)' = outbox[n].status
    BY <2>1 DEF BackoffElapses, IInv, TypeOK, Row
  <2>3. OrderGrowth
    BY <2>1, <2>2 DEF BackoffElapses, OrderGrowth, Saved, Settled, Queued
  <2>4. QED
    BY <2>1, <2>3, OrderStill DEF BackoffElapses, OrderInv, CursorInv
<1>5. CASE \E t \in Threads, c \in Convs : Rebind(t, c)
  <2>1. PICK t \in Threads, c \in Convs : Rebind(t, c)
    BY <1>5
  <2>2. OrderGrowth
    BY <2>1, QuietGrowth DEF Rebind
  <2>3. \A s \in Threads :
          /\ threads'[s].cursor = threads[s].cursor
          /\ threads'[s].conv = IF s = t THEN c ELSE threads[s].conv
    BY <2>1 DEF Rebind, IInv, TypeOK, Thread
  <2>4. QED
    BY <2>1, <2>2, <2>3, OrderStill DEF Rebind, OrderInv, CursorInv
<1>6. CASE \E t \in Threads : SetReply(t)
  <2>1. PICK t \in Threads : SetReply(t)
    BY <1>6
  <2>2. OrderGrowth
    BY <2>1, QuietGrowth DEF SetReply
  <2>3. \A s \in Threads : /\ threads'[s].cursor = threads[s].cursor
                           /\ threads'[s].conv = threads[s].conv
    BY <2>1 DEF SetReply, IInv, TypeOK, Thread
  <2>4. QED
    BY <2>1, <2>2, <2>3, OrderStill DEF SetReply, OrderInv, CursorInv
<1>7. CASE \E f \in Flushers, t \in Threads : BeginFlush(f, t)
  <2>1. PICK f \in Flushers, t \in Threads : BeginFlush(f, t)
    BY <1>7
  <2> DEFINE r == [Idle EXCEPT !.pc = "read", !.thread = t]
  <2>2. r.pc = "read" /\ f \in Deliverers /\ Become(f, r)
    BY <2>1 DEF BeginFlush, Idle, Deliverers
  <2>3. UNCHANGED <<msgs, outbox, waived, threads>>
    BY <2>1 DEF BeginFlush, outside
  <2> HIDE DEF r
  <2>4. QED
    BY <2>2, <2>3, QuietGrowth, OrderElsewhere
<1>8. CASE SetChannel
  BY <1>8, QuietGrowth, OrderStill DEF SetChannel, OrderInv, CursorInv
<1>9. CASE Crash
  <2>1. OrderGrowth /\ UNCHANGED <<msgs, threads>>
    BY <1>9, QuietGrowth DEF Crash
  <2>2. CommitOrder' /\ CursorInv'
    BY <2>1, CursorsStay DEF OrderInv, CommitOrder, CursorInv, Saved
  <2>3. \A d \in Deliverers : CarryInv(d)'
    BY <1>9 DEF Crash, CarryInv, Idle
  <2>4. QED
    BY <2>2, <2>3 DEF OrderInv
<1>10. QED
  BY <1>1, <1>2, <1>3, <1>4, <1>5, <1>6, <1>7, <1>8, <1>9 DEF Environment

(***************************************************************************)
(* flushThread carries a cursor along its scan.                             *)
(***************************************************************************)
\* One message further: what is behind the cursor is what was, and this one.
LEMMA WalkOrder ==
    ASSUME IInv, OrderInv, OrderGrowth, UNCHANGED <<msgs, threads>>,
           NEW d \in Deliverers, NEW m \in proc[d].scan, At(d, "queue"),
           IsFirstId(m, proc[d].scan), Walk(d, m),
           msgs[m].kind \in Relayable => Settled(m)'
    PROVE  OrderInv'
<1> DEFINE p == proc[d]
           r == [p EXCEPT !.scan = @ \ {m}, !.last = m]
<1>1. /\ p \in Deliverer /\ LocalInv(d) /\ CarryInv(d) /\ p.pc = "queue"
  BY DEF IInv, TypeOK, OrderInv, At
<1>2. /\ (proc[d])' = r
      /\ \A e \in Deliverers \ {d} : proc'[e] = proc[e]
  BY DEF Walk, Become, IInv, TypeOK
<1>3. /\ r.pc = "queue" /\ r.snap = p.snap /\ r.thread = p.thread
      /\ r.scan = p.scan \ {m} /\ r.last = m
  BY <1>1 DEF Deliverer
<1>4. /\ m \in MsgIds /\ Saved(m) /\ p.last < m
      /\ \A n \in p.scan : /\ n \in MsgIds /\ m <= n
                           /\ msgs[n].conv = p.snap.conv
  BY <1>1 DEF LocalInv, CarryInv, Deliverer, IsFirstId
<1>5. \A n \in MsgIds : n \in Nat
  BY OutboxAssumption
<1>6. p.last \in Nat
  BY <1>1, <1>5 DEF Deliverer, MsgOrNone, NoMsg
<1> HIDE DEF r
<1>7. ASSUME NEW n \in MsgIds, Saved(n), msgs[n].conv = p.snap.conv, p.last < n
      PROVE  n \in p.scan \/ \A x \in p.scan : x <= n
  <2>1. n \in Unscanned(p.snap.conv, p.last)
    BY <1>5, <1>6, <1>7 DEF Unscanned
  <2>2. QED
    BY <1>1, <2>1 DEF CarryInv
<1>8. ASSUME NEW n \in MsgIds, Saved(n)', msgs'[n].kind \in Relayable,
             msgs'[n].conv = p.snap.conv, n <= m
      PROVE  Settled(n)'
  <2>1. CASE n <= p.last
    BY <1>1, <1>8, <2>1 DEF CarryInv, Covers, OrderGrowth, Saved
  <2>2. CASE p.last < n
    <3>1. n \in p.scan \/ m <= n
      BY <1>7, <1>8, <2>2 DEF Saved
    <3>2. n = m
      BY <1>4, <1>5, <1>8, <3>1
    <3>3. QED
      BY <1>8, <3>2
  <2>3. QED
    BY <1>5, <1>6, <2>1, <2>2
<1>9. PICK c : c = p.snap.conv
  OBVIOUS
<1>10. Covers(c, m)'
  <2>1. Saved(m)'
    BY <1>4 DEF Saved
  <2>2. QED
    BY <1>4, <1>8, <1>9, <2>1 DEF Covers
<1>11. Covers(proc[d].snap.conv, proc[d].last)'
  BY <1>2, <1>3, <1>9, <1>10
<1>12. ASSUME NEW n \in Unscanned(c, m)'
       PROVE  n \in r.scan \/ \A x \in r.scan : x <= n
  <2>1. n \in MsgIds /\ Saved(n) /\ msgs[n].conv = p.snap.conv /\ m < n
    BY <1>4, <1>5, <1>9 DEF Unscanned, Saved
  <2>2. p.last < n
    BY <1>4, <1>5, <1>6, <2>1
  <2>3. QED
    BY <1>3, <1>5, <1>7, <2>1, <2>2
<1>13. \A n \in r.scan : msgs'[n].conv = c /\ m < n
  BY <1>3, <1>4, <1>5, <1>9
<1>14. CarryInv(d)'
  BY <1>1, <1>2, <1>3, <1>9, <1>11, <1>12, <1>13 DEF CarryInv
<1>15. QED
  BY <1>2, <1>14, OrderStep

\* flushThread starts from a cursor that covers its thread's conversation.
LEMMA ReadThreadOrder ==
    ASSUME IInv, OrderInv, NEW d \in Deliverers, ReadThread(d)
    PROVE  OrderInv'
<1> DEFINE p == proc[d]
           t == p.thread
           r == [p EXCEPT !.pc = "scan", !.snap = threads[t],
                          !.last = threads[t].cursor]
<1>1. /\ p \in Deliverer /\ t \in Threads /\ threads[t] \in Thread
      /\ p.pc = "read"
  BY DEF IInv, TypeOK, Deliverer, ReadThread, At
<1>2. UNCHANGED <<msgs, outbox, waived, threads>>
  BY DEF ReadThread, outside, rows, observers
<1>3. OrderGrowth
  BY <1>2, QuietGrowth
<1>4. CASE threads[t].conv = NoConv
  <2> DEFINE q == IF d = Worker THEN [p EXCEPT !.pc = "sweep"] ELSE Idle
  <2>1. Become(d, q)
    BY <1>4 DEF ReadThread
  <2>2. q.pc \in {"sweep", "idle"}
    BY <1>1 DEF Deliverer, Idle
  <2> HIDE DEF q
  <2>3. QED
    BY <1>2, <1>3, <2>1, <2>2, OrderElsewhere
<1>5. CASE threads[t].conv # NoConv
  <2>1. Become(d, r)
    BY <1>5 DEF ReadThread
  <2>2. /\ (proc[d])' = r
        /\ \A e \in Deliverers \ {d} : proc'[e] = proc[e]
    BY <2>1 DEF Become, IInv, TypeOK
  <2>3. /\ r.pc = "scan" /\ r.snap = threads[t] /\ r.thread = t
        /\ r.last = threads[t].cursor
    BY <1>1 DEF Deliverer
  <2> HIDE DEF r
  <2>4. PICK c, k : c = threads[t].conv /\ k = threads[t].cursor
    OBVIOUS
  <2>5. c \in Convs /\ Owner[c] = t /\ k \in MsgOrNone
    BY <1>1, <1>5, <2>4 DEF OrderInv, CursorInv, Thread
  <2>6. Covers(c, k)
    BY <2>4, <2>5 DEF OrderInv, CursorInv
  <2>7. Covers(c, k)'
    BY <1>3, <2>5, <2>6, CoversStays
  <2>8. Covers(proc[d].snap.conv, proc[d].last)'
    BY <2>2, <2>3, <2>4, <2>7
  <2>9. CarryInv(d)'
    BY <2>2, <2>3, <2>4, <2>5, <2>8 DEF CarryInv
  <2>10. QED
    BY <1>2, <1>3, <2>2, <2>9, OrderStep
<1>6. QED
  BY <1>4, <1>5

\* The page it reads has no gap after the cursor.
LEMMA ScanMessagesOrder ==
    ASSUME IInv, OrderInv, NEW d \in Deliverers, ScanMessages(d)
    PROVE  OrderInv'
<1> DEFINE p == proc[d]
<1>1. p \in Deliverer /\ CarryInv(d) /\ p.pc = "scan"
  BY DEF IInv, TypeOK, OrderInv, ScanMessages, At
<1>2. UNCHANGED <<msgs, outbox, waived, threads>>
  BY DEF ScanMessages, outside, rows, observers
<1>3. OrderGrowth
  BY <1>2, QuietGrowth
<1>4. PICK c, k : c = p.snap.conv /\ k = p.last
  OBVIOUS
<1>5. /\ c \in Convs /\ Owner[c] = p.thread /\ Covers(c, k)
      /\ k = p.snap.cursor /\ k \in MsgOrNone
  BY <1>1, <1>4 DEF CarryInv, Deliverer
<1> DEFINE U == Unscanned(c, k)
           S == FirstIds(U, ScanLimit)
           r == [p EXCEPT !.pc = "queue", !.scan = S]
<1>6. U \in SUBSET MsgIds /\ \A n \in U : msgs[n].conv = c /\ n > k
  BY DEF Unscanned
<1>7. \A n \in MsgIds : n \in Nat
  BY OutboxAssumption
<1>8. S \subseteq U
  BY DEF FirstIds
<1>9. ASSUME NEW n \in U, n \notin S, NEW m \in S
      PROVE  m <= n
  <2>1. ~(n < m)
    BY <1>6, <1>9, FirstIdsIsPrefix, OutboxAssumption
  <2>2. QED
    BY <1>6, <1>7, <1>8, <2>1
<1>10. Become(d, r)
  BY <1>4, <1>5 DEF ScanMessages
<1>11. /\ (proc[d])' = r
       /\ \A e \in Deliverers \ {d} : proc'[e] = proc[e]
  BY <1>10 DEF Become, IInv, TypeOK
<1>12. /\ r.pc = "queue" /\ r.snap = p.snap /\ r.thread = p.thread
       /\ r.scan = S /\ r.last = k
  BY <1>1, <1>4 DEF Deliverer
<1>13. Unscanned(c, k)' = U
  BY <1>2 DEF Unscanned, Saved
<1> HIDE DEF r, S, U
<1>14. Covers(c, k)'
  BY <1>3, <1>5, CoversStays
<1>15. Covers(proc[d].snap.conv, proc[d].last)'
  BY <1>4, <1>11, <1>12, <1>14
<1>16. Unscanned(proc[d].snap.conv, proc[d].last)' = U
  BY <1>4, <1>11, <1>12, <1>13
<1>17. \A m \in S : msgs'[m].conv = c /\ k < m
  <2>1. k \in Nat
    BY <1>5, <1>7 DEF MsgOrNone, NoMsg
  <2>2. QED
    BY <1>2, <1>6, <1>7, <1>8, <2>1
<1>18. CarryInv(d)'
  BY <1>4, <1>5, <1>9, <1>11, <1>12, <1>15, <1>16, <1>17 DEF CarryInv
<1>19. QED
  BY <1>2, <1>3, <1>11, <1>18, OrderStep

\* A relayable message is walked past only on a receive-only thread, and then
\* it is waived.
LEMMA SkipMessageOrder ==
    ASSUME IInv, OrderInv, NEW d \in Deliverers, SkipMessage(d)
    PROVE  OrderInv'
<1>1. PICK m \in proc[d].scan :
         /\ At(d, "queue") /\ IsFirstId(m, proc[d].scan)
         /\ Skipped(d, m) /\ Walk(d, m)
         /\ waived' = IF proc[d].snap.reply THEN waived ELSE waived \cup {m}
         /\ UNCHANGED <<outside, threads, rows>>
  BY DEF SkipMessage
<1>2. m \in MsgIds
  BY DEF IInv, TypeOK, Deliverer
<1>3. UNCHANGED <<msgs, threads, outbox>> /\ waived \subseteq waived'
  BY <1>1 DEF outside, rows
<1>4. OrderGrowth
  BY <1>3 DEF OrderGrowth, Saved, Settled, Queued
<1>5. msgs[m].kind \in Relayable => ~proc[d].snap.reply
  BY <1>1, <1>2 DEF Skipped, Relayable, IInv, RowInv
<1>6. msgs[m].kind \in Relayable => Settled(m)'
  BY <1>1, <1>5 DEF Settled
<1>7. QED
  BY <1>1, <1>3, <1>4, <1>6, WalkOrder

\* The others are queued, if nobody queued them before.
LEMMA QueueMessageOrder ==
    ASSUME IInv, OrderInv, NEW d \in Deliverers, QueueMessage(d)
    PROVE  OrderInv'
<1>1. PICK m \in proc[d].scan :
         /\ At(d, "queue") /\ IsFirstId(m, proc[d].scan) /\ Walk(d, m)
         /\ IF Queued(m)
            THEN UNCHANGED rows
            ELSE /\ outbox' = [outbox EXCEPT ![m] =
                                 [id |-> nextRowId, thread |-> proc[d].thread,
                                  status |-> "pending", attempts |-> 0,
                                  backoff |-> FALSE, lastError |-> "none"]]
                 /\ nextRowId' = nextRowId + 1
         /\ UNCHANGED <<outside, threads, observers>>
  BY DEF QueueMessage
<1>2. m \in MsgIds
  BY DEF IInv, TypeOK, Deliverer
<1>3. UNCHANGED <<msgs, threads, waived>>
  BY <1>1 DEF outside, observers
<1>4. CASE Queued(m)
  <2>1. outbox' = outbox
    BY <1>1, <1>4 DEF rows
  <2>2. OrderGrowth
    BY <1>3, <2>1, QuietGrowth
  <2>3. Settled(m)'
    BY <1>2, <1>4, <2>1 DEF Settled, Queued
  <2>4. QED
    BY <1>1, <1>3, <2>2, <2>3, WalkOrder
<1>5. CASE ~Queued(m)
  <2>1. \A n \in MsgIds : (outbox[n].status)' =
                             IF n = m THEN "pending" ELSE outbox[n].status
    BY <1>1, <1>2, <1>5 DEF IInv, TypeOK
  <2>2. OrderGrowth
    BY <1>2, <1>3, <2>1, RowGrowth
  <2>3. Settled(m)'
    BY <1>2, <2>1 DEF Settled, Queued
  <2>4. QED
    BY <1>1, <1>3, <2>2, <2>3, WalkOrder
<1>6. QED
  BY <1>4, <1>5

\* The cursor stored is the one carried, which covers the thread's only
\* conversation, or the one the thread has by now.
LEMMA StoreCursorOrder ==
    ASSUME InOrder, IInv, OrderInv, NEW d \in Deliverers, StoreCursor(d)
    PROVE  OrderInv'
<1> DEFINE p == proc[d]
           t == p.thread
           r == [p EXCEPT !.pc = "select", !.snap = NoThread, !.last = NoMsg]
<1>1. /\ p \in Deliverer /\ t \in Threads /\ p.pc = "queue" /\ CarryInv(d)
  BY DEF IInv, TypeOK, Deliverer, StoreCursor, At, OrderInv
<1>2. UNCHANGED <<msgs, outbox, waived>>
  BY DEF StoreCursor, outside, rows, observers
<1>3. OrderGrowth
  BY <1>2, QuietGrowth
<1>4. Become(d, r) /\ r.pc = "select"
  BY <1>1 DEF StoreCursor, Deliverer
<1>5. /\ (proc[d])' = r
      /\ \A e \in Deliverers \ {d} : proc'[e] = proc[e]
  BY <1>4 DEF Become, IInv, TypeOK
<1>6. \A s \in Threads :
        /\ threads'[s].conv = threads[s].conv
        /\ threads'[s].cursor = IF s = t THEN NewCursor(p)
                                         ELSE threads[s].cursor
  BY <1>1 DEF StoreCursor, IInv, TypeOK, Thread
<1>7. ASSUME NEW c \in Convs PROVE Covers(c, threads[Owner[c]].cursor)'
  <2>1. Owner[c] \in Threads /\ threads[Owner[c]] \in Thread
    BY OutboxAssumption DEF IInv, TypeOK
  <2>2. PICK k : k = threads'[Owner[c]].cursor
    OBVIOUS
  <2>3. k \in MsgOrNone /\ Covers(c, k)
    <3>1. CASE Owner[c] = t /\ p.last # p.snap.cursor
      <4>1. c = p.snap.conv
        BY <1>1, <3>1 DEF CarryInv, InOrder
      <4>2. k = p.last
        BY <1>6, <2>1, <2>2, <3>1 DEF NewCursor
      <4>3. QED
        BY <1>1, <4>1, <4>2 DEF CarryInv, Deliverer
    <3>2. CASE ~(Owner[c] = t /\ p.last # p.snap.cursor)
      <4>1. k = threads[Owner[c]].cursor
        BY <1>6, <2>1, <2>2, <3>2 DEF NewCursor
      <4>2. QED
        BY <2>1, <4>1 DEF OrderInv, CursorInv, Thread
    <3>3. QED
      BY <3>1, <3>2
  <2>4. Covers(c, k)'
    BY <1>3, <2>3, CoversStays
  <2>5. QED
    BY <2>2, <2>4
<1>8. CursorInv'
  BY <1>6, <1>7 DEF OrderInv, CursorInv
<1>9. CommitOrder'
  BY <1>2 DEF OrderInv, CommitOrder, Saved
<1> HIDE DEF r
<1>10. ASSUME NEW e \in Deliverers PROVE CarryInv(e)'
  <2>1. CASE e = d
    BY <1>4, <1>5, <2>1 DEF CarryInv
  <2>2. CASE e # d
    BY <1>3, <1>5, <2>2, CarryStays DEF OrderInv
  <2>3. QED
    BY <2>1, <2>2
<1>11. QED
  BY <1>8, <1>9, <1>10 DEF OrderInv

\* Every step of flushThread.
LEMMA FlushOrder ==
    ASSUME InOrder, IInv, OrderInv, NEW d \in Deliverers, Flush(d)
    PROVE  OrderInv'
<1>1. ~LoseInsert(d)
  BY DEF LoseInsert, Fault, InOrder
<1>2. CASE SelectPending(d)
  <2> DEFINE B == FirstRows({m \in MsgIds : /\ Pending(m)
                                            /\ outbox[m].thread = proc[d].thread},
                            ScanLimit)
             r == [proc[d] EXCEPT !.pc = "deliver", !.batch = B,
                     !.seen = [m \in MsgIds |->
                                 IF m \in B THEN outbox[m].attempts ELSE 0]]
  <2>1. Become(d, r)
    BY <1>2 DEF SelectPending, Deliver
  <2>2. r.pc = "deliver"
    BY DEF IInv, TypeOK, Deliverer
  <2>3. UNCHANGED <<msgs, outbox, waived, threads>>
    BY <1>2 DEF SelectPending, outside, rows, observers
  <2> HIDE DEF r
  <2>4. QED
    BY <2>1, <2>2, <2>3, QuietGrowth, OrderElsewhere
<1>3. QED
  BY <1>1, <1>2, ReadThreadOrder, ScanMessagesOrder, SkipMessageOrder,
     QueueMessageOrder, StoreCursorOrder DEF Flush

(***************************************************************************)
(* deliver, fail and the tick carry no cursor and delete no row.            *)
(***************************************************************************)
\* A deliverer moves to a step outside the walk and writes no table.
LEMMA GoElsewhere ==
    ASSUME IInv, OrderInv, UNCHANGED <<msgs, outbox, waived, threads>>,
           NEW d \in Deliverers, NEW r, Become(d, r),
           r.pc \notin {"scan", "queue"}
    PROVE  OrderInv'
BY QuietGrowth, OrderElsewhere

\* A deliverer writes the row in hand and drops it.
LEMMA WriteOrder ==
    ASSUME IInv, OrderInv, UNCHANGED <<msgs, waived, threads>>,
           NEW d \in Deliverers, Drop(d), NEW m \in MsgIds, NEW status,
           status # "none",
           \A n \in MsgIds : (outbox[n].status)' =
                                IF n = m THEN status ELSE outbox[n].status
    PROVE  OrderInv'
<1>1. OrderGrowth
  BY RowGrowth
<1>2. /\ proc'[d].pc \in {"confirm", "deliver"}
      /\ \A e \in Deliverers \ {d} : proc'[e] = proc[e]
  BY DEF Drop, Become, IInv, TypeOK, Deliverer
<1>3. CarryInv(d)'
  BY <1>2 DEF CarryInv
<1>4. QED
  BY <1>1, <1>2, <1>3, OrderStep

\* Every step of deliver() and fail().
LEMMA DeliveryOrder ==
    ASSUME IInv, OrderInv, NEW d \in Deliverers, DeliverStep(d)
    PROVE  OrderInv'
<1> USE DEF rows, outside, observers
<1> DEFINE m == proc[d].msg
<1>1. proc[d] \in Deliverer /\ LocalInv(d)
  BY DEF IInv, TypeOK
<1>2. CASE Promote(d)
  <2>1. m \in MsgIds
    BY <1>1, <1>2 DEF Promote, At, LocalInv
  <2>2. \A n \in MsgIds : (outbox[n].status)' =
                             IF n = m THEN "sent" ELSE outbox[n].status
    BY <1>2, <2>1 DEF Promote, IInv, TypeOK, Row
  <2>3. QED
    BY <1>2, <2>1, <2>2, WriteOrder DEF Promote
<1>3. CASE Mark(d)
  <2>1. m \in MsgIds /\ proc[d].outcome # "none"
    BY <1>1, <1>3 DEF Mark, At, LocalInv
  <2>2. \A n \in MsgIds : (outbox[n].status)' =
                     IF n = m THEN proc[d].outcome ELSE outbox[n].status
    BY <1>3, <2>1 DEF Mark, IInv, TypeOK, Row
  <2>3. QED
    BY <1>3, <2>1, <2>2, WriteOrder DEF Mark
<1>4. CASE RecordFailure(d)
  <2>1. m \in MsgIds
    BY <1>1, <1>4 DEF RecordFailure, At, LocalInv
  <2>2. PICK status \in {"failed", "pending"} :
          \A n \in MsgIds : (outbox[n].status)' =
                               IF n = m THEN status ELSE outbox[n].status
    <3> DEFINE exhausted == Exhausted(proc[d].error, NextAttempts(d, m))
               status == IF exhausted THEN "failed" ELSE "pending"
    <3>1. \A n \in MsgIds : (outbox[n].status)' =
                               IF n = m THEN status ELSE outbox[n].status
      BY <1>4, <2>1 DEF RecordFailure, IInv, TypeOK, Row
    <3>2. QED
      BY <3>1
  <2>3. QED
    BY <1>4, <2>1, <2>2, WriteOrder DEF RecordFailure
<1>5. CASE TakeRow(d)
  <2>1. PICK n \in proc[d].batch,
            reason \in {"receiveOnly", "inactive", "none"} :
          Become(d, IF reason = "none"
                    THEN [proc[d] EXCEPT !.pc = "lookup", !.msg = n]
                    ELSE [proc[d] EXCEPT !.pc = "fail", !.msg = n,
                                         !.error = reason])
    BY <1>5 DEF TakeRow
  <2> DEFINE r == IF reason = "none"
                  THEN [proc[d] EXCEPT !.pc = "lookup", !.msg = n]
                  ELSE [proc[d] EXCEPT !.pc = "fail", !.msg = n,
                                       !.error = reason]
  <2>2. Become(d, r) /\ r.pc \in {"lookup", "fail"}
    BY <1>1, <2>1 DEF Deliverer
  <2> HIDE DEF r
  <2>3. QED
    BY <1>5, <2>2, GoElsewhere DEF TakeRow
<1>6. CASE LookUpMap(d)
  <2> DEFINE r == [proc[d] EXCEPT
                    !.pc = IF Already(m) THEN "promote" ELSE "send"]
  <2>1. Become(d, r)
    BY <1>6 DEF LookUpMap, GoTo
  <2>2. r.pc \in {"promote", "send"}
    BY <1>1 DEF Deliverer
  <2> HIDE DEF r
  <2>3. QED
    BY <1>6, <2>1, <2>2, GoElsewhere DEF LookUpMap
<1>7. CASE NothingToSend(d)
  <2> DEFINE r == [proc[d] EXCEPT !.pc = "fail", !.error = "missing"]
  <2>1. Become(d, r)
    BY <1>7 DEF NothingToSend
  <2>2. r.pc \in {"fail"}
    BY <1>1 DEF Deliverer
  <2> HIDE DEF r
  <2>3. QED
    BY <1>7, <2>1, <2>2, GoElsewhere DEF NothingToSend
<1>8. CASE MarkFails(d)
  <2> DEFINE r == [proc[d] EXCEPT !.pc = "fail", !.error = "provider"]
  <2>1. Become(d, r)
    BY <1>8 DEF MarkFails
  <2>2. r.pc \in {"fail"}
    BY <1>1 DEF Deliverer
  <2> HIDE DEF r
  <2>3. QED
    BY <1>8, <2>1, <2>2, GoElsewhere DEF MarkFails
<1>14. CASE ChannelFails(d)
  <2> DEFINE r == [proc[d] EXCEPT !.pc = "fail", !.error = "provider"]
  <2>1. Become(d, r) /\ UNCHANGED <<msgs, waived, threads>>
    BY <1>14 DEF ChannelFails
  <2>2. r.pc = "fail"
    BY <1>1 DEF Deliverer
  <2>3. m \in MsgIds /\ proc[d].outcome # "none"
    BY <1>1, <1>14 DEF ChannelFails, At, LocalInv
  <2>4. \A n \in MsgIds : (outbox[n].status)' =
                     IF n = m THEN proc[d].outcome ELSE outbox[n].status
    BY <1>14, <2>3 DEF ChannelFails, IInv, TypeOK, Row
  <2> HIDE DEF r
  <2>5. OrderGrowth
    BY <2>1, <2>3, <2>4, RowGrowth
  <2>6. QED
    BY <2>1, <2>2, <2>5, OrderElsewhere
<1>9. CASE SendAccepted(d)
  <2> DEFINE r == [proc[d] EXCEPT !.pc = "map", !.outcome = AfterSend]
  <2>1. Become(d, r)
    BY <1>9 DEF SendAccepted
  <2>2. r.pc \in {"map"}
    BY <1>1 DEF Deliverer
  <2> HIDE DEF r
  <2>3. QED
    BY <1>9, <2>1, <2>2, GoElsewhere DEF SendAccepted
<1>10. CASE SendThrows(d)
  <2> DEFINE r == [proc[d] EXCEPT !.pc = "fail", !.error = "provider"]
  <2>1. Become(d, r)
    BY <1>10 DEF SendThrows
  <2>2. r.pc \in {"fail"}
    BY <1>1 DEF Deliverer
  <2> HIDE DEF r
  <2>3. QED
    BY <1>10, <2>1, <2>2, GoElsewhere DEF SendThrows
<1>11. CASE SaveMap(d)
  <2> DEFINE r == [proc[d] EXCEPT !.pc = "mark"]
  <2>1. Become(d, r)
    BY <1>11 DEF SaveMap, GoTo
  <2>2. r.pc \in {"mark"}
    BY <1>1 DEF Deliverer
  <2> HIDE DEF r
  <2>3. QED
    BY <1>11, <2>1, <2>2, GoElsewhere DEF SaveMap
<1>12. CASE EndDelivery(d)
  <2> DEFINE r == IF d # Worker THEN Idle
                  ELSE IF proc[d].due THEN [Idle EXCEPT !.pc = "poll"]
                  ELSE [proc[d] EXCEPT !.pc = "sweep"]
  <2>1. Become(d, r)
    BY <1>12 DEF EndDelivery
  <2>2. r.pc \in {"idle", "poll", "sweep"}
    BY <1>1 DEF Deliverer, Idle
  <2> HIDE DEF r
  <2>3. QED
    BY <1>12, <2>1, <2>2, GoElsewhere DEF EndDelivery
<1>13. QED
  BY <1>2, <1>3, <1>4, <1>5, <1>6, <1>7, <1>8, <1>9, <1>10, <1>11, <1>12, <1>14
     DEF DeliverStep

\* Every step of the worker's own.
LEMMA TickOrder ==
    ASSUME IInv, OrderInv, Tick
    PROVE  OrderInv'
<1> USE DEF rows, outside, observers
<1>1. /\ Worker \in Deliverers /\ proc[Worker] \in Deliverer
      /\ LocalInv(Worker)
  BY DEF IInv, TypeOK, Deliverers
<1>2. CASE Settle
  <2> DEFINE m == proc[Worker].msg
  <2>1. m \in MsgIds /\ proc[Worker].outcome # "none"
    BY <1>1, <1>2 DEF Settle, At, LocalInv
  <2>2. \A n \in MsgIds : (outbox[n].status)' =
                     IF n = m THEN proc[Worker].outcome ELSE outbox[n].status
    BY <1>2, <2>1 DEF Settle, IInv, TypeOK, Row
  <2>3. QED
    BY <1>1, <1>2, <2>1, <2>2, WriteOrder DEF Settle
<1>3. CASE BeginTick
  <2>0. PICK S \in SUBSET Threads :
          Become(Worker, [Idle EXCEPT !.pc = "sweep", !.todo = S])
    BY <1>3 DEF BeginTick
  <2> DEFINE r == [Idle EXCEPT !.pc = "sweep", !.todo = S]
  <2>1. Become(Worker, r) /\ r.pc = "sweep"
    BY <2>0 DEF Idle
  <2> HIDE DEF r
  <2>2. QED
    BY <1>1, <1>3, <2>1, GoElsewhere DEF BeginTick
<1>4. CASE EndTick
  <2> DEFINE r == Idle
  <2>1. Become(Worker, r) /\ r.pc = "idle"
    BY <1>4 DEF EndTick, Idle
  <2> HIDE DEF r
  <2>2. QED
    BY <1>1, <1>4, <2>1, GoElsewhere DEF EndTick
<1>5. CASE SelectUnconfirmed
  <2> DEFINE r == [Idle EXCEPT !.pc = "confirm",
                               !.batch = FirstRows(Unconfirmed, Batch)]
  <2>1. Become(Worker, r) /\ r.pc = "confirm"
    BY <1>5 DEF SelectUnconfirmed, Idle
  <2> HIDE DEF r
  <2>2. QED
    BY <1>1, <1>5, <2>1, GoElsewhere DEF SelectUnconfirmed
<1>6. CASE SelectDue
  <2> DEFINE B == FirstRows({m \in MsgIds : Pending(m) /\ ~outbox[m].backoff},
                            Batch)
             r == [Idle EXCEPT !.pc = "deliver", !.due = TRUE, !.batch = B,
                     !.seen = [m \in MsgIds |->
                                 IF m \in B THEN outbox[m].attempts ELSE 0]]
  <2>1. Become(Worker, r)
    BY <1>6 DEF SelectDue
  <2>2. r.pc = "deliver"
    BY DEF Idle
  <2> HIDE DEF r
  <2>3. QED
    BY <1>1, <1>6, <2>1, <2>2, GoElsewhere DEF SelectDue
<1>7. CASE SweepThread
  <2>1. PICK t : Become(Worker, [proc[Worker] EXCEPT !.pc = "read",
                                   !.thread = t, !.todo = @ \ {t}])
    BY <1>7 DEF SweepThread
  <2> DEFINE r == [proc[Worker] EXCEPT !.pc = "read", !.thread = t,
                                       !.todo = @ \ {t}]
  <2>2. Become(Worker, r) /\ r.pc = "read"
    BY <1>1, <2>1 DEF Deliverer
  <2> HIDE DEF r
  <2>3. QED
    BY <1>1, <1>7, <2>2, GoElsewhere DEF SweepThread
<1>8. CASE AskProvider
  <2>1. PICK n, verdict :
          Become(Worker, IF verdict = "none"
             THEN [proc[Worker] EXCEPT !.batch = @ \ {n}]
             ELSE [proc[Worker] EXCEPT !.pc = "settle", !.msg = n,
                                       !.outcome = verdict])
    BY <1>8 DEF AskProvider
  <2> DEFINE r == IF verdict = "none"
                  THEN [proc[Worker] EXCEPT !.batch = @ \ {n}]
                  ELSE [proc[Worker] EXCEPT !.pc = "settle", !.msg = n,
                                            !.outcome = verdict]
  <2>2. Become(Worker, r) /\ r.pc \in {"confirm", "settle"}
    BY <1>1, <1>8, <2>1 DEF AskProvider, At, Deliverer
  <2> HIDE DEF r
  <2>3. QED
    BY <1>1, <1>8, <2>2, GoElsewhere DEF AskProvider
<1>9. QED
  BY <1>2, <1>3, <1>4, <1>5, <1>6, <1>7, <1>8 DEF Tick

\* Every step.
LEMMA NextOrder ==
    ASSUME InOrder, IInv, OrderInv, [Next]_vars
    PROVE  OrderInv'
<1>1. CASE UNCHANGED vars
  BY <1>1, QuietGrowth, OrderStill DEF vars, OrderInv, CursorInv
<1>2. QED
  BY <1>1, EnvironmentOrder, FlushOrder, DeliveryOrder, TickOrder DEF Next

\* No reply is skipped: whoever flushes, whatever crashes, a message the cursor
\* has passed was queued or waived -- provided inserts do not overlap, none is
\* lost, and a thread keeps its one conversation.
THEOREM NoneIsPassedOver ==
    ASSUME InOrder
    PROVE  Spec => []NothingPassedOver
<1>1. IInv /\ OrderInv /\ [Next]_vars => OrderInv'
  BY NextOrder
<1>2. IInv /\ OrderInv => NothingPassedOver
  <2> SUFFICES ASSUME IInv, OrderInv PROVE NothingPassedOver
    OBVIOUS
  <2>1. ASSUME NEW m \in MsgIds, Saved(m), msgs[m].kind \in Relayable,
               m <= threads[Owner[msgs[m].conv]].cursor
        PROVE  Settled(m)
    <3>1. msgs[m].conv \in Convs
      BY <2>1 DEF OrderInv, CommitOrder, Saved
    <3>2. QED
      BY <2>1, <3>1 DEF OrderInv, CursorInv, Covers
  <2>2. QED
    BY <2>1 DEF NothingPassedOver, Settled
<1>3. QED
  BY <1>1, <1>2, InitOrder, Inductive, PTL DEF Spec

(***************************************************************************)
(* The relay implements RelayContract.                                      *)
(***************************************************************************)
\* The contract sees three things of a step: what was committed, what the rows
\* claim, and what the provider accepted.
ContractStep == [Contract!ContractNext]_(Contract!contractVars)

\* The relay starts where the contract does.
LEMMA InitRefines == Init => Contract!ContractInit
BY DEF Init, Contract!ContractInit, Saved, NoRow

\* A step the contract does not see.
LEMMA UnseenStep ==
    ASSUME msgs' = msgs, copies' = copies,
           \A m \in MsgIds : (outbox[m].status)' = outbox[m].status
    PROVE  ContractStep
<1>1. UNCHANGED Contract!contractVars
  BY DEF Contract!contractVars, Saved
<1>2. QED
  BY <1>1 DEF ContractStep

\* A deliverer reports a status of the row it holds; delivered needs a copy.
LEMMA ReportStep ==
    ASSUME IInv, NEW m \in MsgIds, Queued(m), NEW status \in RowStatus,
           status \in {"sent", "unconfirmed"} => copies[m] > 0,
           msgs' = msgs, copies' = copies,
           \A n \in MsgIds : (outbox[n].status)' =
                                IF n = m THEN status ELSE outbox[n].status
    PROVE  ContractStep
<1>1. Contract!Report(m, status)
  BY DEF Contract!Report, Saved, Queued
<1>2. status \in Contract!Claims \ {"none"}
  BY DEF Contract!Claims, RowStatus
<1>3. QED
  BY <1>1, <1>2 DEF ContractStep, Contract!ContractNext

\* The provider accepts a copy of a queued message.
LEMMA AcceptStep ==
    ASSUME IInv, NEW m \in MsgIds, Queued(m), msgs' = msgs, outbox' = outbox,
           copies' = [copies EXCEPT ![m] = @ + 1]
    PROVE  ContractStep
<1>1. Contract!Accept(m)
  BY DEF Contract!Accept, Saved, Queued
<1>2. QED
  BY <1>1 DEF ContractStep, Contract!ContractNext

\* A message becomes sayable when its insert commits, not before.
LEMMA EnvironmentRefines ==
    ASSUME IInv, Environment
    PROVE  ContractStep
<1> USE DEF rows, maps, observers
<1>1. CASE \E m \in MsgIds, c \in Convs, kind \in Kinds : BeginSave(m, c, kind)
  <2>1. PICK m \in MsgIds, c \in Convs, kind \in Kinds : BeginSave(m, c, kind)
    BY <1>1
  <2>2. \A n \in MsgIds : /\ Saved(n)' <=> Saved(n)
                          /\ Saved(n) => msgs'[n] = msgs[n]
    BY <2>1 DEF BeginSave, Saved, IInv, TypeOK
  <2>3. UNCHANGED Contract!contractVars
    BY <2>1, <2>2 DEF BeginSave, Contract!contractVars, Saved
  <2>4. QED
    BY <2>3 DEF ContractStep
<1>2. CASE \E m \in MsgIds : CommitSave(m)
  <2>1. PICK m \in MsgIds : CommitSave(m)
    BY <1>2
  <2>2. /\ ~Saved(m) /\ Saved(m)' /\ msgs'[m].kind = msgs[m].kind
        /\ \A n \in MsgIds \ {m} : msgs'[n] = msgs[n]
        /\ copies' = copies /\ outbox' = outbox
    BY <2>1 DEF CommitSave, Saved, IInv, TypeOK, Message
  <2>3. CASE msgs[m].kind \in Relayable
    <3>1. Contract!Say(m)
      BY <2>2, <2>3 DEF Contract!Say, Saved
    <3>2. QED
      BY <3>1 DEF ContractStep, Contract!ContractNext
  <2>4. CASE msgs[m].kind \notin Relayable
    <3>1. UNCHANGED Contract!contractVars
      BY <2>2, <2>4 DEF Contract!contractVars, Saved
    <3>2. QED
      BY <3>1 DEF ContractStep
  <2>5. QED
    BY <2>3, <2>4
<1>3. CASE \E m \in MsgIds : BackoffElapses(m)
  <2>1. PICK m \in MsgIds : BackoffElapses(m)
    BY <1>3
  <2>2. \A n \in MsgIds : (outbox[n].status)' = outbox[n].status
    BY <2>1 DEF BackoffElapses, IInv, TypeOK, Row
  <2>3. QED
    BY <2>1, <2>2, UnseenStep DEF BackoffElapses
<1>4. CASE UNCHANGED <<msgs, outbox, copies>>
  BY <1>4, UnseenStep
<1>5. QED
  BY <1>1, <1>2, <1>3, <1>4 DEF Environment, MapInbound, Rebind, SetReply,
     BeginFlush, SetChannel, Crash, outside

\* Only the insert is seen, and it queues a committed, relayable message.
LEMMA FlushRefines ==
    ASSUME IInv, NEW d \in Deliverers, Flush(d)
    PROVE  ContractStep
<1> USE DEF rows, outside, observers
<1>1. CASE UNCHANGED <<msgs, outbox, copies>>
  BY <1>1, UnseenStep
<1>2. CASE QueueMessage(d) /\ outbox' # outbox
  <2>1. PICK m \in proc[d].scan :
          /\ ~Skipped(d, m) /\ ~Queued(m)
          /\ outbox' = [outbox EXCEPT ![m] =
                          [id |-> nextRowId, thread |-> proc[d].thread,
                           status |-> "pending", attempts |-> 0,
                           backoff |-> FALSE, lastError |-> "none"]]
          /\ UNCHANGED <<msgs, copies>>
    BY <1>2 DEF QueueMessage
  <2>2. m \in MsgIds /\ Saved(m)
    BY DEF IInv, TypeOK, Deliverer, LocalInv
  <2>3. msgs[m].kind \in Relayable
    BY <2>1, <2>2, OutboxAssumption DEF Skipped, Relayable, IInv, TypeOK,
       Message
  <2>4. \A n \in MsgIds : (outbox[n].status)' =
                             IF n = m THEN "pending" ELSE outbox[n].status
    BY <2>1, <2>2 DEF IInv, TypeOK
  <2>5. Contract!Enqueue(m)
    BY <2>1, <2>2, <2>3, <2>4 DEF Contract!Enqueue, Saved, Queued
  <2>6. QED
    BY <2>2, <2>5 DEF ContractStep, Contract!ContractNext
<1>3. QED
  BY <1>1, <1>2 DEF Flush, ReadThread, ScanMessages, SkipMessage, LoseInsert,
     StoreCursor, SelectPending, QueueMessage

\* What a deliverer knows of its row is enough for every status it reports.
LEMMA DeliveryRefines ==
    ASSUME IInv, NEW d \in Deliverers, DeliverStep(d)
    PROVE  ContractStep
<1> USE DEF rows, outside, observers
<1> DEFINE m == proc[d].msg
<1>1. proc[d] \in Deliverer /\ LocalInv(d)
  BY DEF IInv, TypeOK
<1>2. CASE Promote(d)
  <2>1. m \in MsgIds /\ Queued(m) /\ copies[m] > 0
    BY <1>1, <1>2 DEF Promote, At, LocalInv, IInv, RowInv
  <2>2. \A n \in MsgIds : (outbox[n].status)' =
                             IF n = m THEN "sent" ELSE outbox[n].status
    BY <1>2, <2>1 DEF Promote, IInv, TypeOK, Row
  <2>3. QED
    BY <1>2, <2>1, <2>2, ReportStep DEF Promote, RowStatus
<1>3. CASE Mark(d) \/ ChannelFails(d)
  <2>1. /\ m \in MsgIds /\ Queued(m) /\ copies[m] > 0
        /\ proc[d].outcome \in {"sent", "unconfirmed"}
    BY <1>1, <1>3 DEF Mark, ChannelFails, At, LocalInv
  <2>2. \A n \in MsgIds : (outbox[n].status)' =
                     IF n = m THEN proc[d].outcome ELSE outbox[n].status
    BY <1>3, <2>1 DEF Mark, ChannelFails, IInv, TypeOK, Row
  <2>3. msgs' = msgs /\ copies' = copies
    BY <1>3 DEF Mark, ChannelFails
  <2>4. proc[d].outcome \in RowStatus
    BY <2>1 DEF RowStatus
  <2>5. QED
    BY <2>1, <2>2, <2>3, <2>4, ReportStep
<1>4. CASE RecordFailure(d)
  <2>1. m \in MsgIds /\ Queued(m)
    BY <1>1, <1>4 DEF RecordFailure, At, LocalInv
  <2>2. PICK status \in {"failed", "pending"} :
          \A n \in MsgIds : (outbox[n].status)' =
                               IF n = m THEN status ELSE outbox[n].status
    <3> DEFINE exhausted == Exhausted(proc[d].error, NextAttempts(d, m))
               status == IF exhausted THEN "failed" ELSE "pending"
    <3>1. \A n \in MsgIds : (outbox[n].status)' =
                               IF n = m THEN status ELSE outbox[n].status
      BY <1>4, <2>1 DEF RecordFailure, IInv, TypeOK, Row
    <3>2. QED
      BY <3>1
  <2>3. msgs' = msgs /\ copies' = copies
    BY <1>4 DEF RecordFailure
  <2>4. status \in RowStatus /\ status \notin {"sent", "unconfirmed"}
    BY <2>2 DEF RowStatus
  <2>5. QED
    BY <2>1, <2>2, <2>3, <2>4, ReportStep
<1>5. CASE SendAccepted(d)
  <2>1. m \in MsgIds /\ Queued(m)
    BY <1>1, <1>5 DEF SendAccepted, At, LocalInv
  <2>2. QED
    BY <1>5, <2>1, AcceptStep DEF SendAccepted
<1>6. CASE SendThrows(d)
  <2>1. m \in MsgIds /\ Queued(m)
    BY <1>1, <1>6 DEF SendThrows, At, LocalInv
  <2>2. QED
    BY <1>6, <2>1, AcceptStep, UnseenStep DEF SendThrows
<1>7. CASE UNCHANGED <<msgs, outbox, copies>>
  BY <1>7, UnseenStep
<1>8. QED
  BY <1>2, <1>3, <1>4, <1>5, <1>6, <1>7 DEF DeliverStep, TakeRow, LookUpMap,
     NothingToSend, SaveMap, MarkFails, EndDelivery

\* The worker reports the verdict on an accepted message.
LEMMA TickRefines ==
    ASSUME IInv, Tick
    PROVE  ContractStep
<1> USE DEF rows, outside, observers
<1>1. CASE Settle
  <2> DEFINE m == proc[Worker].msg
  <2>1. LocalInv(Worker) /\ proc[Worker].pc = "settle"
    BY <1>1 DEF IInv, Settle, At, Deliverers
  <2>2. /\ m \in MsgIds /\ Queued(m) /\ copies[m] > 0
        /\ proc[Worker].outcome \in {"sent", "failed"}
    BY <2>1 DEF LocalInv
  <2>3. \A n \in MsgIds : (outbox[n].status)' =
                     IF n = m THEN proc[Worker].outcome ELSE outbox[n].status
    BY <1>1, <2>2 DEF Settle, IInv, TypeOK, Row
  <2>4. msgs' = msgs /\ copies' = copies
    BY <1>1 DEF Settle
  <2>5. proc[Worker].outcome \in RowStatus
    BY <2>2 DEF RowStatus
  <2>6. QED
    BY <2>2, <2>3, <2>4, <2>5, ReportStep
<1>2. CASE UNCHANGED <<msgs, outbox, copies>>
  BY <1>2, UnseenStep
<1>3. QED
  BY <1>1, <1>2 DEF Tick, BeginTick, SweepThread, SelectDue, SelectUnconfirmed,
     AskProvider, EndTick

\* Every step of the relay is a step of the contract, or unseen by it.
LEMMA NextRefines == IInv /\ [Next]_vars => ContractStep
<1>1. IInv /\ UNCHANGED vars => ContractStep
  BY UnseenStep DEF vars
<1>2. QED
  BY <1>1, EnvironmentRefines, FlushRefines, DeliveryRefines, TickRefines
     DEF Next

\* The relay keeps the contract: nothing unsaid is queued, nothing unqueued is
\* sent, and no delivery is claimed that was not accepted.
THEOREM Implements == Spec => ContractSpec
<1>1. Init => Contract!ContractInit
  BY InitRefines
<1>2. IInv /\ [Next]_vars => [Contract!ContractNext]_(Contract!contractVars)
  BY NextRefines DEF ContractStep
<1>3. QED
  BY <1>1, <1>2, Inductive, PTL DEF Spec, ContractSpec, Contract!Spec

=============================================================================
