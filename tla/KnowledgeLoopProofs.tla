-------------------------- MODULE KnowledgeLoopProofs --------------------------
(***************************************************************************)
(* The steps of the loop keep its types, leave what was decided alone, and    *)
(* keep the account of its documents.  All three rest on one fact about each *)
(* call: whoever is to create or to save, and is still fresh, has a task     *)
(* that is proposed; only a call that decides ever made a document, and it   *)
(* made it before it saves.                                                 *)
(***************************************************************************)
EXTENDS KnowledgeLoop, TLAPS, FiniteSetTheorems

Deciding(call) == call.kind \in {"approve", "dismiss"}
Shaped(call) ==
    /\ Deciding(call) => call.left = {} /\ call.pc \in {"create", "save", "done", "failed"}
    /\ call.pc = "create" => call.kind = "approve" /\ ~call.made
    /\ call.made => call.kind = "approve"
    /\ call.kind = "approve" /\ call.pc = "save" => call.made
\* A call whose task has this status.
Fits(call, status) ==
    /\ Shaped(call)
    /\ call.pc \in {"create", "save"} /\ call.fresh => status = "proposed"
LoopTyped == LoopTypeOK /\ \A i \in DOMAIN calls : Fits(calls[i], gaps[calls[i].ref])

LEMMA LoopStarts == LoopInit => LoopTyped
<1>. SUFFICES ASSUME LoopInit PROVE LoopTyped
    OBVIOUS
<1>1. <<>> \in Seq(Call) /\ DOMAIN <<>> = {}
    OBVIOUS
<1>. QED BY <1>1 DEF LoopInit, LoopTyped, LoopTypeOK

LEMMA CallIsCall ==
    ASSUME LoopTyped, NEW i \in DOMAIN calls
    PROVE  /\ calls[i] \in Call /\ calls[i].ref \in Refs /\ calls[i].made \in BOOLEAN
           /\ calls[i].left \subseteq Refs /\ calls[i].fresh \in BOOLEAN
           /\ calls[i].kind \in {"capture", "rating", "batch", "approve", "dismiss"}
           /\ Fits(calls[i], gaps[calls[i].ref]) /\ Shaped(calls[i])
           /\ gaps[calls[i].ref] \in {"none", "proposed"} \cup Decided
<1>1. calls \in Seq(Call)
    BY DEF LoopTyped, LoopTypeOK
<1>2. calls[i] \in Call
    BY <1>1
<1>. QED BY <1>2 DEF Call, LoopTyped, LoopTypeOK, Fits

\* A call that begins.
LEMMA CallBegins ==
    ASSUME LoopTyped, NEW kind \in {"capture", "rating", "batch", "approve", "dismiss"},
           NEW r \in Refs, NEW more \in SUBSET Refs, NEW pc \in {"messages", "find", "create", "save"},
           Begin(Called(kind, r, more, pc)), Fits(Called(kind, r, more, pc), gaps[r])
    PROVE  LoopTyped' /\ \A k \in DOMAIN calls' :
               (k \in DOMAIN calls /\ calls'[k] = calls[k]) \/ ~calls'[k].made
<1>. DEFINE call == Called(kind, r, more, pc)
<1>1. call \in Call /\ call.ref = r /\ call.made = FALSE
    BY DEF Called, Call
<1>2. calls \in Seq(Call) /\ calls' = Append(calls, call) /\ UNCHANGED <<gaps, docs, torn>>
    BY DEF Begin, LoopTyped, LoopTypeOK
<1>. HIDE DEF call
<1>3. calls' \in Seq(Call)
    BY <1>1, <1>2
<1>4. ASSUME NEW k \in DOMAIN calls'
      PROVE  (k \in DOMAIN calls /\ calls'[k] = calls[k]) \/ calls'[k] = call
    BY <1>1, <1>2
<1>5. Fits(call, gaps[call.ref])
    BY <1>1 DEF call
<1>6. \A k \in DOMAIN calls' : Fits(calls'[k], gaps[calls'[k].ref])
    BY <1>4, <1>5 DEF LoopTyped
<1>. QED BY <1>1, <1>2, <1>3, <1>4, <1>6 DEF LoopTyped, LoopTypeOK

\* A call that takes a step, and the others as they are.
LEMMA CallProceeds ==
    ASSUME LoopTyped, NEW i \in DOMAIN calls, NEW call \in Call, Proceed(i, call),
           Fits(call, gaps'[call.ref]),
           \A k \in DOMAIN calls : k # i => Fits(calls[k], gaps'[calls[k].ref]),
           gaps' \in [Refs -> {"none", "proposed"} \cup Decided], docs' \in [Refs -> Nat],
           torn' \subseteq Refs
    PROVE  LoopTyped'
<1>1. calls \in Seq(Call) /\ calls' = [calls EXCEPT ![i] = call]
    BY DEF Proceed, LoopTyped, LoopTypeOK
<1>2. calls' \in Seq(Call) /\ DOMAIN calls' = DOMAIN calls
      /\ \A k \in DOMAIN calls : calls'[k] = IF k = i THEN call ELSE calls[k]
    BY <1>1
<1>. QED BY <1>2 DEF LoopTyped, LoopTypeOK

\* The same, with nothing saved.
LEMMA CallGoesOn ==
    ASSUME LoopTyped, NEW i \in DOMAIN calls, NEW call \in Call, Proceed(i, call),
           Fits(call, gaps[call.ref]), UNCHANGED <<gaps, torn>>, docs' \in [Refs -> Nat]
    PROVE  LoopTyped'
<1>1. \A k \in DOMAIN calls : k # i => Fits(calls[k], gaps'[calls[k].ref])
    BY DEF LoopTyped
<1>2. gaps' \in [Refs -> {"none", "proposed"} \cup Decided] /\ torn' \subseteq Refs
    BY DEF LoopTyped, LoopTypeOK
<1>. QED BY <1>1, <1>2, CallProceeds

LEMMA ThroughIsCall ==
    ASSUME NEW call \in Call, Shaped(call), call.pc \in {"find", "insert", "save"},
           NEW next \in Through(call)
    PROVE  /\ next \in Call /\ next.kind = call.kind /\ next.made = call.made
           /\ next.pc \in {"done", "find"} /\ Shaped(next) /\ \A s : Fits(next, s)
           /\ call.left = {} => next.pc = "done" /\ next.ref = call.ref
<1>0. call.left \subseteq Refs /\ call.made \in BOOLEAN
    BY DEF Call
<1>1. CASE call.left = {}
    <2>1. next = [call EXCEPT !.pc = "done"]
        BY <1>1 DEF Through
    <2>2. next \in Call /\ next.kind = call.kind /\ next.made = call.made /\ next.pc = "done"
          /\ next.ref = call.ref /\ next.left = call.left
        BY <2>1 DEF Call
    <2>. QED BY <2>2 DEF Shaped, Deciding, Fits
<1>2. CASE call.left # {}
    <2>1. PICK r \in call.left : next = [call EXCEPT !.pc = "find", !.ref = r, !.left = @ \ {r}]
        BY <1>2 DEF Through
    <2>2. next \in Call /\ next.kind = call.kind /\ next.made = call.made /\ next.pc = "find"
        BY <1>0, <2>1 DEF Call
    <2>3. ~Deciding(call)
        BY <1>2 DEF Shaped
    <2>. QED BY <1>2, <2>2, <2>3 DEF Shaped, Deciding, Fits
<1>. QED BY <1>1, <1>2

(***************************************************************************)
(* Types.                                                                   *)
(***************************************************************************)
LEMMA RefsOf ==
    /\ \A c \in Convs : <<"issue", c>> \in Refs /\ <<"answer", c>> \in Refs
    /\ {"topic"} \X Topics \subseteq Refs
BY DEF Refs

LEMMA HearTypes ==
    ASSUME LoopTyped, NEW c \in Convs, Hear(c)
    PROVE  LoopTyped'
<1>1. CASE UNCHANGED loop
    BY <1>1 DEF LoopTyped, LoopTypeOK, loop
<1>2. CASE Begin(Called("capture", <<"issue", c>>, {}, "messages"))
    <2>1. Fits(Called("capture", <<"issue", c>>, {}, "messages"), gaps[<<"issue", c>>])
        BY DEF Called, Fits, Shaped, Deciding
    <2>. QED BY <1>2, <2>1, RefsOf, CallBegins
<1>. QED BY <1>1, <1>2 DEF Hear

LEMMA RateTypes ==
    ASSUME LoopTyped, NEW c \in Convs, Rate(c)
    PROVE  LoopTyped'
<1>1. Fits(Called("rating", <<"answer", c>>, {}, "messages"), gaps[<<"answer", c>>])
    BY DEF Called, Fits, Shaped, Deciding
<1>. QED BY <1>1, RefsOf, CallBegins DEF Rate

LEMMA RunBatchTypes ==
    ASSUME LoopTyped, RunBatch
    PROVE  LoopTyped'
<1>1. PICK over \in SUBSET ({"topic"} \X Topics) : \E first \in over :
          Begin(Called("batch", first, over \ {first}, "find"))
    BY DEF RunBatch
<1>2. PICK first \in over : Begin(Called("batch", first, over \ {first}, "find"))
    BY <1>1
<1>3. first \in Refs /\ over \ {first} \in SUBSET Refs
    BY RefsOf
<1>4. Fits(Called("batch", first, over \ {first}, "find"), gaps[first])
    BY DEF Called, Fits, Shaped, Deciding
<1>. QED BY <1>2, <1>3, <1>4, CallBegins

LEMMA DecideTypes ==
    ASSUME LoopTyped, NEW kind \in {"approve", "dismiss"}, NEW r \in Refs, Decide(kind, r)
    PROVE  LoopTyped'
<1>. DEFINE pc == IF kind = "approve" THEN "create" ELSE "save"
<1>1. gaps[r] = "proposed" /\ Begin(Called(kind, r, {}, pc))
    BY DEF Decide
<1>2. pc \in {"create", "save"} /\ (pc = "create" <=> kind = "approve")
    OBVIOUS
<1>. HIDE DEF pc
<1>3. Fits(Called(kind, r, {}, pc), gaps[r])
    BY <1>1, <1>2 DEF Called, Fits, Shaped, Deciding
<1>. QED BY <1>1, <1>2, <1>3, CallBegins

\* A call that looks on, fails, or is refused.
LEMMA PcChanges ==
    ASSUME LoopTyped, NEW i \in DOMAIN calls, ~Deciding(calls[i]) \/ calls[i].pc # "done",
           NEW pc \in {"find", "nothing", "insert", "failed"},
           ~Deciding(calls[i]) \/ pc = "failed",
           Proceed(i, [calls[i] EXCEPT !.pc = pc]), UNCHANGED <<gaps, docs, torn>>
    PROVE  LoopTyped'
<1>. DEFINE call == [calls[i] EXCEPT !.pc = pc]
<1>1. call \in Call /\ call.kind = calls[i].kind /\ call.left = calls[i].left
      /\ call.made = calls[i].made /\ call.pc = pc
    BY CallIsCall DEF Call
<1>2. Shaped(calls[i])
    BY CallIsCall
<1>. HIDE DEF call
<1>3. Fits(call, gaps[call.ref])
    BY <1>1, <1>2 DEF Fits, Shaped, Deciding
<1>4. docs' \in [Refs -> Nat]
    BY DEF LoopTyped, LoopTypeOK
<1>. QED BY <1>1, <1>3, <1>4, CallGoesOn DEF call

LEMMA FindMessagesTypes ==
    ASSUME LoopTyped, NEW i \in DOMAIN calls, FindMessages(i)
    PROVE  LoopTyped'
<1>1. calls[i].pc = "messages" /\ ~Deciding(calls[i])
    BY CallIsCall DEF FindMessages, Shaped
<1>2. PICK pc \in {"find", "nothing"} : Proceed(i, [calls[i] EXCEPT !.pc = pc])
    BY DEF FindMessages
<1>. QED BY <1>1, <1>2, PcChanges DEF FindMessages

LEMMA FindTaskTypes ==
    ASSUME LoopTyped, NEW i \in DOMAIN calls, FindTask(i)
    PROVE  LoopTyped'
<1>1. calls[i].pc = "find" /\ ~Deciding(calls[i]) /\ UNCHANGED <<gaps, docs, torn>>
    BY CallIsCall DEF FindTask, Shaped
<1>2. docs' \in [Refs -> Nat]
    BY <1>1 DEF LoopTyped, LoopTypeOK
<1>3. CASE Proceed(i, [calls[i] EXCEPT !.pc = "insert"])
    BY <1>1, <1>3, PcChanges
<1>4. CASE gaps[calls[i].ref] = "proposed" /\ Proceed(i, [calls[i] EXCEPT !.pc = "save", !.fresh = TRUE])
    <2>. DEFINE call == [calls[i] EXCEPT !.pc = "save", !.fresh = TRUE]
    <2>1. call \in Call /\ call.kind = calls[i].kind /\ call.made = calls[i].made
          /\ call.pc = "save" /\ call.ref = calls[i].ref
        BY CallIsCall DEF Call
    <2>2. Shaped(calls[i])
        BY CallIsCall
    <2>. HIDE DEF call
    <2>3. Fits(call, gaps[call.ref])
        BY <1>1, <1>4, <2>1, <2>2 DEF Fits, Shaped, Deciding
    <2>. QED BY <1>1, <1>2, <1>4, <2>1, <2>3, CallGoesOn DEF call
<1>5. CASE \E next \in Through(calls[i]) : Proceed(i, next)
    <2>1. PICK next \in Through(calls[i]) : Proceed(i, next)
        BY <1>5
    <2>2. next \in Call /\ Fits(next, gaps[next.ref])
        BY <1>1, CallIsCall, ThroughIsCall
    <2>. QED BY <1>1, <1>2, <2>1, <2>2, CallGoesOn
<1>. QED BY <1>3, <1>4, <1>5 DEF FindTask

LEMMA InsertTaskTypes ==
    ASSUME LoopTyped, NEW i \in DOMAIN calls, InsertTask(i)
    PROVE  LoopTyped'
<1>. DEFINE r == calls[i].ref
<1>1. calls[i].pc = "insert" /\ gaps[r] = "none" /\ UNCHANGED <<docs, torn>> /\ r \in Refs
    BY CallIsCall DEF InsertTask
<1>2. PICK next \in Through(calls[i]) : Proceed(i, next)
    BY DEF InsertTask
<1>3. next \in Call /\ \A s : Fits(next, s)
    BY <1>1, CallIsCall, ThroughIsCall
<1>4. gaps' = [gaps EXCEPT ![r] = "proposed"] /\ gaps \in [Refs -> {"none", "proposed"} \cup Decided]
    BY DEF InsertTask, LoopTyped, LoopTypeOK
<1>. HIDE DEF r
<1>5. gaps' \in [Refs -> {"none", "proposed"} \cup Decided]
      /\ \A q \in Refs : gaps'[q] = IF q = r THEN "proposed" ELSE gaps[q]
    BY <1>4
<1>6. ASSUME NEW k \in DOMAIN calls PROVE Fits(calls[k], gaps'[calls[k].ref])
    BY <1>1, <1>5, CallIsCall DEF Fits
<1>7. docs' \in [Refs -> Nat] /\ torn' \subseteq Refs
    BY <1>1 DEF LoopTyped, LoopTypeOK
<1>. QED BY <1>2, <1>3, <1>5, <1>6, <1>7, CallProceeds

LEMMA CreateDocumentTypes ==
    ASSUME LoopTyped, NEW i \in DOMAIN calls, CreateDocument(i)
    PROVE  LoopTyped'
<1>. DEFINE call == [calls[i] EXCEPT !.pc = "save", !.made = TRUE]
            r == calls[i].ref
<1>1. calls[i].pc = "create" /\ Proceed(i, call) /\ UNCHANGED <<gaps, torn>>
    BY DEF CreateDocument
<1>2. Fits(calls[i], gaps[r]) /\ r \in Refs
    BY CallIsCall
<1>3. call \in Call /\ call.kind = calls[i].kind /\ call.made = TRUE /\ call.pc = "save"
      /\ call.ref = r /\ call.left = calls[i].left /\ call.fresh = calls[i].fresh
    BY CallIsCall DEF Call
<1>4. docs' \in [Refs -> Nat]
    <2>1. docs \in [Refs -> Nat] /\ docs[r] + 1 \in Nat
        BY <1>2 DEF LoopTyped, LoopTypeOK
    <2>. QED BY <2>1 DEF CreateDocument
<1>. HIDE DEF call, r
<1>5. Fits(call, gaps[call.ref])
    BY <1>1, <1>2, <1>3 DEF Fits, Shaped, Deciding
<1>. QED BY <1>1, <1>3, <1>4, <1>5, CallGoesOn

\* A save: what it does to the task, to the call that saves, and to the others,
\* which are no longer fresh when it changed the status they had read.
LEMMA SaveTaskEffect ==
    ASSUME LoopTyped, NEW i \in DOMAIN calls, SaveTask(i)
    PROVE  LET r == calls[i].ref
               status == Saved(calls[i].kind)
           IN  /\ gaps' = [gaps EXCEPT ![r] = status] /\ status \in {"proposed"} \cup Decided
               /\ r \in Refs /\ DOMAIN calls' = DOMAIN calls
               /\ calls' \in Seq(Call)
               /\ calls'[i] \in Through(calls[i]) /\ \A s : Fits(calls'[i], s)
               /\ \A k \in DOMAIN calls \ {i} :
                      /\ calls'[k] \in Call /\ calls'[k].ref = calls[k].ref
                      /\ calls'[k].made = calls[k].made /\ calls'[k].pc = calls[k].pc
                      /\ Fits(calls'[k], gaps'[calls[k].ref])
<1>. DEFINE r == calls[i].ref
            status == Saved(calls[i].kind)
            old(k) == [calls[k] EXCEPT !.fresh = FALSE]
            e(k, next) == IF k = i THEN next
                          ELSE IF calls[k].ref = r /\ status # gaps[r] THEN old(k) ELSE calls[k]
<1>1. PICK next \in Through(calls[i]) : calls' = [k \in DOMAIN calls |-> e(k, next)]
    BY DEF SaveTask
<1>2. /\ gaps' = [gaps EXCEPT ![r] = status] /\ r \in Refs
      /\ gaps \in [Refs -> {"none", "proposed"} \cup Decided] /\ calls \in Seq(Call)
      /\ calls[i].pc = "save"
    BY CallIsCall DEF SaveTask, LoopTyped, LoopTypeOK
<1>3. status \in {"proposed"} \cup Decided
    BY DEF Saved, Decided
<1>4. next \in Call /\ \A s : Fits(next, s)
    BY <1>2, CallIsCall, ThroughIsCall
<1>5. ASSUME NEW k \in DOMAIN calls
      PROVE  /\ old(k) \in Call /\ old(k).ref = calls[k].ref /\ old(k).made = calls[k].made
             /\ old(k).pc = calls[k].pc /\ old(k).kind = calls[k].kind
             /\ old(k).left = calls[k].left /\ old(k).fresh = FALSE
    BY CallIsCall DEF Call
<1>. HIDE DEF r, status, old
<1>6. gaps'[r] = status /\ \A q \in Refs : q # r => gaps'[q] = gaps[q]
    BY <1>2
<1>7. ASSUME NEW k \in DOMAIN calls, k # i
      PROVE  /\ e(k, next) \in Call /\ e(k, next).ref = calls[k].ref
             /\ e(k, next).made = calls[k].made /\ e(k, next).pc = calls[k].pc
             /\ Fits(e(k, next), gaps'[calls[k].ref])
    <2>1. Shaped(calls[k]) /\ Fits(calls[k], gaps[calls[k].ref]) /\ calls[k].ref \in Refs
          /\ calls[k] \in Call
        BY CallIsCall
    <2>2. CASE calls[k].ref = r /\ status # gaps[r]
        <3>1. e(k, next) = old(k)
            BY <1>7, <2>2
        <3>2. Shaped(old(k)) /\ Fits(old(k), gaps'[calls[k].ref])
            BY <1>5, <2>1 DEF Fits, Shaped, Deciding
        <3>. QED BY <1>5, <3>1, <3>2
    <2>3. CASE ~(calls[k].ref = r /\ status # gaps[r])
        <3>1. e(k, next) = calls[k]
            BY <1>7, <2>3
        <3>2. gaps'[calls[k].ref] = gaps[calls[k].ref]
            BY <1>6, <2>1, <2>3
        <3>. QED BY <2>1, <3>1, <3>2
    <2>. QED BY <2>2, <2>3
<1>8. e(i, next) = next
    OBVIOUS
<1>. HIDE DEF e
<1>9. DOMAIN calls' = DOMAIN calls /\ \A k \in DOMAIN calls : calls'[k] = e(k, next)
    BY <1>1
<1>10. calls' \in Seq(Call)
    <2>1. \A k \in 1..Len(calls) : e(k, next) \in Call
        BY <1>2, <1>4, <1>7, <1>8
    <2>2. calls' = [k \in 1..Len(calls) |-> e(k, next)] /\ Len(calls) \in Nat
        BY <1>1, <1>2
    <2>. QED BY <2>1, <2>2
<1>11. \A k \in DOMAIN calls \ {i} :
           /\ calls'[k] \in Call /\ calls'[k].ref = calls[k].ref
           /\ calls'[k].made = calls[k].made /\ calls'[k].pc = calls[k].pc
           /\ Fits(calls'[k], gaps'[calls[k].ref])
    BY <1>7, <1>9
<1>12. calls'[i] = next
    BY <1>8, <1>9
<1>. QED BY <1>1, <1>2, <1>3, <1>4, <1>9, <1>10, <1>11, <1>12 DEF r, status

LEMMA SaveTaskTypes ==
    ASSUME LoopTyped, NEW i \in DOMAIN calls, SaveTask(i)
    PROVE  LoopTyped'
<1>. DEFINE r == calls[i].ref
            status == Saved(calls[i].kind)
<1>1. /\ gaps' = [gaps EXCEPT ![r] = status] /\ status \in {"proposed"} \cup Decided
      /\ r \in Refs /\ DOMAIN calls' = DOMAIN calls /\ calls' \in Seq(Call)
      /\ \A s : Fits(calls'[i], s)
      /\ \A k \in DOMAIN calls \ {i} : /\ calls'[k].ref = calls[k].ref
                                       /\ Fits(calls'[k], gaps'[calls[k].ref])
    BY SaveTaskEffect
<1>2. torn' \subseteq Refs
    BY <1>1 DEF SaveTask, LoopTyped, LoopTypeOK
<1>3. docs' = docs
    BY DEF SaveTask
<1>. HIDE DEF r, status
<1>4. gaps' \in [Refs -> {"none", "proposed"} \cup Decided]
    BY <1>1 DEF LoopTyped, LoopTypeOK
<1>5. \A k \in DOMAIN calls' : Fits(calls'[k], gaps'[calls'[k].ref])
    BY <1>1
<1>. QED BY <1>1, <1>2, <1>3, <1>4, <1>5 DEF LoopTyped, LoopTypeOK

LEMMA CallFailsTypes ==
    ASSUME LoopTyped, NEW i \in DOMAIN calls, CallFails(i) \/ InsertRefused(i)
    PROVE  LoopTyped'
<1>1. calls[i].pc # "done" /\ UNCHANGED <<gaps, docs, torn>>
      /\ Proceed(i, [calls[i] EXCEPT !.pc = "failed"])
    BY DEF CallFails, InsertRefused, Running
<1>. QED BY <1>1, PcChanges

\* A restart fails each call that runs.
LEMMA LoopRestartEffect ==
    ASSUME LoopTyped, LoopRestart
    PROVE  /\ calls' \in Seq(Call) /\ DOMAIN calls' = DOMAIN calls /\ UNCHANGED <<gaps, docs, torn>>
           /\ \A k \in DOMAIN calls :
                  /\ calls'[k].ref = calls[k].ref /\ calls'[k].made = calls[k].made
                  /\ calls'[k].pc = calls[k].pc
                        \/ (calls'[k].pc = "failed" /\ calls[k].pc # "done")
                  /\ Fits(calls'[k], gaps[calls[k].ref])
<1>. DEFINE over(k) == [calls[k] EXCEPT !.pc = "failed"]
            e(k) == IF Running(k) THEN over(k) ELSE calls[k]
<1>1. calls' = [k \in DOMAIN calls |-> e(k)] /\ UNCHANGED <<gaps, docs, torn>>
    BY DEF LoopRestart
<1>2. calls \in Seq(Call)
    BY DEF LoopTyped, LoopTypeOK
<1>3. ASSUME NEW k \in DOMAIN calls
      PROVE  /\ e(k) \in Call /\ e(k).ref = calls[k].ref /\ e(k).made = calls[k].made
             /\ e(k).pc = calls[k].pc \/ (e(k).pc = "failed" /\ calls[k].pc # "done")
             /\ Fits(e(k), gaps[calls[k].ref])
    <2>1. Shaped(calls[k]) /\ Fits(calls[k], gaps[calls[k].ref]) /\ calls[k] \in Call
        BY CallIsCall
    <2>2. CASE Running(k)
        <3>1. /\ over(k) \in Call /\ over(k).ref = calls[k].ref /\ over(k).made = calls[k].made
              /\ over(k).pc = "failed" /\ over(k).kind = calls[k].kind /\ over(k).left = calls[k].left
            BY <2>1 DEF Call
        <3>2. e(k) = over(k) /\ calls[k].pc # "done"
            BY <2>2 DEF Running
        <3>. HIDE DEF over, e
        <3>3. Fits(over(k), gaps[calls[k].ref])
            BY <2>1, <3>1 DEF Fits, Shaped, Deciding
        <3>. QED BY <3>1, <3>2, <3>3
    <2>3. CASE ~Running(k)
        BY <2>1, <2>3
    <2>. QED BY <2>2, <2>3
<1>. HIDE DEF e
<1>4. calls' \in Seq(Call)
    <2>1. calls' = [k \in 1..Len(calls) |-> e(k)] /\ Len(calls) \in Nat
        BY <1>1, <1>2
    <2>. QED BY <1>2, <1>3, <2>1
<1>. QED BY <1>1, <1>3, <1>4

LEMMA LoopRestartTypes ==
    ASSUME LoopTyped, LoopRestart
    PROVE  LoopTyped'
BY LoopRestartEffect DEF LoopTyped, LoopTypeOK

\* Every step of the loop keeps its types.
LEMMA LoopNextTypes ==
    ASSUME LoopTyped, LoopNext
    PROVE  LoopTyped'
<1>1. ASSUME NEW i \in DOMAIN calls, LoopStep(i) PROVE LoopTyped'
    BY <1>1, FindMessagesTypes, FindTaskTypes, InsertTaskTypes, CallFailsTypes,
       CreateDocumentTypes, SaveTaskTypes DEF LoopStep
<1>2. ASSUME NEW i \in DOMAIN calls, CallFails(i) PROVE LoopTyped'
    BY <1>2, CallFailsTypes
<1>. QED BY <1>1, <1>2, RateTypes, RunBatchTypes, DecideTypes DEF LoopNext

(***************************************************************************)
(* Decisions.                                                               *)
(***************************************************************************)
\* Only an insertion and a save touch a task: the one finds none, and the other, if
\* it is fresh, one that is proposed.
LEMMA DecisionsStay ==
    ASSUME LoopTyped, LoopNext, NEW r \in Refs \ torn', gaps[r] \in Decided
    PROVE  gaps'[r] = gaps[r]
<1>0. gaps \in [Refs -> {"none", "proposed"} \cup Decided]
    BY DEF LoopTyped, LoopTypeOK
<1>1. ASSUME NEW i \in DOMAIN calls, InsertTask(i) PROVE gaps'[r] = gaps[r]
    BY <1>0, <1>1 DEF InsertTask, Decided
<1>2. ASSUME NEW i \in DOMAIN calls, SaveTask(i) PROVE gaps'[r] = gaps[r]
    <2>1. CASE calls[i].ref = r
        <3>1. calls[i].fresh
            BY <1>2, <2>1 DEF SaveTask
        <3>2. gaps[r] = "proposed"
            BY <1>2, <2>1, <3>1, CallIsCall DEF SaveTask, Fits
        <3>. QED BY <3>2 DEF Decided
    <2>2. CASE calls[i].ref # r
        BY <1>0, <1>2, <2>2 DEF SaveTask
    <2>. QED BY <2>1, <2>2
<1>3. ASSUME NEW i \in DOMAIN calls,
             FindMessages(i) \/ FindTask(i) \/ InsertRefused(i) \/ CreateDocument(i) \/ CallFails(i)
      PROVE  UNCHANGED gaps
    BY <1>3 DEF FindMessages, FindTask, InsertRefused, CreateDocument, CallFails
<1>4. ASSUME NEW c \in Convs, Rate(c) PROVE UNCHANGED gaps
    BY <1>4 DEF Rate, Begin
<1>5. CASE RunBatch
    BY <1>5 DEF RunBatch, Begin
<1>6. ASSUME NEW kind \in {"approve", "dismiss"}, NEW q \in Refs, Decide(kind, q)
      PROVE  UNCHANGED gaps
    BY <1>6 DEF Decide, Begin
<1>. QED BY <1>1, <1>2, <1>3, <1>4, <1>5, <1>6 DEF LoopNext, LoopStep

(***************************************************************************)
(* The account of the documents.                                            *)
(***************************************************************************)
\* The call made a document of r whose acceptance is not on record.
Owes(call, r) == call.ref = r /\ call.made /\ call.pc # "done"
Owing(r) == {i \in DOMAIN calls : Owes(calls[i], r)}
On(r) == IF gaps[r] = "accepted" THEN 1 ELSE 0
Balanced(r) == docs[r] = On(r) + Cardinality(Owing(r))

LEMMA BalancedSuffices == DocumentsAccounted <=> \A r \in Refs \ torn : Balanced(r)
BY DEF DocumentsAccounted, Balanced, On, Owing, Owes

LEMMA BalanceStarts == LoopInit => DocumentsAccounted
<1>. SUFFICES ASSUME LoopInit, NEW r \in Refs PROVE Balanced(r)
    BY BalancedSuffices
<1>1. Owing(r) = {}
    BY DEF LoopInit, Owing
<1>. QED BY <1>1, FS_EmptySet DEF LoopInit, Balanced, On

LEMMA OwingFinite ==
    ASSUME LoopTyped, NEW r
    PROVE  IsFiniteSet(Owing(r)) /\ Cardinality(Owing(r)) \in Nat
<1>1. calls \in Seq(Call) /\ Len(calls) \in Nat /\ DOMAIN calls = 1..Len(calls)
    BY DEF LoopTyped, LoopTypeOK
<1>2. IsFiniteSet(1..Len(calls))
    BY <1>1, FS_Interval
<1>3. Owing(r) \subseteq 1..Len(calls)
    BY <1>1 DEF Owing
<1>. QED BY <1>2, <1>3, FS_Subset, FS_CardinalityType

\* A step that makes no document of r and neither accepts it nor forgets an acceptance.
LEMMA BalanceSame ==
    ASSUME NEW r \in Refs, Balanced(r), docs'[r] = docs[r],
           gaps'[r] = "accepted" <=> gaps[r] = "accepted",
           \A k \in DOMAIN calls : Owes(calls[k], r) => k \in DOMAIN calls' /\ Owes(calls'[k], r),
           \A k \in DOMAIN calls' : Owes(calls'[k], r) => k \in DOMAIN calls /\ Owes(calls[k], r)
    PROVE  Balanced(r)'
<1>1. Owing(r)' = Owing(r)
    BY DEF Owing
<1>. QED BY <1>1 DEF Balanced, On

\* A call that begins owes nothing.
LEMMA BeginBalance ==
    ASSUME LoopTyped, NEW r \in Refs, Balanced(r), NEW call, ~call.made, Begin(call)
    PROVE  Balanced(r)'
<1>1. calls \in Seq(Call) /\ calls' = Append(calls, call) /\ UNCHANGED <<gaps, docs>>
    BY DEF Begin, LoopTyped, LoopTypeOK
<1>2. \A k \in DOMAIN calls : k \in DOMAIN calls' /\ calls'[k] = calls[k]
    BY <1>1
<1>3. \A k \in DOMAIN calls' : (k \in DOMAIN calls /\ calls'[k] = calls[k]) \/ calls'[k] = call
    BY <1>1
<1>4. ~Owes(call, r)
    BY DEF Owes
<1>. QED BY <1>1, <1>2, <1>3, <1>4, BalanceSame

\* A call that goes on, owing what it owed.
LEMMA ProceedBalance ==
    ASSUME LoopTyped, NEW r \in Refs, Balanced(r), NEW i \in DOMAIN calls, NEW call \in Call,
           Proceed(i, call), Owes(call, r) <=> Owes(calls[i], r),
           docs'[r] = docs[r], gaps'[r] = "accepted" <=> gaps[r] = "accepted"
    PROVE  Balanced(r)'
<1>1. calls \in Seq(Call) /\ calls' = [calls EXCEPT ![i] = call]
    BY DEF Proceed, LoopTyped, LoopTypeOK
<1>2. DOMAIN calls' = DOMAIN calls
      /\ \A k \in DOMAIN calls : calls'[k] = IF k = i THEN call ELSE calls[k]
    BY <1>1
<1>. QED BY <1>2, BalanceSame

LEMMA PcBalance ==
    ASSUME LoopTyped, NEW r \in Refs, Balanced(r), NEW i \in DOMAIN calls,
           NEW pc \in {"find", "nothing", "insert", "failed"}, calls[i].pc # "done",
           Proceed(i, [calls[i] EXCEPT !.pc = pc]), UNCHANGED <<gaps, docs>>
    PROVE  Balanced(r)'
<1>. DEFINE call == [calls[i] EXCEPT !.pc = pc]
<1>1. call \in Call /\ call.ref = calls[i].ref /\ call.made = calls[i].made /\ call.pc = pc
    BY CallIsCall DEF Call
<1>. HIDE DEF call
<1>2. Owes(call, r) <=> Owes(calls[i], r)
    BY <1>1 DEF Owes
<1>. QED BY <1>1, <1>2, ProceedBalance DEF call

LEMMA FindTaskBalance ==
    ASSUME LoopTyped, NEW r \in Refs, Balanced(r), NEW i \in DOMAIN calls, FindTask(i)
    PROVE  Balanced(r)'
<1>1. calls[i].pc = "find" /\ ~calls[i].made /\ UNCHANGED <<gaps, docs>>
    BY CallIsCall DEF FindTask, Shaped, Deciding
<1>2. CASE Proceed(i, [calls[i] EXCEPT !.pc = "insert"])
    BY <1>1, <1>2, PcBalance
<1>3. CASE Proceed(i, [calls[i] EXCEPT !.pc = "save", !.fresh = TRUE])
    <2>. DEFINE call == [calls[i] EXCEPT !.pc = "save", !.fresh = TRUE]
    <2>1. call \in Call /\ call.made = calls[i].made
        BY CallIsCall DEF Call
    <2>. HIDE DEF call
    <2>2. ~Owes(call, r) /\ ~Owes(calls[i], r)
        BY <1>1, <2>1 DEF Owes
    <2>. QED BY <1>1, <1>3, <2>1, <2>2, ProceedBalance DEF call
<1>4. CASE \E next \in Through(calls[i]) : Proceed(i, next)
    <2>1. PICK next \in Through(calls[i]) : Proceed(i, next)
        BY <1>4
    <2>2. next \in Call /\ next.made = calls[i].made
        BY <1>1, CallIsCall, ThroughIsCall
    <2>3. ~Owes(next, r) /\ ~Owes(calls[i], r)
        BY <1>1, <2>2 DEF Owes
    <2>. QED BY <1>1, <2>1, <2>2, <2>3, ProceedBalance
<1>. QED BY <1>2, <1>3, <1>4 DEF FindTask

LEMMA InsertTaskBalance ==
    ASSUME LoopTyped, NEW r \in Refs, Balanced(r), NEW i \in DOMAIN calls, InsertTask(i)
    PROVE  Balanced(r)'
<1>1. calls[i].pc = "insert" /\ ~calls[i].made /\ UNCHANGED docs
    BY CallIsCall DEF InsertTask, Shaped, Deciding
<1>2. PICK next \in Through(calls[i]) : Proceed(i, next)
    BY DEF InsertTask
<1>3. next \in Call /\ next.made = calls[i].made
    BY <1>1, CallIsCall, ThroughIsCall
<1>4. ~Owes(next, r) /\ ~Owes(calls[i], r)
    BY <1>1, <1>3 DEF Owes
<1>5. gaps'[r] = "accepted" <=> gaps[r] = "accepted"
    BY DEF InsertTask, LoopTyped, LoopTypeOK
<1>. QED BY <1>1, <1>2, <1>3, <1>4, <1>5, ProceedBalance

\* A document is made and owed for at once.
LEMMA CreateDocumentBalance ==
    ASSUME LoopTyped, NEW r \in Refs, Balanced(r), NEW i \in DOMAIN calls, CreateDocument(i)
    PROVE  Balanced(r)'
<1>. DEFINE call == [calls[i] EXCEPT !.pc = "save", !.made = TRUE]
            q == calls[i].ref
<1>1. /\ calls[i].pc = "create" /\ ~calls[i].made /\ Proceed(i, call) /\ UNCHANGED gaps
      /\ docs' = [docs EXCEPT ![q] = @ + 1] /\ docs \in [Refs -> Nat] /\ q \in Refs
    BY CallIsCall DEF CreateDocument, Shaped, LoopTyped, LoopTypeOK
<1>2. call \in Call /\ call.ref = q /\ call.made = TRUE /\ call.pc = "save"
    BY CallIsCall DEF Call
<1>. HIDE DEF call, q
<1>3. CASE r # q
    <2>1. ~Owes(call, r) /\ ~Owes(calls[i], r)
        BY <1>1, <1>2, <1>3 DEF Owes
    <2>. QED BY <1>1, <1>2, <1>3, <2>1, ProceedBalance
<1>4. CASE r = q
    <2>1. calls \in Seq(Call) /\ calls' = [calls EXCEPT ![i] = call]
        BY <1>1 DEF Proceed, LoopTyped, LoopTypeOK
    <2>2. DOMAIN calls' = DOMAIN calls
          /\ \A k \in DOMAIN calls : calls'[k] = IF k = i THEN call ELSE calls[k]
        BY <2>1
    <2>3. Owes(call, r) /\ ~Owes(calls[i], r)
        BY <1>1, <1>2, <1>4 DEF Owes
    <2>4. Owing(r)' = Owing(r) \cup {i} /\ i \notin Owing(r)
        BY <2>2, <2>3 DEF Owing
    <2>5. Cardinality(Owing(r)') = Cardinality(Owing(r)) + 1
        BY <2>4, OwingFinite, FS_AddElement
    <2>6. docs'[r] = docs[r] + 1 /\ On(r)' = On(r) /\ On(r) \in Nat
        BY <1>1, <1>4 DEF On
    <2>. QED BY <2>5, <2>6, OwingFinite DEF Balanced
<1>. QED BY <1>3, <1>4

\* A fresh save finds the task proposed: of an acceptance, it puts the document that
\* was owed for on record.
LEMMA SaveTaskBalance ==
    ASSUME LoopTyped, NEW i \in DOMAIN calls, SaveTask(i),
           NEW r \in Refs \ torn', Balanced(r)
    PROVE  Balanced(r)'
<1>. DEFINE q == calls[i].ref
            status == Saved(calls[i].kind)
<1>1. /\ gaps' = [gaps EXCEPT ![q] = status] /\ q \in Refs /\ DOMAIN calls' = DOMAIN calls
      /\ calls'[i] \in Through(calls[i])
      /\ \A k \in DOMAIN calls \ {i} : /\ calls'[k].ref = calls[k].ref
                                       /\ calls'[k].made = calls[k].made /\ calls'[k].pc = calls[k].pc
    BY SaveTaskEffect
<1>2. gaps \in [Refs -> {"none", "proposed"} \cup Decided] /\ UNCHANGED docs /\ calls[i].pc = "save"
    BY DEF SaveTask, LoopTyped, LoopTypeOK
<1>3. calls[i] \in Call /\ Shaped(calls[i])
    BY CallIsCall
<1>4. calls'[i].made = calls[i].made /\ (calls[i].left = {} => calls'[i].pc = "done")
    BY <1>1, <1>2, <1>3, ThroughIsCall
<1>5. \A k \in DOMAIN calls \ {i} : Owes(calls'[k], r) <=> Owes(calls[k], r)
    BY <1>1 DEF Owes
<1>6. CASE q = r /\ calls[i].kind = "approve"
    <2>1. calls[i].fresh
        BY <1>6 DEF SaveTask
    <2>2. gaps[r] = "proposed"
        BY <1>2, <1>6, <2>1, CallIsCall DEF Fits
    <2>3. Owes(calls[i], r) /\ ~Owes(calls'[i], r)
        BY <1>2, <1>3, <1>4, <1>6 DEF Shaped, Deciding, Owes
    <2>4. Owing(r)' = Owing(r) \ {i} /\ i \in Owing(r)
        BY <1>1, <1>5, <2>3 DEF Owing
    <2>5. Cardinality(Owing(r)') = Cardinality(Owing(r)) - 1
        BY <2>4, OwingFinite, FS_RemoveElement
    <2>6. gaps'[r] = "accepted"
        BY <1>1, <1>2, <1>6 DEF Saved
    <2>7. On(r) = 0 /\ On(r)' = 1
        BY <2>2, <2>6 DEF On
    <2>. QED BY <1>2, <2>5, <2>7, OwingFinite DEF Balanced
<1>7. CASE q = r /\ calls[i].kind # "approve"
    <2>1. calls[i].fresh
        BY <1>7 DEF SaveTask
    <2>2. gaps[r] = "proposed"
        BY <1>2, <1>7, <2>1, CallIsCall DEF Fits
    <2>3. gaps'[r] # "accepted"
        BY <1>1, <1>2, <1>7 DEF Saved
    <2>4. ~Owes(calls[i], r) /\ ~Owes(calls'[i], r)
        BY <1>3, <1>4, <1>7 DEF Shaped, Owes
    <2>. QED BY <1>1, <1>2, <1>5, <2>2, <2>3, <2>4, BalanceSame
<1>8. CASE q # r
    <2>1. gaps'[r] = gaps[r]
        BY <1>1, <1>2, <1>8
    <2>2. ~Owes(calls[i], r)
        BY <1>8 DEF Owes
    <2>3. ~Owes(calls'[i], r)
        <3>1. CASE calls[i].left = {}
            BY <1>4, <3>1 DEF Owes
        <3>2. CASE calls[i].left # {}
            BY <1>3, <1>4, <3>2 DEF Shaped, Deciding, Owes
        <3>. QED BY <3>1, <3>2
    <2>. QED BY <1>1, <1>2, <1>5, <2>1, <2>2, <2>3, BalanceSame
<1>. QED BY <1>6, <1>7, <1>8

\* What the loop hears owes nothing.
LEMMA HearBalance ==
    ASSUME LoopTyped, DocumentsAccounted, NEW c \in Convs, Hear(c)
    PROVE  DocumentsAccounted'
<1>1. CASE UNCHANGED loop
    BY <1>1 DEF loop, DocumentsAccounted
<1>2. CASE Begin(Called("capture", <<"issue", c>>, {}, "messages"))
    <2>1. ~Called("capture", <<"issue", c>>, {}, "messages").made
        BY DEF Called
    <2>2. \A r \in Refs : Balanced(r) => Balanced(r)'
        BY <1>2, <2>1, BeginBalance
    <2>3. torn' = torn
        BY <1>2 DEF Begin
    <2>. QED BY <2>2, <2>3, BalancedSuffices DEF DocumentsAccounted, Balanced, On, Owing, Owes
<1>. QED BY <1>1, <1>2 DEF Hear

LEMMA LoopRestartBalance ==
    ASSUME LoopTyped, DocumentsAccounted, LoopRestart
    PROVE  DocumentsAccounted'
<1>1. ASSUME NEW r \in Refs, Balanced(r) PROVE Balanced(r)'
    <2>1. \A k \in DOMAIN calls : Owes(calls'[k], r) <=> Owes(calls[k], r)
        BY LoopRestartEffect DEF Owes
    <2>. QED BY <1>1, <2>1, LoopRestartEffect, BalanceSame
<1>2. torn' = torn
    BY LoopRestartEffect
<1>. QED BY <1>1, <1>2, BalancedSuffices DEF DocumentsAccounted, Balanced, On, Owing, Owes

LEMMA LoopNextBalance ==
    ASSUME LoopTyped, DocumentsAccounted, LoopNext
    PROVE  DocumentsAccounted'
<1>. SUFFICES ASSUME NEW r \in Refs \ torn', Balanced(r) PROVE Balanced(r)'
    <2>1. torn \subseteq torn'
        BY DEF LoopNext, LoopStep, Rate, RunBatch, Decide, Begin, FindMessages, FindTask, InsertTask,
               InsertRefused, CreateDocument, SaveTask, CallFails
    <2>2. \A r \in Refs \ torn' : Balanced(r)
        BY <2>1, BalancedSuffices
    <2>. QED BY <2>2 DEF DocumentsAccounted, Balanced, On, Owing, Owes
<1>1. ASSUME NEW i \in DOMAIN calls, FindMessages(i) \/ InsertRefused(i) \/ CallFails(i)
      PROVE  Balanced(r)'
    <2>1. calls[i].pc # "done" /\ UNCHANGED <<gaps, docs>>
        BY <1>1 DEF FindMessages, InsertRefused, CallFails, Running
    <2>2. PICK pc \in {"find", "nothing", "failed"} : Proceed(i, [calls[i] EXCEPT !.pc = pc])
        BY <1>1 DEF FindMessages, InsertRefused, CallFails
    <2>. QED BY <2>1, <2>2, PcBalance
<1>2. ASSUME NEW i \in DOMAIN calls, FindTask(i) \/ InsertTask(i) \/ CreateDocument(i) \/ SaveTask(i)
      PROVE  Balanced(r)'
    BY <1>2, FindTaskBalance, InsertTaskBalance, CreateDocumentBalance, SaveTaskBalance
<1>3. ASSUME NEW kind, NEW q, NEW more, NEW pc, Begin(Called(kind, q, more, pc))
      PROVE  Balanced(r)'
    <2>1. ~Called(kind, q, more, pc).made
        BY DEF Called
    <2>. QED BY <1>3, <2>1, BeginBalance
<1>4. ASSUME (\E c \in Convs : Rate(c)) \/ RunBatch
             \/ (\E kind \in {"approve", "dismiss"}, q \in Refs : Decide(kind, q))
      PROVE  Balanced(r)'
    BY <1>3, <1>4 DEF Rate, RunBatch, Decide
<1>. QED BY <1>1, <1>2, <1>4 DEF LoopNext, LoopStep
=============================================================================
