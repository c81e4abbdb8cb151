----------------------------- MODULE KnowledgeLoop -----------------------------
(***************************************************************************)
(* The closed loop of knowledge (KnowledgeGapService): what an agent         *)
(* resolved, an answer an agent rated wrong, and the questions the daily     *)
(* statistics say are answered badly are proposed as tasks; a person accepts *)
(* one, which makes a document of it, or dismisses it.  Each call looks the   *)
(* task up, decides on what it found, and saves its copy awaits later.       *)
(***************************************************************************)
EXTENDS EscalationBus

CONSTANTS Topics    \* the clusters and intents of the statistics

VARIABLES
    gaps,       \* knowledge_gap_tasks: the status of the task of each reference
    docs,       \* how many documents were made of each task
    calls,      \* the handlers, batches and console requests so far, oldest first
    torn        \* observer: tasks saved over a status the call had not read
loop == <<gaps, docs, calls, torn>>

\* uk_gap: an issue, a rated answer (one of each conversation), or a topic.
Refs == ({"issue", "answer"} \X Convs) \cup ({"topic"} \X Topics)
Decided == {"accepted", "dismissed"}

\* ref: the task in hand; left: those a batch has yet to come to.  fresh: the task
\* has the status the call read.  made: a document was made of it.
Call == [kind : {"capture", "rating", "batch", "approve", "dismiss"}, ref : Refs,
         left : SUBSET Refs,
         pc : {"messages", "find", "insert", "create", "save", "done", "nothing", "failed"},
         fresh : BOOLEAN, made : BOOLEAN]
Called(kind, r, more, pc) ==
    [kind |-> kind, ref |-> r, left |-> more, pc |-> pc, fresh |-> TRUE, made |-> FALSE]
Running(i) == calls[i].pc \notin {"done", "nothing", "failed"}

LoopTypeOK ==
    /\ gaps \in [Refs -> {"none", "proposed"} \cup Decided]
    /\ docs \in [Refs -> Nat]
    /\ calls \in Seq(Call)
    /\ torn \subseteq Refs

LoopInit ==
    /\ gaps = [r \in Refs |-> "none"]
    /\ docs = [r \in Refs |-> 0]
    /\ calls = <<>>
    /\ torn = {}

(***************************************************************************)
(* What reaches the service.                                                *)
(***************************************************************************)
Begin(call) == calls' = Append(calls, call) /\ UNCHANGED <<gaps, docs, torn>>

\* ISSUE_RESOLVED of the issue of c.
Hear(c) ==
    IF "knowledge" \in setup.parts
    THEN Begin(Called("capture", <<"issue", c>>, {}, "messages")) ELSE UNCHANGED loop

\* AnswerRatingService.rate, of an answer of the AI that is not accurate: the
\* rating replaces the rater's last one, and ANSWER_RATED is published.
Rate(c) ==
    /\ "knowledge" \in setup.parts /\ c \in setup.convs /\ Spend("rate")
    /\ Begin(Called("rating", <<"answer", c>>, {}, "messages"))
    /\ UNCHANGED <<setup, convs, picking, events>>

\* runBatch: one at a time; it proposes the topics over the thresholds.
RunBatch ==
    /\ "knowledge" \in setup.parts /\ Spend("batch")
    /\ \A i \in DOMAIN calls : calls[i].kind = "batch" => ~Running(i)
    /\ \E over \in SUBSET ({"topic"} \X Topics) : \E first \in over :
           Begin(Called("batch", first, over \ {first}, "find"))
    /\ UNCHANGED <<setup, convs, picking, events>>

\* requireProposed, then the document of an acceptance, then the save.
Decide(kind, r) ==
    /\ Spend(kind) /\ gaps[r] = "proposed"
    /\ Begin(Called(kind, r, {}, IF kind = "approve" THEN "create" ELSE "save"))
    /\ UNCHANGED <<setup, convs, picking, events>>

(***************************************************************************)
(* The steps of a call.                                                     *)
(***************************************************************************)
\* Through with the task in hand: a batch goes on to another.
Through(call) ==
    IF call.left = {} THEN {[call EXCEPT !.pc = "done"]}
    ELSE {[call EXCEPT !.pc = "find", !.ref = r, !.left = @ \ {r}] : r \in call.left}
Proceed(i, call) == calls' = [calls EXCEPT ![i] = call]

\* The answer and the question it answers; there may be none.
FindMessages(i) ==
    /\ calls[i].pc = "messages"
    /\ \E pc \in {"find", "nothing"} : Proceed(i, [calls[i] EXCEPT !.pc = pc])
    /\ UNCHANGED <<bus, gaps, docs, torn>>

\* Mutant: what the handler finds is proposed again, whatever was decided.
FindAny(i) ==
    /\ calls[i].pc = "find"
    /\ Proceed(i, [calls[i] EXCEPT !.pc = IF gaps[calls[i].ref] = "none" THEN "insert" ELSE "save",
                                   !.fresh = TRUE])
    /\ UNCHANGED <<bus, gaps, docs, torn>>

\* upsertProposal: a proposed task is refreshed, a decided one is left alone.
FindTask(i) ==
    LET call == calls[i]
        status == gaps[call.ref]
    IN  /\ call.pc = "find"
        /\ \/ status = "none" /\ Proceed(i, [call EXCEPT !.pc = "insert"])
           \/ status = "proposed" /\ Proceed(i, [call EXCEPT !.pc = "save", !.fresh = TRUE])
           \/ status \in Decided /\ \E next \in Through(call) : Proceed(i, next)
        /\ UNCHANGED <<bus, gaps, docs, torn>>

\* Mutant: the row is created and never saved.
InsertNothing(i) ==
    /\ calls[i].pc = "insert" /\ gaps[calls[i].ref] = "none"
    /\ \E next \in Through(calls[i]) : Proceed(i, next)
    /\ UNCHANGED <<bus, gaps, docs, torn>>

InsertTask(i) ==
    LET call == calls[i]
    IN  /\ call.pc = "insert" /\ gaps[call.ref] = "none"
        /\ gaps' = [gaps EXCEPT ![call.ref] = "proposed"]
        /\ \E next \in Through(call) : Proceed(i, next)
        /\ UNCHANGED <<bus, docs, torn>>
\* uk_gap refuses the row: the handler, or the batch with all it has left, is over.
InsertRefused(i) ==
    /\ calls[i].pc = "insert" /\ gaps[calls[i].ref] # "none"
    /\ Proceed(i, [calls[i] EXCEPT !.pc = "failed"])
    /\ UNCHANGED <<bus, gaps, docs, torn>>

\* Mutant: the acceptance is saved before there is a document.
SaveFirst(i) ==
    /\ calls[i].pc = "create"
    /\ Proceed(i, [calls[i] EXCEPT !.pc = "save"])
    /\ UNCHANGED <<bus, gaps, docs, torn>>

CreateDocument(i) ==
    /\ calls[i].pc = "create"
    /\ docs' = [docs EXCEPT ![calls[i].ref] = @ + 1]
    /\ Proceed(i, [calls[i] EXCEPT !.pc = "save", !.made = TRUE])
    /\ UNCHANGED <<bus, gaps, torn>>

\* save() of the copy: its status with the rest, so that a refresh of a task that
\* was decided meanwhile proposes it again.
Saved(kind) ==
    CASE kind = "approve" -> "accepted" [] kind = "dismiss" -> "dismissed" [] OTHER -> "proposed"
SaveTask(i) ==
    LET call == calls[i]
        status == Saved(call.kind)
    IN  /\ call.pc = "save"
        /\ gaps' = [gaps EXCEPT ![call.ref] = status]
        /\ torn' = IF call.fresh THEN torn ELSE torn \cup {call.ref}
        /\ \E next \in Through(call) :
               calls' = [k \in DOMAIN calls |->
                            IF k = i THEN next
                            ELSE IF calls[k].ref = call.ref /\ status # gaps[call.ref]
                                 THEN [calls[k] EXCEPT !.fresh = FALSE] ELSE calls[k]]
        /\ UNCHANGED <<bus, docs>>

CallFails(i) ==
    /\ Running(i) /\ Spend("error")
    /\ Proceed(i, [calls[i] EXCEPT !.pc = "failed"])
    /\ UNCHANGED <<setup, convs, picking, events, gaps, docs, torn>>

LoopRestart ==
    /\ calls' = [i \in DOMAIN calls |->
                    IF Running(i) THEN [calls[i] EXCEPT !.pc = "failed"] ELSE calls[i]]
    /\ UNCHANGED <<gaps, docs, torn>>

LoopStep(i) ==
    \/ FindMessages(i) \/ FindTask(i) \/ InsertTask(i) \/ InsertRefused(i)
    \/ CreateDocument(i) \/ SaveTask(i)
LoopNext ==
    \/ \E c \in Convs : Rate(c)
    \/ RunBatch
    \/ \E kind \in {"approve", "dismiss"}, r \in Refs : Decide(kind, r)
    \/ \E i \in DOMAIN calls : LoopStep(i) \/ CallFails(i)

(***************************************************************************)
(* Properties.                                                              *)
(***************************************************************************)
\* "Decided rows stay decided": however the handlers, the batch and the console
\* overlap, an accepted or dismissed task is never proposed or decided again,
\* unless a call saves over a decision taken after it had read the task.
DecidedStays ==
    [][\A r \in Refs \ torn' : gaps[r] \in Decided => gaps'[r] = gaps[r]]_<<gaps, torn>>

\* Each document the loop made is the document of the acceptance on record, or of an
\* acceptance whose save is still to come or was lost, whatever decisions overlap,
\* unless one was saved over another.
DocumentsAccounted ==
    \A r \in Refs \ torn :
        docs[r] = (IF gaps[r] = "accepted" THEN 1 ELSE 0)
                    + Cardinality({i \in DOMAIN calls :
                          calls[i].ref = r /\ calls[i].made /\ calls[i].pc # "done"})
=============================================================================
