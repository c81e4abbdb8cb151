---------------------------- MODULE EscalationDesk ----------------------------
(***************************************************************************)
(* An escalation with all that subscribes to it: the chat and the console    *)
(* publish it and call the hooks (EscalationBus), the pager (AgentAlerts),   *)
(* the issue desk (IssueDesk) and the helpdesk bridge (TicketBridge) act on  *)
(* it, each in its own time, and what the issue desk sees an agent resolve   *)
(* is heard by the loop of knowledge (KnowledgeLoop).  Their interleavings   *)
(* with the conversation and among themselves are what is looked at; a       *)
(* tenant has either issues or a helpdesk (workflow_mode).                  *)
(***************************************************************************)
EXTENDS AgentAlerts, IssueDesk, TicketBridge, KnowledgeLoop

vars == <<bus, alerts, desk, bridge, loop>>

TypeOK == BusTypeOK /\ AlertsTypeOK /\ DeskTypeOK /\ BridgeTypeOK /\ LoopTypeOK

Init == BusInit /\ AlertsInit /\ DeskInit /\ BridgeInit /\ LoopInit

\* A resolution is published by a call of the issue desk and heard by a handler.
Resolution == \E j \in Callers : PublishResolved(j) /\ Hear(jobs[j].conv)

\* They are one process.
Restart == BusRestart /\ AlertsRestart /\ DeskRestart /\ BridgeRestart /\ LoopRestart

Next ==
    \/ BusNext /\ UNCHANGED <<alerts, desk, bridge, loop>>
    \/ AlertsNext /\ UNCHANGED <<desk, bridge, loop>>
    \/ DeskNext /\ UNCHANGED <<alerts, bridge, loop>>
    \/ BridgeNext /\ UNCHANGED <<alerts, desk, loop>>
    \/ LoopNext /\ UNCHANGED <<alerts, desk, bridge>>
    \/ Resolution /\ UNCHANGED <<alerts, bridge>>
    \/ Restart

Spec == Init /\ [][Next]_vars

\* An awaited call is answered or fails: while a subscriber has a handler that can
\* take a step, one does.
Fairness ==
    /\ WF_vars((\E i \in Tasks : RingStep(i)) /\ UNCHANGED <<desk, bridge, loop>>)
    /\ WF_vars(((\E i \in Tasks : ReadIssue(i)) \/ (\E j \in Callers : JobStep(j)))
                   /\ UNCHANGED <<alerts, bridge, loop>>)
    /\ WF_vars((\E i \in Tasks : RelayStep(i)) /\ UNCHANGED <<alerts, desk, loop>>)
    /\ WF_vars(Resolution /\ UNCHANGED <<alerts, bridge>>)
    /\ WF_vars((\E i \in DOMAIN calls : LoopStep(i)) /\ UNCHANGED <<alerts, desk, bridge>>)
FairSpec == Spec /\ Fairness

(***************************************************************************)
(* Properties of the composition.                                           *)
(***************************************************************************)
\* An issue credited to an agent comes to have its proposal in the loop, however
\* often it is reopened and resolved meanwhile, unless its conversation has no
\* answer or question to propose, a call on the issue saved over another or was cut
\* off, or every handler that heard of it was.
ResolutionProposed ==
    []<>("knowledge" \in setup.parts =>
            \A c \in Convs :
                issues[c].tier = "agent" =>
                    \/ c \in stale \cup cut
                    \/ gaps[<<"issue", c>>] # "none"
                    \/ \E i \in DOMAIN calls :
                           calls[i].ref = <<"issue", c>> /\ calls[i].pc \in {"nothing", "failed"})
=============================================================================
