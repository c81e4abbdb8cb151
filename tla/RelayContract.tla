---------------------------- MODULE RelayContract ----------------------------
(***************************************************************************)
(* What the outbound relay promises whatever else happens, without any of   *)
(* its tables: something said to the customer may be queued, something      *)
(* queued may be accepted by the provider any number of times, and the      *)
(* state the console shows claims a delivery only after an acceptance.      *)
(* (doc of channel-outbox.entity.ts and messenger-outbox.service.ts)        *)
(***************************************************************************)
EXTENDS Integers

CONSTANT Messages

VARIABLES
    sayable,  \* messages persisted for the customer to read
    claim,    \* what the console shows of each
    copies    \* how often the provider accepted each

contractVars == <<sayable, claim, copies>>

Claims == {"none", "pending", "sent", "unconfirmed", "failed"}

ContractInit ==
    /\ sayable = {}
    /\ claim = [m \in Messages |-> "none"]
    /\ copies = [m \in Messages |-> 0]

\* Chat and agent code persist a message; they know nothing of channels.
Say(m) ==
    /\ m \notin sayable
    /\ sayable' = sayable \cup {m}
    /\ UNCHANGED <<claim, copies>>

Enqueue(m) ==
    /\ m \in sayable /\ claim[m] = "none"
    /\ claim' = [claim EXCEPT ![m] = "pending"]
    /\ UNCHANGED <<sayable, copies>>

Accept(m) ==
    /\ claim[m] # "none"
    /\ copies' = [copies EXCEPT ![m] = @ + 1]
    /\ UNCHANGED <<sayable, claim>>

\* Retrying and giving up need no proof; a delivery does.
Report(m, status) ==
    /\ claim[m] # "none"
    /\ status \in {"sent", "unconfirmed"} => copies[m] > 0
    /\ claim' = [claim EXCEPT ![m] = status]
    /\ UNCHANGED <<sayable, copies>>

ContractNext ==
    \E m \in Messages :
        \/ Say(m) \/ Enqueue(m) \/ Accept(m)
        \/ \E status \in Claims \ {"none"} : Report(m, status)

Spec == ContractInit /\ [][ContractNext]_contractVars

=============================================================================
