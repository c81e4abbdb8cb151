---------------------------- MODULE MCConversation ----------------------------
(* Small instances of Conversation for TLC. *)
EXTENDS Conversation, TLC

CONSTANTS a1, a2, r1, r2, sweeper, nobody

One == {1}
Two == 1..2

\* Agents are alike, and so are requests; only runs of invariants use this.
Alike == Permutations(Agents) \cup Permutations(Requests)
=============================================================================
