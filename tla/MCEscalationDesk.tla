--------------------------- MODULE MCEscalationDesk ---------------------------
(***************************************************************************)
(* Small situations of EscalationDesk for TLC.                              *)
(***************************************************************************)
EXTENDS EscalationDesk

CONSTANTS c1, c2, a1, a2, t1, t2

MCAudiences == {{a1, a2}, {NoAgent}}

Look(parts, cs, reasons, moves, limit, bound, sent) ==
    [parts |-> parts, convs |-> cs, reasons |-> reasons, moves |-> moves, limit |-> limit,
     bound |-> bound, notices |-> sent]

Asked == {"user_request"}
Both == {"user_request", "low_confidence"}

\* The pager: escalations and picks of a category at once; agents acknowledging
\* meanwhile; the sweep beside them, with errors and restarts; two conversations.
Paging ==
    { Look({"alerts"}, {c1}, Both, {"pick"}, 3, 0, 0),
      Look({"alerts"}, {c1}, Asked, {"pick", "ack"}, 2, 0, 0),
      Look({"alerts"}, {c1}, Asked, {"sweep", "ack", "accept", "handBack"}, 1, 0, 0),
      Look({"alerts"}, {c1}, Asked, {"pick", "sweep", "error", "restart"}, 2, 1, 0),
      Look({"alerts"}, {c1, c2}, Asked, {"sweep"}, 2, 0, 0),
      Look({"alerts", "issues"}, {c1}, Asked, {"pick", "accept"}, 2, 0, 0) }

\* The issue desk: three calls on one issue; a conversation that ends beside the
\* console; the console beside an accept; calls that fail; a race for a number.
Filing ==
    { Look({"issues"}, {c1}, Asked, {"accept", "end", "leave"}, 3, 0, 0),
      Look({"issues"}, {c1}, Asked, {"end", "transition"}, 2, 2, 0),
      Look({"issues"}, {c1}, Asked, {"end", "transition", "file"}, 2, 1, 0),
      Look({"issues"}, {c1}, Asked, {"accept", "assign", "transition"}, 2, 1, 0),
      Look({"issues"}, {c1}, Asked, {"transition"}, 2, 3, 0),
      Look({"issues"}, {c1}, Asked, {"memo", "transition", "error"}, 1, 3, 0),
      Look({"issues"}, {c1, c2}, Asked, {"file", "error", "restart"}, 2, 1, 0) }

\* The bridge: more messages than one call carries and a helpdesk that does not
\* answer; tickets closed and opened between escalations; replies in any order and
\* twice; a restart anywhere.
Bridging ==
    { Look({"tickets"}, {c1}, Asked, {"say", "close", "lose"}, 2, 2, 1),
      Look({"tickets"}, {c1}, Asked, {"say", "lose", "guest"}, 3, 2, 0),
      Look({"tickets"}, {c1}, Asked, {"say", "lose", "restart"}, 3, 2, 0),
      Look({"tickets"}, {c1}, Asked, {"close"}, 2, 0, 3),
      Look({"tickets"}, {c1}, Asked, {"say", "close"}, 2, 1, 2),
      Look({"tickets"}, {c1}, Asked, {"close", "reply", "redeliver"}, 2, 1, 2),
      Look({"tickets"}, {c1}, Asked, {"reply", "redeliver"}, 1, 1, 3),
      Look({"tickets"}, {c1}, Asked, {"reply", "redeliver", "restart"}, 1, 2, 2),
      Look({"tickets"}, {c1, c2}, Asked, {"reply"}, 2, 0, 1) }

\* The loop: an issue resolved, reopened and resolved again beside the console's
\* decisions, and with failures; ratings beside decisions; a batch over two topics
\* beside them, with errors and restarts.
Learning ==
    { Look({"issues", "knowledge"}, {c1}, Asked, {"transition", "approve", "dismiss"}, 1, 4, 0),
      Look({"issues", "knowledge"}, {c1}, Asked, {"transition", "error", "restart"}, 1, 3, 0),
      Look({"knowledge"}, {c1}, {}, {"rate", "approve", "dismiss"}, 0, 4, 0),
      Look({"knowledge"}, {c1}, {}, {"batch", "approve", "dismiss"}, 0, 4, 0),
      Look({"knowledge"}, {c1}, {}, {"batch", "approve", "error", "restart"}, 0, 4, 0),
      Look({"knowledge"}, {c1}, {}, {"batch", "rate"}, 0, 3, 0) }

MCSetups == Paging \cup Filing \cup Bridging \cup Learning
=============================================================================
