-------------------------- MODULE MCMessengerIngest --------------------------
(* Small instances of MessengerIngest for TLC. *)
EXTENDS MessengerIngest

CONSTANTS tick, other

Situation(source, mode, notice, handlers, limit, events, bound) ==
    [source |-> source, mode |-> mode, notice |-> notice, handlers |-> handlers,
     limit |-> limit, events |-> events, bound |-> bound]
Alone == {tick}
Both == {tick, other}

\* Two handlers on two messages, or on one that is delivered again, withheld or
\* fails; or one handler and up to two disturbances of every kind.
Overlaps ==
    {Situation("webhook", "auto", TRUE, Both, 2, {}, 0),
     Situation("inbox", "off", TRUE, Both, 2, {}, 0),
     Situation("inbox", "off", TRUE, Both, 1, {"error"}, 1),
     Situation("stream", "off", FALSE, Both, 1, {"error", "restart"}, 1),
     Situation("webhook", "auto", TRUE, Both, 1, {"redelivery", "version"}, 1),
     Situation("mailbox", "approve", TRUE, Both, 1, {"restart"}, 1),
     Situation("webhook", "off", TRUE, Both, 1, {"redelivery", "mapLost", "take"}, 2)}
Disturbed ==
    {Situation("webhook", "auto", TRUE, Alone, 2, Kinds, 2),
     Situation("mailbox", "off", TRUE, Alone, 2, Kinds, 2),
     Situation("inbox", "approve", TRUE, Alone, 2, Kinds, 2)}
Situations == Overlaps \cup Disturbed
=============================================================================
