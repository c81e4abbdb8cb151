-------------------------- MODULE MCMessengerOutbox --------------------------
(* Small instances of MessengerOutbox for TLC. *)
EXTENDS MessengerOutbox, TLC

CONSTANTS t1, t2, c1, c2, f1, worker, none

OneThread == {t1}
TwoThreads == {t1, t2}
OneConv == {c1}
TwoConvs == {c1, c2}
OneEach == (c1 :> t1) @@ (c2 :> t2)
OwnedByT1 == [c \in Convs |-> t1]
NoFlusher == {}
OneFlusher == {f1}
Two == 1..2
Three == 1..3

=============================================================================
