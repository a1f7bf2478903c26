------------------------------ MODULE MCOutbox ------------------------------
(* Small instances of Outbox: one or two workers deliver one message.      *)
EXTENDS Outbox, TLC

CONSTANTS w1, w2, k1, c1, c2, c3

OneWorker  == {w1}
TwoWorkers == {w1, w2}
TwoCalls   == {c1, c2}
ThreeCalls == {c1, c2, c3}
=============================================================================
