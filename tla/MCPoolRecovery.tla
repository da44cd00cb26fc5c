--------------------------- MODULE MCPoolRecovery ---------------------------
(* Instances of PoolRecovery for TLC *)
EXTENDS PoolRecovery

CONSTANTS t1, t2, k1, k2

AllHandlers == {Wired}
=============================================================================
