--------------------------- MODULE MCRingQueueSize ---------------------------
(***************************************************************************)
(* Two threads that push and pop and one that asks for the size of a ring  *)
(* of 4 slots: enough for the tail to lap the head an observer has read.   *)
(***************************************************************************)
EXTENDS RingQueueSize

CONSTANTS t1, t2, o1, k1

TwoThreads == {t1, t2}
OneObserver == {o1}
OneTask == {k1}
=============================================================================
