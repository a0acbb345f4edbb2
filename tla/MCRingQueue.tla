----------------------------- MODULE MCRingQueue -----------------------------
(***************************************************************************)
(* Instances of RingQueue for TLC.  A ring of 4 slots holds 3 tasks, so a  *)
(* few pushes fill it and its indices wrap; two threads, each of which may *)
(* push, pop, try and drain, meet at every step.                           *)
(***************************************************************************)
EXTENDS RingQueue

CONSTANTS t1, t2, k1, k2

TwoThreads == {t1, t2}
TwoTasks == {k1, k2}
=============================================================================
