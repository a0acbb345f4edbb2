----------------------------- MODULE MCScheduler -----------------------------
(***************************************************************************)
(* Instances of Scheduler for TLC: one or two workers, one client, and up  *)
(* to three tasks, some of which are submitted by a callback.              *)
(* Queues that hold one or two tasks overflow at once.                     *)
(***************************************************************************)
EXTENDS Scheduler

CONSTANTS c1, k1, k2, k3

OneClient == {c1}
TwoTasks == {k1, k2}
ThreeTasks == {k1, k2, k3}
FirstTask == {k1}
LastTasks == {k2, k3}
NoTask == {}

NoSpawns == [k \in Tasks |-> {}]

\* The callback of k1 may submit k3, which submits nothing.
Nested == [k \in Tasks |-> IF k = k1 THEN {k3} ELSE {}]

\* k1 submits k2, and k2 submits k3.
Chain == [k \in Tasks |-> (IF k = k1 THEN {k2} ELSE IF k = k2 THEN {k3} ELSE {}) \cap Tasks]

AllOps == ClientOps
NoCancel == ClientOps \ {"cancel_all"}
NoShutdown == ClientOps \ {"shutdown"}
=============================================================================
