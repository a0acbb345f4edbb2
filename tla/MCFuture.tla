------------------------------ MODULE MCFuture ------------------------------
(***************************************************************************)
(* One future with a worker that fulfils it, a canceller, two waiters, one *)
(* of them with a timeout, and a thread that registers a callback.         *)
(***************************************************************************)
EXTENDS Future

CONSTANTS setter, canceller, waiter, timed, registrar

AllThreads == {setter, canceller, waiter, timed, registrar}

RoleOf(t) == CASE t = setter    -> "set_result"
               [] t = canceller -> "cancel"
               [] t = waiter    -> "wait"
               [] t = timed     -> "wait_timeout"
               [] t = registrar -> "on_complete"

Roles5 == [t \in Threads |-> RoleOf(t)]
=============================================================================
