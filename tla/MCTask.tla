------------------------------- MODULE MCTask -------------------------------
(***************************************************************************)
(* One task with a future: its executor and its destruction, a client that *)
(* cancels the task, two that wait for the future, one of them with a      *)
(* timeout, one that registers a callback, and the destruction of the      *)
(* future.                                                                 *)
(***************************************************************************)
EXTENDS Task

CONSTANTS canceller, waiter, timed, registrar

AllThreads == {executor, destroyer, closer, canceller, waiter, timed, registrar}
FewThreads == {executor, destroyer, closer, waiter}
CancelThreads == {executor, destroyer, closer, canceller, waiter}
OneCanceller == {canceller}
NoCanceller == {}

RoleOf(t) == CASE t = executor  -> "set_result"
               [] t = waiter    -> "wait"
               [] t = timed     -> "wait_timeout"
               [] t = registrar -> "on_complete"
               [] OTHER         -> "cancel"

AllRoles == [t \in Threads |-> RoleOf(t)]
=============================================================================
