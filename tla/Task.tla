-------------------------------- MODULE Task --------------------------------
(***************************************************************************)
(* src/task/task.c: one task and the future attached to it, from the time  *)
(* it is queued until both are destroyed.  A worker executes and destroys  *)
(* the task, or fq_scheduler_cancel_all destroys it unexecuted; clients    *)
(* cancel it, wait for its future, and destroy the future in the end.      *)
(*                                                                         *)
(* A thread of Future makes one call to the future.  Where the program     *)
(* makes a second one, another thread takes over: destroyer runs           *)
(* fq_task_destroy after the executor, closer runs fq_future_destroy after *)
(* the owner's wait.  tpc says where a thread is outside the future.       *)
(***************************************************************************)
EXTENDS Future

CONSTANTS executor,    \* fq_task_execute
          destroyer,   \* fq_task_destroy
          closer,      \* fq_future_destroy
          owner,       \* the wait that fq_future_destroy follows
          Cancellers,  \* fq_task_cancel
          Careful      \* nothing is destroyed while another thread may use it

ASSUME CallerAssumption ==
  /\ executor \in Threads /\ Role[executor] = "set_result"
  /\ Cancellers \cup {destroyer, closer} \subseteq {t \in Threads : Role[t] = "cancel"}
  /\ destroyer \notin Cancellers /\ closer \notin Cancellers /\ destroyer # closer
  /\ owner \in Waiters
  /\ Careful \in BOOLEAN

VARIABLES task_canceled, executed,  \* the task
          was_canceled,             \* the local of fq_task_execute
          ran,                      \* the callback has run
          tpc,
          task_freed, future_freed

taskVars == <<task_canceled, executed, was_canceled, ran, tpc, task_freed, future_freed>>
allVars == <<vars, taskVars>>

TaskPC == {"x_check", "x_run", "x_store", "x_set", "x_completion", "c_check", "c_cas",
           "d_check", "d_free", "f_free", "off", "call", "over"}

TaskTypeOK ==
  /\ task_canceled \in BOOLEAN /\ executed \in BOOLEAN /\ was_canceled \in BOOLEAN
  /\ ran \in BOOLEAN /\ task_freed \in BOOLEAN /\ future_freed \in BOOLEAN
  /\ tpc \in [Threads -> TaskPC]

\* Where the work of each thread begins; "call" is a call to the future.
Start(t) == CASE t = executor              -> "x_check"
              [] t \in Cancellers          -> "c_check"
              [] t \in {destroyer, closer} -> "off"
              [] OTHER                     -> "call"

TaskInit ==
  /\ Init
  /\ task_canceled = FALSE /\ executed = FALSE /\ was_canceled = FALSE /\ ran = FALSE
  /\ task_freed = FALSE /\ future_freed = FALSE
  /\ tpc = [t \in Threads |-> Start(t)]

To(t, l) == tpc' = [tpc EXCEPT ![t] = l]

-----------------------------------------------------------------------------
(* fq_task_execute *)

\* fq_task_is_canceled
ExecCheck ==
  /\ tpc[executor] = "x_check"
  /\ was_canceled' = task_canceled
  /\ To(executor, IF task_canceled THEN "x_store" ELSE "x_run")
  /\ UNCHANGED <<vars, task_canceled, executed, ran, task_freed, future_freed>>

ExecRun ==
  /\ tpc[executor] = "x_run"
  /\ ran' = TRUE
  /\ To(executor, "x_store")
  /\ UNCHANGED <<vars, task_canceled, executed, was_canceled, task_freed, future_freed>>

ExecStore ==
  /\ tpc[executor] = "x_store"
  /\ executed' = TRUE
  /\ To(executor, "x_set")
  /\ UNCHANGED <<vars, task_canceled, was_canceled, ran, task_freed, future_freed>>

\* Mutant of ExecSet: the status does not depend on was_canceled.
ExecSet_AlwaysOk ==
  /\ tpc[executor] = "x_set"
  /\ SetEntry(executor, "FQ_OK")
  /\ To(executor, "call")
  /\ UNCHANGED <<task_canceled, executed, was_canceled, ran, task_freed, future_freed>>

ExecSet ==
  /\ tpc[executor] = "x_set"
  /\ SetEntry(executor, IF was_canceled THEN "FQ_ERR_CANCELED" ELSE "FQ_OK")
  /\ To(executor, "call")
  /\ UNCHANGED <<task_canceled, executed, was_canceled, ran, task_freed, future_freed>>

\* The task's own completion function, and the worker goes on to fq_task_destroy.
ExecCompletion ==
  /\ tpc[executor] = "x_completion"
  /\ tpc' = [tpc EXCEPT ![executor] = "over", ![destroyer] = "d_check"]
  /\ UNCHANGED <<vars, task_canceled, executed, was_canceled, ran, task_freed, future_freed>>

\* fq_scheduler_cancel_all took the task from its queue before a worker did.
Drained ==
  /\ tpc[executor] = "x_check"
  /\ tpc' = [tpc EXCEPT ![executor] = "over", ![destroyer] = "d_check"]
  /\ UNCHANGED <<vars, task_canceled, executed, was_canceled, ran, task_freed, future_freed>>

-----------------------------------------------------------------------------
(* fq_task_destroy *)

\* Mutant of DestroyCheck: a pending future is left alone.
DestroyCheck_NoCancel ==
  /\ tpc[destroyer] = "d_check"
  /\ To(destroyer, "d_free")
  /\ UNCHANGED <<vars, task_canceled, executed, was_canceled, ran, task_freed, future_freed>>

\* fq_future_is_ready(task->future), and fq_future_cancel if it is not.
DestroyCheck ==
  /\ tpc[destroyer] = "d_check"
  /\ To(destroyer, IF ready THEN "d_free" ELSE "call")
  /\ UNCHANGED <<vars, task_canceled, executed, was_canceled, ran, task_freed, future_freed>>

DestroyFree ==
  /\ tpc[destroyer] = "d_free"
  /\ Careful => \A c \in Cancellers : tpc[c] \in {"c_check", "over"}
  /\ task_freed' = TRUE
  /\ To(destroyer, "over")
  /\ UNCHANGED <<vars, task_canceled, executed, was_canceled, ran, future_freed>>

-----------------------------------------------------------------------------
(* fq_task_cancel, which is not called on a task that has been freed *)

\* FQ_ERR_BUSY, or on to the compare-and-exchange.
CancelCheck(c) ==
  /\ tpc[c] = "c_check" /\ ~task_freed
  /\ To(c, IF executed THEN "over" ELSE "c_cas")
  /\ UNCHANGED <<vars, task_canceled, executed, was_canceled, ran, task_freed, future_freed>>

\* Only the first canceller goes on to fq_future_cancel(task->future).
CancelTask(c) ==
  /\ tpc[c] = "c_cas"
  /\ task_canceled' = TRUE
  /\ To(c, IF task_canceled THEN "over" ELSE "call")
  /\ UNCHANGED <<vars, executed, was_canceled, ran, task_freed, future_freed>>

-----------------------------------------------------------------------------
(* fq_future_destroy, and the calls to the future *)

Others == Threads \ {closer}

\* fq_future_is_ready, and fq_future_cancel if it is not.
CloseCheck ==
  /\ tpc[closer] = "off" /\ tpc[owner] = "over"
  /\ Careful => task_freed /\ \A t \in Others : tpc[t] \in {"c_check", "over"}
  /\ To(closer, IF ready THEN "f_free" ELSE "call")
  /\ UNCHANGED <<vars, task_canceled, executed, was_canceled, ran, task_freed, future_freed>>

CloseFree ==
  /\ tpc[closer] = "f_free"
  /\ future_freed' = TRUE
  /\ To(closer, "over")
  /\ UNCHANGED <<vars, task_canceled, executed, was_canceled, ran, task_freed>>

FutureCall(t) == tpc[t] = "call" /\ Inside(t) /\ UNCHANGED taskVars

\* The condition wait of a call returns for another reason than a broadcast.
FutureWake(t) == tpc[t] = "call" /\ (SpuriousWake(t) \/ Expire(t)) /\ UNCHANGED taskVars

FutureReturns(t) ==
  /\ tpc[t] = "call" /\ pc[t] = "done"
  /\ To(t, CASE t = executor  -> "x_completion"
             [] t = destroyer -> "d_free"
             [] t = closer    -> "f_free"
             [] OTHER         -> "over")
  /\ UNCHANGED <<vars, task_canceled, executed, was_canceled, ran, task_freed, future_freed>>

-----------------------------------------------------------------------------

Execute == ExecCheck \/ ExecRun \/ ExecStore \/ ExecSet \/ ExecCompletion
Destroy == DestroyCheck \/ DestroyFree
Close   == CloseCheck \/ CloseFree

TaskStep(t) ==
  \/ t = executor /\ Execute
  \/ t = destroyer /\ Destroy
  \/ t = closer /\ Close
  \/ t \in Cancellers /\ CancelTask(t)
  \/ FutureCall(t) \/ FutureReturns(t)

\* Both objects are gone.
TaskFinished == task_freed /\ future_freed /\ UNCHANGED allVars

TaskNext ==
  \/ \E t \in Threads : TaskStep(t) \/ FutureWake(t)
  \/ \E c \in Cancellers : CancelCheck(c)
  \/ Drained
  \/ TaskFinished

TaskSpec == TaskInit /\ [][TaskNext]_allVars

\* Running threads keep running; nobody has to cancel.  Every holder of the future's mutex
\* gives it back within two steps, and a thread that waits for it is not passed over for
\* ever by sleepers that wake up without a broadcast.  Only a broadcast has to wake a
\* sleeper.
TaskFairSpec ==
  /\ TaskSpec
  /\ \A t \in Threads : WF_allVars(TaskStep(t)) /\ SF_allVars(Locking(t) /\ UNCHANGED taskVars)

-----------------------------------------------------------------------------
(* Correctness properties *)

\* FQ_OK is the status of a future only if the callback of its task has run, whatever
\* cancels and destroys happen meanwhile (task.c:122-177); with WaitReturnsWrittenStatus
\* it is so for what a wait returns.
OkMeansRan == "FQ_OK" \in written => ran

\* Somebody has fulfilled the future or is inside set_result, about to do it.
Fulfilling == ready \/ \E t \in Threads : pc[t] \in {"set_lock", "set_status", "set_ready"}

\* A task does not go away with its future pending, executed or not (task.c:65-75).  The
\* cancel of fq_task_destroy may return before the future is ready (future.c:187-191),
\* but only when another canceller is on its way.
FulfilledWhenFreed == task_freed => Fulfilling

\* task.h:120 says of fq_task_cancel "The task's callback will not be invoked if it hasn't
\* started yet.", and task.h:123 that it answers FQ_ERR_BUSY "if already executing": a task
\* that was cancelled with FQ_OK has not been run and will not be.
CanceledNeverRuns == task_canceled => ~ran

\* The comment at future.c:208 has set_result take care "to avoid use-after-free", and
\* examples/futures.c:40-43 destroys the future as soon as the wait returns: no thread
\* uses the future once it has been freed.
NoUseAfterFree ==
  [][future_freed => /\ UNCHANGED vars
                     /\ tpc[destroyer] = "d_check" => tpc'[destroyer] = "d_check"]_allVars
=============================================================================
