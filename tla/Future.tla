------------------------------- MODULE Future -------------------------------
(***************************************************************************)
(* src/future/future.c: one future and the threads that use it.  Every     *)
(* thread makes one call, which Role names: a worker fulfils the future,   *)
(* others cancel it, wait for it with or without a timeout, or register a  *)
(* completion callback.  The spin phases of the waits read ready, and all  *)
(* returns read status, without the mutex; those reads and the stores that *)
(* they can see are steps of their own.                                    *)
(*                                                                         *)
(* fq_future_destroy is not called here: the owner calls it when every     *)
(* other thread is done.                                                   *)
(***************************************************************************)
EXTENDS Naturals, FiniteSets

CONSTANTS Threads, Role, NULL

Roles == {"set_result", "cancel", "wait", "wait_timeout", "on_complete"}

ASSUME RoleAssumption == Role \in [Threads -> Roles]
ASSUME NullAssumption == NULL \notin Threads
ASSUME ThreadAssumption == IsFiniteSet(Threads)

VARIABLES ready, canceled, status, callback,  \* the future
          mutex,    \* who holds it, or NULL
          pc,       \* where each thread is
          result,   \* the status set_result was given, or a wait returned
          cb,       \* set_result has captured a callback
          sets,     \* history: the threads that have stored ready
          written,  \* history: the statuses that set_result was given
          calls     \* history: the threads that have invoked the callback

vars == <<ready, canceled, status, callback, mutex, pc, result, cb, sets, written, calls>>

Statuses == {"FQ_OK", "FQ_ERR_CANCELED"}

Waiters == {t \in Threads : Role[t] \in {"wait", "wait_timeout"}}

\* The pcs at which a thread holds the mutex.
LockedPC == {"set_status", "set_ready", "set_unlock", "wait_check", "reg_check"}

SetPC == {"set_lock", "set_status", "set_ready", "set_unlock", "set_call"}
WaitPC == {"wait_spin", "wait_lock", "wait_check", "wait_sleep", "wait_status", "done"}

\* Where the call of each role can be.
RolePC == [set_result |-> SetPC \cup {"set_entry", "done"},
           cancel |-> SetPC \cup {"cancel_cas", "done"},
           wait |-> WaitPC,
           wait_timeout |-> WaitPC \cup {"wait_expired"},
           on_complete |-> {"reg_lock", "reg_check", "reg_call", "done"}]

TypeOK ==
  /\ ready \in BOOLEAN /\ canceled \in BOOLEAN /\ callback \in BOOLEAN
  /\ status \in Statuses
  /\ mutex \in Threads \cup {NULL}
  /\ pc \in [Threads -> UNION {RolePC[r] : r \in Roles}]
  /\ \A t \in Threads : pc[t] \in RolePC[Role[t]]
  /\ result \in [Threads -> Statuses \cup {"none", "FQ_ERR_TIMEOUT"}]
  /\ \A t \in Threads : pc[t] \in SetPC => result[t] \in Statuses
  /\ cb \in [Threads -> BOOLEAN]
  /\ sets \subseteq Threads /\ calls \subseteq Threads
  /\ written \subseteq Statuses

\* Where the call of each role begins.
Entry == [set_result |-> "set_entry", cancel |-> "cancel_cas", wait |-> "wait_spin",
          wait_timeout |-> "wait_spin", on_complete |-> "reg_lock"]

\* fq_future_create.
Init ==
  /\ ready = FALSE /\ canceled = FALSE /\ callback = FALSE
  /\ status = "FQ_OK"
  /\ mutex = NULL
  /\ pc = [t \in Threads |-> Entry[Role[t]]]
  /\ result = [t \in Threads |-> "none"]
  /\ cb = [t \in Threads |-> FALSE]
  /\ sets = {} /\ written = {} /\ calls = {}

Goto(t, l) == pc' = [pc EXCEPT ![t] = l]

Lock(t) == mutex = NULL /\ mutex' = t

\* fq_mutex_lock at l leads to m.
Acquire(t, l, m) ==
  /\ pc[t] = l
  /\ Lock(t)
  /\ Goto(t, m)
  /\ UNCHANGED <<ready, canceled, status, callback, result, cb, sets, written, calls>>

-----------------------------------------------------------------------------
(* fq_future_cancel and fq_future_set_result *)

\* The compare-and-exchange lets one canceller through, whether or not the
\* future has been fulfilled.
CancelCas(t) ==
  /\ pc[t] = "cancel_cas"
  /\ canceled' = TRUE
  /\ IF canceled
     THEN Goto(t, "done") /\ UNCHANGED result
     ELSE Goto(t, "set_lock") /\ result' = [result EXCEPT ![t] = "FQ_ERR_CANCELED"]
  /\ UNCHANGED <<ready, status, callback, mutex, cb, sets, written, calls>>

\* fq_future_set_result(future, st)
SetEntry(t, st) ==
  /\ pc[t] = "set_entry"
  /\ result' = [result EXCEPT ![t] = st]
  /\ Goto(t, "set_lock")
  /\ UNCHANGED <<ready, canceled, status, callback, mutex, cb, sets, written, calls>>

\* Mutant of SetLock: set_result does not take the mutex.
SetLock_Unlocked(t) ==
  /\ pc[t] = "set_lock"
  /\ Goto(t, "set_status")
  /\ UNCHANGED <<ready, canceled, status, callback, mutex, result, cb, sets, written, calls>>

SetLock(t) == Acquire(t, "set_lock", "set_status")

\* Mutant of SetStatus: ready is stored before the status.
SetStatus_ReadyFirst(t) ==
  /\ pc[t] = "set_status"
  /\ ready' = TRUE
  /\ Goto(t, "set_ready")
  /\ UNCHANGED <<canceled, status, callback, mutex, result, cb, sets, written, calls>>

SetStatus(t) ==
  /\ pc[t] = "set_status"
  /\ status' = result[t]
  /\ written' = written \cup {result[t]}
  /\ Goto(t, "set_ready")
  /\ UNCHANGED <<ready, canceled, callback, mutex, result, cb, sets, calls>>

SetReady(t) ==
  /\ pc[t] = "set_ready"
  /\ ready' = TRUE
  /\ sets' = sets \cup {t}
  /\ Goto(t, "set_unlock")
  /\ UNCHANGED <<canceled, status, callback, mutex, result, cb, written, calls>>

\* Mutant of SetUnlock: only one waiter is woken.
SetUnlock_Signal(t) ==
  /\ pc[t] = "set_unlock"
  /\ LET asleep == {u \in Threads : pc[u] = "wait_sleep"}
     IN IF asleep = {} THEN Goto(t, "set_call")
        ELSE \E u \in asleep : pc' = [pc EXCEPT ![t] = "set_call", ![u] = "wait_lock"]
  /\ cb' = [cb EXCEPT ![t] = callback]
  /\ mutex' = NULL
  /\ UNCHANGED <<ready, canceled, status, callback, result, sets, written, calls>>

\* Mutant of SetUnlock: nobody is woken.
SetUnlock_NoBroadcast(t) ==
  /\ pc[t] = "set_unlock"
  /\ Goto(t, "set_call")
  /\ cb' = [cb EXCEPT ![t] = callback]
  /\ mutex' = NULL
  /\ UNCHANGED <<ready, canceled, status, callback, result, sets, written, calls>>

\* Mutant of SetUnlock: the callback is captured before on_complete can have run.
SetUnlock_NoCallback(t) ==
  /\ pc[t] = "set_unlock"
  /\ pc' = [u \in Threads |-> IF u = t THEN "set_call"
                              ELSE IF pc[u] = "wait_sleep" THEN "wait_lock" ELSE pc[u]]
  /\ mutex' = NULL
  /\ UNCHANGED <<ready, canceled, status, callback, result, cb, sets, written, calls>>

\* The broadcast, the capture of the callback and the unlock.
SetUnlock(t) ==
  /\ pc[t] = "set_unlock"
  /\ pc' = [u \in Threads |-> IF u = t THEN "set_call"
                              ELSE IF pc[u] = "wait_sleep" THEN "wait_lock" ELSE pc[u]]
  /\ cb' = [cb EXCEPT ![t] = callback]
  /\ mutex' = NULL
  /\ UNCHANGED <<ready, canceled, status, callback, result, sets, written, calls>>

\* The captured callback is invoked without the mutex.
SetCall(t) ==
  /\ pc[t] = "set_call"
  /\ calls' = IF cb[t] THEN calls \cup {t} ELSE calls
  /\ Goto(t, "done")
  /\ UNCHANGED <<ready, canceled, status, callback, mutex, result, cb, sets, written>>

-----------------------------------------------------------------------------
(* fq_future_wait and fq_future_wait_timeout *)

WaitSpinHit(t) ==
  /\ pc[t] = "wait_spin" /\ ready
  /\ Goto(t, "wait_status")
  /\ UNCHANGED <<ready, canceled, status, callback, mutex, result, cb, sets, written, calls>>

\* The last of the spins did not see ready; a wait_timeout of 0 ms does not spin.
WaitSpinMiss(t) ==
  /\ pc[t] = "wait_spin"
  /\ ~ready \/ Role[t] = "wait_timeout"
  /\ Goto(t, "wait_lock")
  /\ UNCHANGED <<ready, canceled, status, callback, mutex, result, cb, sets, written, calls>>

WaitLock(t) == Acquire(t, "wait_lock", "wait_check")

\* Either way the mutex is given back: to go on, or by the condition wait.
WaitCheck(t) ==
  /\ pc[t] = "wait_check"
  /\ mutex' = NULL
  /\ Goto(t, IF ready THEN "wait_status" ELSE "wait_sleep")
  /\ UNCHANGED <<ready, canceled, status, callback, result, cb, sets, written, calls>>

\* A condition wait may return without a broadcast.
SpuriousWake(t) ==
  /\ pc[t] = "wait_sleep"
  /\ Goto(t, "wait_lock")
  /\ UNCHANGED <<ready, canceled, status, callback, mutex, result, cb, sets, written, calls>>

\* fq_condition_timedwait reports the timeout.
Expire(t) ==
  /\ pc[t] = "wait_sleep" /\ Role[t] = "wait_timeout"
  /\ Goto(t, "wait_expired")
  /\ UNCHANGED <<ready, canceled, status, callback, mutex, result, cb, sets, written, calls>>

\* It returns with the mutex, which is unlocked; ready is not read again.
WaitExpired(t) ==
  /\ pc[t] = "wait_expired"
  /\ mutex = NULL
  /\ result' = [result EXCEPT ![t] = "FQ_ERR_TIMEOUT"]
  /\ Goto(t, "done")
  /\ UNCHANGED <<ready, canceled, status, callback, mutex, cb, sets, written, calls>>

\* The status is read without the mutex.
WaitStatus(t) ==
  /\ pc[t] = "wait_status"
  /\ result' = [result EXCEPT ![t] = status]
  /\ Goto(t, "done")
  /\ UNCHANGED <<ready, canceled, status, callback, mutex, cb, sets, written, calls>>

-----------------------------------------------------------------------------
(* fq_future_on_complete *)

RegLock(t) ==
  /\ pc[t] = "reg_lock"
  /\ Lock(t)
  /\ callback' = TRUE
  /\ Goto(t, "reg_check")
  /\ UNCHANGED <<ready, canceled, status, result, cb, sets, written, calls>>

\* Mutant of RegCheck: on_complete always invokes the callback itself.
RegCheck_Always(t) ==
  /\ pc[t] = "reg_check"
  /\ mutex' = NULL
  /\ Goto(t, "reg_call")
  /\ UNCHANGED <<ready, canceled, status, callback, result, cb, sets, written, calls>>

RegCheck(t) ==
  /\ pc[t] = "reg_check"
  /\ mutex' = NULL
  /\ Goto(t, IF ready THEN "reg_call" ELSE "done")
  /\ UNCHANGED <<ready, canceled, status, callback, result, cb, sets, written, calls>>

RegCall(t) ==
  /\ pc[t] = "reg_call"
  /\ calls' = calls \cup {t}
  /\ Goto(t, "done")
  /\ UNCHANGED <<ready, canceled, status, callback, mutex, result, cb, sets, written>>

-----------------------------------------------------------------------------

SetResult(t) == SetLock(t) \/ SetStatus(t) \/ SetReady(t) \/ SetUnlock(t) \/ SetCall(t)

Wait(t) == \/ WaitSpinHit(t) \/ WaitSpinMiss(t) \/ WaitLock(t) \/ WaitCheck(t)
           \/ WaitExpired(t) \/ WaitStatus(t)

OnComplete(t) == RegLock(t) \/ RegCheck(t) \/ RegCall(t)

Inside(t) == CancelCas(t) \/ SetResult(t) \/ Wait(t) \/ OnComplete(t)

\* Beyond its own steps a sleeper may wake up, and set_result is given any status.
Step(t) == \/ Inside(t) \/ SpuriousWake(t) \/ Expire(t)
           \/ \E st \in Statuses : SetEntry(t, st)

\* Every call has returned.
Finished == (\A t \in Threads : pc[t] = "done") /\ UNCHANGED vars

Next == (\E t \in Threads : Step(t)) \/ Finished

Spec == Init /\ [][Next]_vars

\* The steps that take the mutex.
Locking(t) == SetLock(t) \/ WaitLock(t) \/ WaitExpired(t) \/ RegLock(t)

-----------------------------------------------------------------------------
(* Correctness properties *)

\* A wait that does not time out returns a status that set_result wrote, never the
\* FQ_OK the future was created with, although it reads status without the mutex
\* (future.c:82, 96).
WaitReturnsWrittenStatus ==
  \A t \in Waiters : pc[t] = "done" => result[t] \in written \cup {"FQ_ERR_TIMEOUT"}

\* No thread sleeps through the fulfilment: while one sleeps, the future is not ready
\* or the thread that stored ready has its broadcast (future.c:206) still ahead.
NoMissedBroadcast ==
  (\E t \in Threads : pc[t] = "wait_sleep") =>
     ~ready \/ \E u \in Threads : pc[u] = "set_unlock"

\* The threads that have invoked the callback or are going to.
Callers == calls \cup {t \in Threads : pc[t] = "reg_call" \/ (pc[t] = "set_call" /\ cb[t])}

\* A callback registered while set_result runs is not lost (future.c:165-176, 203-216):
\* once the future is fulfilled and nobody is inside set_result or on_complete, it ran.
CallbackNotLost ==
  ready /\ callback /\ (\A t \in Threads : pc[t] \notin
      {"set_status", "set_ready", "set_unlock", "set_call", "reg_check", "reg_call"})
    => calls # {}

\* Nor is it invoked more often than the future is fulfilled and it is registered
\* (future.c:169-176, 209-216): with one set_result and one on_complete, in any order,
\* only one of the two invokes it.
CallbackOnce ==
  Cardinality(sets) <= 1 /\ Cardinality({t \in Threads : Role[t] = "on_complete"}) = 1
    => Cardinality(Callers) <= 1

\* The inductive invariant: the mutex is held exactly in the critical sections, so there
\* is one; ready follows a written status; whoever can still lose a broadcast or a
\* callback is covered by a thread that is inside its critical section.
FutureInv ==
  /\ TypeOK
  /\ \A t \in Threads : pc[t] \in LockedPC <=> mutex = t
  /\ (ready \/ \E t \in Threads : pc[t] \in {"set_ready", "set_unlock"}) => status \in written
  /\ \A t \in Threads : pc[t] = "set_unlock" => ready
  /\ \A t \in Threads : pc[t] = "wait_status" => ready
  /\ WaitReturnsWrittenStatus
  /\ NoMissedBroadcast
  /\ ready /\ callback => Callers # {} \/ \E t \in Threads : pc[t] \in {"set_unlock", "reg_check"}

\* future.h:109 says that fq_future_cancel returns "FQ_ERR_CLOSED if already fulfilled":
\* the status of a fulfilled future does not change any more.
FulfilledStatusStays == [][ready => status' = status]_vars

\* Every waiter returns once somebody fulfils or cancels the future.
WaitersReturn == \A t \in Waiters : <>(pc[t] = "done")
=============================================================================
