----------------------------- MODULE TaskProofs -----------------------------
(***************************************************************************)
(* Proofs about Task.tla, for every set of threads that use the future and *)
(* every set of cancellers, careful or not.                                *)
(***************************************************************************)
EXTENDS Task, FutureProofs

\* Every step of a task is a step of its future or leaves the future alone.
LEMMA TaskStepIsFutureStep == [TaskNext]_allVars => [Next]_vars
<1> SUFFICES ASSUME [TaskNext]_allVars PROVE [Next]_vars
  OBVIOUS
<1>1. CASE UNCHANGED allVars
  BY <1>1 DEF allVars, vars
<1>2. ASSUME NEW t \in Threads, TaskStep(t) PROVE [Next]_vars
  <2>1. CASE Execute
    <3>1. CASE ExecSet
      BY <3>1, CallerAssumption DEF ExecSet, Next, Step, Statuses
    <3> QED
      BY <2>1, <3>1 DEF Execute, ExecCheck, ExecRun, ExecStore, ExecCompletion
  <2>2. CASE Destroy \/ Close \/ CancelTask(t)
    BY <2>2 DEF Destroy, DestroyCheck, DestroyFree, Close, CloseCheck, CloseFree, CancelTask
  <2>3. CASE FutureCall(t) \/ FutureReturns(t)
    BY <2>3 DEF FutureCall, FutureReturns, Next, Step
  <2> QED
    BY <1>2, <2>1, <2>2, <2>3 DEF TaskStep
<1>3. ASSUME NEW t \in Threads, FutureWake(t) PROVE [Next]_vars
  BY <1>3 DEF FutureWake, Next, Step
<1>4. ASSUME NEW c \in Cancellers, CancelCheck(c) PROVE [Next]_vars
  BY <1>4 DEF CancelCheck
<1>5. CASE Drained \/ TaskFinished
  BY <1>5 DEF Drained, TaskFinished, allVars, vars
<1> QED
  BY <1>1, <1>2, <1>3, <1>4, <1>5 DEF TaskNext

\* Hence what FutureInv says of a future holds of the future of a task.
LEMMA TaskKeepsFutureInv == TaskSpec => []FutureInv
<1>1. TaskInit => Init
  BY DEF TaskInit
<1> QED
  BY <1>1, TaskStepIsFutureStep, FutureInvariant, PTL DEF TaskSpec, Spec

-----------------------------------------------------------------------------

\* Every setter that could store FQ_OK comes from an execution that ran the callback.
OkInv ==
  /\ tpc \in [Threads -> TaskPC]
  /\ tpc[executor] \in {"x_store", "x_set"} /\ ~was_canceled => ran
  /\ \A t \in Threads : pc[t] \in SetPC /\ result[t] = "FQ_OK" => ran
  /\ OkMeansRan

\* Only fq_task_execute hands set_result the status FQ_OK.
LEMMA FutureKeepsOk ==
  ASSUME TypeOK, OkInv, UNCHANGED <<ran>>, NEW t \in Threads, Inside(t) \/ SpuriousWake(t) \/ Expire(t)
  PROVE  /\ \A u \in Threads : pc'[u] \in SetPC /\ result'[u] = "FQ_OK" => ran'
         /\ OkMeansRan'
<1>1. CASE CancelCas(t)
  BY <1>1 DEF CancelCas, Goto, SetPC, TypeOK, OkInv, OkMeansRan
<1>2. CASE SetResult(t)
  BY <1>2 DEF SetResult, SetLock, Acquire, SetStatus, SetReady, SetUnlock, SetCall, Goto, SetPC,
              TypeOK, OkInv, OkMeansRan
<1>3. CASE Wait(t) \/ SpuriousWake(t) \/ Expire(t)
  BY <1>3 DEF Wait, WaitSpinHit, WaitSpinMiss, WaitLock, Acquire, WaitCheck, WaitExpired,
              WaitStatus, SpuriousWake, Expire, Goto, SetPC, TypeOK, OkInv, OkMeansRan
<1>4. CASE OnComplete(t)
  BY <1>4 DEF OnComplete, RegLock, RegCheck, RegCall, Goto, SetPC, TypeOK, OkInv, OkMeansRan
<1> QED
  BY <1>1, <1>2, <1>3, <1>4 DEF Inside

\* Every step keeps OkInv.
LEMMA NextOkInv == TypeOK /\ OkInv /\ [TaskNext]_allVars => OkInv'
<1> SUFFICES ASSUME TypeOK, OkInv, [TaskNext]_allVars PROVE OkInv'
  OBVIOUS
<1> USE CallerAssumption
<1>1. CASE UNCHANGED allVars
  BY <1>1 DEF allVars, vars, taskVars, OkInv, OkMeansRan
<1>2. CASE Execute
  <2>1. CASE ExecCheck \/ ExecRun \/ ExecStore \/ ExecCompletion
    BY <2>1 DEF ExecCheck, ExecRun, ExecStore, ExecCompletion, To, TaskPC, vars, OkInv, OkMeansRan
  <2>2. CASE ExecSet
    BY <2>2 DEF ExecSet, SetEntry, Goto, To, TaskPC, SetPC, TypeOK, OkInv, OkMeansRan
  <2> QED
    BY <1>2, <2>1, <2>2 DEF Execute
<1>3. CASE Destroy \/ Close \/ Drained \/ TaskFinished
  BY <1>3 DEF Destroy, DestroyCheck, DestroyFree, Close, CloseCheck, CloseFree, Drained,
              TaskFinished, allVars, taskVars, vars, To, TaskPC, OkInv, OkMeansRan
<1>4. ASSUME NEW c \in Cancellers, CancelCheck(c) \/ CancelTask(c) PROVE OkInv'
  BY <1>4 DEF CancelCheck, CancelTask, To, TaskPC, vars, OkInv, OkMeansRan
<1>5. ASSUME NEW t \in Threads, FutureCall(t) \/ FutureWake(t) PROVE OkInv'
  BY <1>5, FutureKeepsOk DEF FutureCall, FutureWake, taskVars, OkInv
<1>6. ASSUME NEW t \in Threads, FutureReturns(t) PROVE OkInv'
  BY <1>6 DEF FutureReturns, To, TaskPC, vars, OkInv, OkMeansRan
<1> QED
  BY <1>1, <1>2, <1>3, <1>4, <1>5, <1>6 DEF TaskNext, TaskStep

\* A future says FQ_OK only if the callback of its task has run (task.c:154-177).
THEOREM OkImpliesRan == TaskSpec => []OkMeansRan
<1>1. TaskInit => OkInv
  BY RoleAssumption, CallerAssumption
  DEF TaskInit, Init, Start, TaskPC, Entry, Roles, SetPC, OkInv, OkMeansRan
<1>2. FutureInv => TypeOK
  BY DEF FutureInv
<1>3. OkInv => OkMeansRan
  BY DEF OkInv
<1> QED
  BY <1>1, <1>2, <1>3, NextOkInv, TaskKeepsFutureInv, PTL DEF TaskSpec

-----------------------------------------------------------------------------

\* Whoever has got past the entry of cancel or set_result has seen to it that the future
\* is fulfilled, and fq_task_destroy frees the task only after its own such call.
FulfilInv ==
  /\ tpc \in [Threads -> TaskPC]
  /\ canceled => Fulfilling
  /\ \A t \in Threads : Role[t] \in {"set_result", "cancel"}
                          /\ pc[t] \notin {"set_entry", "cancel_cas"} => Fulfilling
  /\ tpc[destroyer] = "d_free" => Fulfilling
  /\ FulfilledWhenFreed

\* A call that is going to fulfil the future does so.
LEMMA FulfillingIsStable ==
  ASSUME TypeOK, Fulfilling, [Next]_vars PROVE Fulfilling'
<1>1. CASE UNCHANGED vars
  BY <1>1 DEF vars, Fulfilling
<1>2. ASSUME NEW t \in Threads, CancelCas(t) \/ SetResult(t) PROVE Fulfilling'
  BY <1>2 DEF CancelCas, SetResult, SetLock, Acquire, SetStatus, SetReady, SetUnlock, SetCall,
              Goto, TypeOK, Fulfilling
<1>3. ASSUME NEW t \in Threads, Wait(t) \/ SpuriousWake(t) \/ Expire(t) PROVE Fulfilling'
  BY <1>3 DEF Wait, WaitSpinHit, WaitSpinMiss, WaitLock, Acquire, WaitCheck, WaitExpired,
              WaitStatus, SpuriousWake, Expire, Goto, TypeOK, Fulfilling
<1>4. ASSUME NEW t \in Threads, OnComplete(t) PROVE Fulfilling'
  BY <1>4 DEF OnComplete, RegLock, RegCheck, RegCall, Goto, TypeOK, Fulfilling
<1>5. ASSUME NEW t \in Threads, NEW st \in Statuses, SetEntry(t, st) PROVE Fulfilling'
  BY <1>5 DEF SetEntry, Goto, TypeOK, Fulfilling
<1> QED
  BY <1>1, <1>2, <1>3, <1>4, <1>5 DEF Next, Step, Inside, Finished

\* The first step of a call that fulfils the future puts it on its way.
LEMMA CallsFulfil ==
  ASSUME TypeOK, FulfilInv, [Next]_vars
  PROVE  /\ canceled' => Fulfilling'
         /\ \A t \in Threads : Role[t] \in {"set_result", "cancel"}
                                /\ pc'[t] \notin {"set_entry", "cancel_cas"} => Fulfilling'
<1>1. CASE Fulfilling
  BY <1>1, FulfillingIsStable
<1>2. CASE ~Fulfilling
  <2>0. /\ ~canceled
        /\ \A t \in Threads : Role[t] \in {"set_result", "cancel"}
                               => pc[t] \in {"set_entry", "cancel_cas"}
    BY <1>2 DEF FulfilInv
  <2>1. CASE UNCHANGED vars
    BY <2>0, <2>1 DEF vars
  <2>2. ASSUME NEW t \in Threads, CancelCas(t) \/ (\E st \in Statuses : SetEntry(t, st))
        PROVE  Fulfilling'
    BY <2>0, <2>2 DEF CancelCas, SetEntry, Goto, TypeOK, Fulfilling
  <2>3. ASSUME NEW t \in Threads, SetResult(t) PROVE FALSE
    BY <2>0, <2>3, CallOfPC
    DEF SetResult, SetLock, Acquire, SetStatus, SetReady, SetUnlock, SetCall, SetPC
  <2>4. ASSUME NEW t \in Threads, Wait(t) \/ SpuriousWake(t) \/ Expire(t) \/ OnComplete(t)
        PROVE  /\ ~canceled'
               /\ \A u \in Threads : Role[u] \in {"set_result", "cancel"} => pc'[u] = pc[u]
    <3>1. CASE Wait(t) \/ SpuriousWake(t) \/ Expire(t)
      <4>1. t \in Waiters
        BY <3>1, CallOfPC DEF Wait, WaitSpinHit, WaitSpinMiss, WaitLock, Acquire, WaitCheck,
                              WaitExpired, WaitStatus, SpuriousWake, Expire, WaitPC, Waiters
      <4> QED
        BY <2>0, <3>1, <4>1 DEF Wait, WaitSpinHit, WaitSpinMiss, WaitLock, Acquire, WaitCheck,
              WaitExpired, WaitStatus, SpuriousWake, Expire, Goto, Waiters, TypeOK
    <3>2. CASE OnComplete(t)
      <4>1. Role[t] = "on_complete"
        BY <3>2, CallOfPC DEF OnComplete, RegLock, RegCheck, RegCall
      <4> QED
        BY <2>0, <3>2, <4>1 DEF OnComplete, RegLock, RegCheck, RegCall, Goto, TypeOK
    <3> QED
      BY <2>4, <3>1, <3>2
  <2> QED
    BY <2>0, <2>1, <2>2, <2>3, <2>4 DEF Next, Step, Inside, Finished, vars
<1> QED
  BY <1>1, <1>2

\* Every step keeps FulfilInv.
LEMMA NextFulfilInv == TypeOK /\ FulfilInv /\ [TaskNext]_allVars => FulfilInv'
<1> SUFFICES ASSUME TypeOK, FulfilInv, [TaskNext]_allVars PROVE FulfilInv'
  OBVIOUS
<1>0. [Next]_vars
  BY TaskStepIsFutureStep
<1>f. /\ Fulfilling => Fulfilling'
      /\ canceled' => Fulfilling'
      /\ \A t \in Threads : Role[t] \in {"set_result", "cancel"}
                             /\ pc'[t] \notin {"set_entry", "cancel_cas"} => Fulfilling'
  BY <1>0, FulfillingIsStable, CallsFulfil
<1> DEFINE Freed == /\ tpc \in [Threads -> TaskPC]
                    /\ tpc[destroyer] = "d_free" => Fulfilling
                    /\ task_freed => Fulfilling
<1> SUFFICES Freed'
  BY <1>f DEF FulfilInv, FulfilledWhenFreed
<1>p. Freed
  BY DEF FulfilInv, FulfilledWhenFreed
<1> USE CallerAssumption DEF To, TaskPC
<1>1. CASE UNCHANGED allVars
  BY <1>1, <1>p, <1>f DEF allVars, taskVars
<1>2. CASE Execute
  BY <1>2, <1>p, <1>f DEF Execute, ExecCheck, ExecRun, ExecStore, ExecSet, ExecCompletion
<1>3. CASE Destroy
  <2>1. CASE DestroyCheck
    BY <2>1, <1>p, <1>f DEF DestroyCheck, Fulfilling
  <2>2. CASE DestroyFree
    BY <2>2, <1>p, <1>f DEF DestroyFree
  <2> QED
    BY <1>3, <2>1, <2>2 DEF Destroy
<1>4. CASE Close \/ Drained \/ TaskFinished
  BY <1>4, <1>p, <1>f DEF Close, CloseCheck, CloseFree, Drained, TaskFinished, allVars, taskVars
<1>5. ASSUME NEW c \in Cancellers, CancelCheck(c) \/ CancelTask(c) PROVE Freed'
  BY <1>5, <1>p, <1>f DEF CancelCheck, CancelTask
<1>6. ASSUME NEW t \in Threads, FutureCall(t) \/ FutureWake(t) PROVE Freed'
  BY <1>6, <1>p, <1>f DEF FutureCall, FutureWake, taskVars
<1>7. ASSUME NEW t \in Threads, FutureReturns(t) PROVE Freed'
  <2>1. t = destroyer => Fulfilling'
    BY <1>7, <1>f DEF FutureReturns, vars
  <2> QED
    BY <1>7, <1>p, <1>f, <2>1 DEF FutureReturns
<1> QED
  BY <1>1, <1>2, <1>3, <1>4, <1>5, <1>6, <1>7 DEF TaskNext, TaskStep

\* A task is never freed with its future pending and nobody to fulfil it
\* (task.c:65-75, future.c:182-195).
THEOREM FreedTasksAreFulfilled == TaskSpec => []FulfilledWhenFreed
<1>1. TaskInit => FulfilInv
  BY RoleAssumption, CallerAssumption
  DEF TaskInit, Init, Start, TaskPC, Entry, Roles, FulfilInv, FulfilledWhenFreed
<1>2. FutureInv => TypeOK
  BY DEF FutureInv
<1>3. FulfilInv => FulfilledWhenFreed
  BY DEF FulfilInv
<1> QED
  BY <1>1, <1>2, <1>3, NextFulfilInv, TaskKeepsFutureInv, PTL DEF TaskSpec
=============================================================================
