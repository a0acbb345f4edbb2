---------------------------- MODULE FutureProofs ----------------------------
(***************************************************************************)
(* Proofs about Future.tla, for every set of threads and every assignment  *)
(* of calls to them.  FutureInv is inductive; three properties follow.     *)
(* CallbackOnce needs more history: OnceInv, inductive together with it.   *)
(***************************************************************************)
EXTENDS Future, FiniteSetTheorems, TLAPS

\* The parts of FutureInv, named so that each step of the proof can cite one.
MutexInv == \A t \in Threads : pc[t] \in LockedPC <=> mutex = t
StatusInv ==
  /\ (ready \/ \E t \in Threads : pc[t] \in {"set_ready", "set_unlock"}) => status \in written
  /\ \A t \in Threads : pc[t] = "set_unlock" => ready
  /\ \A t \in Threads : pc[t] = "wait_status" => ready
CallbackInv ==
  ready /\ callback => Callers # {} \/ \E t \in Threads : pc[t] \in {"set_unlock", "reg_check"}

\* The parts make up the invariant.
LEMMA FutureInvParts ==
  FutureInv <=> /\ TypeOK /\ MutexInv /\ StatusInv /\ WaitReturnsWrittenStatus
                /\ NoMissedBroadcast /\ CallbackInv
BY DEF FutureInv, MutexInv, StatusInv, CallbackInv

\* A future fresh from fq_future_create satisfies the invariant.
LEMMA InitFutureInv == Init => FutureInv
<1> SUFFICES ASSUME Init PROVE FutureInv
  OBVIOUS
<1> USE RoleAssumption, NullAssumption DEF Init
<1>1. \A t \in Threads : pc[t] \in RolePC[Role[t]] /\ pc[t] \notin LockedPC /\ pc[t] # "done"
                         /\ pc[t] # "wait_sleep" /\ pc[t] # "wait_status"
  BY DEF Roles, RolePC, SetPC, WaitPC, Entry, LockedPC
<1>2. TypeOK
  <2>1. \A t \in Threads : pc[t] \notin SetPC
    BY DEF Roles, Entry, SetPC
  <2> QED
    BY <1>1, <2>1 DEF TypeOK, Statuses, Roles
<1>3. MutexInv /\ StatusInv
  BY <1>1 DEF MutexInv, StatusInv, LockedPC
<1>4. WaitReturnsWrittenStatus /\ NoMissedBroadcast /\ CallbackInv
  BY <1>1 DEF WaitReturnsWrittenStatus, NoMissedBroadcast, CallbackInv, Waiters
<1> QED
  BY <1>2, <1>3, <1>4, FutureInvParts

\* The pcs of a call tell which calls are running it.
LEMMA CallOfPC ==
  ASSUME TypeOK, NEW t \in Threads
  PROVE  /\ Role[t] \in {"set_result", "cancel"} => SetPC \cup {"done"} \subseteq RolePC[Role[t]]
         /\ t \in Waiters => WaitPC \subseteq RolePC[Role[t]]
         /\ "done" \in RolePC[Role[t]]
         /\ pc[t] \in SetPC => Role[t] \in {"set_result", "cancel"}
         /\ pc[t] \in WaitPC \ {"done"} => t \in Waiters
         /\ pc[t] = "set_entry" => Role[t] = "set_result"
         /\ pc[t] = "cancel_cas" => Role[t] = "cancel"
         /\ pc[t] = "wait_expired" => Role[t] = "wait_timeout"
         /\ pc[t] \in {"reg_lock", "reg_check", "reg_call"} => Role[t] = "on_complete"
<1>1. pc[t] \in RolePC[Role[t]] /\ Role[t] \in Roles
  BY RoleAssumption DEF TypeOK
<1>2. CASE Role[t] \in {"set_result", "cancel"}
  BY <1>1, <1>2 DEF RolePC, SetPC, WaitPC, Waiters
<1>3. CASE Role[t] \in {"wait", "wait_timeout"}
  BY <1>1, <1>3 DEF RolePC, SetPC, WaitPC, Waiters
<1>4. CASE Role[t] = "on_complete"
  BY <1>1, <1>4 DEF RolePC, SetPC, WaitPC, Waiters
<1> QED
  BY <1>1, <1>2, <1>3, <1>4 DEF Roles

\* Every step keeps the types, and each thread stays within its own call.
LEMMA NextTypeOK == TypeOK /\ [Next]_vars => TypeOK'
<1> SUFFICES ASSUME TypeOK, [Next]_vars PROVE TypeOK'
  OBVIOUS
<1> DEFINE AllPC == UNION {RolePC[r] : r \in Roles}
           PCOK == pc \in [Threads -> AllPC] /\ \A u \in Threads : pc[u] \in RolePC[Role[u]]
<1>a. ASSUME NEW t \in Threads, NEW l \in RolePC[Role[t]], Goto(t, l) PROVE PCOK'
  <2>1. l \in AllPC
    BY <1>a, RoleAssumption
  <2>2. pc \in [Threads -> AllPC] /\ \A u \in Threads : pc[u] \in RolePC[Role[u]]
    BY DEF TypeOK
  <2> HIDE DEF AllPC
  <2> QED
    BY <1>a, <2>1, <2>2 DEF Goto
<1>1. CASE UNCHANGED vars
  BY <1>1 DEF vars, TypeOK
<1>2. ASSUME NEW t \in Threads, CancelCas(t) PROVE TypeOK'
  <2>1. PCOK'
    BY <1>2, <1>a, CallOfPC DEF CancelCas, SetPC
  <2> QED
    <3>1. CASE canceled
      BY <1>2, <2>1, <3>1 DEF CancelCas, Goto, SetPC, TypeOK
    <3>2. CASE ~canceled
      BY <1>2, <2>1, <3>2 DEF CancelCas, Goto, Statuses, TypeOK
    <3> QED
      BY <3>1, <3>2
<1>3. ASSUME NEW t \in Threads, SetResult(t) PROVE TypeOK'
  <2>1. /\ SetPC \cup {"done"} \subseteq RolePC[Role[t]]
        /\ result[t] \in Statuses
    BY <1>3, CallOfPC
    DEF SetResult, SetLock, Acquire, SetStatus, SetReady, SetUnlock, SetCall, SetPC, TypeOK
  <2>2. CASE SetLock(t) \/ SetReady(t) \/ SetCall(t)
    <3>1. PCOK'
      BY <2>1, <2>2, <1>a DEF SetLock, Acquire, SetReady, SetCall, SetPC
    <3> QED
      BY <2>1, <2>2, <3>1 DEF SetLock, Acquire, Lock, SetReady, SetCall, Goto, SetPC, TypeOK
  <2>3. CASE SetStatus(t)
    <3>1. PCOK'
      BY <2>1, <2>3, <1>a DEF SetStatus, SetPC
    <3> QED
      BY <2>1, <2>3, <3>1 DEF SetStatus, Goto, SetPC, TypeOK
  <2>4. CASE SetUnlock(t)
    <3>1. \A u \in Threads : pc'[u] \in RolePC[Role[u]] /\ (pc'[u] = pc[u] \/ pc'[u] = "wait_lock" \/ u = t)
      BY <2>1, <2>4, CallOfPC DEF SetUnlock, SetPC, WaitPC, TypeOK
    <3>2. PCOK'
      BY <2>4, <3>1, RoleAssumption DEF SetUnlock
    <3> QED
      BY <2>1, <2>4, <3>1, <3>2 DEF SetUnlock, SetPC, TypeOK
  <2> QED
    BY <1>3, <2>2, <2>3, <2>4 DEF SetResult
<1>4. ASSUME NEW t \in Threads, Wait(t) \/ SpuriousWake(t) \/ Expire(t) PROVE TypeOK'
  <2> USE DEF Wait, WaitSpinHit, WaitSpinMiss, WaitLock, Acquire, Lock, WaitCheck, WaitExpired,
              WaitStatus, SpuriousWake, Expire
  <2>1. t \in Waiters
    BY <1>4, CallOfPC DEF WaitPC, Waiters
  <2>2. PICK l : Goto(t, l) /\ l \in RolePC[Role[t]] /\ l \notin SetPC
    <3>1. WaitPC \subseteq RolePC[Role[t]]
      BY <2>1, CallOfPC
    <3>a. Role[t] = "wait_timeout" => "wait_expired" \in RolePC[Role[t]]
      BY DEF RolePC
    <3>2. CASE WaitSpinHit(t) \/ WaitSpinMiss(t) \/ WaitLock(t) \/ SpuriousWake(t)
      BY <3>1, <3>2 DEF WaitPC, SetPC
    <3>3. CASE WaitCheck(t)
      BY <3>1, <3>3 DEF WaitPC, SetPC
    <3>4. CASE WaitExpired(t) \/ WaitStatus(t) \/ Expire(t)
      BY <3>1, <3>a, <3>4 DEF WaitPC, SetPC
    <3> QED
      BY <1>4, <3>2, <3>3, <3>4
  <2>3. PCOK'
    BY <2>2, <1>a
  <2> QED
    BY <1>4, <2>1, <2>2, <2>3, CallOfPC DEF Goto, TypeOK, Waiters
<1>5. ASSUME NEW t \in Threads, OnComplete(t) PROVE TypeOK'
  <2> USE DEF OnComplete, RegLock, Lock, RegCheck, RegCall
  <2>1. PICK l : Goto(t, l) /\ l \in RolePC[Role[t]] /\ l \notin SetPC
    BY <1>5, CallOfPC DEF RolePC, SetPC
  <2>2. PCOK'
    BY <2>1, <1>a
  <2> QED
    BY <1>5, <2>1, <2>2 DEF Goto, TypeOK
<1>6. ASSUME NEW t \in Threads, NEW st \in Statuses, SetEntry(t, st) PROVE TypeOK'
  <2>1. PCOK'
    BY <1>6, <1>a, CallOfPC DEF SetEntry, SetPC
  <2> QED
    BY <1>6, <2>1 DEF SetEntry, Goto, TypeOK
<1> QED
  BY <1>1, <1>2, <1>3, <1>4, <1>5, <1>6 DEF Next, Step, Inside, Finished

\* Every step keeps the invariant.
LEMMA NextFutureInv == FutureInv /\ [Next]_vars => FutureInv'
<1> SUFFICES ASSUME FutureInv, [Next]_vars PROVE FutureInv'
  OBVIOUS
<1>0. /\ TypeOK /\ MutexInv /\ StatusInv /\ WaitReturnsWrittenStatus
      /\ NoMissedBroadcast /\ CallbackInv
  BY FutureInvParts
<1>t. TypeOK'
  BY <1>0, NextTypeOK
<1> DEFINE Rest == /\ MutexInv /\ StatusInv /\ WaitReturnsWrittenStatus
                   /\ NoMissedBroadcast /\ CallbackInv
<1>1. CASE UNCHANGED vars
  <2>1. Rest'
    BY <1>0, <1>1 DEF vars, MutexInv, StatusInv, WaitReturnsWrittenStatus, NoMissedBroadcast,
                      CallbackInv, Callers, Waiters
  <2> QED
    BY <1>t, <2>1 DEF FutureInv, MutexInv, StatusInv, CallbackInv
<1> USE NullAssumption
<1>2. ASSUME NEW t \in Threads, CancelCas(t) PROVE Rest'
  <2>1. t \notin Waiters
    BY <1>0, <1>2, CallOfPC DEF CancelCas, Waiters
  <2>2. MutexInv' /\ StatusInv' /\ NoMissedBroadcast' /\ CallbackInv'
    BY <1>0, <1>2, <1>t DEF CancelCas, Goto, MutexInv, StatusInv, NoMissedBroadcast, CallbackInv,
                            Callers, LockedPC, TypeOK
  <2>3. WaitReturnsWrittenStatus'
    BY <1>0, <1>2, <2>1 DEF CancelCas, Goto, WaitReturnsWrittenStatus, Waiters, TypeOK
  <2> QED
    BY <2>2, <2>3
<1>3. ASSUME NEW t \in Threads, SetResult(t) PROVE Rest'
  <2>a. t \notin Waiters
    BY <1>0, <1>3, CallOfPC
    DEF SetResult, SetLock, Acquire, SetStatus, SetReady, SetUnlock, SetCall, SetPC, Waiters
  <2>1. CASE SetLock(t)
    <3>1. MutexInv' /\ StatusInv' /\ NoMissedBroadcast' /\ CallbackInv'
      BY <1>0, <2>1 DEF SetLock, Acquire, Lock, Goto, MutexInv, StatusInv, NoMissedBroadcast,
                        CallbackInv, Callers, LockedPC, TypeOK
    <3>2. WaitReturnsWrittenStatus'
      BY <1>0, <2>1, <2>a DEF SetLock, Acquire, Goto, WaitReturnsWrittenStatus, Waiters, TypeOK
    <3> QED
      BY <3>1, <3>2
  <2>2. CASE SetStatus(t)
    <3>1. MutexInv' /\ StatusInv' /\ NoMissedBroadcast' /\ CallbackInv'
      BY <1>0, <2>2 DEF SetStatus, Goto, MutexInv, StatusInv, NoMissedBroadcast,
                        CallbackInv, Callers, LockedPC, TypeOK
    <3>2. WaitReturnsWrittenStatus'
      BY <1>0, <2>2, <2>a DEF SetStatus, Goto, WaitReturnsWrittenStatus, Waiters, TypeOK
    <3> QED
      BY <3>1, <3>2
  <2>3. CASE SetReady(t)
    <3>1. MutexInv' /\ StatusInv' /\ NoMissedBroadcast' /\ CallbackInv'
      BY <1>0, <2>3 DEF SetReady, Goto, MutexInv, StatusInv, NoMissedBroadcast,
                        CallbackInv, Callers, LockedPC, TypeOK
    <3>2. WaitReturnsWrittenStatus'
      BY <1>0, <2>3, <2>a DEF SetReady, Goto, WaitReturnsWrittenStatus, Waiters, TypeOK
    <3> QED
      BY <3>1, <3>2
  <2>4. CASE SetUnlock(t)
    <3>1. MutexInv' /\ StatusInv' /\ NoMissedBroadcast'
      BY <1>0, <2>4 DEF SetUnlock, MutexInv, StatusInv, NoMissedBroadcast, LockedPC, TypeOK
    <3>2. CallbackInv'
      BY <1>0, <2>4 DEF SetUnlock, CallbackInv, Callers, TypeOK
    <3>3. WaitReturnsWrittenStatus'
      BY <1>0, <2>4, <2>a DEF SetUnlock, WaitReturnsWrittenStatus, Waiters, TypeOK
    <3> QED
      BY <3>1, <3>2, <3>3
  <2>5. CASE SetCall(t)
    <3>1. MutexInv' /\ StatusInv' /\ NoMissedBroadcast'
      BY <1>0, <2>5 DEF SetCall, Goto, MutexInv, StatusInv, NoMissedBroadcast, LockedPC, TypeOK
    <3>2. CallbackInv'
      BY <1>0, <2>5 DEF SetCall, Goto, CallbackInv, Callers, TypeOK
    <3>3. WaitReturnsWrittenStatus'
      BY <1>0, <2>5, <2>a DEF SetCall, Goto, WaitReturnsWrittenStatus, Waiters, TypeOK
    <3> QED
      BY <3>1, <3>2, <3>3
  <2> QED
    BY <1>3, <2>1, <2>2, <2>3, <2>4, <2>5 DEF SetResult
<1>4. ASSUME NEW t \in Threads, Wait(t) \/ SpuriousWake(t) \/ Expire(t) PROVE Rest'
  <2>1. CASE WaitSpinHit(t) \/ WaitSpinMiss(t) \/ WaitLock(t) \/ SpuriousWake(t) \/ Expire(t)
    <3> USE DEF WaitSpinHit, WaitSpinMiss, WaitLock, Acquire, Lock, SpuriousWake, Expire
    <3>1. MutexInv' /\ StatusInv' /\ NoMissedBroadcast' /\ CallbackInv'
      BY <1>0, <2>1 DEF Goto, MutexInv, StatusInv, NoMissedBroadcast, CallbackInv, Callers,
                        LockedPC, TypeOK
    <3>2. WaitReturnsWrittenStatus'
      BY <1>0, <2>1 DEF Goto, WaitReturnsWrittenStatus, Waiters, TypeOK
    <3> QED
      BY <3>1, <3>2
  <2>2. CASE WaitCheck(t)
    <3>1. MutexInv' /\ StatusInv' /\ NoMissedBroadcast' /\ CallbackInv'
      BY <1>0, <2>2 DEF WaitCheck, Goto, MutexInv, StatusInv, NoMissedBroadcast, CallbackInv,
                        Callers, LockedPC, TypeOK
    <3>2. WaitReturnsWrittenStatus'
      BY <1>0, <2>2 DEF WaitCheck, Goto, WaitReturnsWrittenStatus, Waiters, TypeOK
    <3> QED
      BY <3>1, <3>2
  <2>3. CASE WaitExpired(t) \/ WaitStatus(t)
    <3>1. MutexInv' /\ StatusInv' /\ NoMissedBroadcast' /\ CallbackInv'
      BY <1>0, <2>3 DEF WaitExpired, WaitStatus, Goto, MutexInv, StatusInv, NoMissedBroadcast,
                        CallbackInv, Callers, LockedPC, TypeOK
    <3>2. WaitReturnsWrittenStatus'
      BY <1>0, <2>3 DEF WaitExpired, WaitStatus, Goto, StatusInv, WaitReturnsWrittenStatus,
                        Waiters, TypeOK
    <3> QED
      BY <3>1, <3>2
  <2> QED
    BY <1>4, <2>1, <2>2, <2>3 DEF Wait
<1>5. ASSUME NEW t \in Threads, OnComplete(t) PROVE Rest'
  <2> USE DEF OnComplete, RegLock, Lock, RegCheck, RegCall
  <2>1. t \notin Waiters
    BY <1>0, <1>5, CallOfPC DEF Waiters
  <2>2. MutexInv' /\ StatusInv' /\ NoMissedBroadcast'
    BY <1>0, <1>5 DEF Goto, MutexInv, StatusInv, NoMissedBroadcast, LockedPC, TypeOK
  <2>3. CallbackInv'
    BY <1>0, <1>5 DEF Goto, CallbackInv, Callers, TypeOK
  <2>4. WaitReturnsWrittenStatus'
    BY <1>0, <1>5, <2>1 DEF Goto, WaitReturnsWrittenStatus, Waiters, TypeOK
  <2> QED
    BY <2>2, <2>3, <2>4
<1>6. ASSUME NEW t \in Threads, NEW st \in Statuses, SetEntry(t, st) PROVE Rest'
  <2>1. t \notin Waiters
    BY <1>0, <1>6, CallOfPC DEF SetEntry, Waiters
  <2>2. MutexInv' /\ StatusInv' /\ NoMissedBroadcast' /\ CallbackInv'
    BY <1>0, <1>6 DEF SetEntry, Goto, MutexInv, StatusInv, NoMissedBroadcast, CallbackInv,
                      Callers, LockedPC, TypeOK
  <2>3. WaitReturnsWrittenStatus'
    BY <1>0, <1>6, <2>1 DEF SetEntry, Goto, WaitReturnsWrittenStatus, Waiters, TypeOK
  <2> QED
    BY <2>2, <2>3
<1> QED
  <2>1. CASE Rest'
    BY <1>t, <2>1 DEF FutureInv, MutexInv, StatusInv, CallbackInv
  <2> QED
    BY <1>1, <1>2, <1>3, <1>4, <1>5, <1>6, <2>1 DEF Next, Step, Inside, Finished

\* The mutex discipline, the status, the broadcast and the callback of a future stay as
\* FutureInv says, whatever calls its threads make.
THEOREM FutureInvariant == Spec => []FutureInv
BY InitFutureInv, NextFutureInv, PTL DEF Spec

\* fq_future_wait and fq_future_wait_timeout return a status that set_result wrote,
\* though they read it without the mutex (future.c:82, 96).
THEOREM WaitsReturnWritten == Spec => []WaitReturnsWrittenStatus
<1>1. FutureInv => WaitReturnsWrittenStatus
  BY DEF FutureInv
<1> QED
  BY <1>1, FutureInvariant, PTL

\* No waiter sleeps through the broadcast of set_result (future.c:91-93, 203-206).
THEOREM BroadcastReachesSleepers == Spec => []NoMissedBroadcast
<1>1. FutureInv => NoMissedBroadcast
  BY DEF FutureInv
<1> QED
  BY <1>1, FutureInvariant, PTL

\* However on_complete and set_result interleave, a registered callback is invoked
\* (future.c:165-176, 203-216).
THEOREM CallbacksAreInvoked == Spec => []CallbackNotLost
<1>1. FutureInv => CallbackNotLost
  BY DEF FutureInv, CallbackNotLost, Callers
<1> QED
  BY <1>1, FutureInvariant, PTL

-----------------------------------------------------------------------------
(* The callback is invoked once *)

Registrars == {t \in Threads : Role[t] = "on_complete"}

\* At most one thread has fulfilled the future, and at most one registers a callback.
OneEach == /\ \A s1, s2 \in sets : s1 = s2
           /\ \A r1, r2 \in Registrars : r1 = r2

\* Where the threads that fulfil the future or invoke the callback are, and why.
HistoryInv ==
  /\ ready <=> sets # {}
  /\ \A t \in Threads : pc[t] \in {"set_unlock", "set_call"} => t \in sets
  /\ \A t \in sets : pc[t] \in {"set_unlock", "set_call", "done"}
  /\ \A t \in Threads : cb[t] => t \in sets /\ pc[t] \in {"set_call", "done"}
  /\ \A t \in calls : pc[t] = "done" /\ (t \in Registrars \/ cb[t])
  /\ \A t \in Registrars : pc[t] = "reg_call" \/ t \in calls => ready
  /\ callback => \E t \in Registrars : pc[t] # "reg_lock"

\* The registration is over and did not find the future ready.
LeftToOthers(r) == pc[r] = "done" /\ r \notin calls

\* With one of each, set_result sees a callback only if on_complete has left it to set_result.
OnceInv ==
  /\ HistoryInv
  /\ OneEach => \A s \in sets : cb[s] \/ (callback /\ pc[s] = "set_unlock")
                                  => \A r \in Registrars : LeftToOthers(r)

\* A new future has no history.
LEMMA InitOnceInv == Init => OnceInv
<1> SUFFICES ASSUME Init PROVE OnceInv
  OBVIOUS
<1>1. \A t \in Threads : pc[t] \notin {"set_unlock", "set_call", "reg_call"}
  BY RoleAssumption DEF Init, Roles, Entry
<1> QED
  BY <1>1 DEF Init, OnceInv, HistoryInv, Registrars

\* Every step keeps the history.
LEMMA NextHistoryInv == FutureInv /\ HistoryInv /\ [Next]_vars => HistoryInv'
<1> SUFFICES ASSUME FutureInv, HistoryInv, [Next]_vars PROVE HistoryInv'
  OBVIOUS
<1>0. TypeOK /\ MutexInv
  BY FutureInvParts
<1>r. \A t \in Threads : pc[t] \in {"reg_lock", "reg_check", "reg_call"} => t \in Registrars
  BY <1>0, CallOfPC DEF Registrars
<1>n. \A t \in Registrars : pc[t] \in {"reg_lock", "reg_check", "reg_call", "done"}
  BY <1>0 DEF Registrars, TypeOK, RolePC
<1>1. CASE UNCHANGED vars
  BY <1>1 DEF vars, HistoryInv, Registrars
<1>2. ASSUME NEW t \in Threads, CancelCas(t) \/ (\E st \in Statuses : SetEntry(t, st)) PROVE HistoryInv'
  BY <1>0, <1>2, <1>n DEF CancelCas, SetEntry, Goto, HistoryInv, Registrars, TypeOK
<1>3. ASSUME NEW t \in Threads, SetResult(t) PROVE HistoryInv'
  <2>1. CASE SetLock(t) \/ SetStatus(t)
    BY <1>0, <2>1, <1>n DEF SetLock, Acquire, SetStatus, Goto, HistoryInv, Registrars, TypeOK
  <2>2. CASE SetReady(t)
    BY <1>0, <2>2, <1>n DEF SetReady, Goto, HistoryInv, Registrars, TypeOK
  <2>3. CASE SetUnlock(t)
    BY <1>0, <2>3, <1>n DEF SetUnlock, HistoryInv, Registrars, TypeOK
  <2>4. CASE SetCall(t)
    BY <1>0, <2>4, <1>n DEF SetCall, Goto, HistoryInv, Registrars, TypeOK
  <2> QED
    BY <1>3, <2>1, <2>2, <2>3, <2>4 DEF SetResult
<1>4. ASSUME NEW t \in Threads, Wait(t) \/ SpuriousWake(t) \/ Expire(t) PROVE HistoryInv'
  <2>1. CASE WaitSpinHit(t) \/ WaitSpinMiss(t) \/ WaitLock(t) \/ SpuriousWake(t) \/ Expire(t)
    BY <1>0, <2>1, <1>n DEF WaitSpinHit, WaitSpinMiss, WaitLock, Acquire, SpuriousWake, Expire,
                            Goto, HistoryInv, Registrars, TypeOK
  <2>2. CASE WaitCheck(t)
    BY <1>0, <2>2, <1>n DEF WaitCheck, Goto, HistoryInv, Registrars, TypeOK
  <2>3. CASE WaitExpired(t) \/ WaitStatus(t)
    BY <1>0, <2>3, <1>n DEF WaitExpired, WaitStatus, Goto, HistoryInv, Registrars, TypeOK
  <2> QED
    BY <1>4, <2>1, <2>2, <2>3 DEF Wait
<1>5. ASSUME NEW t \in Threads, OnComplete(t) PROVE HistoryInv'
  <2>1. CASE RegLock(t)
    BY <1>0, <2>1, <1>n, <1>r DEF RegLock, Goto, HistoryInv, Registrars, TypeOK
  <2>2. CASE RegCheck(t)
    BY <1>0, <2>2, <1>n, <1>r DEF RegCheck, Goto, HistoryInv, Registrars, TypeOK
  <2>3. CASE RegCall(t)
    BY <1>0, <2>3, <1>n, <1>r DEF RegCall, Goto, HistoryInv, Registrars, TypeOK
  <2> QED
    BY <1>5, <2>1, <2>2, <2>3 DEF OnComplete
<1> QED
  BY <1>1, <1>2, <1>3, <1>4, <1>5 DEF Next, Step, Inside, Finished

\* Every step keeps the division of labour.
LEMMA NextOnceInv == FutureInv /\ OnceInv /\ [Next]_vars => OnceInv'
<1> SUFFICES ASSUME FutureInv, OnceInv, [Next]_vars PROVE OnceInv'
  OBVIOUS
<1>0. TypeOK /\ MutexInv /\ HistoryInv
  BY FutureInvParts DEF OnceInv
<1>h. HistoryInv'
  BY <1>0, NextHistoryInv
<1>n. \A r \in Registrars : pc[r] \in {"reg_lock", "reg_check", "reg_call", "done"}
  BY <1>0 DEF Registrars, TypeOK, RolePC
<1> SUFFICES ASSUME OneEach', NEW s \in sets', (cb[s] \/ (callback /\ pc[s] = "set_unlock"))',
                    NEW r \in Registrars
             PROVE  LeftToOthers(r)'
  BY <1>h DEF OnceInv, Registrars
<1>1. sets \subseteq sets'
  BY DEF Next, Step, Inside, Finished, CancelCas, SetResult, SetLock, Acquire, SetStatus, SetReady,
         SetUnlock, SetCall, Wait, WaitSpinHit, WaitSpinMiss, WaitLock, WaitCheck, WaitExpired,
         WaitStatus, SpuriousWake, Expire, OnComplete, RegLock, RegCheck, RegCall, SetEntry, vars
<1>2. OneEach
  BY <1>1 DEF OneEach, Registrars
<1>3. s \in Threads /\ r \in Threads
  BY <1>h, <1>1, <1>0 DEF Registrars, TypeOK, OnceInv, Next, Step, Inside, Finished, CancelCas, SetResult, SetLock,
         Acquire, SetStatus, SetReady, SetUnlock, SetCall, Wait, WaitSpinHit, WaitSpinMiss, WaitLock,
         WaitCheck, WaitExpired, WaitStatus, SpuriousWake, Expire, OnComplete, RegLock, RegCheck,
         RegCall, SetEntry, vars
\* What was left to others stays so.
<1>4. ASSUME LeftToOthers(r) PROVE LeftToOthers(r)'
  BY <1>0, <1>3, <1>4 DEF LeftToOthers, Goto, TypeOK, Next, Step, Inside, Finished, CancelCas,
         SetResult, SetLock, Acquire, SetStatus, SetReady, SetUnlock, SetCall, Wait, WaitSpinHit,
         WaitSpinMiss, WaitLock, WaitCheck, WaitExpired, WaitStatus, SpuriousWake, Expire, OnComplete,
         RegLock, RegCheck, RegCall, SetEntry, vars
<1>5. CASE s \in sets /\ (cb[s] \/ (callback /\ pc[s] = "set_unlock"))
  BY <1>2, <1>4, <1>5 DEF OnceInv
\* The future becomes ready: the registration came before, or has not begun.
<1>6. CASE SetReady(s)
  <2>1. s \notin sets /\ sets' = sets \cup {s} /\ callback
    BY <1>0, <1>3, <1>6 DEF SetReady, HistoryInv, TypeOK
  <2>2. ~ready
    BY <1>0, <2>1 DEF OneEach, HistoryInv
  <2>3. pc[r] # "reg_lock"
    BY <1>0, <1>2, <2>1 DEF HistoryInv, OneEach
  <2>4. pc[r] # "reg_check"
    BY <1>0, <1>3, <1>6 DEF MutexInv, LockedPC, SetReady
  <2>5. LeftToOthers(r)
    BY <1>0, <1>n, <2>2, <2>3, <2>4 DEF HistoryInv, LeftToOthers
  <2> QED
    BY <1>4, <2>5
\* A thread captures the callback that it sees, and none is registered in between.
<1>7. CASE s \in sets /\ ~cb[s] /\ ~(callback /\ pc[s] = "set_unlock")
  <2>1. pc[s] # "set_ready" /\ (pc[s] = "set_unlock" => mutex = s /\ ~callback)
    BY <1>0, <1>3, <1>7 DEF HistoryInv, MutexInv, LockedPC
  <2>2. cb'[s] = cb[s] \/ SetUnlock(s)
    BY <1>0, <1>3 DEF TypeOK, Next, Step, Inside, Finished, CancelCas, SetResult, SetLock, Acquire,
         SetStatus, SetReady, SetUnlock, SetCall, Wait, WaitSpinHit, WaitSpinMiss, WaitLock,
         WaitCheck, WaitExpired, WaitStatus, SpuriousWake, Expire, OnComplete, RegLock, RegCheck,
         RegCall, SetEntry, vars
  <2>3. callback' = callback \/ mutex = NULL
    BY DEF Next, Step, Inside, Finished, CancelCas, SetResult, SetLock, Acquire, SetStatus, SetReady,
         SetUnlock, SetCall, Wait, WaitSpinHit, WaitSpinMiss, WaitLock, WaitCheck, WaitExpired,
         WaitStatus, SpuriousWake, Expire, OnComplete, RegLock, Lock, RegCheck, RegCall, SetEntry, vars
  <2>4. pc'[s] = "set_unlock" => pc[s] \in {"set_unlock", "set_ready"}
    BY <1>0, <1>3 DEF TypeOK, Goto, Next, Step, Inside, Finished, CancelCas, SetResult, SetLock,
         Acquire, SetStatus, SetReady, SetUnlock, SetCall, Wait, WaitSpinHit, WaitSpinMiss, WaitLock,
         WaitCheck, WaitExpired, WaitStatus, SpuriousWake, Expire, OnComplete, RegLock, RegCheck,
         RegCall, SetEntry, vars
  <2>5. ~SetUnlock(s) \/ ~cb'[s]
    BY <1>0, <1>3, <2>1 DEF SetUnlock, TypeOK
  <2> QED
    BY <1>3, <1>7, <2>1, <2>2, <2>3, <2>4, <2>5, NullAssumption
<1>8. s \in sets \/ SetReady(s)
  BY <1>0 DEF TypeOK, Next, Step, Inside, Finished, CancelCas, SetResult, SetLock, Acquire, SetStatus,
         SetReady, SetUnlock, SetCall, Wait, WaitSpinHit, WaitSpinMiss, WaitLock, WaitCheck,
         WaitExpired, WaitStatus, SpuriousWake, Expire, OnComplete, RegLock, RegCheck, RegCall,
         SetEntry, vars
<1> QED
  BY <1>5, <1>6, <1>7, <1>8

\* OnceInv decides between the two callers.
LEMMA OnceInvGivesOnce == FutureInv /\ OnceInv => CallbackOnce
<1> SUFFICES ASSUME FutureInv, OnceInv,
                    Cardinality(sets) <= 1, Cardinality(Registrars) = 1
             PROVE  Cardinality(Callers) <= 1
  BY DEF CallbackOnce, Registrars
<1>0. TypeOK /\ HistoryInv
  BY FutureInvParts DEF OnceInv
<1>1. IsFiniteSet(sets) /\ IsFiniteSet(Registrars) /\ IsFiniteSet(Callers)
  BY <1>0, FS_Subset, ThreadAssumption DEF TypeOK, Registrars, Callers
<1>2. \A r1, r2 \in Registrars : r1 = r2
  BY <1>1, FS_Singleton
<1>3. \A s1, s2 \in sets : s1 = s2
  <2>1. CASE Cardinality(sets) = 0
    BY <1>1, <2>1, FS_EmptySet
  <2>2. CASE Cardinality(sets) = 1
    BY <1>1, <2>2, FS_Singleton
  <2> QED
    BY <1>1, <2>1, <2>2, FS_CardinalityType
<1>4. ASSUME NEW c \in Callers PROVE c \in Threads /\ (c \in Registrars \/ (c \in sets /\ cb[c]))
  BY <1>0, CallOfPC DEF Callers, HistoryInv, Registrars, TypeOK
<1>5. ASSUME NEW r \in Registrars, NEW s \in sets, cb[s] PROVE r \notin Callers
  <2>1. LeftToOthers(r)
    BY <1>2, <1>3, <1>5 DEF OnceInv, OneEach
  <2> QED
    BY <2>1 DEF LeftToOthers, Callers
<1>6. \A c1, c2 \in Callers : c1 = c2
  BY <1>2, <1>3, <1>4, <1>5
<1>7. CASE Callers = {}
  BY <1>7, FS_EmptySet
<1>8. ASSUME NEW c \in Callers PROVE Cardinality(Callers) = 1
  <2>1. Callers = {c}
    BY <1>6
  <2> QED
    BY <2>1, FS_Singleton
<1> QED
  BY <1>7, <1>8

\* With one set_result and one on_complete, in any order and beside any other calls, the
\* callback is invoked by at most one of the two (future.c:165-176, 203-216).
THEOREM CallbackOnceTheorem == Spec => []CallbackOnce
BY InitFutureInv, NextFutureInv, InitOnceInv, NextOnceInv, OnceInvGivesOnce, PTL DEF Spec
=============================================================================
