------------------------- MODULE SchedulerCallProofs -------------------------
(***************************************************************************)
(* Proofs of what fq_scheduler_wait_idle, fq_scheduler_is_idle and         *)
(* fq_scheduler_shutdown promise their callers, from the invariant of      *)
(* SchedulerProofs.                                                        *)
(***************************************************************************)
EXTENDS SchedulerProofs

\* How the stage of a task may change.
Moves == {<<"new", "submitting">>, <<"submitting", "refused">>, <<"submitting", "counted">>,
          <<"counted", "queued">>, <<"counted", "rejected">>, <<"queued", "taken">>,
          <<"queued", "batched">>, <<"taken", "active">>, <<"active", "running">>,
          <<"running", "ran">>, <<"ran", "settled">>, <<"settled", "destroyed">>,
          <<"batched", "canceled">>}

-----------------------------------------------------------------------------
(* What each kind of step does to the threads and to the tasks *)

\* Task k moves from one stage to the next and no other task does.
LEMMA OneMoves ==
  ASSUME TypeOK, NEW k \in Tasks, NEW s, Stage(k, s), <<stage[k], s>> \in Moves
  PROVE  \A m \in Tasks : stage'[m] = stage[m] \/ <<stage[m], stage'[m]>> \in Moves
  BY DEF Stage, TypeOK

\* A step of submit moves its own thread, and may wake a worker; with the flag up it ends.
LEMMA SubmitEffect ==
  ASSUME SchedInv, NEW t \in Threads, Submit(t)
  PROVE  /\ \A u \in Threads \ {t} :
              pc'[u] = pc[u] \/ (u \in Workers /\ pc[u] = "waiting" /\ pc'[u] = "woken")
         /\ pc[t] \in SubmitPC
         /\ pc'[t] \in (SubmitPC \ {"sub_check"}) \cup {IF t \in Workers THEN "run" ELSE "ready"}
         /\ shutdown_flag => pc[t] # "sub_check" \/ pc'[t] \notin SubmitPC
         /\ UNCHANGED <<shutdown_flag, freed, owed, cur, batch>>
         /\ pc'[t] \in SubmitPC => sub'[t] = sub[t]
         /\ \A u \in Threads \ {t} : sub'[u] = sub[u]
         /\ pc[t] \notin {"sub_push", "sub_global"} => queue' = queue
<1>0. /\ pc \in [Threads -> WorkerPC \cup SubmitPC \cup ClientPC]
      /\ sub \in [Threads -> Tasks \cup {NULL}]
  BY DEF SchedInv, TypeOK
<1>1. CASE SubmitClosed(t)
  BY <1>0, <1>1 DEF SubmitClosed, Back, Goto, SubmitPC, workerVars
<1>2. CASE SubmitOpen(t)
  BY <1>0, <1>2 DEF SubmitOpen, Goto, SubmitPC, workerVars, callVars
<1>3. CASE SubmitCount(t)
  BY <1>0, <1>3 DEF SubmitCount, Goto, SubmitPC, workerVars, callVars
<1>4. CASE SubmitPush(t)
  BY <1>0, <1>4 DEF SubmitPush, Goto, SubmitPC, workerVars
<1>5. CASE SubmitPushGlobal(t)
  BY <1>0, <1>5 DEF SubmitPushGlobal, Goto, SubmitPC, workerVars, callVars
<1>6. CASE SubmitSignal(t)
  <2>1. /\ pc[t] = "sub_signal" /\ sub' = [sub EXCEPT ![t] = NULL]
        /\ UNCHANGED <<shutdown_flag, freed, owed, cur, batch, queue>>
    BY <1>6 DEF SubmitSignal, workerVars
  <2>2. /\ \A u \in Threads \ {t} :
             pc'[u] = pc[u] \/ (u \in Workers /\ pc[u] = "waiting" /\ pc'[u] = "woken")
        /\ pc'[t] = IF t \in Workers THEN "run" ELSE "ready"
    <3> DEFINE back == IF t \in Workers THEN "run" ELSE "ready"
    <3>1. CASE Goto(t, back)
      BY <1>0, <3>1 DEF Goto
    <3>2. ASSUME NEW w \in Workers, pc[w] = "waiting",
                 pc' = [pc EXCEPT ![t] = back, ![w] = "woken"]
          PROVE  <2>2
      BY <1>0, <2>1, <3>2, QueueFacts
    <3> QED
      BY <1>6, <3>1, <3>2 DEF SubmitSignal
  <2> QED
    BY <1>0, <2>1, <2>2 DEF SubmitPC
<1>7. CASE SubmitUndo(t)
  BY <1>0, <1>7 DEF SubmitUndo, Back, Goto, SubmitPC, workerVars
<1> QED
  BY <1>1, <1>2, <1>3, <1>4, <1>5, <1>6, <1>7 DEF Submit

\* It moves tasks along, none of them out of "new".
LEMMA SubmitFlow ==
  ASSUME SchedInv, NEW t \in Threads, Submit(t)
  PROVE  \A m \in Tasks : \/ stage'[m] = stage[m]
                          \/ <<stage[m], stage'[m]>> \in Moves /\ stage[m] # "new"
<1>0. TypeOK
  BY DEF SchedInv
<1>1. pc[t] \in {"sub_check", "sub_count"} => sub[t] \in Tasks /\ stage[sub[t]] = "submitting"
  BY SubmitOwner DEF HoldingPC, SubmitPC, SubStage
<1>2. pc[t] \in {"sub_push", "sub_global", "sub_undo"} => sub[t] \in Tasks /\ stage[sub[t]] = "counted"
  BY SubmitOwner DEF HoldingPC, SubmitPC, SubStage
<1>3. CASE stage' = stage
  BY <1>3
<1>4. CASE \E s \in {"refused", "counted"} : Stage(sub[t], s) /\ pc[t] \in {"sub_check", "sub_count"}
  BY <1>0, <1>1, <1>4 DEF Stage, TypeOK, Moves
<1>5. CASE \E s \in {"queued", "rejected"} :
             Stage(sub[t], s) /\ pc[t] \in {"sub_push", "sub_global", "sub_undo"}
  BY <1>0, <1>2, <1>5 DEF Stage, TypeOK, Moves
<1> QED
  BY <1>3, <1>4, <1>5 DEF Submit, SubmitClosed, SubmitOpen, SubmitCount, SubmitPush,
                          SubmitPushGlobal, SubmitSignal, SubmitUndo

\* A step of the worker loop moves its own thread, and only takes from queues.
LEMMA WorkerEffect ==
  ASSUME SchedInv, NEW w \in Workers, Worker(w)
  PROVE  /\ \A u \in Threads \ {w} : pc'[u] = pc[u]
         /\ pc'[w] \in WorkerPC
         /\ UNCHANGED <<shutdown_flag, freed, owed, sub, batch>>
         /\ \A v \in Workers \ {w} : cur'[v] = cur[v]
         /\ \A q \in Queues : queue[q] = << >> => queue'[q] = << >>
         /\ pc'[w] = "exit_global" => shutdown_flag
         /\ pc'[w] = "exit_own" => pc[w] = "exit_global" /\ queue[Global] = << >>
         /\ pc'[w] = "exited" => pc[w] = "exit_own" /\ queue[w] = << >>
<1>0. /\ pc \in [Threads -> WorkerPC \cup SubmitPC \cup ClientPC] /\ w \in Threads
      /\ cur \in [Workers -> Tasks \cup {NULL}] /\ queue \in [Queues -> Seq(Tasks)]
  BY QueueFacts DEF SchedInv, TypeOK
<1>1. CASE LoopTop(w) \/ ExitGlobal(w) \/ ExitOwn(w)
  BY <1>0, <1>1 DEF LoopTop, ExitGlobal, ExitOwn, Goto, WorkerPC, callVars, workerVars
<1>2. CASE TryLock(w) \/ TakeNothing(w)
  BY <1>0, <1>2 DEF TryLock, TakeNothing, NextProbe, Goto, WorkerPC, callVars, workerVars
<1>3. CASE TakeTask(w)
  <2>1. /\ pc' = [pc EXCEPT ![w] = "activate"] /\ queue[Probed(w)] # << >>
        /\ queue' = [queue EXCEPT ![Probed(w)] = Tail(@)]
        /\ \A v \in Workers \ {w} : cur'[v] = cur[v]
        /\ UNCHANGED <<shutdown_flag, freed, owed, sub, batch>>
    BY <1>0, <1>3 DEF TakeTask, Dequeue, Goto, callVars
  <2>2. \A q \in Queues : queue[q] = << >> => queue'[q] = << >>
    BY <1>0, <2>1
  <2> QED
    BY <1>0, <2>1, <2>2 DEF WorkerPC
<1>4. CASE Activate(w) \/ Unpend(w) \/ CallbackEnds(w) \/ Deactivate(w) \/ DestroyTask(w)
  BY <1>0, <1>4 DEF Activate, Unpend, CallbackEnds, Deactivate, DestroyTask, Goto, WorkerPC,
                    callVars, workerVars
<1>5. CASE IdleLock(w) \/ IdleGlobal(w) \/ IdleOwn(w) \/ Timeout(w) \/ Woken(w)
  BY <1>0, <1>5 DEF IdleLock, IdleGlobal, IdleOwn, Timeout, Woken, Goto, WorkerPC, callVars,
                    workerVars
<1> QED
  BY <1>1, <1>2, <1>3, <1>4, <1>5 DEF Worker

\* It moves tasks along, none of them into a batch of cancel_all.
LEMMA WorkerFlow ==
  ASSUME SchedInv, NEW w \in Workers, Worker(w)
  PROVE  \A m \in Tasks :
           \/ stage'[m] = stage[m]
           \/ /\ <<stage[m], stage'[m]>> \in Moves /\ stage[m] # "new"
              /\ stage'[m] # "batched"
<1>0. TypeOK
  BY DEF SchedInv
<1>1. pc[w] \in HandPC => cur[w] \in Tasks /\ stage[cur[w]] = HandStage(pc[w])
  BY WorkerOwner
<1>2. CASE stage' = stage
  BY <1>2
<1>3. CASE TakeTask(w)
  <2>1. PICK q \in Queues : q = Probed(w)
    BY ProbedType DEF SchedInv
  <2>2. PICK k : k = Head(queue[q])
    OBVIOUS
  <2>3. k \in Tasks /\ stage[k] = "queued" /\ Stage(k, "taken")
    BY <1>3, <2>1, <2>2, PopTask DEF TakeTask
  <2> QED
    BY <1>0, <2>3 DEF Stage, TypeOK, Moves
<1>4. CASE Activate(w)
  BY <1>0, <1>1, <1>4 DEF Activate, HandPC, HandStage, Stage, TypeOK, Moves
<1>5. CASE Unpend(w)
  BY <1>0, <1>1, <1>5 DEF Unpend, HandPC, HandStage, Stage, TypeOK, Moves
<1>6. CASE CallbackEnds(w)
  BY <1>0, <1>1, <1>6 DEF CallbackEnds, HandPC, HandStage, Stage, TypeOK, Moves
<1>7. CASE Deactivate(w)
  BY <1>0, <1>1, <1>7 DEF Deactivate, HandPC, HandStage, Stage, TypeOK, Moves
<1>8. CASE DestroyTask(w)
  BY <1>0, <1>1, <1>8 DEF DestroyTask, HandPC, HandStage, Stage, TypeOK, Moves
<1> QED
  BY <1>2, <1>3, <1>4, <1>5, <1>6, <1>7, <1>8
  DEF Worker, LoopTop, ExitGlobal, ExitOwn, TryLock, TakeNothing, IdleLock, IdleGlobal, IdleOwn,
      Timeout, Woken

\* A callback or a client enters fq_scheduler_submit.
LEMMA BeginEffect ==
  ASSUME SchedInv, NEW t \in Threads, NEW k \in Tasks, Begin(t, k)
  PROVE  /\ \A u \in Threads \ {t} : pc'[u] = pc[u] /\ sub'[u] = sub[u]
         /\ pc'[t] = "sub_check" /\ sub'[t] = k
         /\ UNCHANGED <<shutdown_flag, freed, owed, cur, batch, queue>>
         /\ stage[k] = "new" /\ stage'[k] = "submitting"
         /\ \A m \in Tasks \ {k} : stage'[m] = stage[m]
  BY DEF Begin, Goto, Stage, workerVars, SchedInv, TypeOK

\* A client inside a call: only its own program counter changes, except that a broadcast
\* wakes workers.
LEMMA ClientEffect ==
  ASSUME SchedInv, NEW c \in Clients,
         Client(c) \/ WaitIdle(c) \/ CancelAll(c) \/ Shutdown(c)
  PROVE  /\ \A u \in Threads \ {c} :
              pc'[u] = pc[u] \/ (u \in Workers /\ pc[u] = "waiting" /\ pc'[u] = "woken")
         /\ pc[c] \in ClientPC /\ pc'[c] \in ClientPC
         /\ UNCHANGED <<sub, cur>>
         /\ \A d \in Clients \ {c} : owed'[d] = owed[d]
         /\ \A q \in Queues : queue[q] = << >> => queue'[q] = << >>
<1>0. /\ pc \in [Threads -> WorkerPC \cup SubmitPC \cup ClientPC] /\ c \in Threads
      /\ owed \in [Clients -> SUBSET Tasks] /\ queue \in [Queues -> Seq(Tasks)]
      /\ \A d \in Clients : pc[d] # "waiting"
      /\ \A u \in Threads : u \in Workers \/ u \in Clients
  BY QueueFacts DEF SchedInv, TypeOK, PcInv, ClientPC, SubmitPC, Threads
<1>1. CASE LoadPending1(c) \/ LoadActive1(c) \/ LoadPending2(c)
  BY <1>0, <1>1 DEF LoadPending1, LoadActive1, LoadPending2, Load, Goto, ClientPC, callVars, workerVars
<1>2. CASE LoadActive2(c) \/ WaitIdle(c)
  BY <1>0, <1>2 DEF LoadActive2, WaitIdle, MayCall, Goto, ClientPC, callVars, workerVars
<1>3. CASE CancelLock(c) \/ CancelTakeNothing(c)
  BY <1>0, <1>3 DEF CancelLock, CancelTakeNothing, Goto, ClientPC, callVars, workerVars
<1>4. CASE CancelTake(c)
  <2>1. /\ queue[victim[c]] # << >> /\ queue' = [queue EXCEPT ![victim[c]] = Tail(@)]
        /\ pc[c] = "ca_take" /\ \E l \in {"ca_lock", "ca_destroy"} : pc' = [pc EXCEPT ![c] = l]
        /\ UNCHANGED <<sub, cur, owed>>
    BY <1>4 DEF CancelTake, Dequeue, Goto, workerVars
  <2>2. \A q \in Queues : queue[q] = << >> => queue'[q] = << >>
    BY <1>0, <2>1
  <2> QED
    BY <1>0, <2>1, <2>2 DEF ClientPC
<1>5. CASE CancelDestroy(c)
  BY <1>0, <1>5 DEF CancelDestroy, Goto, ClientPC, workerVars
<1>6. CASE CancelBroadcast(c) \/ ShutdownBroadcast(c)
  BY <1>0, <1>6 DEF CancelBroadcast, ShutdownBroadcast, Broadcast, ClientPC, callVars, workerVars
<1>7. CASE CancelAll(c) \/ Shutdown(c)
  BY <1>0, <1>7 DEF CancelAll, Shutdown, MayCall, Goto, ClientPC, callVars, workerVars
<1>8. CASE ShutdownJoin(c)
  BY <1>0, <1>8 DEF ShutdownJoin, Goto, ClientPC, callVars, workerVars
<1> QED
  BY <1>1, <1>2, <1>3, <1>4, <1>5, <1>6, <1>7, <1>8 DEF Client

\* The other calls of clients move tasks only from the queues into a batch and out of it.
LEMMA ClientFlow ==
  ASSUME SchedInv, NEW c \in Clients,
         Client(c) \/ WaitIdle(c) \/ CancelAll(c) \/ Shutdown(c)
  PROVE  \A m \in Tasks :
           \/ stage'[m] = stage[m]
           \/ <<stage[m], stage'[m]>> \in {<<"queued", "batched">>, <<"batched", "canceled">>}
<1>0. TypeOK
  BY DEF SchedInv
<1>1. CASE stage' = stage
  BY <1>1
<1>2. CASE CancelTake(c)
  <2>1. PICK q \in Queues : q = victim[c]
    BY <1>0 DEF TypeOK
  <2>2. PICK k : k = Head(queue[q])
    OBVIOUS
  <2>3. k \in Tasks /\ stage[k] = "queued" /\ Stage(k, "batched")
    BY <1>2, <2>1, <2>2, PopTask DEF CancelTake
  <2> QED
    BY <1>0, <2>3 DEF Stage, TypeOK
<1>3. CASE CancelDestroy(c)
  <2>1. \A k \in Tasks : (\E i \in DOMAIN batch[c] : batch[c][i] = k) => stage[k] = "batched"
    BY DEF SchedInv, StageInv
  <2> QED
    BY <1>3, <2>1 DEF CancelDestroy
<1> QED
  BY <1>1, <1>2, <1>3
  DEF Client, WaitIdle, CancelAll, Shutdown, LoadPending1, LoadActive1, LoadPending2, Load,
      LoadActive2, CancelLock, CancelTakeNothing, CancelBroadcast, ShutdownBroadcast, ShutdownJoin

\* What a step can be: the tasks that a callback or a client submits are tasks.
LEMMA NextCases ==
  ASSUME SchedInv, Next
  PROVE  \/ \E t \in Threads : Submit(t)
         \/ \E w \in Workers : Worker(w)
         \/ \E w \in Workers : /\ pc[w] = "run" /\ cur[w] \in Tasks /\ stage[cur[w]] = "running"
                               /\ \E k \in Tasks : k \in Spawns[cur[w]] /\ Begin(w, k)
         \/ \E c \in Clients : MayCall(c, "submit") /\ \E k \in Tasks : Begin(c, k)
         \/ \E c \in Clients : Client(c) \/ WaitIdle(c) \/ CancelAll(c) \/ Shutdown(c)
         \/ UNCHANGED vars
<1>1. ASSUME NEW w \in Workers, NestedSubmit(w)
      PROVE  /\ pc[w] = "run" /\ cur[w] \in Tasks /\ stage[cur[w]] = "running"
             /\ \E k \in Tasks : k \in Spawns[cur[w]] /\ Begin(w, k)
  <2>1. pc[w] = "run" /\ pc[w] \in HandPC /\ HandStage(pc[w]) = "running"
    BY <1>1 DEF NestedSubmit, HandPC, HandStage
  <2>2. cur[w] \in Tasks /\ stage[cur[w]] = "running"
    BY <2>1, WorkerOwner
  <2> QED
    BY <1>1, <2>1, <2>2, TaskAssumption DEF NestedSubmit
<1>2. ASSUME NEW c \in Clients, ClientSubmit(c)
      PROVE  MayCall(c, "submit") /\ \E k \in Tasks : Begin(c, k)
  BY <1>2, TaskAssumption DEF ClientSubmit
<1> QED
  BY <1>1, <1>2 DEF Next, Finished

\* A task goes through its stages in the order that submit, worker_main and cancel_all
\* give: nothing takes it back.
LEMMA StagesFlow ==
  ASSUME SchedInv, [Next]_vars
  PROVE  \A m \in Tasks : stage'[m] = stage[m] \/ <<stage[m], stage'[m]>> \in Moves
<1>1. ASSUME NEW t \in Threads, NEW k \in Tasks, Begin(t, k)
      PROVE  \A m \in Tasks : stage'[m] = stage[m] \/ <<stage[m], stage'[m]>> \in Moves
  BY <1>1, BeginEffect DEF Moves
<1>2. CASE UNCHANGED vars
  BY <1>2 DEF vars
<1>3. ASSUME NEW c \in Clients, Client(c) \/ WaitIdle(c) \/ CancelAll(c) \/ Shutdown(c)
      PROVE  \A m \in Tasks : stage'[m] = stage[m] \/ <<stage[m], stage'[m]>> \in Moves
  BY <1>3, ClientFlow DEF Moves
<1> QED
  BY <1>1, <1>2, <1>3, NextCases, SubmitFlow, WorkerFlow, QueueFacts

-----------------------------------------------------------------------------
(* fq_scheduler_wait_idle *)

WaitPC == {"idle_p1", "idle_a1", "idle_p2", "idle_a2"}

\* A client that is not waiting, or that starts to wait, or one step further, or back at
\* the first load, or where it was.
LEMMA WaiterMoves ==
  ASSUME SchedInv, [Next]_vars, NEW c \in Clients, pc'[c] \in WaitPC
  PROVE  \/ WaitIdle(c)
         \/ LoadPending1(c) \/ LoadActive1(c) \/ LoadPending2(c)
         \/ pc[c] = "idle_a2" /\ pc'[c] = "idle_p1" /\ owed'[c] = owed[c]
         \/ pc'[c] = pc[c] /\ owed'[c] = owed[c]
<1>0. c \in Threads /\ c \notin Workers /\ pc \in [Threads -> WorkerPC \cup SubmitPC \cup ClientPC]
  BY QueueFacts DEF SchedInv, TypeOK
<1>1. ASSUME NEW t \in Threads, Submit(t) PROVE pc'[c] = pc[c] /\ owed'[c] = owed[c]
  <2>1. t # c
    BY <1>0, <1>1, SubmitEffect DEF WaitPC, SubmitPC
  <2> QED
    BY <1>0, <1>1, <2>1, SubmitEffect
<1>2. ASSUME NEW w \in Workers, Worker(w) PROVE pc'[c] = pc[c] /\ owed'[c] = owed[c]
  BY <1>0, <1>2, WorkerEffect
<1>3. ASSUME NEW t \in Threads, NEW k \in Tasks, Begin(t, k)
      PROVE  pc'[c] = pc[c] /\ owed'[c] = owed[c]
  <2>1. t # c
    BY <1>3, BeginEffect DEF WaitPC
  <2> QED
    BY <1>0, <1>3, <2>1, BeginEffect
<1>4. CASE UNCHANGED vars
  BY <1>4 DEF vars, callVars
<1>5. ASSUME NEW d \in Clients \ {c}, Client(d) \/ WaitIdle(d) \/ CancelAll(d) \/ Shutdown(d)
      PROVE  pc'[c] = pc[c] /\ owed'[c] = owed[c]
  BY <1>0, <1>5, ClientEffect
<1>6. CASE LoadActive2(c)
  <2>1. pc'[c] # "ready"
    BY DEF WaitPC
  <2> QED
    BY <1>0, <1>6, <2>1 DEF LoadActive2, Goto
<1>7. CASE \/ CancelLock(c) \/ CancelTake(c) \/ CancelTakeNothing(c) \/ CancelDestroy(c)
           \/ CancelBroadcast(c) \/ ShutdownBroadcast(c) \/ ShutdownJoin(c)
           \/ CancelAll(c) \/ Shutdown(c)
  <2>1. pc'[c] \in {"ca_lock", "ca_take", "ca_destroy", "ca_broadcast", "ready", "sd_broadcast",
                    "sd_join", "closed"}
    BY <1>0, <1>7 DEF CancelLock, CancelTake, CancelTakeNothing, CancelDestroy, CancelBroadcast,
         ShutdownBroadcast, ShutdownJoin, CancelAll, Shutdown, Broadcast, Goto
  <2> QED
    BY <2>1 DEF WaitPC
<1>8. ASSUME NEW d \in Clients, Client(d) \/ WaitIdle(d) \/ CancelAll(d) \/ Shutdown(d)
      PROVE  \/ WaitIdle(c) \/ LoadPending1(c) \/ LoadActive1(c) \/ LoadPending2(c)
             \/ pc[c] = "idle_a2" /\ pc'[c] = "idle_p1" /\ owed'[c] = owed[c]
             \/ pc'[c] = pc[c] /\ owed'[c] = owed[c]
  <2>1. CASE d = c
    BY <1>6, <1>7, <1>8, <2>1 DEF Client
  <2>2. CASE d # c
    BY <1>5, <1>8, <2>2
  <2> QED
    BY <2>1, <2>2
<1> QED
  BY <1>1, <1>2, <1>3, <1>4, <1>8, NextCases, QueueFacts

\* A task that a waiting client has seen counted stays counted or is over; once the first
\* load has found nothing pending, every such task has at least begun to run.
WaitInv ==
  \A c \in Clients :
    /\ pc[c] \in WaitPC =>
         \A k \in owed[c] : stage[k] \in PendingStages \cup ActiveStages \cup OverStages
    /\ pc[c] \in WaitPC \ {"idle_p1"} =>
         \A k \in owed[c] : stage[k] \in ActiveStages \cup OverStages

\* A counter that is zero counts no task.
LEMMA ZeroMeansNone ==
  ASSUME SchedInv
  PROVE  /\ tasks_pending = 0 => \A k \in Tasks : stage[k] \notin PendingStages
         /\ tasks_active = 0 => \A k \in Tasks : stage[k] \notin ActiveStages
<1>1. /\ tasks_pending = Cardinality(InStages(PendingStages))
      /\ tasks_active = Cardinality(InStages(ActiveStages))
  BY DEF SchedInv, CountersMatch
<1>2. /\ tasks_pending = 0 => InStages(PendingStages) = {}
      /\ tasks_active = 0 => InStages(ActiveStages) = {}
  BY <1>1, InStagesFinite
<1> QED
  BY <1>2 DEF InStages

\* The two loads of the first pass establish what WaitInv says, and no step undoes it.
LEMMA StepWaitInv == SchedInv /\ WaitInv /\ [Next]_vars => WaitInv'
<1> SUFFICES ASSUME SchedInv, WaitInv, [Next]_vars, NEW c \in Clients, pc'[c] \in WaitPC,
                    NEW k \in owed'[c]
             PROVE  /\ stage'[k] \in PendingStages \cup ActiveStages \cup OverStages
                    /\ pc'[c] # "idle_p1" => stage'[k] \in ActiveStages \cup OverStages
  BY DEF WaitInv
<1>0. /\ owed \in [Clients -> SUBSET Tasks]
      /\ c \in Threads /\ pc \in [Threads -> WorkerPC \cup SubmitPC \cup ClientPC]
  BY QueueFacts DEF SchedInv, TypeOK
\* No move leads out of these stages.
<1>1. ASSUME NEW m \in Tasks
      PROVE  /\ stage[m] \in PendingStages \cup ActiveStages \cup OverStages =>
                  stage'[m] \in PendingStages \cup ActiveStages \cup OverStages
             /\ stage[m] \in ActiveStages \cup OverStages =>
                  stage'[m] \in ActiveStages \cup OverStages
  <2>1. stage'[m] = stage[m] \/ <<stage[m], stage'[m]>> \in Moves
    BY StagesFlow
  <2> QED
    BY <2>1 DEF Moves, PendingStages, ActiveStages, OverStages, EndedStages
<1>2. CASE WaitIdle(c)
  <2>1. /\ pc'[c] = "idle_p1" /\ k \in Tasks /\ stage' = stage
        /\ stage[k] \in PendingStages \cup ActiveStages
    BY <1>0, <1>2 DEF WaitIdle, Goto
  <2> QED
    BY <2>1
<1>3. CASE LoadPending1(c)
  <2>1. k \in owed[c] /\ k \in Tasks /\ pc[c] = "idle_p1" /\ stage' = stage
    BY <1>0, <1>3 DEF LoadPending1, Load, callVars
  <2>2. stage[k] \in PendingStages \cup ActiveStages \cup OverStages
    BY <2>1 DEF WaitInv, WaitPC
  <2>3. pc'[c] # "idle_p1" => tasks_pending = 0
    BY <1>0, <1>3 DEF LoadPending1, Load, Goto
  <2> QED
    BY <2>1, <2>2, <2>3, ZeroMeansNone
<1>4. CASE LoadActive1(c) \/ LoadPending2(c)
  <2>1. k \in owed[c] /\ k \in Tasks /\ pc[c] \in WaitPC \ {"idle_p1"} /\ stage' = stage
    BY <1>0, <1>4 DEF LoadActive1, LoadPending2, Load, callVars, WaitPC
  <2> QED
    BY <2>1 DEF WaitInv
<1>5. CASE pc[c] = "idle_a2" /\ pc'[c] = "idle_p1" /\ owed'[c] = owed[c]
  BY <1>0, <1>1, <1>5 DEF WaitInv, WaitPC
<1>6. CASE pc'[c] = pc[c] /\ owed'[c] = owed[c]
  BY <1>0, <1>1, <1>6 DEF WaitInv, WaitPC
<1> QED
  BY <1>2, <1>3, <1>4, <1>5, <1>6, WaiterMoves

\* At first nobody waits.
LEMMA InitWaitInv == Init => WaitInv
  BY QueueFacts DEF Init, WaitInv, WaitPC

\* wait_idle returns from its last load only, which found tasks_active at zero.
LEMMA AnswerMeansZero ==
  ASSUME SchedInv, [Next]_vars, NEW c \in Clients, Answers(c)
  PROVE  tasks_active = 0
<1>0. /\ c \in Threads /\ c \notin Workers /\ pc[c] = "idle_a2" /\ pc'[c] = "ready"
      /\ pc \in [Threads -> WorkerPC \cup SubmitPC \cup ClientPC]
  BY QueueFacts DEF SchedInv, TypeOK, Answers
<1>1. ASSUME NEW t \in Threads, Submit(t) PROVE FALSE
  <2>1. t # c
    BY <1>0, <1>1, SubmitEffect DEF SubmitPC
  <2> QED
    BY <1>0, <1>1, <2>1, SubmitEffect
<1>2. ASSUME NEW w \in Workers, Worker(w) PROVE FALSE
  BY <1>0, <1>2, WorkerEffect
<1>3. ASSUME NEW t \in Threads, NEW k \in Tasks, Begin(t, k) PROVE FALSE
  BY <1>0, <1>3, BeginEffect
<1>4. CASE UNCHANGED vars
  BY <1>0, <1>4 DEF vars
<1>5. ASSUME NEW d \in Clients, Client(d) \/ WaitIdle(d) \/ CancelAll(d) \/ Shutdown(d)
      PROVE  tasks_active = 0
  <2>1. d = c
    BY <1>0, <1>5, ClientEffect
  <2>2. LoadActive2(c)
    BY <1>0, <1>5, <2>1 DEF Client, WaitIdle, CancelAll, Shutdown, MayCall, LoadPending1,
         LoadActive1, LoadPending2, Load, CancelLock, CancelTake, CancelTakeNothing,
         CancelDestroy, CancelBroadcast, ShutdownBroadcast, ShutdownJoin
  <2> QED
    BY <1>0, <2>2 DEF LoadActive2, Goto
<1> QED
  BY <1>1, <1>2, <1>3, <1>4, <1>5, NextCases, QueueFacts

\* When wait_idle returns, the callback of every task that was counted when it was called
\* is over or will never run (scheduler.c:123-126, 435-450): whatever other clients,
\* thieves and callbacks do between its four loads.
THEOREM WaitedTasksTheorem == Spec => WaitedTasksEnded
<1>1. SchedInv /\ WaitInv /\ [Next]_vars =>
        [\A c \in Clients : Answers(c) => \A k \in owed[c] : stage[k] \in OverStages]_vars
  <2> SUFFICES ASSUME SchedInv, WaitInv, [Next]_vars, NEW c \in Clients, Answers(c), NEW k \in owed[c]
               PROVE  stage[k] \in OverStages
    OBVIOUS
  <2>1. pc[c] = "idle_a2" /\ k \in Tasks
    BY DEF Answers, SchedInv, TypeOK
  <2>2. stage[k] \in ActiveStages \cup OverStages
    BY <2>1 DEF WaitInv, WaitPC
  <2>3. stage[k] \notin ActiveStages
    BY <2>1, AnswerMeansZero, ZeroMeansNone
  <2> QED
    BY <2>2, <2>3
<1> QED
  BY <1>1, InitWaitInv, StepWaitInv, SchedInvariant, PTL DEF Spec, WaitedTasksEnded

-----------------------------------------------------------------------------
(* fq_scheduler_is_idle *)

\* One client, and tasks that are submitted by a callback submit none themselves.  With two
\* clients one may submit while the other waits; run sched_chain shows what a longer chain does.
OneClientOnly == \A c, d \in Clients : c = d
SpawnsOnce == \A k \in Tasks : \A j \in Spawns[k] : Spawns[j] = {}

\* What a worker submits is what the callback that it runs may submit.
NestInv == \A w \in Workers : pc[w] \in SubmitPC => sub[w] \in Spawns[cur[w]]

\* What each of the loads of is_idle has established, for as long as the call lasts: after
\* the first, no task that is still to run will submit another; after the second, no task
\* that is still to end will, and nobody is submitting; after the third, nothing is pending.
IdleInv ==
  \A c \in Clients :
    /\ pc[c] = "idle_a1" =>
         \A k \in Tasks : stage[k] \in {"submitting", "counted", "queued", "taken", "active"} =>
                           Spawns[k] = {}
    /\ pc[c] \in {"idle_p2", "idle_a2"} =>
         \A k \in Tasks : /\ stage[k] \in {"queued", "taken", "active", "running"} => Spawns[k] = {}
                          /\ stage[k] \notin {"submitting", "counted"}
    /\ pc[c] = "idle_a2" => \A k \in Tasks : stage[k] \notin PendingStages

\* A callback submits what it may, until its submit returns.
LEMMA StepNestInv == SchedInv /\ NestInv /\ [Next]_vars => NestInv'
<1> SUFFICES ASSUME SchedInv, NestInv, [Next]_vars, NEW w \in Workers, pc'[w] \in SubmitPC
             PROVE  sub'[w] \in Spawns[cur'[w]]
  BY DEF NestInv
<1>0. /\ w \in Threads /\ {"run", "woken"} \cap SubmitPC = {} /\ WorkerPC \cap SubmitPC = {}
      /\ ClientPC \cap SubmitPC = {} /\ \A c \in Clients : c # w /\ c \in Threads
  BY QueueFacts DEF SubmitPC, WorkerPC, ClientPC
<1>1. ASSUME NEW t \in Threads, Submit(t) PROVE sub'[w] \in Spawns[cur'[w]]
  <2>1. pc[w] \in SubmitPC /\ sub'[w] = sub[w] /\ cur' = cur
    BY <1>0, <1>1, SubmitEffect
  <2> QED
    BY <2>1 DEF NestInv
<1>2. ASSUME NEW v \in Workers, Worker(v) PROVE sub'[w] \in Spawns[cur'[w]]
  <2>1. v # w
    BY <1>0, <1>2, WorkerEffect
  <2>2. pc[w] \in SubmitPC /\ sub'[w] = sub[w] /\ cur'[w] = cur[w]
    BY <1>0, <1>2, <2>1, WorkerEffect
  <2> QED
    BY <2>2 DEF NestInv
<1>3. ASSUME NEW v \in Workers, NEW k \in Tasks, k \in Spawns[cur[v]], Begin(v, k)
      PROVE  sub'[w] \in Spawns[cur'[w]]
  <2>0. v \in Threads
    BY QueueFacts
  <2>1. CASE v = w
    BY <1>0, <1>3, <2>0, <2>1, BeginEffect
  <2>2. CASE v # w
    BY <1>0, <1>3, <2>0, <2>2, BeginEffect DEF NestInv
  <2> QED
    BY <2>1, <2>2
<1>4. ASSUME NEW c \in Clients, NEW k \in Tasks, Begin(c, k) PROVE sub'[w] \in Spawns[cur'[w]]
  BY <1>0, <1>4, BeginEffect DEF NestInv
<1>5. ASSUME NEW c \in Clients, Client(c) \/ WaitIdle(c) \/ CancelAll(c) \/ Shutdown(c)
      PROVE  sub'[w] \in Spawns[cur'[w]]
  <2>1. pc'[w] = pc[w] /\ sub' = sub /\ cur' = cur
    BY <1>0, <1>5, ClientEffect
  <2> QED
    BY <2>1 DEF NestInv
<1>6. CASE UNCHANGED vars
  BY <1>6 DEF vars, workerVars, callVars, NestInv
<1> QED
  BY <1>1, <1>2, <1>3, <1>4, <1>5, <1>6, NextCases

\* At first no callback runs.
LEMMA InitNestInv == Init => NestInv
  BY QueueFacts DEF Init, NestInv, SubmitPC

\* While the only client waits, a task enters the stages of submission through a callback
\* that is running, and none is drained.
LEMMA OnlyCallbacksSubmit ==
  ASSUME SchedInv, [Next]_vars, OneClientOnly, NEW c \in Clients, pc[c] \in WaitPC, NEW m \in Tasks
  PROVE  \/ stage'[m] = stage[m]
         \/ <<stage[m], stage'[m]>> \in Moves /\ stage[m] # "new"
         \/ /\ stage'[m] = "submitting"
            /\ \E w \in Workers :
                 cur[w] \in Tasks /\ stage[cur[w]] = "running" /\ m \in Spawns[cur[w]]
<1>0. pc[c] # "ready"
  BY DEF WaitPC
<1>1. ASSUME NEW w \in Workers, NEW k \in Tasks, k \in Spawns[cur[w]], Begin(w, k),
             cur[w] \in Tasks, stage[cur[w]] = "running"
      PROVE  \/ stage'[m] = stage[m]
             \/ /\ stage'[m] = "submitting"
                /\ \E v \in Workers :
                     cur[v] \in Tasks /\ stage[cur[v]] = "running" /\ m \in Spawns[cur[v]]
  BY <1>1, BeginEffect, QueueFacts
<1>2. ASSUME NEW d \in Clients, MayCall(d, "submit") PROVE FALSE
  BY <1>0, <1>2 DEF MayCall, OneClientOnly
<1>3. ASSUME NEW d \in Clients, Client(d) \/ WaitIdle(d) \/ CancelAll(d) \/ Shutdown(d)
      PROVE  stage'[m] = stage[m] \/ (<<stage[m], stage'[m]>> \in Moves /\ stage[m] # "new")
  BY <1>3, ClientFlow DEF Moves
<1>4. CASE UNCHANGED vars
  BY <1>4 DEF vars
<1> QED
  BY <1>1, <1>2, <1>3, <1>4, NextCases, SubmitFlow, WorkerFlow

\* A task in a submitter's hands, while the only client waits, was created by a callback.
LEMMA SubmittingWhileWaiting ==
  ASSUME SchedInv, NestInv, OneClientOnly, NEW c \in Clients, pc[c] \in WaitPC, NEW m \in Tasks,
         stage[m] \in {"submitting", "counted"}
  PROVE  \E w \in Workers : cur[w] \in Tasks /\ stage[cur[w]] = "running" /\ m \in Spawns[cur[w]]
<1>1. PICK t \in Threads : pc[t] \in HoldingPC /\ sub[t] = m
  BY DEF SchedInv, PresentInv
<1>2. t \in Workers
  BY <1>1 DEF OneClientOnly, Threads, WaitPC, HoldingPC, SubmitPC
<1>3. pc[t] \in SubmitPC /\ pc[t] \in HandPC /\ HandStage(pc[t]) = "running"
  BY <1>1 DEF HoldingPC, HandPC, SubmitPC, HandStage
<1>4. cur[t] \in Tasks /\ stage[cur[t]] = "running"
  BY <1>2, <1>3, WorkerOwner
<1> QED
  BY <1>1, <1>2, <1>3, <1>4 DEF NestInv

\* Each load of is_idle establishes its part, and callbacks that run meanwhile keep it.
LEMMA StepIdleInv ==
  ASSUME OneClientOnly, SpawnsOnce
  PROVE  SchedInv /\ NestInv /\ IdleInv /\ [Next]_vars => IdleInv'
<1> SUFFICES ASSUME SchedInv, NestInv, IdleInv, [Next]_vars, NEW c \in Clients, NEW k \in Tasks,
                    pc'[c] \in {"idle_a1", "idle_p2", "idle_a2"}
             PROVE  /\ pc'[c] = "idle_a1" =>
                         (stage'[k] \in {"submitting", "counted", "queued", "taken", "active"} =>
                            Spawns[k] = {})
                    /\ pc'[c] \in {"idle_p2", "idle_a2"} =>
                         /\ stage'[k] \in {"queued", "taken", "active", "running"} => Spawns[k] = {}
                         /\ stage'[k] \notin {"submitting", "counted"}
                    /\ pc'[c] = "idle_a2" => stage'[k] \notin PendingStages
  BY DEF IdleInv
<1>0. /\ c \in Threads /\ pc \in [Threads -> WorkerPC \cup SubmitPC \cup ClientPC]
      /\ pc'[c] \in WaitPC
  BY QueueFacts DEF SchedInv, TypeOK, WaitPC
<1>1. CASE LoadPending1(c) /\ pc'[c] = "idle_a1"
  <2>1. pc[c] \in WaitPC /\ tasks_pending = 0 /\ stage' = stage
    BY <1>0, <1>1 DEF LoadPending1, Load, Goto, WaitPC
  <2>2. stage[k] \notin PendingStages
    BY <2>1, ZeroMeansNone
  <2>3. stage[k] = "submitting" => Spawns[k] = {}
    BY <2>1, SubmittingWhileWaiting DEF SpawnsOnce
  <2> QED
    BY <1>1, <2>1, <2>2, <2>3 DEF PendingStages
<1>2. CASE LoadActive1(c) /\ pc'[c] = "idle_p2"
  <2>1. pc[c] = "idle_a1" /\ pc[c] \in WaitPC /\ tasks_active = 0 /\ stage' = stage
    BY <1>0, <1>2 DEF LoadActive1, Load, Goto, WaitPC
  <2>2. \A m \in Tasks : stage[m] \notin ActiveStages
    BY <2>1, ZeroMeansNone
  <2>3. stage[k] \notin {"submitting", "counted"}
    BY <2>1, <2>2, SubmittingWhileWaiting DEF ActiveStages
  <2>4. stage[k] \in {"queued", "taken", "active"} => Spawns[k] = {}
    BY <2>1 DEF IdleInv
  <2> QED
    BY <1>2, <2>1, <2>2, <2>3, <2>4 DEF ActiveStages
<1>3. CASE LoadPending2(c) /\ pc'[c] = "idle_a2"
  <2>1. pc[c] = "idle_p2" /\ tasks_pending = 0 /\ stage' = stage
    BY <1>0, <1>3 DEF LoadPending2, Load, Goto
  <2>2. stage[k] \notin PendingStages
    BY <2>1, ZeroMeansNone
  <2> QED
    BY <1>3, <2>1, <2>2 DEF IdleInv
<1>4. CASE pc'[c] = pc[c]
  <2>1. \/ stage'[k] = stage[k]
        \/ <<stage[k], stage'[k]>> \in Moves /\ stage[k] # "new"
        \/ /\ stage'[k] = "submitting"
           /\ \E w \in Workers :
                cur[w] \in Tasks /\ stage[cur[w]] = "running" /\ k \in Spawns[cur[w]]
    BY <1>0, <1>4, OnlyCallbacksSubmit
  <2>2. CASE pc[c] = "idle_a1"
    <3>1. stage[k] \in {"submitting", "counted", "queued", "taken", "active"} => Spawns[k] = {}
      BY <2>2 DEF IdleInv
    <3>2. CASE stage'[k] = stage[k] \/ (<<stage[k], stage'[k]>> \in Moves /\ stage[k] # "new")
      BY <1>4, <2>2, <3>1, <3>2 DEF Moves
    <3>3. CASE \E w \in Workers :
                 cur[w] \in Tasks /\ stage[cur[w]] = "running" /\ k \in Spawns[cur[w]]
      BY <1>4, <2>2, <3>3 DEF SpawnsOnce
    <3> QED
      BY <2>1, <3>2, <3>3
  <2>3. CASE pc[c] \in {"idle_p2", "idle_a2"}
    <3>1. /\ \A m \in Tasks : stage[m] = "running" => Spawns[m] = {}
          /\ stage[k] \in {"queued", "taken", "active", "running"} => Spawns[k] = {}
          /\ stage[k] \notin {"submitting", "counted"}
          /\ pc[c] = "idle_a2" => stage[k] \notin PendingStages
      BY <2>3 DEF IdleInv
    <3>2. CASE stage'[k] = stage[k] \/ (<<stage[k], stage'[k]>> \in Moves /\ stage[k] # "new")
      BY <1>4, <2>3, <3>1, <3>2 DEF Moves, PendingStages
    <3>3. CASE \E w \in Workers :
                 cur[w] \in Tasks /\ stage[cur[w]] = "running" /\ k \in Spawns[cur[w]]
      BY <3>1, <3>3
    <3> QED
      BY <2>1, <3>2, <3>3
  <2> QED
    BY <1>4, <2>2, <2>3
<1>5. pc'[c] # "idle_p1"
  OBVIOUS
<1>6. /\ LoadPending1(c) => pc'[c] = "idle_a1"
      /\ LoadActive1(c) => pc'[c] = "idle_p2"
      /\ LoadPending2(c) => pc'[c] = "idle_a2"
      /\ ~WaitIdle(c)
  BY <1>0, <1>5 DEF LoadPending1, LoadActive1, LoadPending2, Load, WaitIdle, Goto
<1> QED
  BY <1>0, <1>1, <1>2, <1>3, <1>4, <1>5, <1>6, WaiterMoves

\* At first nobody waits.
LEMMA InitIdleInv == Init => IdleInv
  BY QueueFacts DEF Init, IdleInv

\* fq_scheduler_is_idle answers TRUE only when nothing is pending and nothing runs
\* (scheduler.h:116): its two passes over the counters (scheduler.c:435-450) are enough for
\* tasks that callbacks submit, if those submit no more.
THEOREM IdleTheorem ==
  ASSUME OneClientOnly, SpawnsOnce
  PROVE  Spec => IdleIsQuiescent
<1>1. SchedInv /\ IdleInv /\ [Next]_vars =>
        [\A c \in Clients : Answers(c) =>
           InStages(PendingStages \cup ActiveStages) \subseteq InStages({"canceled"})]_vars
  <2> SUFFICES ASSUME SchedInv, IdleInv, [Next]_vars, NEW c \in Clients, Answers(c)
               PROVE  InStages(PendingStages \cup ActiveStages) \subseteq InStages({"canceled"})
    OBVIOUS
  <2>1. \A k \in Tasks : stage[k] \notin PendingStages
    BY DEF Answers, IdleInv
  <2>2. \A k \in Tasks : stage[k] \notin ActiveStages
    BY AnswerMeansZero, ZeroMeansNone
  <2> QED
    BY <2>1, <2>2 DEF InStages
<1>2. SchedInv /\ NestInv /\ IdleInv /\ [Next]_vars => IdleInv'
  BY StepIdleInv
<1> QED
  BY <1>1, <1>2, InitIdleInv, InitNestInv, StepNestInv, SchedInvariant, PTL
  DEF Spec, IdleIsQuiescent

-----------------------------------------------------------------------------
(* fq_scheduler_shutdown *)

\* No callback submits a task, and no client may cancel while another submits.  Run
\* sched_nested shows what a callback that submits does.
NoNesting == \A k \in Tasks : Spawns[k] = {}
NoCancelRace == "cancel_all" \notin Ops \/ OneClientOnly

StopPC == {"sd_broadcast", "sd_join", "closed"}
PushPC == {"sub_count", "sub_push", "sub_global", "sub_signal", "sub_undo"}

\* Once the flag is up nobody is past the test of it in submit, so no queue grows any more,
\* and a worker that leaves has seen the flag and both its queues empty; when shutdown has
\* joined the workers no client is inside another call.
DrainInv ==
  /\ \A w \in Workers :
       /\ pc[w] \notin SubmitPC
       /\ pc[w] \in {"exit_global", "exit_own", "exited"} => shutdown_flag
       /\ pc[w] \in {"exit_own", "exited"} => queue[Global] = << >>
       /\ pc[w] = "exited" => queue[w] = << >>
  /\ \A c \in Clients :
       /\ shutdown_flag => pc[c] \notin PushPC
       /\ pc[c] \in StopPC => \A d \in Clients \ {c} : pc[d] = "ready"
  /\ freed => /\ \A w \in Workers : pc[w] = "exited"
              /\ \E c \in Clients : pc[c] = "closed"

\* At first the flag is down and every thread is at its start.
LEMMA InitDrainInv == Init => DrainInv
  BY QueueFacts DEF Init, DrainInv, SubmitPC, PushPC, StopPC

\* A worker that has left, and a client that has closed the scheduler, do nothing more.
LEMMA StepDrainSubmit ==
  ASSUME SchedInv, DrainInv, NEW t \in Threads, Submit(t)
  PROVE  DrainInv'
<1>1. t \in Clients /\ t \notin Workers
  BY SubmitEffect, QueueFacts DEF DrainInv, Threads
<1>2. shutdown_flag => queue' = queue /\ pc'[t] \notin PushPC
  <2>1. shutdown_flag => pc[t] = "sub_check"
    BY <1>1, SubmitEffect DEF DrainInv, PushPC, SubmitPC
  <2> QED
    BY <2>1, SubmitEffect DEF PushPC, SubmitPC
<1>3. \A c \in Clients : pc'[c] \in StopPC => c # t /\ pc'[c] = pc[c]
  BY <1>1, SubmitEffect, QueueFacts DEF StopPC, SubmitPC
<1>4. \A c \in Clients : pc[c] \in StopPC => c = t
  BY <1>1, SubmitEffect DEF DrainInv, SubmitPC
<1>5. pc[t] \notin StopPC
  BY SubmitEffect DEF StopPC, SubmitPC
<1>6. \A w \in Workers : pc'[w] = pc[w] \/ (pc[w] = "waiting" /\ pc'[w] = "woken")
  BY <1>1, SubmitEffect, QueueFacts
<1>7. \A w \in Workers :
       /\ pc'[w] \notin SubmitPC
       /\ pc'[w] \in {"exit_global", "exit_own", "exited"} => shutdown_flag'
       /\ pc'[w] \in {"exit_own", "exited"} => queue'[Global] = << >>
       /\ pc'[w] = "exited" => queue'[w] = << >>
  BY <1>2, <1>6, SubmitEffect DEF DrainInv, SubmitPC
<1>8. \A c \in Clients : shutdown_flag' => pc'[c] \notin PushPC
  <2>1. \A c \in Clients \ {t} : pc'[c] = pc[c]
    BY SubmitEffect, QueueFacts
  <2> QED
    BY <1>2, <2>1, SubmitEffect DEF DrainInv
<1>9. ~freed /\ ~freed'
  BY <1>4, <1>5, SubmitEffect DEF DrainInv, StopPC
<1>10. \A c \in Clients : pc'[c] \notin StopPC
  BY <1>3, <1>4, <1>5
<1> QED
  BY <1>7, <1>8, <1>9, <1>10 DEF DrainInv

\* The worker loop: a worker leaves after it has seen the flag and its two queues.
LEMMA StepDrainWorker ==
  ASSUME SchedInv, DrainInv, NEW w \in Workers, Worker(w)
  PROVE  DrainInv'
<1>1. w \in Threads /\ \A c \in Clients : c # w /\ c \in Threads
  BY QueueFacts
<1>2. \A c \in Clients : pc'[c] = pc[c]
  BY <1>1, WorkerEffect
<1>3. pc[w] # "exited"
  BY DEF Worker, LoopTop, ExitGlobal, ExitOwn, TryLock, TakeTask, TakeNothing, Activate, Unpend,
         CallbackEnds, Deactivate, DestroyTask, IdleLock, IdleGlobal, IdleOwn, Timeout, Woken
<1>4. ~freed /\ ~freed'
  BY <1>3, WorkerEffect DEF DrainInv
<1>5. queue[Global] = << >> => queue'[Global] = << >>
  BY WorkerEffect, QueueFacts
<1>6. ASSUME NEW v \in Workers
      PROVE  /\ pc'[v] \notin SubmitPC
             /\ pc'[v] \in {"exit_global", "exit_own", "exited"} => shutdown_flag'
             /\ pc'[v] \in {"exit_own", "exited"} => queue'[Global] = << >>
             /\ pc'[v] = "exited" => queue'[v] = << >>
  <2>0. queue[v] = << >> => queue'[v] = << >>
    BY WorkerEffect, QueueFacts
  <2>1. CASE v # w
    <3>1. pc'[v] = pc[v] /\ shutdown_flag' = shutdown_flag
      BY <2>1, WorkerEffect, QueueFacts
    <3> QED
      BY <1>5, <2>0, <3>1 DEF DrainInv
  <2>2. CASE v = w
    <3>1. pc'[w] \notin SubmitPC
      BY WorkerEffect DEF WorkerPC, SubmitPC
    <3>2. pc'[w] = "exit_global" => shutdown_flag
      BY WorkerEffect
    <3>3. pc'[w] = "exit_own" => pc[w] = "exit_global" /\ queue[Global] = << >>
      BY WorkerEffect
    <3>4. pc'[w] = "exited" => pc[w] = "exit_own" /\ queue[w] = << >>
      BY WorkerEffect
    <3>5. shutdown_flag' = shutdown_flag
      BY WorkerEffect
    <3> QED
      BY <1>5, <2>0, <2>2, <3>1, <3>2, <3>3, <3>4, <3>5 DEF DrainInv
  <2> QED
    BY <2>1, <2>2
<1>7. shutdown_flag' = shutdown_flag
  BY WorkerEffect
<1> QED
  BY <1>2, <1>4, <1>6, <1>7 DEF DrainInv

\* A client begins a submit: it has not tested the flag yet.
LEMMA StepDrainBegin ==
  ASSUME SchedInv, DrainInv, NEW c \in Clients, MayCall(c, "submit"), NEW k \in Tasks, Begin(c, k)
  PROVE  DrainInv'
<1>1. c \in Threads /\ \A w \in Workers : c # w /\ w \in Threads
  BY QueueFacts
<1>2. \A w \in Workers : pc'[w] = pc[w]
  BY <1>1, BeginEffect
<1>3. \A d \in Clients \ {c} : pc'[d] = pc[d]
  BY <1>1, BeginEffect, QueueFacts
<1>4. pc'[c] = "sub_check" /\ UNCHANGED <<shutdown_flag, freed, queue>>
  BY <1>1, BeginEffect
<1>5. \A d \in Clients : pc[d] \notin StopPC
  BY DEF MayCall, StopPC
<1>6. ~freed
  BY <1>5 DEF DrainInv, StopPC
<1> QED
  BY <1>2, <1>3, <1>4, <1>5, <1>6 DEF DrainInv, StopPC, PushPC

\* The other calls of clients.  The broadcast and the joins keep what the flag has stopped.
LEMMA StepDrainClient ==
  ASSUME NoCancelRace, SchedInv, DrainInv, NEW c \in Clients,
         Client(c) \/ WaitIdle(c) \/ CancelAll(c) \/ Shutdown(c)
  PROVE  DrainInv'
<1>0. /\ c \in Threads /\ c \notin Workers
      /\ pc \in [Threads -> WorkerPC \cup SubmitPC \cup ClientPC]
  BY QueueFacts DEF SchedInv, TypeOK
<1>1. /\ \A w \in Workers : pc'[w] = pc[w] \/ (pc[w] = "waiting" /\ pc'[w] = "woken")
      /\ \A d \in Clients \ {c} : pc'[d] = pc[d]
  BY <1>0, ClientEffect, QueueFacts
<1>2. \A q \in Queues : queue[q] = << >> => queue'[q] = << >>
  BY ClientEffect
<1>3. pc'[c] \notin PushPC
  BY ClientEffect DEF ClientPC, PushPC
<1>4. shutdown_flag => shutdown_flag'
  BY DEF Client, WaitIdle, CancelAll, Shutdown, LoadPending1, LoadActive1, LoadPending2, Load,
         LoadActive2, CancelLock, CancelTake, CancelTakeNothing, CancelDestroy, CancelBroadcast,
         ShutdownBroadcast, ShutdownJoin
<1>5. \A w \in Workers :
       /\ pc'[w] \notin SubmitPC
       /\ pc'[w] \in {"exit_global", "exit_own", "exited"} => shutdown_flag'
       /\ pc'[w] \in {"exit_own", "exited"} => queue'[Global] = << >>
       /\ pc'[w] = "exited" => queue'[w] = << >>
  BY <1>1, <1>2, <1>4, QueueFacts DEF DrainInv, SubmitPC
<1>6. CASE Shutdown(c)
  <2>1. /\ \A d \in Clients : pc[d] = "ready"
        /\ pc'[c] = "sd_broadcast" /\ freed' = freed
    BY <1>0, <1>6 DEF Shutdown, Goto
  <2>2. ~freed
    BY <2>1 DEF DrainInv
  <2> QED
    BY <1>1, <1>5, <2>1, <2>2 DEF DrainInv, PushPC, StopPC
<1>7. CASE CancelAll(c)
  <2>1. /\ pc'[c] = "ca_lock" /\ \A d \in Clients : d = c /\ pc[d] = "ready"
        /\ freed' = freed
    BY <1>0, <1>7 DEF CancelAll, MayCall, Goto, NoCancelRace, OneClientOnly
  <2>2. ~freed
    BY <2>1 DEF DrainInv
  <2> QED
    BY <1>3, <1>5, <2>1, <2>2 DEF DrainInv, StopPC
<1>8. CASE ShutdownBroadcast(c) \/ ShutdownJoin(c)
  <2>1. /\ pc[c] \in {"sd_broadcast", "sd_join"} /\ pc[c] \in StopPC
        /\ pc'[c] \in {"sd_join", "closed"} /\ shutdown_flag' = shutdown_flag
    BY <1>0, <1>8 DEF ShutdownBroadcast, ShutdownJoin, Broadcast, Goto, StopPC
  <2>2. \A d \in Clients \ {c} : pc[d] = "ready" /\ pc'[d] = "ready"
    BY <1>1, <2>1 DEF DrainInv
  <2>3. ~freed
    BY <2>1, <2>2 DEF DrainInv
  <2>4. freed' => (\A w \in Workers : pc[w] = "exited") /\ pc'[c] = "closed"
    BY <1>0, <1>8, <2>3 DEF ShutdownBroadcast, ShutdownJoin, Goto
  <2>5. freed' => \A w \in Workers : pc'[w] = "exited"
    BY <1>1, <2>4
  <2>6. \A d \in Clients : /\ shutdown_flag' => pc'[d] \notin PushPC
                           /\ pc'[d] \in StopPC => \A e \in Clients \ {d} : pc'[e] = "ready"
    BY <1>3, <2>2 DEF PushPC, StopPC
  <2> QED
    BY <1>5, <2>4, <2>5, <2>6 DEF DrainInv
<1>9. ASSUME \/ WaitIdle(c) \/ LoadPending1(c) \/ LoadActive1(c) \/ LoadPending2(c)
             \/ LoadActive2(c) \/ CancelLock(c) \/ CancelTake(c) \/ CancelTakeNothing(c)
             \/ CancelDestroy(c) \/ CancelBroadcast(c)
      PROVE  DrainInv'
  <2>1. /\ pc'[c] \in ClientPC \ StopPC /\ UNCHANGED <<shutdown_flag, freed>>
        /\ pc[c] \notin StopPC
        /\ pc[c] = "ready" => \A d \in Clients : pc[d] \notin StopPC
    BY <1>0, <1>9
    DEF WaitIdle, MayCall, LoadPending1, LoadActive1, LoadPending2, Load, LoadActive2, CancelLock,
        CancelTake, CancelTakeNothing, CancelDestroy, CancelBroadcast, Broadcast, Goto, StopPC,
        ClientPC
  <2>2. \A d \in Clients : pc[d] \notin StopPC
    BY <2>1 DEF DrainInv
  <2>3. ~freed
    BY <2>2 DEF DrainInv, StopPC
  <2>4. \A d \in Clients : pc'[d] \notin StopPC
    BY <1>1, <2>1, <2>2
  <2>5. \A d \in Clients : shutdown_flag' => pc'[d] \notin PushPC
    BY <1>1, <1>3, <2>1 DEF DrainInv
  <2> QED
    BY <1>5, <2>1, <2>3, <2>4, <2>5 DEF DrainInv
<1> QED
  BY <1>6, <1>7, <1>8, <1>9 DEF Client

\* Every step keeps it.
LEMMA StepDrainInv ==
  ASSUME NoNesting, NoCancelRace
  PROVE  SchedInv /\ DrainInv /\ [Next]_vars => DrainInv'
<1> SUFFICES ASSUME SchedInv, DrainInv, [Next]_vars PROVE DrainInv'
  OBVIOUS
<1>1. ASSUME NEW w \in Workers, cur[w] \in Tasks, NEW k \in Spawns[cur[w]] PROVE FALSE
  BY <1>1 DEF NoNesting
<1>2. CASE UNCHANGED vars
  BY <1>2 DEF DrainInv, vars
<1> QED
  BY <1>1, <1>2, NextCases, StepDrainSubmit, StepDrainWorker, StepDrainBegin, StepDrainClient

\* With the scheduler freed there is no place left for a task.
LEMMA DrainedWhenFreed == SchedInv /\ DrainInv => ShutdownDrains
<1> SUFFICES ASSUME SchedInv, DrainInv, freed, NEW k \in Tasks,
                    stage[k] \in PendingStages \cup ActiveStages, stage[k] # "canceled"
             PROVE  FALSE
  BY DEF ShutdownDrains, InStages
<1>1. /\ \A w \in Workers : pc[w] = "exited" /\ queue[w] = << >> /\ queue[Global] = << >>
      /\ \A c \in Clients : pc[c] \in {"ready", "closed"}
  BY DEF DrainInv, StopPC
<1>2. stage[k] # "queued"
  <2>1. \A q \in Queues : queue[q] = << >>
    BY <1>1, QueueFacts, WorkerAssumption DEF Queues, Workers, Global
  <2> QED
    BY <2>1 DEF SchedInv, PresentInv
<1>3. stage[k] \notin {"taken", "active", "running", "ran"}
  <2>1. \A w \in Workers : cur[w] = NULL
    BY <1>1 DEF SchedInv, PcInv, HandPC, SubmitPC
  <2> QED
    BY <2>1, NullAssumption DEF SchedInv, PresentInv
<1>4. stage[k] # "counted"
  BY <1>1 DEF SchedInv, PresentInv, HoldingPC, SubmitPC, Threads
<1>5. stage[k] # "batched"
  <2>1. \A c \in Clients : batch[c] = << >>
    BY <1>1 DEF SchedInv, PcInv
  <2> QED
    BY <2>1 DEF SchedInv, PresentInv
<1> QED
  BY <1>2, <1>3, <1>4, <1>5 DEF PendingStages, ActiveStages

\* fq_scheduler_shutdown frees the queues only when nothing is pending or running
\* (scheduler.h:54): the flag is read by submit before it counts, and by a worker before
\* it looks at its queues (scheduler.c:95-97, 291-300, 346-354).
THEOREM ShutdownTheorem ==
  ASSUME NoNesting, NoCancelRace
  PROVE  Spec => []ShutdownDrains
<1>1. SchedInv /\ DrainInv /\ [Next]_vars => DrainInv'
  BY StepDrainInv
<1> QED
  BY <1>1, InitDrainInv, DrainedWhenFreed, SchedInvariant, PTL DEF Spec
=============================================================================
