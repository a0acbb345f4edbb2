------------------------------ MODULE Scheduler ------------------------------
(***************************************************************************)
(* src/scheduler/scheduler.c: the workers, and the calls that clients make *)
(* from outside and callbacks make from inside a worker.                   *)
(*                                                                         *)
(* A queue is a sequence here: a push, and the pop of the thread that      *)
(* holds pop_lock, are single steps because RingQueue implements           *)
(* FifoQueue (theorem RingImplementsQueue).  What try_pop adds, that a     *)
(* thread gives up while another one pops, is kept through pop_lock.       *)
(* fq_queue_empty is one read; RingQueueSize says what that leaves out.    *)
(*                                                                         *)
(* Tasks are submitted with fq_scheduler_submit_fn, so a task whose        *)
(* submission fails is destroyed by the caller.  "stage" follows each task *)
(* through its life; no step of the code depends on it.                    *)
(***************************************************************************)
EXTENDS Integers, Sequences, FiniteSets

CONSTANTS WorkerCount,     \* workers 0 .. WorkerCount - 1
          Clients,         \* the other threads that use the scheduler
          Tasks,
          Roots,           \* the tasks that clients submit
          High,            \* the tasks with FQ_PRIORITY_HIGH or above
          Spawns,          \* the tasks that the callback of a task may create and submit
          LocalBound,      \* what a worker's queue can hold
          GlobalBound,     \* what the global queue can hold
          BATCH,           \* the drain size of fq_scheduler_cancel_all
          EnablePriority,
          EnableStealing,
          Ops,             \* the calls that clients make, a subset of ClientOps
          NULL

Workers == 0 .. WorkerCount - 1
Global  == WorkerCount            \* the global queue
Queues  == 0 .. WorkerCount
Threads == Workers \cup Clients

ClientOps == {"submit", "wait_idle", "cancel_all", "shutdown"}

ASSUME WorkerAssumption == WorkerCount \in Nat \ {0}
ASSUME ClientAssumption == Clients \cap Workers = {}
ASSUME TaskAssumption ==
  /\ IsFiniteSet(Tasks)
  /\ Roots \subseteq Tasks /\ High \subseteq Tasks
  /\ Spawns \in [Tasks -> SUBSET Tasks]
ASSUME BoundAssumption == LocalBound \in Nat /\ GlobalBound \in Nat /\ BATCH \in Nat \ {0}
ASSUME FlagAssumption ==
  EnablePriority \in BOOLEAN /\ EnableStealing \in BOOLEAN /\ Ops \subseteq ClientOps
ASSUME NullAssumption == NULL \notin Tasks /\ NULL \notin Threads

VARIABLES
  shutdown_flag,
  tasks_submitted, tasks_completed, tasks_canceled, tasks_pending, tasks_active,
  queue,         \* the tasks in each queue, oldest first
  pop_lock,      \* who holds the pop_lock of each queue, or NULL
  submit_mutex,  \* who holds it, or NULL
  pc,            \* where each thread is
  probe,         \* how far a worker's search for a task has come
  cur,           \* the task in a worker's hands, or NULL
  sub,           \* the task a thread is submitting, or NULL
  next,          \* tls_next_worker % worker_count
  victim,        \* the queue fq_scheduler_cancel_all is draining
  batch,         \* its array "tasks"
  freed,         \* fq_scheduler_shutdown has released the scheduler
  stage,         \* history: the life of each task
  owed           \* history: the tasks counted when a client called wait_idle

counters == <<tasks_submitted, tasks_completed, tasks_canceled, tasks_pending, tasks_active>>
workerVars == <<probe, cur>>
callVars == <<sub, next, victim, batch, owed>>
vars == <<shutdown_flag, counters, queue, pop_lock, submit_mutex, pc,
          workerVars, callVars, freed, stage>>

\* Where a task is.  pending counts it from "counted" to "active", and for ever
\* once cancel_all has taken it; active counts it from "active" to "ran".
PendingStages == {"counted", "queued", "taken", "active", "batched", "canceled"}
ActiveStages  == {"active", "running", "ran"}
EndedStages   == {"ran", "settled", "destroyed"}
OverStages    == EndedStages \cup {"canceled", "rejected"}
Stages == {"new", "submitting", "refused", "rejected"}
            \cup PendingStages \cup ActiveStages \cup EndedStages

WorkerPC == {"top", "exit_global", "exit_own", "find", "take", "activate", "unpend", "run",
             "deactivate", "destroy", "idle_lock", "idle_global", "idle_own", "waiting",
             "woken", "exited"}
SubmitPC == {"sub_check", "sub_count", "sub_push", "sub_global", "sub_signal", "sub_undo"}
ClientPC == {"ready", "idle_p1", "idle_a1", "idle_p2", "idle_a2", "ca_lock", "ca_take",
             "ca_destroy", "ca_broadcast", "sd_broadcast", "sd_join", "closed"}

TypeOK ==
  /\ shutdown_flag \in BOOLEAN /\ freed \in BOOLEAN
  /\ tasks_submitted \in Nat /\ tasks_completed \in Nat /\ tasks_canceled \in Nat
  /\ tasks_pending \in Nat /\ tasks_active \in Nat
  /\ queue \in [Queues -> Seq(Tasks)]
  /\ pop_lock \in [Queues -> Threads \cup {NULL}]
  /\ submit_mutex \in Workers \cup {NULL}
  /\ pc \in [Threads -> WorkerPC \cup SubmitPC \cup ClientPC]
  /\ probe \in [Workers -> Nat \ {0}]
  /\ cur \in [Workers -> Tasks \cup {NULL}]
  /\ sub \in [Threads -> Tasks \cup {NULL}]
  /\ next \in [Threads -> Workers]
  /\ victim \in [Clients -> Queues]
  /\ batch \in [Clients -> Seq(Tasks)]
  /\ stage \in [Tasks -> Stages]
  /\ owed \in [Clients -> SUBSET Tasks]

\* fq_scheduler_create: everything zeroed, every worker thread started.
Init ==
  /\ shutdown_flag = FALSE /\ freed = FALSE
  /\ tasks_submitted = 0 /\ tasks_completed = 0 /\ tasks_canceled = 0
  /\ tasks_pending = 0 /\ tasks_active = 0
  /\ queue = [q \in Queues |-> << >>]
  /\ pop_lock = [q \in Queues |-> NULL]
  /\ submit_mutex = NULL
  /\ pc = [t \in Threads |-> IF t \in Workers THEN "top" ELSE "ready"]
  /\ probe = [w \in Workers |-> 1]
  /\ cur = [w \in Workers |-> NULL]
  /\ sub = [t \in Threads |-> NULL]
  /\ next = [t \in Threads |-> 0]
  /\ victim = [c \in Clients |-> Global]
  /\ batch = [c \in Clients |-> << >>]
  /\ stage = [k \in Tasks |-> "new"]
  /\ owed = [c \in Clients |-> {}]

Goto(t, l) == pc' = [pc EXCEPT ![t] = l]

Stage(k, s) == stage' = [stage EXCEPT ![k] = s]

Enqueue(q, k) == queue' = [queue EXCEPT ![q] = Append(@, k)]

\* The pop of a thread that holds pop_lock, and the unlock.
Dequeue(q) ==
  /\ queue' = [queue EXCEPT ![q] = Tail(@)]
  /\ pop_lock' = [pop_lock EXCEPT ![q] = NULL]

\* fq_condition_broadcast(idle_cond): every waiting worker will go on; thread t moves to l.
Broadcast(t, l) ==
  pc' = [u \in Threads |-> IF u = t THEN l
                           ELSE IF pc[u] = "waiting" THEN "woken" ELSE pc[u]]

-----------------------------------------------------------------------------
(* fq_scheduler_submit, called by a client or by the callback a worker runs *)

Begin(t, k) ==
  /\ stage[k] = "new"
  /\ sub' = [sub EXCEPT ![t] = k]
  /\ Stage(k, "submitting")
  /\ Goto(t, "sub_check")
  /\ UNCHANGED <<shutdown_flag, counters, queue, pop_lock, submit_mutex, workerVars,
                 next, victim, batch, owed, freed>>

\* The call is over: a client is free again, a callback goes on.
Back(t) ==
  /\ Goto(t, IF t \in Workers THEN "run" ELSE "ready")
  /\ sub' = [sub EXCEPT ![t] = NULL]

\* FQ_ERR_CLOSED.
SubmitClosed(t) ==
  /\ pc[t] = "sub_check" /\ shutdown_flag
  /\ Stage(sub[t], "refused")
  /\ Back(t)
  /\ UNCHANGED <<shutdown_flag, counters, queue, pop_lock, submit_mutex, workerVars,
                 next, victim, batch, owed, freed>>

SubmitOpen(t) ==
  /\ pc[t] = "sub_check" /\ ~shutdown_flag
  /\ Goto(t, "sub_count")
  /\ UNCHANGED <<shutdown_flag, counters, queue, pop_lock, submit_mutex, workerVars,
                 callVars, freed, stage>>

\* Both counters go up before the task can be seen by a worker.
SubmitCount(t) ==
  /\ pc[t] = "sub_count"
  /\ tasks_submitted' = tasks_submitted + 1
  /\ tasks_pending' = tasks_pending + 1
  /\ Stage(sub[t], "counted")
  /\ Goto(t, IF EnablePriority /\ sub[t] \in High THEN "sub_global" ELSE "sub_push")
  /\ UNCHANGED <<shutdown_flag, tasks_completed, tasks_canceled, tasks_active, queue,
                 pop_lock, submit_mutex, workerVars, callVars, freed>>

\* Mutant of SubmitPush: the fallback is taken although the first push succeeded.
SubmitPush_Both(t) ==
  /\ pc[t] = "sub_push"
  /\ next' = [next EXCEPT ![t] = (@ + 1) % WorkerCount]
  /\ IF Len(queue[next[t]]) < LocalBound
     THEN Enqueue(next[t], sub[t]) /\ Stage(sub[t], "queued")
     ELSE UNCHANGED <<queue, stage>>
  /\ Goto(t, "sub_global")
  /\ UNCHANGED <<shutdown_flag, counters, pop_lock, submit_mutex, workerVars, sub,
                 victim, batch, owed, freed>>

\* Round robin over the workers; a full queue sends the task to the global one.
SubmitPush(t) ==
  /\ pc[t] = "sub_push"
  /\ next' = [next EXCEPT ![t] = (@ + 1) % WorkerCount]
  /\ IF Len(queue[next[t]]) < LocalBound
     THEN /\ Enqueue(next[t], sub[t]) /\ Stage(sub[t], "queued")
          /\ Goto(t, "sub_signal")
     ELSE /\ Goto(t, "sub_global")
          /\ UNCHANGED <<queue, stage>>
  /\ UNCHANGED <<shutdown_flag, counters, pop_lock, submit_mutex, workerVars, sub,
                 victim, batch, owed, freed>>

SubmitPushGlobal(t) ==
  /\ pc[t] = "sub_global"
  /\ IF Len(queue[Global]) < GlobalBound
     THEN /\ Enqueue(Global, sub[t]) /\ Stage(sub[t], "queued")
          /\ Goto(t, "sub_signal")
     ELSE /\ Goto(t, "sub_undo")
          /\ UNCHANGED <<queue, stage>>
  /\ UNCHANGED <<shutdown_flag, counters, pop_lock, submit_mutex, workerVars, callVars,
                 freed>>

\* fq_condition_signal, without submit_mutex: one of the waiting workers, if any.
SubmitSignal(t) ==
  /\ pc[t] = "sub_signal"
  /\ sub' = [sub EXCEPT ![t] = NULL]
  /\ LET back == IF t \in Workers THEN "run" ELSE "ready"
         asleep == {w \in Workers : pc[w] = "waiting"}
     IN IF asleep = {} THEN Goto(t, back)
        ELSE \E w \in asleep : pc' = [pc EXCEPT ![t] = back, ![w] = "woken"]
  /\ UNCHANGED <<shutdown_flag, counters, queue, pop_lock, submit_mutex, workerVars,
                 next, victim, batch, owed, freed, stage>>

\* Mutant of SubmitUndo: the overflow path forgets the counter.
SubmitUndo_KeepsPending(t) ==
  /\ pc[t] = "sub_undo"
  /\ Stage(sub[t], "rejected")
  /\ Back(t)
  /\ UNCHANGED <<shutdown_flag, counters, queue, pop_lock, submit_mutex, workerVars, next,
                 victim, batch, owed, freed>>

\* Both queues were full: FQ_ERR_OVERFLOW.
SubmitUndo(t) ==
  /\ pc[t] = "sub_undo"
  /\ tasks_pending' = tasks_pending - 1
  /\ Stage(sub[t], "rejected")
  /\ Back(t)
  /\ UNCHANGED <<shutdown_flag, tasks_submitted, tasks_completed, tasks_canceled,
                 tasks_active, queue, pop_lock, submit_mutex, workerVars, next, victim,
                 batch, owed, freed>>

Submit(t) == \/ SubmitClosed(t) \/ SubmitOpen(t) \/ SubmitCount(t) \/ SubmitPush(t)
             \/ SubmitPushGlobal(t) \/ SubmitSignal(t) \/ SubmitUndo(t)

-----------------------------------------------------------------------------
(* worker_main *)

\* try_steal goes once around the other workers, starting after the thief.
StealOrder(w) ==
  IF EnableStealing THEN [i \in 1 .. WorkerCount - 1 |-> (w + i) % WorkerCount] ELSE << >>

\* The queues a worker tries, in order.
SearchOrder(w) ==
  IF EnablePriority THEN <<Global, w>> \o StealOrder(w)
                    ELSE <<w>> \o StealOrder(w) \o <<Global>>

\* Mutant of LoopTop: the worker does not look at the flag.
LoopTop_IgnoresFlag(w) ==
  /\ pc[w] = "top"
  /\ Goto(w, "find")
  /\ probe' = [probe EXCEPT ![w] = 1]
  /\ UNCHANGED <<shutdown_flag, counters, queue, pop_lock, submit_mutex, cur, callVars,
                 freed, stage>>

\* The head of the loop reads the flag first, then the two queues.
LoopTop(w) ==
  /\ pc[w] = "top"
  /\ Goto(w, IF shutdown_flag THEN "exit_global" ELSE "find")
  /\ probe' = [probe EXCEPT ![w] = 1]
  /\ UNCHANGED <<shutdown_flag, counters, queue, pop_lock, submit_mutex, cur, callVars,
                 freed, stage>>

\* Mutant of ExitGlobal: the worker leaves without looking at its own queue.
ExitGlobal_SkipsOwn(w) ==
  /\ pc[w] = "exit_global"
  /\ Goto(w, IF queue[Global] = << >> THEN "exited" ELSE "find")
  /\ UNCHANGED <<shutdown_flag, counters, queue, pop_lock, submit_mutex, workerVars,
                 callVars, freed, stage>>

ExitGlobal(w) ==
  /\ pc[w] = "exit_global"
  /\ Goto(w, IF queue[Global] = << >> THEN "exit_own" ELSE "find")
  /\ UNCHANGED <<shutdown_flag, counters, queue, pop_lock, submit_mutex, workerVars,
                 callVars, freed, stage>>

ExitOwn(w) ==
  /\ pc[w] = "exit_own"
  /\ Goto(w, IF queue[w] = << >> THEN "exited" ELSE "find")
  /\ UNCHANGED <<shutdown_flag, counters, queue, pop_lock, submit_mutex, workerVars,
                 callVars, freed, stage>>

Probed(w) == SearchOrder(w)[probe[w]]

\* This queue gives nothing: the next one, or the idle path after the last.
NextProbe(w) ==
  IF probe[w] < Len(SearchOrder(w))
  THEN probe' = [probe EXCEPT ![w] = @ + 1] /\ Goto(w, "find")
  ELSE Goto(w, "idle_lock") /\ UNCHANGED probe

\* Mutant of TryLock: the worker pops although another thread holds the lock.
TryLock_Always(w) ==
  /\ pc[w] = "find"
  /\ pop_lock' = [pop_lock EXCEPT ![Probed(w)] = w]
  /\ Goto(w, "take")
  /\ UNCHANGED <<shutdown_flag, counters, queue, submit_mutex, workerVars, callVars, freed,
                 stage>>

\* fq_mutex_trylock of fq_queue_try_pop.
TryLock(w) ==
  /\ pc[w] = "find"
  /\ IF pop_lock[Probed(w)] = NULL
     THEN /\ pop_lock' = [pop_lock EXCEPT ![Probed(w)] = w]
          /\ Goto(w, "take")
          /\ UNCHANGED probe
     ELSE /\ NextProbe(w)
          /\ UNCHANGED pop_lock
  /\ UNCHANGED <<shutdown_flag, counters, queue, submit_mutex, cur, callVars, freed, stage>>

TakeTask(w) ==
  /\ pc[w] = "take"
  /\ queue[Probed(w)] # << >>
  /\ cur' = [cur EXCEPT ![w] = Head(queue[Probed(w)])]
  /\ Stage(Head(queue[Probed(w)]), "taken")
  /\ Dequeue(Probed(w))
  /\ Goto(w, "activate")
  /\ UNCHANGED <<shutdown_flag, counters, submit_mutex, probe, callVars, freed>>

TakeNothing(w) ==
  /\ pc[w] = "take"
  /\ queue[Probed(w)] = << >>
  /\ pop_lock' = [pop_lock EXCEPT ![Probed(w)] = NULL]
  /\ NextProbe(w)
  /\ UNCHANGED <<shutdown_flag, counters, queue, submit_mutex, cur, callVars, freed, stage>>

\* The task is counted as active before it stops being counted as pending.
Activate(w) ==
  /\ pc[w] = "activate"
  /\ tasks_active' = tasks_active + 1
  /\ Stage(cur[w], "active")
  /\ Goto(w, "unpend")
  /\ UNCHANGED <<shutdown_flag, tasks_submitted, tasks_completed, tasks_canceled,
                 tasks_pending, queue, pop_lock, submit_mutex, workerVars, callVars, freed>>

\* Then fq_task_execute enters the callback.
Unpend(w) ==
  /\ pc[w] = "unpend"
  /\ tasks_pending' = tasks_pending - 1
  /\ Stage(cur[w], "running")
  /\ Goto(w, "run")
  /\ UNCHANGED <<shutdown_flag, tasks_submitted, tasks_completed, tasks_canceled,
                 tasks_active, queue, pop_lock, submit_mutex, workerVars, callVars, freed>>

\* The callback submits a task of its own.
NestedSubmit(w) ==
  /\ pc[w] = "run"
  /\ \E k \in Spawns[cur[w]] : Begin(w, k)

CallbackEnds(w) ==
  /\ pc[w] = "run"
  /\ tasks_completed' = tasks_completed + 1
  /\ Stage(cur[w], "ran")
  /\ Goto(w, "deactivate")
  /\ UNCHANGED <<shutdown_flag, tasks_submitted, tasks_canceled, tasks_pending,
                 tasks_active, queue, pop_lock, submit_mutex, workerVars, callVars, freed>>

\* Mutant of Deactivate: tasks_active is not lowered.
Deactivate_StaysActive(w) ==
  /\ pc[w] = "deactivate"
  /\ Stage(cur[w], "settled")
  /\ Goto(w, "destroy")
  /\ UNCHANGED <<shutdown_flag, counters, queue, pop_lock, submit_mutex, workerVars,
                 callVars, freed>>

Deactivate(w) ==
  /\ pc[w] = "deactivate"
  /\ tasks_active' = tasks_active - 1
  /\ Stage(cur[w], "settled")
  /\ Goto(w, "destroy")
  /\ UNCHANGED <<shutdown_flag, tasks_submitted, tasks_completed, tasks_canceled,
                 tasks_pending, queue, pop_lock, submit_mutex, workerVars, callVars, freed>>

\* fq_task_destroy comes after the task has left every counter.
DestroyTask(w) ==
  /\ pc[w] = "destroy"
  /\ Stage(cur[w], "destroyed")
  /\ cur' = [cur EXCEPT ![w] = NULL]
  /\ Goto(w, "top")
  /\ UNCHANGED <<shutdown_flag, counters, queue, pop_lock, submit_mutex, probe, callVars,
                 freed>>

IdleLock(w) ==
  /\ pc[w] = "idle_lock"
  /\ submit_mutex = NULL
  /\ submit_mutex' = w
  /\ Goto(w, "idle_global")
  /\ UNCHANGED <<shutdown_flag, counters, queue, pop_lock, workerVars, callVars, freed, stage>>

IdleGlobal(w) ==
  /\ pc[w] = "idle_global"
  /\ IF queue[Global] = << >>
     THEN Goto(w, "idle_own") /\ UNCHANGED submit_mutex
     ELSE Goto(w, "top") /\ submit_mutex' = NULL
  /\ UNCHANGED <<shutdown_flag, counters, queue, pop_lock, workerVars, callVars, freed, stage>>

\* fq_condition_timedwait gives the mutex back.
IdleOwn(w) ==
  /\ pc[w] = "idle_own"
  /\ submit_mutex' = NULL
  /\ Goto(w, IF queue[w] = << >> THEN "waiting" ELSE "top")
  /\ UNCHANGED <<shutdown_flag, counters, queue, pop_lock, workerVars, callVars, freed, stage>>

\* Mutant of Timeout: an untimed wait.
Timeout_Never(w) ==
  /\ pc[w] = "waiting" /\ FALSE
  /\ UNCHANGED vars

\* The 1 to 16 ms of the wait are over, or it wakes spuriously.
Timeout(w) ==
  /\ pc[w] = "waiting"
  /\ Goto(w, "woken")
  /\ UNCHANGED <<shutdown_flag, counters, queue, pop_lock, submit_mutex, workerVars,
                 callVars, freed, stage>>

\* The wait returns with the mutex, which is unlocked at once.
Woken(w) ==
  /\ pc[w] = "woken"
  /\ submit_mutex = NULL
  /\ Goto(w, "top")
  /\ UNCHANGED <<shutdown_flag, counters, queue, pop_lock, submit_mutex, workerVars,
                 callVars, freed, stage>>

Worker(w) == \/ LoopTop(w) \/ ExitGlobal(w) \/ ExitOwn(w)
             \/ TryLock(w) \/ TakeTask(w) \/ TakeNothing(w)
             \/ Activate(w) \/ Unpend(w) \/ CallbackEnds(w) \/ Deactivate(w) \/ DestroyTask(w)
             \/ IdleLock(w) \/ IdleGlobal(w) \/ IdleOwn(w) \/ Timeout(w) \/ Woken(w)

-----------------------------------------------------------------------------
(* The clients' calls.  fq_scheduler_shutdown releases the scheduler, so no other *)
(* client may be inside a call when it starts, and none may start one after it.   *)

MayCall(c, o) ==
  /\ o \in Ops
  /\ pc[c] = "ready"
  /\ \A d \in Clients : pc[d] \notin {"sd_broadcast", "sd_join", "closed"}

ClientSubmit(c) ==
  /\ MayCall(c, "submit")
  /\ \E k \in Roots : Begin(c, k)

\* fq_scheduler_wait_idle repeats fq_scheduler_is_idle until it says TRUE.
WaitIdle(c) ==
  /\ MayCall(c, "wait_idle")
  /\ owed' = [owed EXCEPT ![c] =
                {k \in Tasks : stage[k] \in PendingStages \cup ActiveStages}]
  /\ Goto(c, "idle_p1")
  /\ UNCHANGED <<shutdown_flag, counters, queue, pop_lock, submit_mutex, workerVars, sub,
                 next, victim, batch, freed, stage>>

\* Mutant of Load: is_idle does not test what it has read.
Load_Untested(c, counter, from, to) ==
  /\ pc[c] = from
  /\ Goto(c, to)
  /\ UNCHANGED <<shutdown_flag, counters, queue, pop_lock, submit_mutex, workerVars,
                 callVars, freed, stage>>

\* One load of is_idle: zero leads on, anything else starts over.
Load(c, counter, from, to) ==
  /\ pc[c] = from
  /\ Goto(c, IF counter = 0 THEN to ELSE "idle_p1")
  /\ UNCHANGED <<shutdown_flag, counters, queue, pop_lock, submit_mutex, workerVars,
                 callVars, freed, stage>>

\* Mutant of LoadPending2: the second pass reads only tasks_active.
LoadPending2_Skipped(c) ==
  /\ pc[c] = "idle_p2"
  /\ Goto(c, "idle_a2")
  /\ UNCHANGED <<shutdown_flag, counters, queue, pop_lock, submit_mutex, workerVars,
                 callVars, freed, stage>>

LoadPending1(c) == Load(c, tasks_pending, "idle_p1", "idle_a1")
LoadActive1(c)  == Load(c, tasks_active,  "idle_a1", "idle_p2")
LoadPending2(c) == Load(c, tasks_pending, "idle_p2", "idle_a2")

\* The last load lets wait_idle return.
LoadActive2(c) ==
  /\ pc[c] = "idle_a2"
  /\ IF tasks_active = 0
     THEN Goto(c, "ready") /\ owed' = [owed EXCEPT ![c] = {}]
     ELSE Goto(c, "idle_p1") /\ UNCHANGED owed
  /\ UNCHANGED <<shutdown_flag, counters, queue, pop_lock, submit_mutex, workerVars,
                 sub, next, victim, batch, freed, stage>>

CancelAll(c) ==
  /\ MayCall(c, "cancel_all")
  /\ shutdown_flag' = TRUE
  /\ victim' = [victim EXCEPT ![c] = Global]
  /\ Goto(c, "ca_lock")
  /\ UNCHANGED <<counters, queue, pop_lock, submit_mutex, workerVars, sub, next, batch,
                 owed, freed, stage>>

\* fq_queue_drain is a run of pops, each of which waits for pop_lock.
CancelLock(c) ==
  /\ pc[c] = "ca_lock"
  /\ pop_lock[victim[c]] = NULL
  /\ pop_lock' = [pop_lock EXCEPT ![victim[c]] = c]
  /\ Goto(c, "ca_take")
  /\ UNCHANGED <<shutdown_flag, counters, queue, submit_mutex, workerVars, callVars,
                 freed, stage>>

CancelTake(c) ==
  /\ pc[c] = "ca_take"
  /\ queue[victim[c]] # << >>
  /\ batch' = [batch EXCEPT ![c] = Append(@, Head(queue[victim[c]]))]
  /\ Stage(Head(queue[victim[c]]), "batched")
  /\ Dequeue(victim[c])
  /\ Goto(c, IF Len(batch[c]) + 1 < BATCH THEN "ca_lock" ELSE "ca_destroy")
  /\ UNCHANGED <<shutdown_flag, counters, submit_mutex, workerVars, sub, next, victim,
                 owed, freed>>

CancelTakeNothing(c) ==
  /\ pc[c] = "ca_take"
  /\ queue[victim[c]] = << >>
  /\ pop_lock' = [pop_lock EXCEPT ![victim[c]] = NULL]
  /\ Goto(c, "ca_destroy")
  /\ UNCHANGED <<shutdown_flag, counters, queue, submit_mutex, workerVars, callVars,
                 freed, stage>>

\* The batch is destroyed and counted as canceled, but tasks_pending stays as it is.
\* The global queue is drained until a batch is empty, a worker's queue only once.
CancelDestroy(c) ==
  /\ pc[c] = "ca_destroy"
  /\ stage' = [k \in Tasks |-> IF \E i \in DOMAIN batch[c] : batch[c][i] = k
                               THEN "canceled" ELSE stage[k]]
  /\ tasks_canceled' = tasks_canceled + Len(batch[c])
  /\ batch' = [batch EXCEPT ![c] = << >>]
  /\ LET q == victim[c]
         following == IF q # Global THEN q + 1 ELSE IF batch[c] # << >> THEN Global ELSE 0
     IN IF q # Global /\ following = WorkerCount
        THEN Goto(c, "ca_broadcast") /\ UNCHANGED victim
        ELSE Goto(c, "ca_lock") /\ victim' = [victim EXCEPT ![c] = following]
  /\ UNCHANGED <<shutdown_flag, tasks_submitted, tasks_completed, tasks_pending,
                 tasks_active, queue, pop_lock, submit_mutex, workerVars, sub, next,
                 owed, freed>>

CancelBroadcast(c) ==
  /\ pc[c] = "ca_broadcast"
  /\ Broadcast(c, "ready")
  /\ UNCHANGED <<shutdown_flag, counters, queue, pop_lock, submit_mutex, workerVars,
                 callVars, freed, stage>>

Shutdown(c) ==
  /\ MayCall(c, "shutdown")
  /\ \A d \in Clients : pc[d] = "ready"
  /\ shutdown_flag' = TRUE
  /\ Goto(c, "sd_broadcast")
  /\ UNCHANGED <<counters, queue, pop_lock, submit_mutex, workerVars, callVars, freed, stage>>

ShutdownBroadcast(c) ==
  /\ pc[c] = "sd_broadcast"
  /\ Broadcast(c, "sd_join")
  /\ UNCHANGED <<shutdown_flag, counters, queue, pop_lock, submit_mutex, workerVars,
                 callVars, freed, stage>>

\* Every thread is joined, then the queues and the scheduler are freed.
ShutdownJoin(c) ==
  /\ pc[c] = "sd_join"
  /\ \A w \in Workers : pc[w] = "exited"
  /\ freed' = TRUE
  /\ Goto(c, "closed")
  /\ UNCHANGED <<shutdown_flag, counters, queue, pop_lock, submit_mutex, workerVars,
                 callVars, stage>>

\* What a client does inside a call that it has begun.
Client(c) == \/ LoadPending1(c) \/ LoadActive1(c) \/ LoadPending2(c) \/ LoadActive2(c)
             \/ CancelLock(c) \/ CancelTake(c) \/ CancelTakeNothing(c) \/ CancelDestroy(c)
             \/ CancelBroadcast(c)
             \/ ShutdownBroadcast(c) \/ ShutdownJoin(c)

-----------------------------------------------------------------------------

\* Nothing is left to do once the scheduler is gone.
Finished == freed /\ UNCHANGED vars

Next ==
  \/ \E t \in Threads : Submit(t)
  \/ \E w \in Workers : Worker(w) \/ NestedSubmit(w)
  \/ \E c \in Clients : Client(c) \/ ClientSubmit(c) \/ WaitIdle(c) \/ CancelAll(c) \/ Shutdown(c)
  \/ Finished

Spec == Init /\ [][Next]_vars

\* A thread keeps running inside a call or a worker's loop, and callbacks return.
\* A worker that waits for submit_mutex gets it: its holders never block.
Fairness ==
  /\ \A t \in Threads : WF_vars(Submit(t))
  /\ \A w \in Workers : WF_vars(Worker(w)) /\ SF_vars(IdleLock(w) \/ Woken(w))
  /\ \A c \in Clients : WF_vars(Client(c))

FairSpec == Spec /\ Fairness

-----------------------------------------------------------------------------
(* Correctness properties *)

InStages(S) == {k \in Tasks : stage[k] \in S}

\* Everywhere the program holds a pointer to task k.
QueuePlaces(k) ==
  UNION {{<<"queue", q, i>> : i \in {j \in DOMAIN queue[q] : queue[q][j] = k}} : q \in Queues}
WorkerPlaces(k) == {<<"worker", w, 0>> : w \in {v \in Workers : cur[v] = k}}
SubmitPlaces(k) ==
  {<<"submitter", t, 0>> : t \in {u \in Threads : sub[u] = k /\ pc[u] # "sub_signal"}}
BatchPlaces(k) ==
  UNION {{<<"batch", c, i>> : i \in {j \in DOMAIN batch[c] : batch[c][j] = k}} : c \in Clients}
Places(k) == QueuePlaces(k) \cup WorkerPlaces(k) \cup SubmitPlaces(k) \cup BatchPlaces(k)

\* A task is in exactly one pair of hands from its submission until it is destroyed,
\* so it runs at most once and is never used after fq_task_destroy, whatever the
\* submitters, thieves and cancel_all (scheduler.c:71, 311, 344) do meanwhile.
ExactlyOnePlace ==
  \A k \in Tasks :
    Cardinality(Places(k)) =
      IF stage[k] \in {"new", "refused", "rejected", "destroyed", "canceled"} THEN 0 ELSE 1

\* The atomic counters agree with the tasks, between any two steps of any threads.
\* tasks_pending keeps every task that cancel_all took (scheduler.c:311-340).
CountersMatch ==
  /\ tasks_submitted = Cardinality(InStages(Stages \ {"new", "submitting", "refused"}))
  /\ tasks_pending   = Cardinality(InStages(PendingStages))
  /\ tasks_active    = Cardinality(InStages(ActiveStages))
  /\ tasks_completed = Cardinality(InStages(EndedStages))
  /\ tasks_canceled  = Cardinality(InStages({"canceled"}))

Answers(c) == pc[c] = "idle_a2" /\ pc'[c] = "ready"

\* When wait_idle returns, the callback of every task that had been counted when it
\* was called is over, or the task will never run: active goes up before pending goes
\* down (scheduler.c:123-126), and is_idle reads them in the other order (439-444).
WaitedTasksEnded ==
  [][\A c \in Clients : Answers(c) =>
       \A k \in owed[c] : stage[k] \in OverStages]_vars

\* scheduler.h:116 says that fq_scheduler_is_idle is "FQ_TRUE if no tasks are pending
\* or executing."  For one client, which submits nothing while it waits.
IdleIsQuiescent ==
  [][\A c \in Clients : Answers(c) =>
       InStages(PendingStages \cup ActiveStages) \subseteq InStages({"canceled"})]_vars

\* scheduler.h:54 says that fq_scheduler_shutdown "Waits for all pending tasks to
\* complete, then stops worker threads.": nothing is left in a queue that is freed.
ShutdownDrains ==
  freed => InStages(PendingStages \cup ActiveStages) \subseteq InStages({"canceled"})

\* scheduler.h:62, "Forcibly cancel all pending tasks and shut down.": where nobody else
\* submits, no task is left in a queue when fq_scheduler_cancel_all returns.
CancelAllLeavesNone == [][\A c \in Clients : CancelBroadcast(c) => InStages({"queued"}) = {}]_vars

\* A queued task is executed or canceled in the end: although the signal is sent
\* without submit_mutex and may reach the wrong worker or none (scheduler.c:374), the
\* timed wait makes every worker look at its queue again.
QueuedTasksEnd ==
  \A k \in Tasks : stage[k] = "queued" ~> stage[k] \in OverStages

\* fq_scheduler_wait_idle returns (scheduler.h:106 "Wait for all pending tasks to drain.").
WaitIdleReturns == \A c \in Clients : pc[c] = "idle_p1" ~> pc[c] = "ready"

\* fq_scheduler_shutdown returns: every worker sees the flag and leaves its loop.
ShutdownReturns == \A c \in Clients : pc[c] = "sd_broadcast" ~> freed

-----------------------------------------------------------------------------
(* The inductive invariant *)

\* The program counters at which a thread has a task to submit, and at which a worker
\* has one to execute.
HoldingPC == SubmitPC \ {"sub_signal"}
HandPC == SubmitPC \cup {"activate", "unpend", "run", "deactivate", "destroy"}

\* How far such a task has come.
SubStage(l) == IF l \in {"sub_check", "sub_count"} THEN "submitting" ELSE "counted"

HandStage(l) ==
  CASE l = "activate"   -> "taken"
    [] l = "unpend"     -> "active"
    [] l = "deactivate" -> "ran"
    [] l = "destroy"    -> "settled"
    [] OTHER            -> "running"

\* Which program counters go with which locals.
PcInv ==
  /\ \A w \in Workers : /\ pc[w] \in WorkerPC \cup SubmitPC
                        /\ cur[w] # NULL <=> pc[w] \in HandPC
                        /\ probe[w] <= Len(SearchOrder(w))
  /\ \A c \in Clients : /\ pc[c] \in ClientPC \cup SubmitPC
                        /\ batch[c] # << >> => pc[c] \in {"ca_lock", "ca_take", "ca_destroy"}
  /\ \A t \in Threads : sub[t] # NULL <=> pc[t] \in SubmitPC

\* Thread t is inside the pop of queue q.
Pops(t, q) ==
  \/ t \in Workers /\ pc[t] = "take" /\ Probed(t) = q
  \/ t \in Clients /\ pc[t] = "ca_take" /\ victim[t] = q

\* The stage of a task says where it is,
StageInv ==
  /\ \A q \in Queues : \A j \in DOMAIN queue[q] : stage[queue[q][j]] = "queued"
  /\ \A w \in Workers : pc[w] \in HandPC => stage[cur[w]] = HandStage(pc[w])
  /\ \A t \in Threads : pc[t] \in HoldingPC => stage[sub[t]] = SubStage(pc[t])
  /\ \A c \in Clients : \A j \in DOMAIN batch[c] : stage[batch[c][j]] = "batched"

\* there is only one such place,
UniqueInv ==
  /\ \A q, r \in Queues : \A i \in DOMAIN queue[q], j \in DOMAIN queue[r] :
       queue[q][i] = queue[r][j] => q = r /\ i = j
  /\ \A v, w \in Workers : cur[v] # NULL /\ cur[v] = cur[w] => v = w
  /\ \A t, u \in Threads :
       pc[t] \in HoldingPC /\ pc[u] \in HoldingPC /\ sub[t] = sub[u] => t = u
  /\ \A c, d \in Clients : \A i \in DOMAIN batch[c], j \in DOMAIN batch[d] :
       batch[c][i] = batch[d][j] => c = d /\ i = j

\* and there is one.
PresentInv ==
  \A k \in Tasks :
    /\ stage[k] = "queued" => \E q \in Queues : \E j \in DOMAIN queue[q] : queue[q][j] = k
    /\ stage[k] \in {"taken", "active", "running", "ran", "settled"} =>
         \E w \in Workers : cur[w] = k
    /\ stage[k] \in {"submitting", "counted"} =>
         \E t \in Threads : pc[t] \in HoldingPC /\ sub[t] = k
    /\ stage[k] = "batched" => \E c \in Clients : \E j \in DOMAIN batch[c] : batch[c][j] = k

\* Only one thread at a time is inside the pop of a queue, the one that holds its
\* pop_lock (queue.c:137, 164), which RingQueue asks of its consumers.
PopsExclude == \A t \in Threads, q \in Queues : pop_lock[q] = t <=> Pops(t, q)

\* Tasks, queues, counters and locks fit together between any two steps (scheduler.c:71-450).
SchedInv ==
  /\ TypeOK
  /\ PcInv
  /\ PopsExclude
  /\ StageInv
  /\ UniqueInv
  /\ PresentInv
  /\ CountersMatch
=============================================================================
