------------------------------ MODULE Lifecycle ------------------------------
(***************************************************************************)
(* fq_scheduler_create and fq_scheduler_shutdown of                        *)
(* src/scheduler/scheduler.c with the constructors they call: what they    *)
(* acquire, one step at a time, when any of the steps may fail, and what   *)
(* they release, while the workers that have been started already run.     *)
(* A thread pool is a scheduler under another type.  What the workers do   *)
(* with the tasks that they find is in ParallelFor.                        *)
(***************************************************************************)
EXTENDS Words

CONSTANTS Capacities,       \* what config.queue_capacity may be
          ThreadCounts,     \* what config.thread_count may be
          Cores,            \* what the operating system may report
          MinCapacity, MaxCapacity, MaxThreads,   \* include/fastqueue/config.h
          DefaultCapacity,
          Posix,            \* which branch of platform.c is compiled
          SizeofPointer,    \* the macro __SIZEOF_POINTER__, or 0 where it is not defined
          NONE

ASSUME LifecycleAssumption ==
  /\ Capacities \subseteq Words /\ DefaultCapacity \in Capacities
  /\ ThreadCounts \subseteq Nat /\ Cores \subseteq Nat /\ MaxThreads \in Nat \ {0}
  /\ Posix \in BOOLEAN /\ SizeofPointer \in {0, 8}
  /\ MinCapacity \in Powers /\ MaxCapacity \in Powers /\ MinCapacity <= MaxCapacity
  /\ MaxCapacity <= HalfWord   \* 2^24

VARIABLES cfg,            \* [thread_count, queue_capacity]
          cores,          \* what the operating system reports, if it is asked
          phase,          \* "new", "creating", "failing", "failed", "up", "stopping" or "down"
          i,              \* how many steps of create have succeeded
          held,           \* the resources that are allocated
          todo,           \* what is still to be released, in order
          slots,          \* the slots of the ring of each queue that exists
          shutdown_flag,
          wpc,            \* each worker: "none", "entry", "loop", "using", "busy" or "exited"
          uses            \* the queue that a worker is working on, or NONE

vars == <<cfg, cores, phase, i, held, todo, slots, shutdown_flag, wpc, uses>>

-----------------------------------------------------------------------------
(* Configurations *)

\* Only POSIX turns an unknown number into 1.
PosixConcurrency == IF cores = 0 THEN 1 ELSE cores
WindowsConcurrency == cores

fq_hardware_concurrency == IF Posix THEN PosixConcurrency ELSE WindowsConcurrency

fq_scheduler_config_default == [thread_count |-> 0, queue_capacity |-> DefaultCapacity]

\* fq_thread_pool_create_ex
PoolConfig(n) == [fq_scheduler_config_default EXCEPT !.thread_count = n]

Configs ==
  {fq_scheduler_config_default}
  \cup {PoolConfig(n) : n \in ThreadCounts}
  \cup [thread_count : ThreadCounts, queue_capacity : Capacities]

\* 0 stands for all cores; at least one, at most FQ_MAX_THREADS.
WorkerCount ==
  LET asked == IF cfg.thread_count = 0 THEN fq_hardware_concurrency ELSE cfg.thread_count
  IN IF asked = 0 THEN 1 ELSE IF asked > MaxThreads THEN MaxThreads ELSE asked

Workers == 0 .. WorkerCount - 1
Global == WorkerCount

-----------------------------------------------------------------------------
(* What create acquires *)

Res(kind, n) == [kind |-> kind, of |-> n]

\* fq_queue_create allocates the queue, then its ring.
QueueParts(q) == <<Res("queue", q), Res("ring", q)>>

\* fq_thread_create allocates the argument of the new thread, then starts it.
ThreadParts(w) == <<Res("arg", w), Res("thread", w)>>

\* The m parts of each of the first n workers, one worker after the other.
EachWorker(parts(_), m, n) == [k \in 1 .. m * n |-> parts((k - 1) \div m)[1 + ((k - 1) % m)]]

\* fq_mutex_init and fq_condition_init of submit_mutex and idle_cond.
MutexParts == <<Res("mutex", NONE)>>
CondParts == <<Res("cond", NONE)>>

\* The steps of fq_scheduler_create, in order.
Plan ==
  <<Res("scheduler", NONE)>> \o QueueParts(Global)
  \o MutexParts \o CondParts \o <<Res("workers", NONE)>>
  \o EachWorker(LAMBDA w : QueueParts(w) \o ThreadParts(w), 4, WorkerCount)

\* Mutant of QueueRelease: the queue is freed in place of the ring.
QueueRelease_LeaksRing(q) == <<Res("queue", q), Res("queue", q)>>

\* fq_queue_destroy
QueueRelease(q) == <<Res("ring", q), Res("queue", q)>>

\* Mutant of JoinAll: each queue is destroyed as soon as its own worker has ended.
JoinAll_Interleaved(n) == EachWorker(LAMBDA w : <<Res("thread", w)>> \o QueueRelease(w), 3, n)

\* The two loops of fq_scheduler_shutdown over the workers.
JoinAll(n) == [k \in 1 .. n |-> Res("thread", k - 1)] \o EachWorker(QueueRelease, 2, n)

\* The loop of the error paths of create over the workers that run already.
JoinEach(n) == EachWorker(LAMBDA w : <<Res("thread", w)>> \o QueueRelease(w), 3, n)

\* The end of shutdown and of the error paths.
ReleaseShared ==
  <<Res("workers", NONE), Res("cond", NONE), Res("mutex", NONE)>>
  \o QueueRelease(Global) \o <<Res("scheduler", NONE)>>

\* What the code releases when the step that acquires r fails.
Cleanup(r) ==
  LET last(n) == SubSeq(ReleaseShared, Len(ReleaseShared) - n + 1, Len(ReleaseShared)) IN
  CASE r.kind = "scheduler" -> << >>
    [] r.kind = "queue" /\ r.of = Global -> last(1)
    [] r.kind = "ring" /\ r.of = Global -> <<Res("queue", Global)>> \o last(1)
    [] r.kind = "mutex"   -> last(3)
    [] r.kind = "cond"    -> last(4)
    [] r.kind = "workers" -> last(5)
    [] r.kind = "queue" /\ r.of # Global -> JoinEach(r.of) \o ReleaseShared
    [] r.kind = "ring" /\ r.of # Global ->
         <<Res("queue", r.of)>> \o JoinEach(r.of) \o ReleaseShared
    [] r.kind = "arg" -> QueueRelease(r.of) \o JoinEach(r.of) \o ReleaseShared
    [] r.kind = "thread" ->
         <<Res("arg", r.of)>> \o QueueRelease(r.of) \o JoinEach(r.of) \o ReleaseShared

-----------------------------------------------------------------------------
(* The creator *)

Init ==
  /\ cfg \in Configs
  /\ cores \in IF cfg.thread_count = 0 THEN Cores ELSE {NONE}
  /\ phase = "new" /\ i = 0 /\ held = {} /\ todo = << >>
  /\ slots = << >>
  /\ shutdown_flag = FALSE
  /\ wpc = [w \in 0 .. MaxThreads - 1 |-> "none"]
  /\ uses = [w \in 0 .. MaxThreads - 1 |-> NONE]

fq_scheduler_create ==
  /\ phase = "new"
  /\ phase' = "creating"
  /\ UNCHANGED <<cfg, cores, i, held, todo, slots, shutdown_flag, wpc, uses>>

\* Mutant of RingSlots: the capacity is not raised to the minimum.
RingSlots_NoMinimum(q) ==
  next_pow2(IF q = Global THEN cfg.queue_capacity ELSE cfg.queue_capacity \div WorkerCount,
            SizeofPointer)

\* The number of slots of the ring that queue q is given.
RingSlots(q) ==
  LET capacity == IF q = Global THEN cfg.queue_capacity ELSE cfg.queue_capacity \div WorkerCount
  IN next_pow2(IF capacity < MinCapacity THEN MinCapacity ELSE capacity, SizeofPointer)

\* FQ_ERR_INVAL of fq_queue_create.
Rejected(r) == r.kind = "queue" /\ RingSlots(r.of) > MaxCapacity

Acquire ==
  /\ phase = "creating" /\ i < Len(Plan)
  /\ LET r == Plan[i + 1] IN
     /\ ~Rejected(r)
     /\ held' = held \cup {r}
     /\ slots' = IF r.kind = "ring"
                 THEN [q \in DOMAIN slots \cup {r.of} |->
                         IF q = r.of THEN RingSlots(q) ELSE slots[q]]
                 ELSE slots
     /\ wpc' = IF r.kind = "thread" THEN [wpc EXCEPT ![r.of] = "entry"] ELSE wpc
  /\ i' = i + 1
  /\ UNCHANGED <<cfg, cores, phase, todo, shutdown_flag, uses>>

\* Memory, mutexes and threads may run out; a capacity may be too large.
AcquireFails ==
  /\ phase = "creating" /\ i < Len(Plan)
  /\ phase' = "failing"
  /\ todo' = Cleanup(Plan[i + 1])
  /\ UNCHANGED <<cfg, cores, i, held, slots, shutdown_flag, wpc, uses>>

Created ==
  /\ phase = "creating" /\ i = Len(Plan)
  /\ phase' = "up"
  /\ UNCHANGED <<cfg, cores, i, held, todo, slots, shutdown_flag, wpc, uses>>

\* Mutant of fq_scheduler_shutdown: the flag is not set.
fq_scheduler_shutdown_NoFlag ==
  /\ phase = "up"
  /\ phase' = "stopping"
  /\ todo' = JoinAll(WorkerCount) \o ReleaseShared
  /\ UNCHANGED <<cfg, cores, i, held, slots, shutdown_flag, wpc, uses>>

\* The flag, and the broadcast that wakes the workers.
fq_scheduler_shutdown ==
  /\ phase = "up"
  /\ phase' = "stopping"
  /\ shutdown_flag' = TRUE
  /\ todo' = JoinAll(WorkerCount) \o ReleaseShared
  /\ UNCHANGED <<cfg, cores, i, held, slots, wpc, uses>>

\* fq_thread_join waits for the thread, anything else is released at once.
Joinable(r) == r.kind = "thread" => wpc[r.of] = "exited"

Release ==
  /\ phase \in {"failing", "stopping"} /\ todo # << >>
  /\ Joinable(Head(todo))
  /\ held' = held \ {Head(todo)}
  /\ todo' = Tail(todo)
  /\ UNCHANGED <<cfg, cores, phase, i, slots, shutdown_flag, wpc, uses>>

Return ==
  /\ phase \in {"failing", "stopping"} /\ todo = << >>
  /\ phase' = IF phase = "failing" THEN "failed" ELSE "down"
  /\ UNCHANGED <<cfg, cores, i, held, todo, slots, shutdown_flag, wpc, uses>>

Creator == Acquire \/ AcquireFails \/ Created \/ Release \/ Return

-----------------------------------------------------------------------------
(* A worker *)

\* posix_thread_entry copies and frees the argument.
ThreadEntry(w) ==
  /\ wpc[w] = "entry"
  /\ held' = held \ {Res("arg", w)}
  /\ wpc' = [wpc EXCEPT ![w] = "loop"]
  /\ UNCHANGED <<cfg, cores, phase, i, todo, slots, shutdown_flag, uses>>

\* s->workers[q].queue is set when fq_queue_create ends and never reset; the worker takes
\* a queue whose pointer is still NULL for an empty one.
Published(q) == q \in DOMAIN slots

\* The worker looks into its own queue, the global one, or one that it steals from.
\* While the pool is up nothing is released, and a look that goes on after that is
\* covered by one that begins then.
BeginUse(w) ==
  /\ wpc[w] = "loop" /\ phase # "up"
  /\ \E q \in Workers \cup {Global} :
       /\ Published(q)
       /\ uses' = [uses EXCEPT ![w] = q]
  /\ wpc' = [wpc EXCEPT ![w] = "using"]
  /\ UNCHANGED <<cfg, cores, phase, i, held, todo, slots, shutdown_flag>>

EndUse(w) ==
  /\ wpc[w] = "using"
  /\ uses' = [uses EXCEPT ![w] = NONE]
  /\ wpc' = [wpc EXCEPT ![w] = "loop"]
  /\ UNCHANGED <<cfg, cores, phase, i, held, todo, slots, shutdown_flag>>

\* Its two queues are empty.
Exit(w) ==
  /\ wpc[w] = "loop" /\ shutdown_flag
  /\ wpc' = [wpc EXCEPT ![w] = "exited"]
  /\ UNCHANGED <<cfg, cores, phase, i, held, todo, slots, shutdown_flag, uses>>

-----------------------------------------------------------------------------

Over == phase \in {"failed", "down"} /\ UNCHANGED vars

-----------------------------------------------------------------------------
(* Correctness properties *)

Unread == {Res("arg", w) : w \in {v \in Workers : wpc[v] = "entry"}}

\* Nothing leaks and nothing is released twice, whichever step fails (scheduler.c:187-284):
\* what is held is what is still to be released, and in the end nothing; a scheduler that
\* is up has all that it needs.  Only the argument of a new thread is not the creator's.
Accounted ==
  /\ phase \in {"failing", "stopping"} =>
       held = ToSet(todo) \cup Unread /\ Cardinality(ToSet(todo)) = Len(todo)
  /\ phase \in {"failed", "down"} => held = {}
  /\ phase \in {"creating", "up"} =>
       LET args == {Res("arg", w) : w \in Workers}
       IN held \cup args = ToSet(SubSeq(Plan, 1, i)) \cup args

\* The worker whose thread could not be started; its queue is destroyed first.
Stillborn ==
  IF phase = "failing" /\ Plan[i + 1].kind \in {"arg", "thread"} THEN {Plan[i + 1].of} ELSE {}

\* A running worker finds the scheduler and every queue that it looks into alive, through
\* the creation of the others (scheduler.c:77 reads their pointers without a lock) and the
\* shutdown; except for the queue of a worker that could not be started, which create
\* destroys while the others may be stealing from it (scheduler.c:267).
WorkersFindTheirData ==
  \A w \in Workers :
    /\ wpc[w] \in {"loop", "using", "busy"} =>
         ToSet(ReleaseShared) \cup ToSet(QueueRelease(w)) \subseteq held
    /\ uses[w] # NONE =>
         uses[w] \in Stillborn \/ ToSet(QueueRelease(uses[w])) \subseteq held

\* Create waits for a worker that nobody has told to stop.
JoinsRunningWorker ==
  phase = "failing" /\ todo # << >> /\ Head(todo).kind = "thread" /\ ~shutdown_flag

\* The ring of every queue has a power of two of slots, between the two limits of config.h,
\* unless the capacity is above the largest power of two of a size_t (queue.c:52-55).
RingsInBounds ==
  \A q \in DOMAIN slots :
    \/ slots[q] \in Powers /\ slots[q] \in MinCapacity .. MaxCapacity
    \/ slots[q] = 0 /\ cfg.queue_capacity > SizeMod \div 2
=============================================================================
