# FastQueue in TLA+

A verification project for FastQueue, a C library of thread-safe task queues, futures and a
work-stealing scheduler. The modules model the library's own code under `src/src` step by step;
TLC checks them on small instances, and TLAPS proves the central results for every instance.

Paths below are relative to the repository root (`src/queue/queue.c` and so on).

## Inventory of the system

| Component | State | Operations | Talks to |
|---|---|---|---|
| queue (`src/queue/queue.c`) | ring `buffer`, atomic `head` and `tail`, `push_lock`, `pop_lock` | create, push, pop, try_pop, drain, size, empty, destroy | used by the scheduler: one global queue, one per worker |
| scheduler (`src/scheduler/scheduler.c`) | workers, `shutdown_flag`, five atomic counters, `submit_mutex`, `idle_cond` | create, submit, submit_fn, submit_with_future, wait_idle, is_idle, cancel_all, shutdown, stats; the loop `worker_main` | queue, task, platform; callbacks of tasks call back into submit |
| future (`src/future/future.c`) | atomic `ready` and `canceled`, `status`, a callback, mutex and condition variable | create, wait, wait_timeout, on_complete, set_result, cancel, destroy | fulfilled by a task, waited for by clients |
| task (`src/task/task.c`) | callback, priority, atomic `canceled` and `executed`, a future | create, execute, cancel, destroy, accessors | executed by a worker, fulfils its future |
| thread pool (`src/thread/thread_pool.c`) | none: a pool is a scheduler | makes configurations, forwards the rest | scheduler |
| parallel (`src/utils/parallel.c`) | one range per chunk | parallel_for | scheduler: submit_fn, wait_idle |
| memory (`src/memory/memory.c`) | a header in each block, four atomic counters | alloc, calloc, realloc, free, align_up, is_aligned, mem_stats | used by all |
| platform (`src/platform/platform.c`), atomics (`include/fastqueue/atomic.h`) | wrappers | threads, mutexes, condition variables, atomics | used by all |
| time (`src/utils/time.c`) | none | now_ns, timers | statistics of the scheduler |
| errors, version, config | constants and tables | | |

What is hard in it:

* **Concurrency without a common lock.** Producers and consumers of a ring hold different
  mutexes. Workers, thieves, submitters and `cancel_all` hand task pointers around. `is_idle`
  decides from four separate loads of two counters.
* **Wakeups.** `submit` and `shutdown` signal `idle_cond` without `submit_mutex`; the worker's
  wait is timed to make up for what it misses. The future's broadcast is sent under the mutex.
* **Unlocked reads.** A future's waiters read `ready` and `status` without the mutex;
  `fq_queue_empty` reads the two indices without either lock.
* **Failure and cancellation.** A full queue makes `submit` undo a counter; `cancel_all` races
  the workers for the queued tasks; a future may be cancelled while, or after, it is fulfilled.
  Any step of `fq_scheduler_create` may fail when workers are running already; a `parallel_for` may
  fail with half of its chunks submitted.
* **Edges of words.** Sizes, byte counters, deadlines and tick counts wrap, and capacities are
  rounded up to powers of two.

What makes each component correct:

* queue: each push and pop is one step of a bounded FIFO queue; no slot is raced for; no lock is left behind.
* scheduler: a task has one owner at a time and is run or cancelled once; the counters agree
  with the tasks; `wait_idle` and `shutdown` return, and not too early.
* future: a waiter gets a status somebody wrote, nobody sleeps for ever, a callback runs once.
* a pool: what create acquires is released once, by whichever path, and not under a running worker.
* parallel_for: FQ_OK means that every index was run once, and no range is lost on any path.
* memory: the statistics add up whatever the interleaving; a block is as large as was asked.

## Modules

| Module | Role |
|---|---|
| `FifoQueue` | The queue that the scheduler relies on: pushes and pops that take effect at one moment on a bounded sequence. In two points it is weaker than `queue.h`, see below. |
| `RingQueue` | `queue.c`: push, pop, try_pop and drain, one step per load, store or lock another thread can observe. Implements `FifoQueue` (`Linearizable`). |
| `RingQueueSize` | `RingQueue` plus threads that call `fq_queue_size` and `fq_queue_empty`. |
| `RingQueueProofs` | Theorems about `RingQueue` and `RingQueueSize`. |
| `Scheduler` | `scheduler.c`: worker loop, submit, wait_idle, cancel_all, shutdown. Its queues are sequences, which `RingImplementsQueue` justifies. |
| `SchedulerProofs`, `SchedulerCallProofs` | Theorems about `Scheduler`: its invariant, and what wait_idle, is_idle and shutdown promise their callers. |
| `Future` | `future.c`: one future and threads that fulfil, cancel, await it or register a callback. |
| `FutureProofs` | Theorems about `Future`. |
| `Task` | `task.c` composed with `Future`: one task, the threads that execute, cancel and destroy it, and `fq_future_destroy`. |
| `TaskProofs` | Theorems about `Task`. |
| `Lifecycle` | `fq_scheduler_create` and `fq_scheduler_shutdown` with `fq_queue_create`, `fq_queue_destroy`, `fq_thread_create` and `fq_thread_join`: what is acquired and released, with a failure at any step, under running workers. |
| `ParallelFor` | `parallel.c` on the pool of `Lifecycle`, which it extends: clients, nested calls, workers and cancel_all. |
| `ShortRanges` | `ParallelFor` under the assumption that no range has more than `LONG_MAX` indices. |
| `ParallelForProofs` | Theorems about `ParallelFor`, on `ShortRanges`. |
| `LifecycleProofs` | Theorems about `Lifecycle`, in the specification of `ParallelFor`, whose workers it has to follow. |
| `Memory` | `memory.c`: the default allocator and its statistics, used by several threads. |
| `MemoryProofs` | Theorems about `Memory`, with what they need about sums over finite sets and about wrapping; about `Clock` and `Atomics`. It extends `MCMemory`, where the calls of the pure functions are stated, and uses none of its values. |
| `Atomics` | `atomic.h`: the memory orders of the three builds, and the integers that the operations work on. |
| `Words` | `next_pow2`, with and without the shift that depends on `__SIZEOF_POINTER__`, `fq_align_up` and `fq_is_aligned` on words of any width. |
| `Clock` | The arithmetic of deadlines, sleeps and timers. |
| `MCRingQueue`, `MCRingQueueSize`, `MCScheduler`, `MCFuture`, `MCTask`, `MCMemory`, `MCPool`, `MCLongRange` | Instances for TLC. |

### How they correspond to the code

*RingQueue.* `buffer`, `head`, `tail`, `push_lock` and `pop_lock` are the fields of `fq_queue_t`.
A push is PushCall, PushLock (lock and load of `tail`), PushFull or PushHasRoom (load of `head` and
test), PushWrite (the slot), PushStore (publication and unlock); a pop mirrors it. A drain is a
run of pops that each take the lock, as in the code. `FifoQueue` allows what the code does and `queue.h` does not say: a
try_pop that gives up while another thread is popping, and a drain that is not one step. `BusyMeansEmpty` and `DrainIsAtomic` state
the header's words (queue.h:68, 99) and are violated. Nothing in the library depends on them: a worker polls again,
and `cancel_all` drains until a pop finds nothing or its array is full. Loads of an index under its own lock
cannot be observed and are folded into the neighbouring step. The capacity is a power of two
(`next_pow2`), assumed as `MaskAssumption`; that makes `& mask` the `%` of the model.
The publishing stores are releases and the loads of the other side's index are acquires, so a
slot access is ordered by the index that guards it; interleaving semantics loses nothing there.

*Scheduler.* Each worker runs `worker_main`: LoopTop/ExitGlobal/ExitOwn are the loop's exit test in
its order of evaluation; TryLock/TakeTask/TakeNothing are `fq_queue_try_pop` on the queues of
`SearchOrder`; Activate to DestroyTask run a task; IdleLock to Woken are the idle path, with a
timed wait that any signal, broadcast or timeout ends. `Submit` is `fq_scheduler_submit`, executed by
clients and, inside callbacks (NestedSubmit), by workers; tasks come from `fq_scheduler_submit_fn`. `stage` and `owed` are
history: they name where a task is, and what a `wait_idle` has to wait for. `idle_count`, the
two time sums and the logging are left out: nothing but the statistics reads them. SubmitCount adds to `tasks_submitted` and
`tasks_pending` in one step, since only the statistics read the first. Clients follow
the one rule the API needs, that `fq_scheduler_shutdown` frees the scheduler and is the last call.
`fq_queue_empty` is one read here; `RingQueueSize` shows what two reads add (the wrong TRUE costs a
worker one timed wait; before exit no push but a nested one is left to lap the head).

*Future.* Each thread makes the call that `Role` gives it. SetLock to SetCall are `fq_future_set_result`,
CancelCas leads `fq_future_cancel` into it; WaitSpinHit to WaitStatus are both waits (the spins that
miss are one step; a wait of 0 ms does not spin); RegLock to RegCall are `fq_future_on_complete`. Stores of
`status` and `ready` are separate steps, since waiters read both without the mutex. The history
variables `sets`, `written` and `calls` record who fulfilled, with what, and who called back.

*Task.* It extends `Future`: `pc` says where a thread is inside the future, `tpc` where it is outside.
ExecCheck to ExecCompletion are `fq_task_execute`, with the call to `set_result` in between;
DestroyCheck and DestroyFree are `fq_task_destroy`, after an execution or, by Drained, for a task
that `cancel_all` took; CancelCheck and CancelTask are `fq_task_cancel`; CloseCheck and CloseFree are
`fq_future_destroy`. A thread of `Future` makes one call, so a second call of the same program thread is made
by a thread that starts where the first one ends (`destroyer`, `closer`). `Careful` restricts the
runs to clients and workers that free nothing another thread may still use; without it
they do what the code and `examples/futures.c` do, and only `NoUseAfterFree` is asked.

*Lifecycle.* `Plan` is the list of what create acquires, in the order of the code; Acquire and AcquireFails take
the next element or fail, for lack of memory or threads or because the capacity is too large, and `Cleanup`
is the error path of that step. A queue is two allocations (its two mutexes are initialised without a test of the result, queue.c:76-77, and are no
parts here), a thread its argument and the thread; the argument
belongs to the new thread, which frees it first (ThreadEntry). A worker looks into its own queue, the
global one or another worker's (BeginUse to EndUse) as soon as its pointer is set. While the
pool is up nothing is released, so looks are only modelled before and after; a look that spans the start of the
shutdown is covered by one that begins just after it. The pointer of a queue is a plain field that
create writes and thieves read without a lock; the model gives the thief NULL or the queue, as x86 does.

*ParallelFor.* AllocRange to SubmitPush are one round of the loop of `fq_scheduler_parallel_for`, with the test of the
shutdown flag and the push as separate steps, since cancel_all may come between them; WaitIdle and WaitReturns
are `fq_scheduler_wait_idle`; TakeChunk, CallFn and EndChunk are a worker in `parallel_for_worker`, one step per index. A
callback may call `parallel_for` itself. The arithmetic of the chunks is that of a `long` of `2 * LongHalf` values. Overflow is
undefined in C; the model takes the wrapped value (`AsLong`), the outcome of the machine's instructions. The division rounds
towards zero, and a negative remainder, compared as an `unsigned`, makes every chunk one longer. The scheduler in between is reduced to what the runs of `Scheduler` establish:
a queued task is taken by one worker (`ExactlyOnePlace`, `QueuedTasksEnd`), and wait_idle returns only when
what was counted at its call has ended (`WaitedTasksEnded`); what cancel_all dropped stays counted. A program
shuts its pool down after its own calls.

*Memory.* A call is a sequence of steps of its thread: malloc, realloc or free with the header, then one step per
atomic operation of `stats_alloc` and `stats_free`, with the loop around the weak compare-and-exchange. malloc and its
relatives are external: a failure returns NULL and changes nothing. The program passes a block to one call at a
time.

*Words, Clock, Atomics.* `next_pow2` takes the value of the macro `__SIZEOF_POINTER__` as a second argument: the last shift (queue.c:41-43) is compiled
where it is 8, with gcc and clang, and not with MSVC, which does not define it (0). Operators, evaluated by `MCMemory` on all arguments of small types, one initial state per call.

## Runs

| Run | Instance | Result |
|---|---|---|
| `ring` | 2 threads, 4 slots, 2 tasks, fair | `RingInv`, `SlotRaceFree`, `Linearizable`, `LocksReleased`, `TryPopReturns` hold |
| `ring_size` | 2 threads and an observer | `SizeCountsTakenTasks` holds |
| `sched_safety` | 2 workers, 1 client, 3 tasks, one of them nested, priorities and stealing, all calls | `SchedInv`, `ExactlyOnePlace`, `CountersMatch`, `WaitedTasksEnded`, `IdleIsQuiescent` hold |
| `sched_live` | 2 workers, 1 client, 3 tasks, no cancel_all, no stealing, fair | `ShutdownDrains`, `ShutdownReturns`, `QueuedTasksEnd`, `WaitIdleReturns` hold |
| `sched_chain` | a task that submits a task that submits a task | `IdleIsQuiescent` is **violated** |
| `sched_nested` | a callback submits while shutdown starts | `ShutdownDrains` is **violated** |
| `sched_cancel_wait` | cancel_all, then wait_idle, fair | `WaitIdleReturns` is **violated** |
| `task` | a task executed or drained, one canceller, wait, wait_timeout, on_complete, both destroys, fair | `FutureInv`, `WaitReturnsWrittenStatus`, `NoMissedBroadcast`, `CallbackNotLost`, `CallbackOnce`, `OkMeansRan`, `FulfilledWhenFreed`, `WaitersReturn` hold |
| `future_cancel` | set_result, cancel, wait, wait_timeout, on_complete | `FulfilledStatusStays` is **violated** |
| `memory` | 2 threads, 2 blocks, int of 3 bits, size_t of 4; pure functions on 8 bits and a second of 100 ns; fair | `StatsBalance`, `PeakCatchesUp`, `RoomForRequest`, `PeakLoopEnds`, `NextPow2IsCeiling`, `AlignUpRounds`, `TimesExact`, `OrdersHonoured` hold |
| `pool` | up to 2 workers, 25 configurations, a failure at any step; a call over 0, 1 or 3 indices, nested calls, cancel_all; fair | `Accounted`, `WorkersFindTheirData`, `RingsInBounds`, `OkMeansComplete`, `NoRangeLeaks`, `NestedCallNeverOk`, `CallsEnd`, `CallsReturn` hold |
| `task_free` | executor and a client that waits and then destroys the future | `NoUseAfterFree` is **violated** |

The violated properties state what the library's headers say; `PROJECT.json` quotes them:

* `fq_scheduler_is_idle` may say TRUE while a chain of nested tasks runs. With one level of nesting
  (`sched_safety`) the second pass suffices, which is what it was written for.
* `fq_scheduler_shutdown` may free a queue with a task in it: the callback's `submit` read the flag
  before shutdown set it.
* `fq_scheduler_cancel_all` leaves `tasks_pending` as it was, so `wait_idle` never returns after it.
* `fq_future_cancel` replaces the status of a fulfilled future and calls back again.
* A future destroyed right after its wait is freed while `set_result` is still inside it.

Seven more statements of the headers are false of the code in smaller matters. Each has a configuration of its own, beside the runs of
`PROJECT.json`, in which TLC finds it violated:

| Property | Module, configuration | What the header says, and what the code does |
|---|---|---|
| `BusyMeansEmpty` | `MCRingQueue`, `RingQueueBusy.cfg` | queue.h:68 "FQ_ERR_BUSY if empty"; `fq_queue_try_pop` also answers so when another consumer has `pop_lock` (queue.c:146). |
| `DrainIsAtomic` | `MCRingQueue`, `RingQueueDrain.cfg` | queue.h:99 "atomically moves up to max tasks"; another consumer may take tasks between two pops of `fq_queue_drain` (queue.c:188). |
| `CancelAllLeavesNone` | `MCScheduler`, `SchedulerCancelLeft.cfg` | scheduler.h:62 "Forcibly cancel all pending tasks"; `fq_scheduler_cancel_all` empties the queue of a worker once, up to 256 tasks, and what is left is executed (scheduler.c:331). With a batch as large as the queues it holds. |
| `CanceledNeverRuns` | `MCTask`, `TaskCancel.cfg` | task.h:123 "FQ_ERR_BUSY if already executing"; `executed` is stored after the callback, so `fq_task_cancel` succeeds on a task whose callback is running or has just run (task.c:158-164). |
| `AlignedNotBelow` | `MCMemory`, `MemoryAlign.cfg` | memory.h:75 "Aligned size >= size"; `fq_align_up` wraps to 0 for a size within one alignment of `SIZE_MAX` (memory.c:135). |
| `ClockMonotonic` | `MCMemory`, `MemoryClock.cfg` | time.h:31 "monotonic clock"; on Windows the time goes back when the counter times 10^9 overflows (time.c:20). |
| `OkMeansComplete` | `MCLongRange`, `LongRange.cfg` | parallel.h:33 "Blocks until all iterations complete"; with more than `LONG_MAX` indices `end - begin` overflows, and the call returns FQ_OK with most of them not run (parallel.c:39). |

Some properties hold with an exception, which is behaviour of the code that a reader should know:

* `SizeCountsTakenTasks`: when pushes lap the head that was read, `fq_queue_size` is too small, and `fq_queue_empty` may
  say TRUE of a queue that was never empty.
* `CallsEnd`: create does not return when it fails after a worker has been started, since its error path
  joins that worker without setting `shutdown_flag`. A shutdown does not return while a callback waits for itself.
* `WorkersFindTheirData`: when a thread cannot be started its queue is destroyed while the other workers may be stealing from it.
* `OkMeansRan` is about a status FQ_OK of the future; a task that was cancelled may have run, see `CanceledNeverRuns`.
* `RingsInBounds`: a capacity above 2^63 is rounded to 0 and accepted; the ring then has no slot.
* `NestedCallNeverOk`, `CallsReturn`: a `parallel_for` from a callback waits for its own chunk, and so
  does every other call then; a call during which cancel_all drops tasks does not return either.
* `NoRangeLeaks`: the ranges of chunks that cancel_all drops are never freed, nor that of a chunk which a callback pushes to the
  queue of a worker that the shutdown has already let go.
* `Linearizable`: a try_pop may give up while another thread is popping, and a drain is a run of pops; `BusyMeansEmpty` and `DrainIsAtomic` are about the
  stronger words of queue.h:68 and 99.
* `OkMeansComplete`: ranges of at most `LONG_MAX` indices, `ShortAssumption`; `MCLongRange` is about the others.
* `RoomForRequest`: a size within a header of `SIZE_MAX` wraps. `PeakCatchesUp`: only as long as the bytes fit an `int`.
* `StatsBalance`: a block of more than `INT_MAX` bytes counts with its size masked to an `int`.
* `NextPow2IsCeiling`: without the last shift (MSVC) an argument above 2^32 is not rounded to a power of two; the result is still
  no smaller than the argument, or 0, so a queue of that capacity is refused, or has no slot, as with the shift.
* `AlignUpRounds`: sizes whose next multiple is a `size_t`; `AlignedNotBelow` is about the others.
* `TimesExact`: timers on Windows until the counter times 10^9 overflows; `ClockMonotonic` is about what comes after.
* `OrdersHonoured`: the builtins are always given the relaxed order for a failing compare-and-exchange.

### Bounds

Four slots let a head be lapped by more than one push; two threads, which may each make any call
again and again, give every pair of producer and consumer sides, and contention on each lock. Queues of one task make every overflow path happen with three tasks. Two workers are
enough for a thief, an owner and a wrong wakeup. BATCH is 1 or 2 in place of 256, and the spin
count of the futures is folded into one read that misses, since the last miss is what matters.
Tasks are submitted once each, which bounds every counter by the number of tasks.

In `memory` the words are so short that every counter overflows and every mask cuts; two threads are what a
compare-and-exchange needs to lose a race. In `pool` the capacities lie below the smallest one, between, off the
powers of two, above the largest one and above half of the word. Two workers are one that runs while the other is
created or fails. Three indices do not divide among them, and one leaves a worker without a chunk. A long has eight values
(`LongHalf` = 4), so that -1..2 has as many indices as a range without overflow may have, and `MCLongRange` one of the ranges
with it. `pool` runs without the last shift of `next_pow2`, the case with fewer guarantees. Each caller
makes one call (a worker one nested call), under one configuration (`CallConfigs`), so that the other
configurations do not multiply it.

### Fairness

A thread that can take a step inside a call takes it (WF): the operating system schedules every
runnable thread, and callbacks return. Nothing makes a client start a call. Mutexes
get strong fairness where a waiting thread would otherwise compete with an endless polling loop
of others: in `Scheduler`, the holder of `submit_mutex` reads two queues and then sleeps for at least
a millisecond without it, and in `Task` a holder of the future's mutex leaves within two steps, and sleepers that wake
without a broadcast are rare. `TryPopReturns` needs weak fairness only. A sleeping waiter of a
future is woken by a broadcast or a timeout only: spurious wakeups may happen but are not relied on.
In `Memory` a weak compare-and-exchange that could succeed again and again does so (SF): it does not fail for ever
without a reason. In `ParallelFor` a worker leaves its loop, or takes a chunk, if it could again and again
(SF): it reads the flag and all queues in every round. wait_idle polls, so only its return from a pool that
stays idle is fair.

## Proofs

TLAPS proves the results below for all numbers of threads, workers, tasks, slots and blocks.

### Queue, future and task

* `RingInvariant`: `RingInv`, the inductive invariant. It says who holds which lock at which
  program counter, that a producer which has passed its test owns the slot at `tail` and a
  consumer the slot at `head`, and that the occupied slots hold tasks. The test alone is not inductive: between
  the test and the store the other side moves its index, and the invariant records that it can
  only move away.
* `NoSlotRace`: `SlotRaceFree` follows from it.
* `RingImplementsQueue`: `Linearizable`, by a refinement mapping that reads the queue's contents off the
  ring. It is about single pushes and pops, and about `FifoQueue` rather than all of `queue.h`. A push takes effect at the store of `tail`, a pop at the store of `head`, a failed call at its
  test. The lemmas on `Distance` and `Contents` are modular arithmetic.
* `SizeTheorem`: `CountInv` says that the head which an observer has read is as far behind as tasks were taken since, as long
  as that is less than a lap; two such distances add up (`DistanceAdds`).
* `FutureInvariant`: `FutureInv`, for every set of threads and calls. The mutex is held in exactly
  the critical sections; a future that is ready has a written status; a sleeper of a ready future and a
  registered callback are covered by a thread that is still inside its critical section. From it
  `WaitsReturnWritten`, `BroadcastReachesSleepers` and `CallbacksAreInvoked` follow.
* Every step of a task is a step of its future or leaves it alone (lemma `TaskKeepsFutureInv`), so all of the
  above holds of the futures of tasks. `OkImpliesRan` adds what an execution has done before it
  hands FQ_OK to `set_result`. `FreedTasksAreFulfilled` rests on `Fulfilling` being stable: whoever gets past the
  entry of cancel or set_result leaves the future fulfilled or a thread on its way. The
  stronger claim, that the future is ready when the task is freed, is false: the cancel of `fq_task_destroy`
  returns at once when another canceller has set the flag but not yet the result.

* `CallbackOnceTheorem`: `CallbackOnce` is not a consequence of `FutureInv`, which says nothing of the past. `OnceInv` adds what the
  invocations so far, the registered callback and the threads about to call amount to; the two together are inductive.

### Scheduler

* `SchedInvariant`: `SchedInv`, which run `sched_safety` checks, is inductive. Every program counter tells which stage the task in its thread's
  hands has; a task is in the queue, the hands or the batch that its stage says, and in one only (a queue holds no task twice);
  each lock is held by the thread whose program counter says so; the counters are the numbers of tasks in sets of
  stages. The counters alone are not inductive: that `Unpend` lowers `tasks_pending` by one for one task needs that no second
  worker holds the same task. The numbers are those of finite sets, and a step moves one task from stage to stage
  (`CountMove`). `CountersTheorem` and `OnePlaceTheorem` follow from it.
* `WaitedTasksTheorem`: `WaitInv` follows the tasks that are owed to a call of wait_idle through its loads. When
  the first load finds nothing pending each of them has begun to run, and can only go on to its end.
* `IdleTheorem`: `IdleInv` says what each of the four loads has established. The hypotheses are that there is one client and that a
  task which a callback submits submits none itself (`OneClientOnly`, `SpawnsOnce`): `sched_chain` shows that the second one is
  needed, and a second client may simply submit.
* `ShutdownTheorem`: `DrainInv` says that with the flag up nobody is past its test in submit, so queues only shrink, and that a worker
  which has left saw both its queues empty. The hypotheses are that callbacks do not submit, which `sched_nested` shows to be
  needed, and that no client may cancel_all beside another client (`NoNesting`, `NoCancelRace`): cancel_all sets the
  same flag, and the workers may leave under it while another client is between the test and the push of its submit.

### parallel_for

* `PoolInvariant`: the bounds of the chunks follow a closed form, `Cut`, from which the tiling of the range follows for every
  count that is a `long` and every number of workers; an index that has been handed out was run, or is pending in one chunk, or went with a
  chunk that cancel_all dropped; a call that waits is owed all its chunks. `OkMeansCompleteTheorem` and `NestedCallTheorem` follow.
  These theorems, and those on creation and shutdown that build on them, assume `ShortAssumption`: no range has more than `LONG_MAX` indices. The
  lemma `AsLongFits` then removes the wrapping from the arithmetic of the chunks.
* `NoRangeLeaksTheorem` needs two more parts. `JoinInv`: shutdown is down only after every worker has left, since a join of each is still to do or
  done. `LeaveInv`: once a worker has left, nothing is in the global queue or its own, and nobody is going to push: a worker
  leaves only under the flag, and clients are out of their calls then.

### Creation and shutdown

* `LifeInvariant`: `LifeInv`, in four parts, for every number of workers.
  `StartInv`: how far create has come tells which workers have been started and which rings exist. `BuildInv`: until a
  failure or the shutdown, what is allocated is what has been acquired (`At` gives each part its step), but
  for the arguments that threads have freed. `ReleaseInv`: after that it is what the rest of the list holds, each part
  once, and the unread arguments. `OverInv`: in the end nothing is allocated and nobody runs.
  The first three only say what is held; that it is not taken from a running worker needs the order. `ReleaseInv`
  therefore adds, of every part that a worker needs (`Needed`), that it comes later in the list than a thread whose join blocks
  (`Blocker`). In a shutdown that is the worker's own thread. On the error path of create, which joins a worker, frees its
  queue and goes on to the next, it is the thread of worker 0: nobody has set the flag, so no worker ends, and the first join
  is never passed. The property holds there only because create does not return, the exception of `CallsEnd`.
* The bulk of the proof is about the lists. `PlanAt` says that `Plan` and `At` are inverse; `CleanupLists` and `ShutdownLists` that each error path,
  and the shutdown, list exactly the parts acquired so far, once each and in a safe order, for every step that may fail.
* `AccountedTheorem` and `WorkersFindTheirDataTheorem` follow.
* `RingsTheorem`: `RingInv` of `LifecycleProofs` says that every ring has the size which `fq_queue_create` computed, and that a queue
  was only allocated when this size had been accepted. That it lies between the limits then follows from what `next_pow2` does. Its
  hypothesis `WordFacts` says that, of a build with or without the last shift: up to half of the word the result is a power of two no less
  than the argument; above that it is no less than the argument, or 0 above the largest power. The limit of the capacity lies below
  half of the word. TLC evaluates `WordFacts` for 8 bits and both builds in run `pool`; the prover has no theory of `^`.

### Memory, times and orders

* `MemoryInvariant`: `OwnInv` (each call works on a live block that no other call works on) makes a step change the
  contribution of one block. `BytesInv` says that `g_allocated` is the sum of the contributions, wrapped; `CallsInv` the same of the
  two counters of calls. `PeakInv` adds to `PeakCatchesUp` that a thread at its compare-and-exchange raises the peak.
  `StatsBalanceTheorem`, `PeakTheorem` and `RoomTheorem` follow.
* The sum of `StatsBalance` is a fold over a set. That it does not depend on the order in which elements are taken is an
  induction over finite sets; the proofs take a smallest set for which it fails (`SmallestSet`, from the library's
  well-founded ordering of finite subsets) and derive a contradiction.

* `DeadlineIsExact` and the lemma `TimerIsExact` are arithmetic on quotients and remainders, for every argument, every length of a second and every
  frequency. `TimesTheorem` applies them to the calls of run `memory`. The timer is exact only while the product
  fits (`TimeFits`), which a machine leaves behind within minutes; `ClockMonotonic` is about the rest.
* `GivenIsHonoured` is a case distinction over builds, operations and orders, and gives `OrdersTheorem`.

### Assumptions

They are the named `ASSUME`s of the modules: a positive power-of-two capacity; a NULL that
is neither a task, a thread nor a block; calls drawn from the five of `Role`, and distinct threads for the
calls of a task; at least one worker, and a number of threads, tasks and blocks that is finite; indices and configurations that are integers
in the ranges of their types; ranges of at most `LONG_MAX` indices (`ShortAssumption`, for the proofs about pools only); a largest capacity of at most half of the word, 2^32; a whole number of nanoseconds in a millisecond; limits of the capacity that are powers of two. `Careful` may be TRUE or FALSE.

### Only model-checked

* The liveness properties: fairness is out of the prover's reach. They are `LocksReleased`, `TryPopReturns`, `ShutdownReturns`, `QueuedTasksEnd`,
  `WaitIdleReturns`, `WaitersReturn`, `PeakLoopEnds`, `CallsEnd` and `CallsReturn`.
* `NextPow2IsCeiling` and `AlignUpRounds`: they are inductions over the bits of a word, and the prover knows nothing of `^`.

Every other property of a passing run is stated by a theorem.

## Not modelled

* The forwarding functions of the thread pool, error strings, version and configuration have no behaviour of their own.
* The wrappers of mutexes and condition variables appear as steps of their users. POSIX mutexes are recursive and
  those of Windows are not; no call of the library locks a mutex that its thread holds.
* Weak memory: an atomic operation is one step in one order that all threads see. The orders of the
  code are acquire and release where data is handed over; the counters of `is_idle` rely on more than that
  between two variables, which x86 gives and the C standard does not.
* `fq_mem_stats` and `fq_scheduler_stats` read their counters one after the other and promise no common moment. The two
  sums of times in the scheduler are unsynchronised additions that only the statistics read.
* The failure path of `submit_with_future`, a single sequential path, is listed as a hazard without a property.

`PROJECT.json` gives the reason for each component and hazard.

## Open ends

1. `WordFacts` and `AlignUpRounds` for every width, with a prover that knows powers of two and induction.
2. The failure path of `submit_with_future`, with a client that goes on to use its task.
