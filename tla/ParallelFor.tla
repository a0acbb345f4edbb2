----------------------------- MODULE ParallelFor -----------------------------
(***************************************************************************)
(* src/utils/parallel.c on a pool whose life Lifecycle describes: clients  *)
(* split a range into one chunk per worker, submit the chunks and wait for *)
(* the whole pool, while workers run them and cancel_all may drop them.    *)
(* The counters and the queues of the scheduler appear as what Scheduler   *)
(* guarantees of them: a queued chunk is taken by one worker, and          *)
(* wait_idle returns only when all that was counted at its call has ended. *)
(***************************************************************************)
EXTENDS Lifecycle

CONSTANTS Clients,       \* the program's threads that call parallel_for
          Ranges,        \* the <<begin, end>> that a client passes
          NestedRanges,  \* those that a callback passes
          CallConfigs,   \* bound: the configurations under which calls are made
          LongHalf       \* LONG_MAX + 1

Long == -LongHalf .. LongHalf - 1

AllWorkers == 0 .. MaxThreads - 1
Callers == Clients \cup AllWorkers
Indices == Long

ASSUME ParallelAssumption ==
  /\ Clients \cap AllWorkers = {}
  /\ LongHalf \in Nat \ {0}
  /\ Ranges \cup NestedRanges \subseteq Long \X Long
  /\ CallConfigs \subseteq Configs
  /\ NONE \notin [chunk : Callers \X AllWorkers, i : Int] \cup Nat

VARIABLES call,    \* each caller: pc, the arguments, i, cur, st and, in wait_idle, what it owes
          chunk,   \* the i-th chunk of a caller: its stage, bounds and queue
          heap,    \* the fq_parallel_range_t that are allocated
          work,    \* the chunk that a worker runs and its next index, or NONE
          ran,     \* how often fn has been called, for each caller and index
          cancel   \* fq_scheduler_cancel_all: "no", "on" or "over"

pvars == <<call, chunk, heap, work, ran, cancel>>
allVars == <<vars, pvars>>

\* A chunk that is not there, or not any more.
Gone(stage) == [stage |-> stage, begin |-> 0, end |-> 0, queue |-> NONE]

PoolInit ==
  /\ Init
  /\ call = [c \in Callers |-> [pc |-> "idle", begin |-> 0, end |-> 0, i |-> 0, cur |-> 0,
                                st |-> "OK", owed |-> {}]]
  /\ chunk = [k \in Callers \X AllWorkers |-> Gone("none")]
  /\ heap = {}
  /\ work = [w \in AllWorkers |-> NONE]
  /\ ran = [c \in Callers |-> [n \in Indices |-> 0]]
  /\ cancel = "no"

InStage(S) == {k \in DOMAIN chunk : chunk[k].stage \in S}

Calling(c) == call[c].pc \notin {"idle", "done"}

\* The chunk that caller c is about to submit.
This(c) == <<c, call[c].i>>

\* The call returns st, and its locals are gone.
Returns(c, st) ==
  call' = [call EXCEPT ![c].pc = "done", ![c].st = st, ![c].i = 0, ![c].cur = 0, ![c].owed = {}]

-----------------------------------------------------------------------------
(* fq_scheduler_parallel_for, also under the name fq_thread_pool_parallel_for *)

\* A client calls a pool that is up; a callback may call from a worker.
MayCall(c) ==
  /\ call[c].pc = "idle" /\ cfg \in CallConfigs
  /\ IF c \in Clients THEN phase = "up" ELSE work[c] # NONE

fq_scheduler_parallel_for(c) ==
  /\ MayCall(c)
  /\ \E r \in IF c \in Clients THEN Ranges ELSE NestedRanges :
       call' = [call EXCEPT ![c].pc = IF r[1] >= r[2] THEN "done" ELSE "loop",
                            ![c].st = IF r[1] >= r[2] THEN "INVAL" ELSE "OK",
                            ![c].begin = r[1], ![c].end = r[2], ![c].cur = r[1]]
  /\ UNCHANGED <<vars, chunk, heap, work, ran, cancel>>

\* Mutant of ChunkEnd: the remainder of the division is left out.
ChunkEnd_NoRemainder(c) ==
  call[c].cur + (call[c].end - call[c].begin) \div WorkerCount

\* The result of an operation on longs.  Overflow is undefined in C; the outcome here is
\* that of the machine's instructions, which wrap around.
AsLong(x) == ((x + LongHalf) % (2 * LongHalf)) - LongHalf

\* Division in C.
Truncated(x, n) == IF x >= 0 THEN x \div n ELSE -((-x) \div n)

\* The first chunks are one longer, so that the remainder is spread over them.  A negative
\* remainder is a huge unsigned, and every chunk is one longer.
ChunkEnd(c) ==
  LET count == AsLong(call[c].end - call[c].begin)
      length == Truncated(count, WorkerCount)
      remainder == count - length * WorkerCount
      extra == IF remainder < 0 \/ call[c].i < remainder THEN 1 ELSE 0
      chunk_end == AsLong(call[c].cur + length + extra)
  IN IF chunk_end > call[c].end THEN call[c].end ELSE chunk_end

HasMore(c) == call[c].pc = "loop" /\ call[c].i < WorkerCount /\ call[c].cur < call[c].end

AllocRange(c) ==
  /\ HasMore(c)
  /\ heap' = heap \cup {This(c)}
  /\ chunk' = [chunk EXCEPT ![This(c)].begin = call[c].cur, ![This(c)].end = ChunkEnd(c)]
  /\ call' = [call EXCEPT ![c].pc = "submit"]
  /\ UNCHANGED <<vars, work, ran, cancel>>

AllocFails(c) ==
  /\ HasMore(c)
  /\ Returns(c, "NOMEM")
  /\ UNCHANGED <<vars, chunk, heap, work, ran, cancel>>

\* fq_scheduler_submit_fn has a task and finds the pool open.
SubmitAccepted(c) ==
  /\ call[c].pc = "submit" /\ ~shutdown_flag
  /\ call' = [call EXCEPT ![c].pc = "push"]
  /\ UNCHANGED <<vars, chunk, heap, work, ran, cancel>>

\* Mutant of SubmitFails: the range is not freed.
SubmitFails_KeepsRange(c) ==
  /\ \/ call[c].pc = "submit" /\ Returns(c, "NOMEM")
     \/ call[c].pc = "push" /\ Returns(c, "OVERFLOW")
  /\ UNCHANGED <<vars, chunk, heap, work, ran, cancel>>

\* No memory for the task, a pool that is closed, or both queues full: the range is
\* freed and the call returns at once, with its earlier chunks still queued or running.
SubmitFails(c) ==
  /\ \E st \in {"NOMEM", "CLOSED", "OVERFLOW"} :
       /\ call[c].pc = IF st = "OVERFLOW" THEN "push" ELSE "submit"
       /\ st = "CLOSED" => shutdown_flag
       /\ Returns(c, st)
  /\ heap' = heap \ {This(c)}
  /\ UNCHANGED <<vars, chunk, work, ran, cancel>>

\* The queue of the worker whose turn it is, by a counter of the calling thread, or the
\* global one when that is full.
SubmitPush(c) ==
  /\ call[c].pc = "push"
  /\ \E q \in {call[c].i % WorkerCount, Global} :
       chunk' = [chunk EXCEPT ![This(c)].stage = "queued", ![This(c)].queue = q]
  /\ call' = [call EXCEPT ![c].pc = "loop", ![c].i = @ + 1, ![c].cur = chunk[This(c)].end]
  /\ UNCHANGED <<vars, heap, work, ran, cancel>>

\* All chunks are submitted, and wait_idle is called.  It counts what is queued or runs,
\* and what cancel_all has dropped, which the counters keep for ever.
WaitIdle(c) ==
  /\ call[c].pc = "loop" /\ ~HasMore(c)
  /\ call' = [call EXCEPT ![c].pc = "wait",
                          ![c].owed = InStage({"queued", "running", "canceled"})]
  /\ UNCHANGED <<vars, chunk, heap, work, ran, cancel>>

\* Mutant of WaitReturns: a call from a callback does not wait for its own chunk.
WaitReturns_NotOwn(c) ==
  /\ call[c].pc = "wait"
  /\ \A k \in call[c].owed :
       chunk[k].stage = "done" \/ (c \in AllWorkers /\ work[c] # NONE /\ work[c].chunk = k)
  /\ Returns(c, "OK")
  /\ UNCHANGED <<vars, chunk, heap, work, ran, cancel>>

WaitReturns(c) ==
  /\ call[c].pc = "wait" /\ \A k \in call[c].owed : chunk[k].stage = "done"
  /\ Returns(c, "OK")
  /\ UNCHANGED <<vars, chunk, heap, work, ran, cancel>>

\* The loop of wait_idle goes round.
WaitPolls(c) == call[c].pc = "wait" /\ UNCHANGED allVars

CallStep(c) == AllocRange(c) \/ AllocFails(c) \/ SubmitAccepted(c) \/ SubmitFails(c)
                 \/ SubmitPush(c) \/ WaitIdle(c)

-----------------------------------------------------------------------------
(* parallel_for_worker *)

\* Mutant of TakeChunk: a worker looks into the queues of the workers only.
TakeChunk_NotGlobal(w) ==
  /\ wpc[w] = "loop"
  /\ \E k \in InStage({"queued"}) :
       /\ chunk[k].queue # Global
       /\ chunk' = [chunk EXCEPT ![k].stage = "running", ![k].queue = NONE]
       /\ heap' = heap \ {k}
       /\ work' = [work EXCEPT ![w] = [chunk |-> k, i |-> chunk[k].begin]]
  /\ wpc' = [wpc EXCEPT ![w] = "busy"]
  /\ UNCHANGED <<cfg, cores, phase, i, held, todo, slots, shutdown_flag, uses, call, ran, cancel>>

\* A worker finds a chunk in some queue, copies its range and frees it.
TakeChunk(w) ==
  /\ wpc[w] = "loop"
  /\ \E k \in InStage({"queued"}) :
       /\ chunk' = [chunk EXCEPT ![k].stage = "running", ![k].queue = NONE]
       /\ heap' = heap \ {k}
       /\ work' = [work EXCEPT ![w] = [chunk |-> k, i |-> chunk[k].begin]]
  /\ wpc' = [wpc EXCEPT ![w] = "busy"]
  /\ UNCHANGED <<cfg, cores, phase, i, held, todo, slots, shutdown_flag, uses, call, ran, cancel>>

\* fn(i, ctx), in which a nested call may have been made.
CallFn(w) ==
  /\ work[w] # NONE /\ ~Calling(w)
  /\ work[w].i < chunk[work[w].chunk].end
  /\ ran' = [ran EXCEPT ![work[w].chunk[1]][work[w].i] = @ + 1]
  /\ work' = [work EXCEPT ![w].i = @ + 1]
  /\ UNCHANGED <<vars, call, chunk, heap, cancel>>

EndChunk(w) ==
  /\ work[w] # NONE /\ ~Calling(w)
  /\ work[w].i >= chunk[work[w].chunk].end
  /\ chunk' = [chunk EXCEPT ![work[w].chunk] = Gone("done")]
  /\ work' = [work EXCEPT ![w] = NONE]
  /\ wpc' = [wpc EXCEPT ![w] = "loop"]
  /\ UNCHANGED <<cfg, cores, phase, i, held, todo, slots, shutdown_flag, uses, call, heap, ran, cancel>>

-----------------------------------------------------------------------------
(* fq_scheduler_cancel_all, by another thread of the program *)

CancelAll ==
  /\ phase = "up" /\ cfg \in CallConfigs /\ cancel = "no"
  /\ cancel' = "on"
  /\ shutdown_flag' = TRUE
  /\ UNCHANGED <<cfg, cores, phase, i, held, todo, slots, wpc, uses, call, chunk, heap, work, ran>>

\* The task is destroyed; its range is unknown to the scheduler and stays allocated.
CancelDestroy ==
  /\ cancel = "on"
  /\ \E k \in InStage({"queued"}) : chunk' = [chunk EXCEPT ![k] = Gone("canceled")]
  /\ UNCHANGED <<vars, call, heap, work, ran, cancel>>

\* Each queue is drained once, up to a consumer in between or the end of the batch.
CancelReturns ==
  /\ cancel = "on"
  /\ cancel' = "over"
  /\ UNCHANGED <<vars, call, chunk, heap, work, ran>>

-----------------------------------------------------------------------------
(* The pool *)

\* A program shuts its pool down after its own calls.
CallsOver == cancel # "on" /\ \A c \in Clients : ~Calling(c)

\* fq_queue_empty of the global queue and of the worker's own.
NothingFor(w) == \A k \in InStage({"queued"}) : chunk[k].queue \notin {w, Global}

Leave(w) == NothingFor(w) /\ Exit(w) /\ UNCHANGED pvars

WorkerStep(w) ==
  \/ (ThreadEntry(w) \/ BeginUse(w) \/ EndUse(w)) /\ UNCHANGED pvars
  \/ Leave(w) \/ TakeChunk(w) \/ CallFn(w) \/ EndChunk(w)

CreatorStep == Creator /\ UNCHANGED pvars

PoolNext ==
  \/ (fq_scheduler_create \/ Over) /\ UNCHANGED pvars
  \/ CreatorStep
  \/ CallsOver /\ fq_scheduler_shutdown /\ UNCHANGED pvars
  \/ \E w \in Workers : WorkerStep(w)
  \/ \E c \in Clients \cup Workers :
       fq_scheduler_parallel_for(c) \/ CallStep(c) \/ WaitReturns(c) \/ WaitPolls(c)
  \/ CancelAll \/ CancelDestroy \/ CancelReturns

\* wait_idle polls, so it is certain to return only once the pool stays idle.
PoolIdle == InStage({"queued", "running", "canceled"}) = {}

\* The calls go on once begun.  A worker that could leave its loop again and again, or
\* take a chunk, does so: it reads the flag and looks into every queue in each round.
PoolSpec ==
  /\ PoolInit /\ [][PoolNext]_allVars
  /\ WF_allVars(CreatorStep)
  /\ \A w \in AllWorkers :
       WF_allVars(WorkerStep(w)) /\ SF_allVars(Leave(w)) /\ SF_allVars(TakeChunk(w))
  /\ \A c \in Callers : WF_allVars(CallStep(c))
  /\ \A c \in Clients : WF_allVars(PoolIdle /\ WaitReturns(c))

-----------------------------------------------------------------------------
(* Correctness properties *)

\* parallel.h:33 "Blocks until all iterations complete.": when the call returns FQ_OK fn
\* has been called once for each index of the range, however the range divides among the
\* workers; and in no case twice, or for an index outside (parallel.c:39-73).  It is so for
\* ranges of at most LONG_MAX indices (ShortRanges), and not for longer ones.
OkMeansComplete ==
  \A c \in Callers, n \in Indices :
    LET inside == n \in call[c].begin .. call[c].end - 1 IN
    /\ ran[c][n] <= IF inside THEN 1 ELSE 0
    /\ call[c].pc = "done" /\ call[c].st = "OK" /\ inside => ran[c][n] = 1

\* A range is freed by the one who owns it, the failed submission (parallel.c:69) or the
\* worker (parallel.c:26), before its chunk runs.  After the shutdown none is left and no
\* chunk was forgotten, also of a call that returned with chunks under way; unless
\* cancel_all destroyed their tasks, or came between the test and the push of a submission,
\* or a callback pushed a chunk to a worker that the shutdown had already let go.
NoRangeLeaks ==
  /\ heap = InStage({"queued", "canceled"})
              \cup {This(c) : c \in {d \in Callers : call[d].pc \in {"submit", "push"}}}
  /\ phase = "down" /\ cancel = "no" /\ (\A w \in AllWorkers : call[w].pc = "idle")
       => heap = {} /\ PoolIdle

\* A callback waits for the pool that is waiting for it.
SelfWait == \E w \in AllWorkers : call[w].pc = "wait"

\* A call from a callback never returns FQ_OK (parallel.c:75): once it has submitted its
\* chunks it waits for the end of the chunk that it is part of.
NestedCallNeverOk == \A w \in AllWorkers : call[w].pc = "done" => call[w].st # "OK"

\* A client's call returns, whatever fails, unless a callback waits for itself or
\* cancel_all has dropped tasks, which the counters of wait_idle keep (scheduler.c:311).
CallsReturn ==
  \A c \in Clients : Calling(c) ~> call[c].pc = "done" \/ SelfWait \/ cancel # "no"

\* fq_scheduler_create returns unless it fails after a worker has been started: its error
\* path joins that worker without setting shutdown_flag (scheduler.c:255, 269).
\* fq_scheduler_shutdown returns, after all that is queued (scheduler.c:286), unless a
\* callback waits for itself.
CallsEnd ==
  /\ phase = "creating" ~> phase \in {"up", "failed"} \/ JoinsRunningWorker
  /\ phase = "stopping" ~> phase = "down" \/ SelfWait
=============================================================================
