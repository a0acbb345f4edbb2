------------------------- MODULE ParallelForProofs -------------------------
(***************************************************************************)
(* Proofs about ParallelFor.tla, for every number of workers and clients,  *)
(* every range of at most LONG_MAX indices and every configuration, with   *)
(* or without cancel_all and calls from callbacks.                         *)
(*                                                                         *)
(* The argument: the bounds of the chunks follow a closed form (Cut), so   *)
(* the chunks of a call tile its range; every index of the part that has   *)
(* been handed out has been run, is pending in exactly one chunk, or went  *)
(* with a chunk that cancel_all destroyed; and a call that waits is owed   *)
(* all its chunks.                                                         *)
(***************************************************************************)
EXTENDS ShortRanges, TLAPS

Chunks == Callers \X AllWorkers
Stages == {"none", "queued", "running", "done", "canceled"}

\* The pcs of a call that is still handing out chunks.
Splitting == {"loop", "submit", "push"}

CallRecord ==
  [pc : Splitting \cup {"idle", "wait", "done"}, begin : Int, end : Int, i : Nat, cur : Int,
   st : {"OK", "INVAL", "NOMEM", "CLOSED", "OVERFLOW"}, owed : SUBSET Chunks]

ChunkRecord == [stage : Stages, begin : Int, end : Int, queue : Nat \cup {NONE}]

PoolTypeOK ==
  /\ cfg.thread_count \in Nat /\ (cfg.thread_count = 0 => cores \in Nat)
  /\ phase \in {"new", "creating", "failing", "failed", "up", "stopping", "down"}
  /\ wpc \in [AllWorkers -> {"none", "entry", "loop", "using", "busy", "exited"}]
  /\ call \in [Callers -> CallRecord]
  /\ chunk \in [Chunks -> ChunkRecord]
  /\ heap \subseteq Chunks
  /\ work \in [AllWorkers -> [chunk : Chunks, i : Int] \cup {NONE}]
  /\ ran \in [Callers -> [Indices -> Nat]]
  /\ cancel \in {"no", "on", "over"}

\* The bounds that fq_scheduler_parallel_for computes: chunk m of c begins at Cut(c, m).
Cut(c, m) ==
  LET count == call[c].end - call[c].begin
      rest == count % WorkerCount
  IN call[c].begin + m * (count \div WorkerCount) + (IF m < rest THEN m ELSE rest)

\* Where a call is, and how far it has come in its range.
SplitInv ==
  \A c \in Callers :
    /\ call[c].pc = "idle" => /\ call[c].begin = 0 /\ call[c].end = 0 /\ call[c].i = 0
                              /\ \A n \in Indices : ran[c][n] = 0
                              /\ \A k \in Chunks : k[1] = c => chunk[k].stage = "none"
    /\ call[c].pc # "idle" => <<call[c].begin, call[c].end>> \in Ranges \cup NestedRanges
    /\ call[c].pc \in Splitting =>
         /\ call[c].begin < call[c].end
         /\ call[c].i \in 0 .. WorkerCount
         /\ call[c].cur = Cut(c, call[c].i)
         /\ \A k \in Chunks : k[1] = c /\ k[2] >= call[c].i => chunk[k].stage = "none"
    /\ call[c].pc \in {"submit", "push"} =>
         /\ call[c].i < WorkerCount
         /\ chunk[This(c)].begin = call[c].cur
         /\ chunk[This(c)].end = Cut(c, call[c].i + 1)

Active(k) == chunk[k].stage \in {"queued", "running"}

\* The chunks that are under way lie in the part of the range that is handed out.
ChunkInv ==
  \A k \in Chunks : Active(k) =>
    LET c == k[1] IN
    /\ call[c].begin <= chunk[k].begin
    /\ chunk[k].begin <= chunk[k].end
    /\ chunk[k].end <= call[c].end
    /\ call[c].pc \in Splitting => chunk[k].end <= call[c].cur

\* A running chunk has one worker, which is busy with it.
WorkInv ==
  /\ \A w \in AllWorkers : work[w] # NONE =>
       /\ wpc[w] = "busy"
       /\ chunk[work[w].chunk].stage = "running"
       /\ chunk[work[w].chunk].begin <= work[w].i /\ work[w].i <= chunk[work[w].chunk].end
  /\ \A v, w \in AllWorkers :
       work[v] # NONE /\ work[w] # NONE /\ work[v].chunk = work[w].chunk => v = w
  /\ \A k \in Chunks : chunk[k].stage = "running" =>
       \E w \in AllWorkers : work[w] # NONE /\ work[w].chunk = k

\* fn is still to be called for index n, by chunk k.
Pending(k, n) ==
  \/ chunk[k].stage = "queued" /\ chunk[k].begin <= n /\ n < chunk[k].end
  \/ \E w \in AllWorkers : /\ work[w] # NONE /\ work[w].chunk = k
                           /\ work[w].i <= n /\ n < chunk[k].end

\* No index is pending twice, or pending when it has been run.
DisjointInv ==
  \A c \in Callers :
    /\ \A k1, k2 \in Chunks, n \in Int :
         k1[1] = c /\ k2[1] = c /\ Pending(k1, n) /\ Pending(k2, n) => k1 = k2
    /\ \A n \in Indices : ran[c][n] # 0 =>
         /\ ran[c][n] = 1
         /\ call[c].begin <= n /\ n < call[c].end
         /\ call[c].pc \in Splitting => n < call[c].cur
         /\ \A k \in Chunks : k[1] = c => ~Pending(k, n)

\* Index n of the range of c has been run, is pending, or was dropped by cancel_all.
Provided(c, n) ==
  \/ ran[c][n] = 1
  \/ \E k \in Chunks : k[1] = c /\ Pending(k, n)
  \/ \E k \in Chunks : k[1] = c /\ chunk[k].stage = "canceled"

\* No index is forgotten.
CoverInv ==
  \A c \in Callers, n \in Indices :
    /\ call[c].pc \in Splitting /\ call[c].begin <= n /\ n < call[c].cur => Provided(c, n)
    /\ call[c].pc = "wait" /\ call[c].begin <= n /\ n < call[c].end => Provided(c, n)
    /\ call[c].pc = "done" /\ call[c].st = "OK" /\ call[c].begin <= n /\ n < call[c].end
         => ran[c][n] = 1

\* wait_idle is owed all chunks of its own call, and in a callback the chunk it is part of.
OwedInv ==
  /\ \A c \in Callers : call[c].pc = "wait" =>
       \A k \in Chunks : k[1] = c /\ chunk[k].stage \in {"queued", "running", "canceled"}
                           => k \in call[c].owed
  /\ \A w \in AllWorkers :
       /\ Calling(w) => work[w] # NONE
       /\ call[w].pc = "wait" => work[w].chunk \in call[w].owed

\* Who owns which range.
HeapInv == heap = InStage({"queued", "canceled"})
                    \cup {This(c) : c \in {d \in Callers : call[d].pc \in {"submit", "push"}}}

\* Nobody calls before the pool is up.
EarlyInv == phase \notin {"up", "stopping", "down"} => \A c \in Callers : call[c].pc = "idle"

PoolInv == /\ PoolTypeOK /\ EarlyInv /\ SplitInv /\ ChunkInv /\ WorkInv /\ DisjointInv /\ CoverInv
           /\ OwedInv /\ NestedCallNeverOk /\ HeapInv

-----------------------------------------------------------------------------
(* The division of a range *)

\* The number of workers is between 1 and FQ_MAX_THREADS (scheduler.c:219-223).
LEMMA WorkerCountType == PoolTypeOK => WorkerCount \in 1 .. MaxThreads
BY LifecycleAssumption
DEF PoolTypeOK, WorkerCount, fq_hardware_concurrency, PosixConcurrency, WindowsConcurrency

\* Monotonicity of the product, which the provers do not find inside a larger step.
LEMMA ProductGrows ==
  ASSUME NEW a \in Nat, NEW b \in Nat, NEW q \in Nat, a <= b
  PROVE  a * q <= b * q /\ a * q \in Nat /\ (a + 1) * q = a * q + q
OBVIOUS

\* The bounds rise from the beginning of the range to its end in WorkerCount steps, each
\* a quotient long and one longer while the remainder lasts (parallel.c:45-53).
LEMMA CutBounds ==
  ASSUME NEW W \in Nat \ {0}, NEW count \in Nat, NEW m \in 0 .. W
  PROVE  LET q == count \div W
             rest == count % W
             at(x) == x * q + (IF x < rest THEN x ELSE rest)
         IN /\ q \in Nat /\ rest \in 0 .. W - 1 /\ count = W * q + rest
            /\ at(0) = 0 /\ at(W) = count /\ at(m) \in 0 .. count
            /\ m < W => /\ at(m + 1) = at(m) + q + (IF m < rest THEN 1 ELSE 0)
                        /\ at(m) <= at(m + 1) /\ at(m + 1) <= count
<1> DEFINE q == count \div W
           rest == count % W
<1>1. q \in Nat /\ rest \in 0 .. W - 1 /\ count = W * q + rest
  OBVIOUS
<1>2. m * q <= W * q /\ m * q \in Nat /\ W * q \in Nat /\ 0 * q = 0
  BY <1>1, ProductGrows
<1>3. m < W => (m + 1) * q <= W * q /\ (m + 1) * q = m * q + q
  <2>1. CASE m < W
    BY <1>1, <2>1, ProductGrows
  <2> QED
    BY <2>1
<1> HIDE DEF q, rest
<1>4. ASSUME NEW mq, NEW Wq, mq = m * q, Wq = W * q
      PROVE  LET at(x) == x * q + (IF x < rest THEN x ELSE rest)
             IN /\ at(0) = 0 /\ at(W) = count /\ at(m) \in 0 .. count
                /\ m < W => /\ at(m + 1) = at(m) + q + (IF m < rest THEN 1 ELSE 0)
                            /\ at(m) <= at(m + 1) /\ at(m + 1) <= count
  BY <1>1, <1>2, <1>3, <1>4
<1> QED
  BY <1>1, <1>4 DEF q, rest

\* The bounds of a range are longs, and so is its length.
LEMMA RangeType ==
  ASSUME NEW b, NEW e, <<b, e>> \in Ranges \cup NestedRanges
  PROVE  b \in Long /\ e \in Long /\ b \in Int /\ e \in Int /\ e - b < LongHalf
<1>1. <<b, e>> \in Long \X Long
  BY ParallelAssumption
<1>2. <<b, e>>[2] - <<b, e>>[1] < LongHalf
  BY ShortAssumption
<1> QED
  BY <1>1, <1>2, ParallelAssumption DEF Long

\* What is a long already stays as it is.
LEMMA AsLongFits ==
  ASSUME NEW x \in Long
  PROVE  AsLong(x) = x
<1>1. PICK h \in Nat \ {0} : h = LongHalf
  BY ParallelAssumption
<1>2. x \in Int /\ x + h \in 0 .. 2 * h - 1 /\ 2 * h \in Nat \ {0}
  BY <1>1 DEF Long
<1>3. (x + h) % (2 * h) = x + h
  BY <1>2
<1> QED
  BY <1>1, <1>2, <1>3 DEF AsLong

-----------------------------------------------------------------------------
(* What the steps change *)

\* A step of Lifecycle: the calls stay as they are, and so do the busy workers.
LifeStep ==
  /\ UNCHANGED <<pvars, cfg, cores>>
  /\ phase' \in {"new", "creating", "failing", "failed", "up", "stopping", "down"}
  /\ phase' \notin {"up", "stopping", "down"} => phase \notin {"up", "stopping", "down"}
  /\ wpc' \in [AllWorkers -> {"none", "entry", "loop", "using", "busy", "exited"}]
  /\ \A w \in AllWorkers : wpc[w] = "busy" /\ work[w] # NONE => wpc'[w] = "busy"

\* Nobody works before the pool is up.
LEMMA NoEarlyWork ==
  ASSUME PoolTypeOK, EarlyInv, SplitInv, WorkInv, phase \notin {"up", "stopping", "down"},
         NEW w \in AllWorkers
  PROVE  work[w] = NONE
<1> SUFFICES ASSUME work[w] # NONE PROVE FALSE
  OBVIOUS
<1>1. work[w].chunk \in Chunks /\ work[w].chunk[1] \in Callers
  BY DEF PoolTypeOK, Chunks
<1>2. chunk[work[w].chunk].stage = "running"
  BY DEF WorkInv
<1>3. chunk[work[w].chunk].stage = "none"
  BY <1>1 DEF EarlyInv, SplitInv
<1> QED
  BY <1>2, <1>3

\* The steps of the creator and of a worker without work.
LEMMA LifeSteps ==
  ASSUME PoolTypeOK, EarlyInv, SplitInv, WorkInv, UNCHANGED pvars,
         \/ fq_scheduler_create \/ Over \/ Creator \/ fq_scheduler_shutdown \/ UNCHANGED vars
         \/ \E w \in Workers : ThreadEntry(w) \/ BeginUse(w) \/ EndUse(w) \/ Exit(w)
  PROVE  LifeStep
<1> USE DEF PoolTypeOK, LifeStep
<1>1. CASE fq_scheduler_create \/ Over \/ fq_scheduler_shutdown \/ UNCHANGED vars
  BY <1>1 DEF fq_scheduler_create, Over, fq_scheduler_shutdown, vars
<1>2. CASE Acquire
  <2>1. wpc' \in [AllWorkers -> {"none", "entry", "loop", "using", "busy", "exited"}]
    BY <1>2 DEF Acquire
  <2>2. \A w \in AllWorkers : work[w] = NONE
    BY <1>2, NoEarlyWork DEF Acquire
  <2> QED
    BY <1>2, <2>1, <2>2 DEF Acquire
<1>3. CASE AcquireFails \/ Created \/ Release \/ Return
  BY <1>3 DEF AcquireFails, Created, Release, Return
<1>4. ASSUME NEW w \in Workers, ThreadEntry(w) \/ BeginUse(w) \/ EndUse(w) \/ Exit(w)
      PROVE  LifeStep
  BY <1>4 DEF ThreadEntry, BeginUse, EndUse, Exit
<1> QED
  BY <1>1, <1>2, <1>3, <1>4 DEF Creator

\* The worker count is fixed when the pool is created.
LEMMA SameWorkerCount ==
  ASSUME UNCHANGED <<cfg, cores>>
  PROVE  WorkerCount' = WorkerCount /\ Global' = Global /\ Workers' = Workers
BY DEF WorkerCount, fq_hardware_concurrency, PosixConcurrency, WindowsConcurrency, Global, Workers

\* One call has made a step, the other calls are where they were.
OnlyCall(c) == call' \in [Callers -> CallRecord] /\ \A d \in Callers \ {c} : call'[d] = call[d]

\* A record with the right fields belongs to a call.
LEMMA CallUpdate ==
  ASSUME PoolTypeOK, NEW c \in Callers, NEW r \in CallRecord, call' = [call EXCEPT ![c] = r]
  PROVE  OnlyCall(c) /\ call'[c] = r
<1> HIDE DEF CallRecord
<1> QED
  BY DEF PoolTypeOK, OnlyCall

\* A step that only moves the pc of c.
LEMMA CallMoves ==
  ASSUME PoolTypeOK, NEW c \in Callers, NEW x \in Splitting \cup {"wait"},
         call' = [call EXCEPT ![c].pc = x]
  PROVE  /\ OnlyCall(c) /\ call'[c].pc = x
         /\ call'[c].begin = call[c].begin /\ call'[c].end = call[c].end /\ call'[c].i = call[c].i
         /\ call'[c].cur = call[c].cur /\ call'[c].st = call[c].st /\ call'[c].owed = call[c].owed
<1>1. [call[c] EXCEPT !.pc = x] \in CallRecord
  <2>1. call[c] \in CallRecord
    BY DEF PoolTypeOK
  <2> QED
    BY <2>1 DEF CallRecord, Splitting
<1>2. call' = [call EXCEPT ![c] = [call[c] EXCEPT !.pc = x]]
  OBVIOUS
<1>3. OnlyCall(c) /\ call'[c] = [call[c] EXCEPT !.pc = x]
  BY <1>1, <1>2, CallUpdate
<1> QED
  BY <1>3 DEF PoolTypeOK, CallRecord

\* A step with which the call returns.
LEMMA CallReturns ==
  ASSUME PoolTypeOK, NEW c \in Callers, NEW x \in {"OK", "NOMEM", "CLOSED", "OVERFLOW"},
         Returns(c, x)
  PROVE  /\ OnlyCall(c) /\ call'[c].pc = "done" /\ call'[c].st = x
         /\ call'[c].begin = call[c].begin /\ call'[c].end = call[c].end
<1> DEFINE r == [call[c] EXCEPT !.pc = "done", !.st = x, !.i = 0, !.cur = 0, !.owed = {}]
<1>1. r \in CallRecord
  <2>1. call[c] \in CallRecord
    BY DEF PoolTypeOK
  <2>a. {} \in SUBSET Chunks /\ 0 \in Nat /\ 0 \in Int
    OBVIOUS
  <2>2. PICK m \in Nat, n \in Int, none \in SUBSET Chunks : m = 0 /\ n = 0 /\ none = {}
    BY <2>a
  <2>3. [call[c] EXCEPT !.pc = "done", !.st = x, !.i = m, !.cur = n, !.owed = none] \in CallRecord
    BY <2>1 DEF CallRecord, Splitting
  <2> QED
    BY <2>2, <2>3
<1>2. call' = [call EXCEPT ![c] = r]
  BY DEF Returns
<1>3. r.pc = "done" /\ r.st = x /\ r.begin = call[c].begin /\ r.end = call[c].end
  BY DEF PoolTypeOK, CallRecord
<1> HIDE DEF r
<1>4. OnlyCall(c) /\ call'[c] = r
  BY <1>1, <1>2, CallUpdate
<1> QED
  BY <1>3, <1>4

\* The entry of fq_scheduler_parallel_for (parallel.c:37-49).
LEMMA CallBegins ==
  ASSUME PoolTypeOK, NEW c \in Callers, fq_scheduler_parallel_for(c)
  PROVE  /\ OnlyCall(c) /\ call[c].pc = "idle"
         /\ <<call'[c].begin, call'[c].end>> \in Ranges \cup NestedRanges
         /\ call'[c].cur = call'[c].begin /\ call'[c].i = call[c].i
         /\ \/ call'[c].pc = "done" /\ call'[c].st = "INVAL"
            \/ call'[c].pc = "loop" /\ call'[c].st = "OK" /\ call'[c].begin < call'[c].end
         /\ UNCHANGED <<vars, chunk, heap, work, ran, cancel>>
<1> PICK b \in Ranges \cup NestedRanges :
           call' = [call EXCEPT ![c].pc = IF b[1] >= b[2] THEN "done" ELSE "loop",
                                ![c].st = IF b[1] >= b[2] THEN "INVAL" ELSE "OK",
                                ![c].begin = b[1], ![c].end = b[2], ![c].cur = b[1]]
  BY DEF fq_scheduler_parallel_for
<1> DEFINE r == [call[c] EXCEPT !.pc = IF b[1] >= b[2] THEN "done" ELSE "loop",
                                !.st = IF b[1] >= b[2] THEN "INVAL" ELSE "OK",
                                !.begin = b[1], !.end = b[2], !.cur = b[1]]
<1>0. b[1] \in Int /\ b[2] \in Int /\ b = <<b[1], b[2]>>
  BY ParallelAssumption DEF Long
<1>1. r \in CallRecord
  <2>1. call[c] \in CallRecord
    BY DEF PoolTypeOK
  <2> QED
    BY <1>0, <2>1 DEF CallRecord, Splitting
<1>2. call' = [call EXCEPT ![c] = r]
  OBVIOUS
<1>3. /\ r.begin = b[1] /\ r.end = b[2] /\ r.cur = b[1] /\ r.i = call[c].i
      /\ r.pc = IF b[1] >= b[2] THEN "done" ELSE "loop"
      /\ r.st = IF b[1] >= b[2] THEN "INVAL" ELSE "OK"
  BY DEF PoolTypeOK, CallRecord
<1> HIDE DEF r
<1>4. OnlyCall(c) /\ call'[c] = r
  BY <1>1, <1>2, CallUpdate
<1>5. call[c].pc = "idle" /\ UNCHANGED <<vars, chunk, heap, work, ran, cancel>>
  BY DEF fq_scheduler_parallel_for, MayCall
<1>6. b[1] >= b[2] \/ b[1] < b[2]
  BY <1>0
<1> QED
  BY <1>0, <1>3, <1>4, <1>5, <1>6

\* One chunk has changed, the others are what they were.
OnlyChunk(k) == chunk' \in [Chunks -> ChunkRecord] /\ \A j \in Chunks \ {k} : chunk'[j] = chunk[j]

\* A record with the right fields belongs to a chunk.
LEMMA ChunkUpdate ==
  ASSUME PoolTypeOK, NEW k \in Chunks, NEW r \in ChunkRecord, chunk' = [chunk EXCEPT ![k] = r]
  PROVE  OnlyChunk(k) /\ chunk'[k] = r
<1> HIDE DEF ChunkRecord
<1> QED
  BY DEF PoolTypeOK, OnlyChunk

\* The chunk that a call prepares is one of its own (parallel.c:51-58).
LEMMA ThisChunk ==
  ASSUME PoolTypeOK, NEW c \in Callers, call[c].i < WorkerCount
  PROVE  This(c) \in Chunks /\ This(c)[1] = c /\ This(c)[2] = call[c].i
<1>1. call[c].i \in Nat
  BY DEF PoolTypeOK, CallRecord
<1>2. call[c].i \in AllWorkers
  BY <1>1, WorkerCountType, LifecycleAssumption DEF AllWorkers
<1> QED
  BY <1>2 DEF This, Chunks

\* fq_alloc of the range, and its bounds (parallel.c:51-65).
LEMMA RangeAllocated ==
  ASSUME PoolTypeOK, NEW c \in Callers, AllocRange(c), ChunkEnd(c) \in Int
  PROVE  /\ call' = [call EXCEPT ![c].pc = "submit"]
         /\ OnlyChunk(This(c)) /\ chunk'[This(c)].stage = chunk[This(c)].stage
         /\ chunk'[This(c)].begin = call[c].cur /\ chunk'[This(c)].end = ChunkEnd(c)
<1>1. This(c) \in Chunks
  BY ThisChunk DEF AllocRange, HasMore
<1> DEFINE r == [chunk[This(c)] EXCEPT !.begin = call[c].cur, !.end = ChunkEnd(c)]
<1>2. chunk[This(c)] \in ChunkRecord /\ call[c].cur \in Int
  BY <1>1 DEF PoolTypeOK, CallRecord
<1> PICK e \in Int : e = ChunkEnd(c)
  OBVIOUS
<1>3. r \in ChunkRecord
  BY <1>2 DEF ChunkRecord
<1>4. chunk' = [chunk EXCEPT ![This(c)] = r]
  BY DEF AllocRange
<1>5. r.stage = chunk[This(c)].stage /\ r.begin = call[c].cur /\ r.end = ChunkEnd(c)
  BY <1>2 DEF ChunkRecord
<1> HIDE DEF r
<1>6. OnlyChunk(This(c)) /\ chunk'[This(c)] = r
  BY <1>1, <1>3, <1>4, ChunkUpdate
<1> QED
  BY <1>5, <1>6 DEF AllocRange

\* The push of a chunk, and the end of a round of the loop (parallel.c:67-72).
LEMMA ChunkPushed ==
  ASSUME PoolTypeOK, NEW c \in Callers, SubmitPush(c), call[c].i < WorkerCount
  PROVE  /\ OnlyCall(c) /\ call'[c].pc = "loop"
         /\ call'[c].begin = call[c].begin /\ call'[c].end = call[c].end
         /\ call'[c].i = call[c].i + 1 /\ call'[c].cur = chunk[This(c)].end
         /\ OnlyChunk(This(c)) /\ chunk'[This(c)].stage = "queued"
         /\ chunk'[This(c)].begin = chunk[This(c)].begin
         /\ chunk'[This(c)].end = chunk[This(c)].end
         /\ chunk'[This(c)].queue \in Workers \cup {Global}
<1>0. This(c) \in Chunks
  BY ThisChunk
<1>1. call[c] \in CallRecord /\ chunk[This(c)] \in ChunkRecord
  BY <1>0 DEF PoolTypeOK
<1>a. call[c].i \in Nat /\ chunk[This(c)].end \in Int
  BY <1>1 DEF CallRecord, ChunkRecord
<1>w. WorkerCount \in Nat \ {0}
  BY WorkerCountType, LifecycleAssumption
<1> DEFINE r == [call[c] EXCEPT !.pc = "loop", !.i = @ + 1, !.cur = chunk[This(c)].end]
<1>2. r \in CallRecord
  <2>1. PICK m \in Nat, e \in Int : m = call[c].i + 1 /\ e = chunk[This(c)].end
    BY <1>a
  <2>2. [call[c] EXCEPT !.pc = "loop", !.i = m, !.cur = e] \in CallRecord
    BY <1>1 DEF CallRecord, Splitting
  <2> QED
    BY <2>1, <2>2
<1>3. call' = [call EXCEPT ![c] = r]
  BY DEF SubmitPush
<1>4. /\ r.pc = "loop" /\ r.begin = call[c].begin /\ r.end = call[c].end
      /\ r.i = call[c].i + 1 /\ r.cur = chunk[This(c)].end
  BY <1>1 DEF CallRecord
<1> HIDE DEF r
<1>5. OnlyCall(c) /\ call'[c] = r
  BY <1>2, <1>3, CallUpdate
<1>6. PICK q \in {call[c].i % WorkerCount, Global} :
        chunk' = [chunk EXCEPT ![This(c)].stage = "queued", ![This(c)].queue = q]
  BY DEF SubmitPush
<1>7. q \in Nat /\ q \in Workers \cup {Global}
  BY <1>a, <1>w DEF Workers, Global
<1> DEFINE s == [chunk[This(c)] EXCEPT !.stage = "queued", !.queue = q]
<1>8. s \in ChunkRecord
  BY <1>1, <1>7 DEF ChunkRecord, Stages
<1>9. chunk' = [chunk EXCEPT ![This(c)] = s]
  BY <1>6
<1>10. /\ s.stage = "queued" /\ s.begin = chunk[This(c)].begin
       /\ s.end = chunk[This(c)].end /\ s.queue = q
  BY <1>1 DEF ChunkRecord
<1> HIDE DEF s
<1>11. OnlyChunk(This(c)) /\ chunk'[This(c)] = s
  BY <1>0, <1>8, <1>9, ChunkUpdate
<1> QED
  BY <1>4, <1>5, <1>7, <1>10, <1>11

\* The call of wait_idle (parallel.c:75-77).
LEMMA CallWaits ==
  ASSUME PoolTypeOK, NEW c \in Callers, WaitIdle(c)
  PROVE  /\ OnlyCall(c) /\ call'[c].pc = "wait"
         /\ call'[c].begin = call[c].begin /\ call'[c].end = call[c].end
         /\ call'[c].owed = InStage({"queued", "running", "canceled"})
<1> DEFINE o == InStage({"queued", "running", "canceled"})
           r == [call[c] EXCEPT !.pc = "wait", !.owed = o]
<1>0. o \subseteq Chunks
  BY DEF InStage, PoolTypeOK
<1>1. call[c] \in CallRecord
  BY DEF PoolTypeOK
<1>2. call' = [call EXCEPT ![c] = r]
  BY DEF WaitIdle
<1> HIDE DEF o
<1>3. r \in CallRecord
  BY <1>0, <1>1 DEF CallRecord, Splitting
<1>4. r.pc = "wait" /\ r.begin = call[c].begin /\ r.end = call[c].end /\ r.owed = o
  BY <1>1 DEF CallRecord
<1> HIDE DEF r
<1>5. OnlyCall(c) /\ call'[c] = r
  BY <1>2, <1>3, CallUpdate
<1> QED
  BY <1>4, <1>5 DEF o

\* The work of one worker has changed.
OnlyWork(w) == /\ work' \in [AllWorkers -> [chunk : Chunks, i : Int] \cup {NONE}]
               /\ \A v \in AllWorkers \ {w} : work'[v] = work[v]

\* A worker takes a chunk (parallel.c:21-26).
LEMMA ChunkTaken ==
  ASSUME PoolTypeOK, NEW w \in AllWorkers, TakeChunk(w)
  PROVE  \E k \in Chunks :
           /\ chunk[k].stage = "queued"
           /\ OnlyChunk(k) /\ chunk'[k].stage = "running"
           /\ chunk'[k].begin = chunk[k].begin /\ chunk'[k].end = chunk[k].end
           /\ OnlyWork(w) /\ work'[w] # NONE
           /\ work'[w].chunk = k /\ work'[w].i = chunk[k].begin
           /\ heap' = heap \ {k}
           /\ wpc[w] = "loop" /\ wpc' = [wpc EXCEPT ![w] = "busy"]
<1>1. PICK k \in InStage({"queued"}) :
        /\ chunk' = [chunk EXCEPT ![k].stage = "running", ![k].queue = NONE]
        /\ heap' = heap \ {k}
        /\ work' = [work EXCEPT ![w] = [chunk |-> k, i |-> chunk[k].begin]]
  BY DEF TakeChunk
<1>2. k \in Chunks /\ chunk[k].stage = "queued" /\ chunk[k] \in ChunkRecord
  BY DEF InStage, PoolTypeOK
<1> DEFINE r == [chunk[k] EXCEPT !.stage = "running", !.queue = NONE]
<1>3. r \in ChunkRecord
  BY <1>2 DEF ChunkRecord, Stages
<1>4. chunk' = [chunk EXCEPT ![k] = r]
  BY <1>1
<1>5. r.stage = "running" /\ r.begin = chunk[k].begin /\ r.end = chunk[k].end
  BY <1>2 DEF ChunkRecord
<1> HIDE DEF r
<1>6. OnlyChunk(k) /\ chunk'[k] = r
  BY <1>2, <1>3, <1>4, ChunkUpdate
<1> DEFINE x == [chunk |-> k, i |-> chunk[k].begin]
<1>7. x \in [chunk : Chunks, i : Int]
  BY <1>2 DEF ChunkRecord
<1>8. x # NONE
  BY <1>7, ParallelAssumption DEF Chunks
<1>9. x.chunk = k /\ x.i = chunk[k].begin
  OBVIOUS
<1> HIDE DEF x
<1>10. OnlyWork(w) /\ work'[w] = x
  BY <1>1, <1>7 DEF PoolTypeOK, OnlyWork, x
<1> QED
  BY <1>1, <1>2, <1>5, <1>6, <1>8, <1>9, <1>10 DEF TakeChunk

\* The call of fn (parallel.c:27-29).
LEMMA FnCalled ==
  ASSUME PoolTypeOK, NEW w \in AllWorkers, CallFn(w)
  PROVE  /\ work[w] # NONE /\ work[w].i < chunk[work[w].chunk].end
         /\ OnlyWork(w) /\ work'[w] # NONE
         /\ work'[w].chunk = work[w].chunk /\ work'[w].i = work[w].i + 1
         /\ ran' = [ran EXCEPT ![work[w].chunk[1]][work[w].i] = @ + 1]
<1>1. work[w] # NONE /\ work[w] \in [chunk : Chunks, i : Int]
  BY DEF CallFn, PoolTypeOK
<1> DEFINE x == [work[w] EXCEPT !.i = @ + 1]
<1>2. x \in [chunk : Chunks, i : Int]
  BY <1>1
<1>3. x # NONE
  BY <1>2, ParallelAssumption DEF Chunks
<1>4. x.chunk = work[w].chunk /\ x.i = work[w].i + 1
  BY <1>1
<1>5. work' = [work EXCEPT ![w] = x]
  BY DEF CallFn
<1> HIDE DEF x
<1>6. OnlyWork(w) /\ work'[w] = x
  BY <1>2, <1>5 DEF PoolTypeOK, OnlyWork
<1> QED
  BY <1>1, <1>3, <1>4, <1>6 DEF CallFn

\* What Gone leaves of a chunk.
LEMMA GoneRecord ==
  ASSUME NEW st \in Stages
  PROVE  Gone(st) \in ChunkRecord /\ Gone(st).stage = st
BY DEF Gone, ChunkRecord

\* The return of parallel_for_worker.
LEMMA ChunkEnded ==
  ASSUME PoolTypeOK, NEW w \in AllWorkers, EndChunk(w)
  PROVE  /\ work[w] # NONE /\ work[w].chunk \in Chunks
         /\ work[w].i >= chunk[work[w].chunk].end
         /\ OnlyChunk(work[w].chunk) /\ chunk'[work[w].chunk].stage = "done"
         /\ OnlyWork(w) /\ work'[w] = NONE
         /\ ~Calling(w) /\ wpc' = [wpc EXCEPT ![w] = "loop"]
<1>1. work[w] # NONE /\ work[w].chunk \in Chunks
  BY DEF EndChunk, PoolTypeOK
<1>2. Gone("done") \in ChunkRecord /\ Gone("done").stage = "done"
  BY GoneRecord DEF Stages
<1>3. chunk' = [chunk EXCEPT ![work[w].chunk] = Gone("done")]
  BY DEF EndChunk
<1>4. OnlyChunk(work[w].chunk) /\ chunk'[work[w].chunk] = Gone("done")
  BY <1>1, <1>2, <1>3, ChunkUpdate
<1>5. OnlyWork(w) /\ work'[w] = NONE
  BY DEF EndChunk, PoolTypeOK, OnlyWork
<1> QED
  BY <1>1, <1>2, <1>4, <1>5 DEF EndChunk

\* The destruction of a queued task by cancel_all (scheduler.c:311-340).
LEMMA ChunkCanceled ==
  ASSUME PoolTypeOK, CancelDestroy
  PROVE  \E k \in Chunks : chunk[k].stage = "queued" /\ OnlyChunk(k) /\ chunk'[k].stage = "canceled"
<1>1. PICK k \in InStage({"queued"}) : chunk' = [chunk EXCEPT ![k] = Gone("canceled")]
  BY DEF CancelDestroy
<1>2. k \in Chunks /\ chunk[k].stage = "queued"
  BY DEF InStage, PoolTypeOK
<1>3. Gone("canceled") \in ChunkRecord /\ Gone("canceled").stage = "canceled"
  BY GoneRecord DEF Stages
<1>4. OnlyChunk(k) /\ chunk'[k] = Gone("canceled")
  BY <1>1, <1>2, <1>3, ChunkUpdate
<1> QED
  BY <1>2, <1>3, <1>4

-----------------------------------------------------------------------------
(* Every step keeps the invariant *)

\* The bounds of a call depend on its range and the number of workers only.
LEMMA SameCut ==
  ASSUME UNCHANGED <<cfg, cores>>, NEW c \in Callers,
         call'[c].begin = call[c].begin, call'[c].end = call[c].end
  PROVE  \A m : Cut(c, m)' = Cut(c, m)
BY SameWorkerCount DEF Cut

\* The invariant does not depend on the rest of the pool.
LEMMA LifeKeepsPoolInv ==
  ASSUME PoolInv, LifeStep
  PROVE  PoolInv'
<1>0. UNCHANGED <<call, chunk, heap, work, ran, cancel, cfg, cores>>
  BY DEF LifeStep, pvars
<1>1. PoolTypeOK' /\ EarlyInv'
  BY <1>0 DEF PoolInv, PoolTypeOK, EarlyInv, LifeStep
<1>2. SplitInv'
  <2>1. \A c \in Callers : \A m : Cut(c, m)' = Cut(c, m)
    BY <1>0, SameCut
  <2> QED
    BY <1>0, <2>1, SameWorkerCount DEF PoolInv, SplitInv, This
<1>3. ChunkInv' /\ DisjointInv' /\ CoverInv'
  BY <1>0 DEF PoolInv, ChunkInv, Active, DisjointInv, CoverInv, Provided, Pending
<1>4. WorkInv'
  BY <1>0 DEF PoolInv, WorkInv, LifeStep
<1>5. OwedInv' /\ NestedCallNeverOk' /\ HeapInv'
  BY <1>0 DEF PoolInv, OwedInv, Calling, NestedCallNeverOk, HeapInv, InStage, This
<1> QED
  BY <1>1, <1>2, <1>3, <1>4, <1>5 DEF PoolInv

\* The flags of cancel_all do not touch the calls.
LEMMA FlagsKeepPoolInv ==
  ASSUME PoolInv, CancelAll \/ CancelReturns
  PROVE  PoolInv'
<1>0. /\ UNCHANGED <<cfg, cores, phase, wpc, call, chunk, heap, work, ran>>
      /\ cancel' \in {"no", "on", "over"}
  BY DEF CancelAll, CancelReturns, vars
<1>1. PoolTypeOK' /\ EarlyInv'
  BY <1>0 DEF PoolInv, PoolTypeOK, EarlyInv
<1>2. SplitInv'
  <2>1. \A c \in Callers : \A m : Cut(c, m)' = Cut(c, m)
    BY <1>0, SameCut
  <2> QED
    BY <1>0, <2>1, SameWorkerCount DEF PoolInv, SplitInv, This
<1>3. ChunkInv' /\ DisjointInv' /\ CoverInv'
  BY <1>0 DEF PoolInv, ChunkInv, Active, DisjointInv, CoverInv, Provided, Pending
<1>4. WorkInv'
  BY <1>0 DEF PoolInv, WorkInv
<1>5. OwedInv' /\ NestedCallNeverOk' /\ HeapInv'
  BY <1>0 DEF PoolInv, OwedInv, Calling, NestedCallNeverOk, HeapInv, InStage, This
<1> QED
  BY <1>1, <1>2, <1>3, <1>4, <1>5 DEF PoolInv

\* The chunk that a call prepares is not the chunk of anything that is under way.
LEMMA ThisIsNew ==
  ASSUME PoolInv, NEW c \in Callers, call[c].pc \in {"submit", "push"}
  PROVE  This(c) \in Chunks /\ This(c)[1] = c /\ chunk[This(c)].stage = "none"
<1>1. call[c].i < WorkerCount /\ PoolTypeOK
  BY DEF PoolInv, SplitInv
<1>2. This(c) \in Chunks /\ This(c)[1] = c /\ This(c)[2] = call[c].i
  BY <1>1, ThisChunk
<1>3. call[c].i \in Nat
  BY <1>1 DEF PoolTypeOK, CallRecord
<1>4. \A k \in Chunks : k[1] = c /\ k[2] >= call[c].i => chunk[k].stage = "none"
  BY DEF PoolInv, SplitInv, Splitting
<1>5. This(c)[2] >= call[c].i
  BY <1>2, <1>3
<1> QED
  BY <1>2, <1>4, <1>5

\* The bounds of a call that is handing out chunks.
LEMMA CutOfCall ==
  ASSUME PoolTypeOK, SplitInv, NEW c \in Callers, call[c].pc # "idle",
         call[c].begin < call[c].end, NEW m \in 0 .. WorkerCount
  PROVE  /\ Cut(c, m) \in Int
         /\ call[c].begin <= Cut(c, m) /\ Cut(c, m) <= call[c].end
         /\ Cut(c, 0) = call[c].begin /\ Cut(c, WorkerCount) = call[c].end
         /\ m < WorkerCount =>
              /\ Cut(c, m + 1) \in Int
              /\ Cut(c, m) <= Cut(c, m + 1) /\ Cut(c, m + 1) <= call[c].end
              /\ call[c].i = m /\ call[c].cur = Cut(c, m) => ChunkEnd(c) = Cut(c, m + 1)
<1>1. PICK W \in Nat \ {0} : W = WorkerCount
  BY WorkerCountType, LifecycleAssumption
<1>2. PICK b \in Long, e \in Long :
        /\ b = call[c].begin /\ e = call[c].end
        /\ b \in Int /\ e \in Int /\ e - b < LongHalf
  BY RangeType DEF SplitInv
<1>3. PICK count \in Nat : count = e - b /\ count \in Long
  BY <1>2, ParallelAssumption DEF Long
<1>4. m \in 0 .. W
  BY <1>1
<1> DEFINE q == count \div W
           rest == count % W
           at(x) == x * q + (IF x < rest THEN x ELSE rest)
<1>5. /\ q \in Nat /\ rest \in 0 .. W - 1 /\ count = W * q + rest /\ at(m) \in 0 .. count
      /\ at(0) = 0 /\ at(W) = count
      /\ m < W => /\ at(m + 1) = at(m) + q + (IF m < rest THEN 1 ELSE 0)
                  /\ at(m) <= at(m + 1) /\ at(m + 1) <= count
  BY <1>4, CutBounds
<1>6. \A x : Cut(c, x) = b + x * q + (IF x < rest THEN x ELSE rest)
  BY <1>1, <1>2, <1>3 DEF Cut
<1>7. ChunkEnd(c) = LET extra == IF call[c].i < rest THEN 1 ELSE 0
                        chunk_end == AsLong(call[c].cur + q + extra)
                    IN IF chunk_end > e THEN e ELSE chunk_end
  <2>1. AsLong(call[c].end - call[c].begin) = count
    BY <1>2, <1>3, AsLongFits
  <2>2. Truncated(count, W) = q
    BY <1>3 DEF Truncated
  <2>3. count - q * W = rest /\ ~(rest < 0)
    <3>1. q * W = W * q /\ W * q \in Nat
      BY <1>5
    <3> QED
      BY <1>5, <3>1
  <2> HIDE DEF q, rest
  <2> QED
    BY <1>1, <1>2, <2>1, <2>2, <2>3 DEF ChunkEnd
<1> HIDE DEF q, rest
<1>8. ASSUME NEW x \in Nat PROVE Cut(c, x) = b + at(x)
  <2>1. PICK xq \in Nat : xq = x * q
    BY <1>5, ProductGrows
  <2>2. Cut(c, x) = b + xq + (IF x < rest THEN x ELSE rest)
    BY <1>6, <2>1
  <2>3. at(x) = xq + (IF x < rest THEN x ELSE rest)
    BY <2>1
  <2> QED
    BY <1>2, <1>5, <2>2, <2>3
<1>9. Cut(c, m) = b + at(m) /\ Cut(c, 0) = b + at(0) /\ Cut(c, W) = b + at(W)
      /\ Cut(c, m + 1) = b + at(m + 1)
  <2>1. m \in Nat /\ 0 \in Nat /\ W \in Nat /\ m + 1 \in Nat
    BY <1>4
  <2> QED
    BY <1>8, <2>1
<1>10. ASSUME m < W, call[c].i = m, call[c].cur = Cut(c, m) PROVE ChunkEnd(c) = Cut(c, m + 1)
  <2>1. at(m) \in Int /\ at(m + 1) \in Int
    BY <1>5, <1>10
  <2>2. call[c].cur + q + (IF m < rest THEN 1 ELSE 0) = b + at(m + 1)
    <3> HIDE DEF at
    <3> QED
      BY <1>2, <1>5, <1>9, <1>10, <2>1
  <2>3. b + at(m + 1) <= e /\ b + at(m + 1) \in Long
    <3>1. at(m + 1) \in 0 .. count
      <4> HIDE DEF at
      <4> QED
        BY <1>5, <1>10, <2>1
    <3> HIDE DEF at
    <3> QED
      BY <1>2, <1>3, <3>1, ParallelAssumption DEF Long
  <2>4. AsLong(b + at(m + 1)) = b + at(m + 1)
    BY <2>3, AsLongFits
  <2> HIDE DEF at
  <2> QED
    BY <1>2, <1>7, <1>9, <1>10, <2>1, <2>2, <2>3, <2>4
<1>11. m < W => at(m + 1) \in Int
  BY <1>5
<1> HIDE DEF at
<1> QED
  BY <1>1, <1>2, <1>3, <1>5, <1>9, <1>10, <1>11

\* A call that begins has nothing under way.
LEMMA BeginKeepsPoolInv ==
  ASSUME PoolInv, NEW c \in Callers, fq_scheduler_parallel_for(c)
  PROVE  PoolInv'
<1>i. PoolTypeOK /\ EarlyInv /\ SplitInv /\ ChunkInv /\ WorkInv /\ DisjointInv /\ CoverInv
      /\ OwedInv /\ NestedCallNeverOk /\ HeapInv
  BY DEF PoolInv
<1>1. /\ OnlyCall(c) /\ call[c].pc = "idle"
      /\ <<call'[c].begin, call'[c].end>> \in Ranges \cup NestedRanges
      /\ call'[c].cur = call'[c].begin /\ call'[c].i = call[c].i
      /\ \/ call'[c].pc = "done" /\ call'[c].st = "INVAL"
         \/ call'[c].pc = "loop" /\ call'[c].st = "OK" /\ call'[c].begin < call'[c].end
      /\ UNCHANGED <<vars, chunk, heap, work, ran, cancel>>
  BY <1>i, CallBegins
<1>v. UNCHANGED <<cfg, cores, phase, wpc, chunk, heap, work, ran, cancel>>
  BY <1>1 DEF vars
<1>2. call[c].i = 0 /\ (\A n \in Indices : ran[c][n] = 0)
      /\ \A k \in Chunks : k[1] = c => chunk[k].stage = "none"
  BY <1>i, <1>1 DEF SplitInv
<1>3. c \in AllWorkers => work[c] # NONE
  BY ParallelAssumption DEF fq_scheduler_parallel_for, MayCall
<1>t. PoolTypeOK'
  BY <1>i, <1>1, <1>v DEF PoolTypeOK, OnlyCall
<1>a. \A d \in Callers \ {c} : call'[d] = call[d]
  BY <1>1 DEF OnlyCall
<1>e. EarlyInv'
  <2>1. phase \in {"up", "stopping", "down"}
    <3>1. CASE c \in Clients
      BY <3>1 DEF fq_scheduler_parallel_for, MayCall
    <3>2. CASE c \in AllWorkers
      BY <1>i, <1>3, <3>2, NoEarlyWork
    <3> QED
      BY <3>1, <3>2 DEF Callers
  <2> QED
    BY <1>v, <2>1 DEF EarlyInv
<1>4. SplitInv'
  <2>1. \A d \in Callers \ {c} : \A m : Cut(d, m)' = Cut(d, m)
    BY <1>v, <1>a, SameCut
  <2>2. call'[c].begin < call'[c].end => Cut(c, 0)' = call'[c].begin
    <3>1. PICK W \in Nat \ {0} : W = WorkerCount'
      BY <1>i, <1>v, WorkerCountType, LifecycleAssumption, SameWorkerCount
    <3>2. PICK b \in Int, e \in Int : b = call'[c].begin /\ e = call'[c].end
      BY <1>1, RangeType
    <3>3. ASSUME b < e PROVE Cut(c, 0)' = b
      <4>1. PICK count \in Nat : count = e - b
        BY <3>3
      <4>2. count % W \in 0 .. W - 1 /\ 0 * (count \div W) = 0
        OBVIOUS
      <4> QED
        BY <3>1, <3>2, <4>1, <4>2 DEF Cut
    <3> QED
      BY <3>2, <3>3
  <2>3. WorkerCount' = WorkerCount /\ WorkerCount \in Nat
    BY <1>i, <1>v, WorkerCountType, LifecycleAssumption, SameWorkerCount
  <2>4. \A d \in Callers \ {c} : This(d)' = This(d)
    BY <1>a DEF This
  <2>5. ASSUME NEW d \in Callers PROVE SplitInv!(d)'
    <3>1. CASE d = c
      BY <1>1, <1>2, <1>v, <2>2, <2>3, <3>1 DEF Splitting
    <3>2. CASE d # c
      BY <1>i, <1>a, <1>v, <2>1, <2>3, <2>4, <3>2 DEF SplitInv
    <3> QED
      BY <3>1, <3>2
  <2> QED
    BY <2>5 DEF SplitInv
<1>5. ChunkInv'
  BY <1>i, <1>2, <1>a, <1>v DEF ChunkInv, Active, Chunks
<1>6. WorkInv'
  BY <1>i, <1>v DEF WorkInv
<1>7. \A k, n : Pending(k, n)' <=> Pending(k, n)
  BY <1>v DEF Pending
<1>8. DisjointInv'
  <2>1. ASSUME NEW d \in Callers PROVE DisjointInv!(d)'
    BY <1>i, <1>2, <1>a, <1>v, <1>7 DEF DisjointInv
  <2> QED
    BY <2>1 DEF DisjointInv
<1>9. CoverInv'
  <2>0. \A n \in Indices : n \in Int
    BY ParallelAssumption DEF Indices, Long
  <2>1. ASSUME NEW d \in Callers, NEW n \in Indices PROVE CoverInv!(d, n)'
    <3>1. CASE d = c
      <4>1. call'[c].begin \in Int
        BY <1>1, RangeType
      <4> QED
        BY <1>1, <2>0, <3>1, <4>1 DEF Splitting
    <3>2. CASE d # c
      BY <1>i, <1>a, <1>v, <1>7, <3>2 DEF CoverInv, Provided
    <3> QED
      BY <3>1, <3>2
  <2> QED
    BY <2>1 DEF CoverInv
<1>10. OwedInv' /\ NestedCallNeverOk'
  BY <1>i, <1>1, <1>3, <1>a, <1>v DEF OwedInv, Calling, NestedCallNeverOk, Callers
<1>11. HeapInv'
  BY <1>i, <1>1, <1>a, <1>v DEF HeapInv, InStage, This
<1> QED
  BY <1>t, <1>e, <1>4, <1>5, <1>6, <1>8, <1>9, <1>10, <1>11 DEF PoolInv

\* The range of the next chunk is allocated and filled in.
LEMMA AllocKeepsPoolInv ==
  ASSUME PoolInv, NEW c \in Callers, AllocRange(c)
  PROVE  PoolInv'
<1>i. PoolTypeOK /\ EarlyInv /\ SplitInv /\ ChunkInv /\ WorkInv /\ DisjointInv /\ CoverInv
      /\ OwedInv /\ NestedCallNeverOk /\ HeapInv
  BY DEF PoolInv
<1>1. call[c].pc = "loop" /\ call[c].i < WorkerCount
  BY DEF AllocRange, HasMore
<1>2. /\ call[c].begin < call[c].end /\ call[c].i \in 0 .. WorkerCount
      /\ call[c].cur = Cut(c, call[c].i)
  BY <1>i, <1>1 DEF SplitInv, Splitting
<1>3. ChunkEnd(c) = Cut(c, call[c].i + 1) /\ ChunkEnd(c) \in Int
  BY <1>i, <1>1, <1>2, CutOfCall
<1>4. /\ call' = [call EXCEPT ![c].pc = "submit"]
      /\ OnlyChunk(This(c)) /\ chunk'[This(c)].stage = chunk[This(c)].stage
      /\ chunk'[This(c)].begin = call[c].cur /\ chunk'[This(c)].end = ChunkEnd(c)
  BY <1>i, <1>3, RangeAllocated
<1>5. /\ OnlyCall(c) /\ call'[c].pc = "submit"
      /\ call'[c].begin = call[c].begin /\ call'[c].end = call[c].end /\ call'[c].i = call[c].i
      /\ call'[c].cur = call[c].cur /\ call'[c].st = call[c].st /\ call'[c].owed = call[c].owed
  <2>1. "submit" \in Splitting \cup {"wait"}
    BY DEF Splitting
  <2> QED
    BY <1>i, <1>4, <2>1, CallMoves
<1>v. /\ UNCHANGED <<cfg, cores, phase, wpc, work, ran, cancel>>
      /\ heap' = heap \cup {This(c)}
  BY DEF AllocRange, vars
<1>a. \A d \in Callers \ {c} : call'[d] = call[d]
  BY <1>5 DEF OnlyCall
<1>k. /\ This(c) \in Chunks /\ This(c)[1] = c /\ This(c)[2] = call[c].i
      /\ \A k \in Chunks \ {This(c)} : chunk'[k] = chunk[k]
  BY <1>i, <1>1, <1>4, ThisChunk DEF OnlyChunk
<1>n. chunk[This(c)].stage = "none"
  <2>1. \A k \in Chunks : k[1] = c /\ k[2] >= call[c].i => chunk[k].stage = "none"
    BY <1>i, <1>1 DEF SplitInv, Splitting
  <2>2. This(c)[2] >= call[c].i
    BY <1>2, <1>k, <1>i DEF PoolTypeOK, CallRecord
  <2> QED
    BY <1>k, <2>1, <2>2
<1>s. \A k \in Chunks : chunk'[k].stage = chunk[k].stage
  BY <1>4, <1>k
<1>t. PoolTypeOK'
  BY <1>i, <1>4, <1>5, <1>k, <1>v DEF PoolTypeOK, OnlyCall, OnlyChunk
<1>e. EarlyInv'
  BY <1>i, <1>1, <1>v DEF EarlyInv
<1>w. WorkerCount' = WorkerCount
  BY <1>v, SameWorkerCount
<1>c. \A d \in Callers : \A m : Cut(d, m)' = Cut(d, m)
  BY <1>v, <1>a, <1>5, SameCut
<1>h. \A d \in Callers : This(d)' = This(d)
  BY <1>a, <1>5 DEF This
<1>6. SplitInv'
  <2>1. ASSUME NEW d \in Callers PROVE SplitInv!(d)'
    <3>1. CASE d = c
      <4>1. SplitInv!(c)!3
        BY <1>i DEF SplitInv
      <4>2. SplitInv!(c)!2
        BY <1>i DEF SplitInv
      <4> QED
        BY <1>1, <1>2, <1>3, <1>4, <1>5, <1>s, <1>w, <1>c, <1>h, <3>1, <4>1, <4>2 DEF Splitting
    <3>2. CASE d # c
      <4>1. call[d].pc \in {"submit", "push"} => This(d) \in Chunks \ {This(c)}
        BY <1>k, <3>2, ThisIsNew
      <4>2. call[d].pc \in {"submit", "push"} => chunk'[This(d)] = chunk[This(d)]
        BY <1>k, <4>1
      <4>3. SplitInv!(d)
        BY <1>i DEF SplitInv
      <4>4. call'[d] = call[d]
        BY <1>a, <3>2
      <4> QED
        BY <1>v, <1>s, <1>w, <1>c, <1>h, <4>2, <4>3, <4>4
    <3> QED
      BY <3>1, <3>2
  <2> QED
    BY <2>1 DEF SplitInv
<1>p. \A k \in Chunks : \A n : Pending(k, n)' <=> Pending(k, n)
  <2>1. \A w \in AllWorkers : work[w] # NONE => work[w].chunk # This(c)
    BY <1>i, <1>n DEF WorkInv
  <2> QED
    BY <1>k, <1>n, <1>s, <1>v, <2>1 DEF Pending
<1>7. ChunkInv'
  <2>1. \A k \in Chunks : Active(k)' => Active(k) /\ k # This(c)
    BY <1>n, <1>s DEF Active
  <2>2. \A k \in Chunks : k[1] \in Callers
    BY DEF Chunks
  <2>3. \A d \in Callers : /\ call'[d].begin = call[d].begin /\ call'[d].end = call[d].end
                           /\ call'[d].cur = call[d].cur
                           /\ call'[d].pc \in Splitting => call[d].pc \in Splitting
    BY <1>1, <1>5, <1>a DEF Splitting
  <2> QED
    BY <1>i, <1>k, <2>1, <2>2, <2>3 DEF ChunkInv
<1>8. WorkInv'
  <2>1. \A w \in AllWorkers : work[w] # NONE => work[w].chunk # This(c) /\ work[w].chunk \in Chunks
    BY <1>i, <1>n DEF WorkInv, PoolTypeOK
  <2> QED
    BY <1>i, <1>k, <1>s, <1>v, <2>1 DEF WorkInv
<1>9. DisjointInv'
  <2>1. ASSUME NEW d \in Callers PROVE DisjointInv!(d)'
    BY <1>i, <1>1, <1>5, <1>a, <1>v, <1>p DEF DisjointInv, Splitting
  <2> QED
    BY <2>1 DEF DisjointInv
<1>10. CoverInv'
  <2>1. \A d \in Callers, n \in Indices : Provided(d, n) => Provided(d, n)'
    BY <1>p, <1>s, <1>v DEF Provided
  <2>2. ASSUME NEW d \in Callers, NEW n \in Indices PROVE CoverInv!(d, n)'
    BY <1>i, <1>1, <1>5, <1>a, <1>v, <2>1 DEF CoverInv, Splitting
  <2> QED
    BY <2>2 DEF CoverInv
<1>11. OwedInv' /\ NestedCallNeverOk'
  <2>1. \A d \in Callers : /\ call'[d].pc \in {"idle", "done"} <=> call[d].pc \in {"idle", "done"}
                           /\ call'[d].pc \in {"wait", "done"} => call'[d] = call[d]
    BY <1>1, <1>5, <1>a
  <2> QED
    BY <1>i, <1>s, <1>v, <2>1 DEF OwedInv, Calling, NestedCallNeverOk, Callers
<1>12. HeapInv'
  <2>1. InStage({"queued", "canceled"})' = InStage({"queued", "canceled"})
    BY <1>s, <1>i, <1>t DEF InStage, PoolTypeOK
  <2> QED
    BY <1>i, <1>1, <1>5, <1>a, <1>h, <1>v, <2>1 DEF HeapInv
<1> QED
  BY <1>t, <1>e, <1>6, <1>7, <1>8, <1>9, <1>10, <1>11, <1>12 DEF PoolInv

\* A submission that finds the pool open goes on to its push.
LEMMA AcceptKeepsPoolInv ==
  ASSUME PoolInv, NEW c \in Callers, SubmitAccepted(c)
  PROVE  PoolInv'
<1>i. PoolTypeOK /\ EarlyInv /\ SplitInv /\ ChunkInv /\ WorkInv /\ DisjointInv /\ CoverInv
      /\ OwedInv /\ NestedCallNeverOk /\ HeapInv
  BY DEF PoolInv
<1>1. call[c].pc = "submit"
  BY DEF SubmitAccepted
<1>2. /\ OnlyCall(c) /\ call'[c].pc = "push"
      /\ call'[c].begin = call[c].begin /\ call'[c].end = call[c].end /\ call'[c].i = call[c].i
      /\ call'[c].cur = call[c].cur /\ call'[c].st = call[c].st /\ call'[c].owed = call[c].owed
  <2>1. "push" \in Splitting \cup {"wait"}
    BY DEF Splitting
  <2>2. call' = [call EXCEPT ![c].pc = "push"]
    BY DEF SubmitAccepted
  <2> QED
    BY <1>i, <2>1, <2>2, CallMoves
<1>v. UNCHANGED <<cfg, cores, phase, wpc, chunk, heap, work, ran, cancel>>
  BY DEF SubmitAccepted, vars
<1>a. \A d \in Callers \ {c} : call'[d] = call[d]
  BY <1>2 DEF OnlyCall
<1>f. \A d \in Callers :
        /\ call'[d].begin = call[d].begin /\ call'[d].end = call[d].end /\ call'[d].i = call[d].i
        /\ call'[d].cur = call[d].cur /\ call'[d].st = call[d].st /\ call'[d].owed = call[d].owed
        /\ call'[d].pc = call[d].pc \/ (call[d].pc = "submit" /\ call'[d].pc = "push")
  BY <1>1, <1>2, <1>a
<1>t. PoolTypeOK'
  BY <1>i, <1>2, <1>v DEF PoolTypeOK, OnlyCall
<1>e. EarlyInv' /\ WorkInv'
  BY <1>i, <1>1, <1>v DEF EarlyInv, WorkInv
<1>c. \A d \in Callers : \A m : Cut(d, m)' = Cut(d, m)
  BY <1>v, <1>f, SameCut
<1>h. \A d \in Callers : This(d)' = This(d)
  BY <1>f DEF This
<1>3. SplitInv'
  <2>1. ASSUME NEW d \in Callers PROVE SplitInv!(d)'
    <3>1. SplitInv!(d)
      BY <1>i DEF SplitInv
    <3> QED
      BY <1>f, <1>c, <1>h, <1>v, <3>1, SameWorkerCount DEF Splitting
  <2> QED
    BY <2>1 DEF SplitInv
<1>4. ChunkInv'
  BY <1>i, <1>f, <1>v DEF ChunkInv, Active, Chunks, Splitting
<1>5. \A k, n : Pending(k, n)' <=> Pending(k, n)
  BY <1>v DEF Pending
<1>6. DisjointInv'
  <2>1. ASSUME NEW d \in Callers PROVE DisjointInv!(d)'
    BY <1>i, <1>f, <1>v, <1>5 DEF DisjointInv, Splitting
  <2> QED
    BY <2>1 DEF DisjointInv
<1>7. CoverInv'
  <2>1. ASSUME NEW d \in Callers, NEW n \in Indices PROVE CoverInv!(d, n)'
    BY <1>i, <1>f, <1>v, <1>5 DEF CoverInv, Provided, Splitting
  <2> QED
    BY <2>1 DEF CoverInv
<1>8. OwedInv' /\ NestedCallNeverOk'
  BY <1>i, <1>f, <1>v DEF OwedInv, Calling, NestedCallNeverOk, Callers
<1>9. HeapInv'
  BY <1>i, <1>f, <1>h, <1>v DEF HeapInv, InStage
<1> QED
  BY <1>t, <1>e, <1>3, <1>4, <1>6, <1>7, <1>8, <1>9 DEF PoolInv

\* A call that fails gives back the range that it could not submit.
LEMMA QuitKeepsPoolInv ==
  ASSUME PoolInv, NEW c \in Callers, AllocFails(c) \/ SubmitFails(c)
  PROVE  PoolInv'
<1>i. PoolTypeOK /\ EarlyInv /\ SplitInv /\ ChunkInv /\ WorkInv /\ DisjointInv /\ CoverInv
      /\ OwedInv /\ NestedCallNeverOk /\ HeapInv
  BY DEF PoolInv
<1>1. /\ call[c].pc \in Splitting
      /\ \E x \in {"NOMEM", "CLOSED", "OVERFLOW"} : Returns(c, x)
      /\ UNCHANGED <<cfg, cores, phase, wpc, chunk, work, ran, cancel>>
      /\ \/ call[c].pc = "loop" /\ heap' = heap
         \/ call[c].pc \in {"submit", "push"} /\ heap' = heap \ {This(c)}
  BY DEF AllocFails, HasMore, SubmitFails, Splitting, vars
<1>2. /\ OnlyCall(c) /\ call'[c].pc = "done" /\ call'[c].st # "OK"
      /\ call'[c].begin = call[c].begin /\ call'[c].end = call[c].end
  BY <1>i, <1>1, CallReturns
<1>v. UNCHANGED <<cfg, cores, phase, wpc, chunk, work, ran, cancel>>
  BY <1>1
<1>a. \A d \in Callers \ {c} : call'[d] = call[d]
  BY <1>2 DEF OnlyCall
<1>t. PoolTypeOK'
  BY <1>i, <1>1, <1>2, <1>v DEF PoolTypeOK, OnlyCall
<1>e. EarlyInv' /\ WorkInv'
  BY <1>i, <1>1, <1>v DEF EarlyInv, WorkInv, Splitting
<1>c. \A d \in Callers : \A m : Cut(d, m)' = Cut(d, m)
  BY <1>v, <1>a, <1>2, SameCut
<1>h. \A d \in Callers \ {c} : This(d)' = This(d)
  BY <1>a DEF This
<1>3. SplitInv'
  <2>1. ASSUME NEW d \in Callers PROVE SplitInv!(d)'
    <3>1. SplitInv!(d)
      BY <1>i DEF SplitInv
    <3>2. CASE d = c
      BY <1>1, <1>2, <3>1, <3>2 DEF Splitting
    <3>3. CASE d # c
      BY <1>a, <1>c, <1>h, <1>v, <3>1, <3>3, SameWorkerCount
    <3> QED
      BY <3>2, <3>3
  <2> QED
    BY <2>1 DEF SplitInv
<1>4. ChunkInv'
  BY <1>i, <1>2, <1>a, <1>v DEF ChunkInv, Active, Chunks, Splitting
<1>5. \A k, n : Pending(k, n)' <=> Pending(k, n)
  BY <1>v DEF Pending
<1>6. DisjointInv'
  <2>1. ASSUME NEW d \in Callers PROVE DisjointInv!(d)'
    BY <1>i, <1>2, <1>a, <1>v, <1>5 DEF DisjointInv, Splitting
  <2> QED
    BY <2>1 DEF DisjointInv
<1>7. CoverInv'
  <2>1. ASSUME NEW d \in Callers, NEW n \in Indices PROVE CoverInv!(d, n)'
    BY <1>i, <1>2, <1>a, <1>v, <1>5 DEF CoverInv, Provided, Splitting
  <2> QED
    BY <2>1 DEF CoverInv
<1>8. OwedInv' /\ NestedCallNeverOk'
  BY <1>i, <1>2, <1>a, <1>v DEF OwedInv, Calling, NestedCallNeverOk, Callers
<1>9. HeapInv'
  <2>1. InStage({"queued", "canceled"})' = InStage({"queued", "canceled"})
    BY <1>v DEF InStage
  <2>2. CASE call[c].pc = "loop" /\ heap' = heap
    BY <1>i, <1>2, <1>a, <1>h, <2>1, <2>2 DEF HeapInv
  <2>3. CASE call[c].pc \in {"submit", "push"} /\ heap' = heap \ {This(c)}
    <3>1. chunk[This(c)].stage = "none"
      BY <2>3, ThisIsNew
    <3>2. \A d \in Callers \ {c} : call[d].pc \in {"submit", "push"} => This(d) # This(c)
      BY <2>3, ThisIsNew
    <3> QED
      BY <1>i, <1>2, <1>a, <1>h, <2>1, <2>3, <3>1, <3>2 DEF HeapInv, InStage
  <2> QED
    BY <1>1, <2>2, <2>3
<1> QED
  BY <1>t, <1>e, <1>3, <1>4, <1>6, <1>7, <1>8, <1>9 DEF PoolInv

\* The indices of a chunk that is pushed become pending, and cur moves behind them.
LEMMA PushKeepsPoolInv ==
  ASSUME PoolInv, NEW c \in Callers, SubmitPush(c)
  PROVE  PoolInv'
<1>i. PoolTypeOK /\ EarlyInv /\ SplitInv /\ ChunkInv /\ WorkInv /\ DisjointInv /\ CoverInv
      /\ OwedInv /\ NestedCallNeverOk /\ HeapInv
  BY DEF PoolInv
<1>1. call[c].pc = "push"
  BY DEF SubmitPush
<1>2. /\ call[c].begin < call[c].end /\ call[c].i \in 0 .. WorkerCount /\ call[c].i < WorkerCount
      /\ call[c].cur = Cut(c, call[c].i) /\ chunk[This(c)].begin = call[c].cur
      /\ chunk[This(c)].end = Cut(c, call[c].i + 1)
      /\ <<call[c].begin, call[c].end>> \in Ranges \cup NestedRanges
      /\ \A k \in Chunks : k[1] = c /\ k[2] >= call[c].i => chunk[k].stage = "none"
  BY <1>i, <1>1 DEF SplitInv, Splitting
<1>3. /\ OnlyCall(c) /\ call'[c].pc = "loop"
      /\ call'[c].begin = call[c].begin /\ call'[c].end = call[c].end
      /\ call'[c].i = call[c].i + 1 /\ call'[c].cur = chunk[This(c)].end
      /\ OnlyChunk(This(c)) /\ chunk'[This(c)].stage = "queued"
      /\ chunk'[This(c)].begin = chunk[This(c)].begin
      /\ chunk'[This(c)].end = chunk[This(c)].end
  BY <1>i, <1>2, ChunkPushed
<1>v. UNCHANGED <<cfg, cores, phase, wpc, heap, work, ran, cancel>>
  BY DEF SubmitPush, vars
<1>a. \A d \in Callers \ {c} : call'[d] = call[d]
  BY <1>3 DEF OnlyCall
<1>k. /\ This(c) \in Chunks /\ This(c)[1] = c /\ This(c)[2] = call[c].i
      /\ \A k \in Chunks \ {This(c)} : chunk'[k] = chunk[k]
      /\ chunk[This(c)].stage = "none"
  BY <1>i, <1>1, <1>2, <1>3, ThisChunk, ThisIsNew DEF OnlyChunk
<1>b. /\ call[c].cur \in Int /\ chunk[This(c)].end \in Int /\ call[c].i \in Nat
      /\ call[c].begin \in Int /\ call[c].end \in Int
      /\ call[c].begin <= call[c].cur /\ call[c].cur <= chunk[This(c)].end
      /\ chunk[This(c)].end <= call[c].end
  BY <1>i, <1>1, <1>2, CutOfCall DEF PoolTypeOK, CallRecord
<1>t. PoolTypeOK'
  BY <1>i, <1>3, <1>v DEF PoolTypeOK, OnlyCall, OnlyChunk
<1>e. EarlyInv'
  BY <1>i, <1>1, <1>v DEF EarlyInv
<1>w. WorkerCount' = WorkerCount
  BY <1>v, SameWorkerCount
<1>c. \A d \in Callers : \A m : Cut(d, m)' = Cut(d, m)
  BY <1>v, <1>a, <1>3, SameCut
<1>h. \A d \in Callers \ {c} : This(d)' = This(d)
  BY <1>a DEF This
<1>4. SplitInv'
  <2>1. ASSUME NEW d \in Callers PROVE SplitInv!(d)'
    <3>1. CASE d = c
      <4>w. WorkerCount \in Nat
        BY <1>i, WorkerCountType, LifecycleAssumption
      <4>1. call'[c].i \in 0 .. WorkerCount
        BY <1>2, <1>3, <1>b, <4>w
      <4>2. call'[c].cur = Cut(c, call[c].i)'
        <5>1. PICK m \in Nat : m = call[c].i + 1
          BY <1>b
        <5>2. call'[c].cur = Cut(c, m)' /\ call'[c].i = m
          BY <1>2, <1>3, <1>c, <5>1
        <5> QED
          BY <5>2
      <4>3. ASSUME NEW k \in Chunks, k[1] = c, k[2] >= call'[c].i PROVE chunk'[k].stage = "none"
        <5>1. k[2] \in Int
          BY LifecycleAssumption DEF Chunks, AllWorkers
        <5>2. k[2] >= call[c].i /\ k[2] # call[c].i
          BY <1>3, <1>b, <4>3, <5>1
        <5> QED
          BY <1>2, <1>k, <4>3, <5>2
      <4> QED
        BY <1>2, <1>3, <1>w, <3>1, <4>1, <4>2, <4>3 DEF Splitting
    <3>2. CASE d # c
      <4>1. call[d].pc \in {"submit", "push"} => chunk'[This(d)] = chunk[This(d)]
        BY <1>k, <3>2, ThisIsNew
      <4>2. SplitInv!(d)
        BY <1>i DEF SplitInv
      <4>3. call'[d] = call[d] /\ This(d)' = This(d)
        BY <1>a, <1>h, <3>2
      <4>4. \A k \in Chunks : k[1] = d => chunk'[k] = chunk[k]
        BY <1>k, <3>2
      <4> QED
        BY <1>v, <1>w, <1>c, <4>1, <4>2, <4>3, <4>4
    <3> QED
      BY <3>1, <3>2
  <2> QED
    BY <2>1 DEF SplitInv
<1>5. ChunkInv'
  <2>1. ASSUME NEW k \in Chunks, Active(k)' PROVE ChunkInv!(k)!2'
    <3>1. CASE k = This(c)
      BY <1>2, <1>3, <1>b, <1>k, <3>1
    <3>2. CASE k # This(c) /\ k[1] = c
      <4>1. Active(k) /\ chunk'[k] = chunk[k]
        BY <1>k, <2>1, <3>2 DEF Active
      <4>2. chunk[k].end <= call[c].cur /\ chunk[k].end \in Int
        BY <1>i, <1>1, <3>2, <4>1 DEF ChunkInv, Splitting, PoolTypeOK, ChunkRecord
      <4> QED
        BY <1>i, <1>3, <1>b, <3>2, <4>1, <4>2 DEF ChunkInv
    <3>3. CASE k[1] # c
      BY <1>i, <1>a, <1>k, <2>1, <3>3 DEF ChunkInv, Active, Chunks
    <3> QED
      BY <3>1, <3>2, <3>3
  <2> QED
    BY <2>1 DEF ChunkInv
<1>r. \A w \in AllWorkers : work[w] # NONE => work[w].chunk # This(c) /\ work[w].chunk \in Chunks
  BY <1>i, <1>k DEF WorkInv, PoolTypeOK
<1>6. WorkInv'
  BY <1>i, <1>3, <1>k, <1>r, <1>v DEF WorkInv
<1>7. PICK t \in Chunks : t = This(c)
  BY <1>k
<1>p. /\ \A k \in Chunks \ {t} : \A n : Pending(k, n)' <=> Pending(k, n)
      /\ \A n : Pending(t, n)' <=> call[c].cur <= n /\ n < chunk[t].end
      /\ \A n : ~Pending(t, n)
  <2>1. \A k \in Chunks \ {t} : \A n : Pending(k, n)' <=> Pending(k, n)
    BY <1>k, <1>v, <1>7 DEF Pending
  <2>2. \A w \in AllWorkers : work'[w] # NONE => work'[w].chunk # t
    BY <1>r, <1>v, <1>7
  <2>3. \A n : Pending(t, n)' <=> call[c].cur <= n /\ n < chunk[t].end
    BY <1>2, <1>3, <1>7, <2>2 DEF Pending
  <2>4. \A n : ~Pending(t, n)
    BY <1>k, <1>v, <1>7, <2>2 DEF Pending
  <2> QED
    BY <2>1, <2>3, <2>4
<1>q. ASSUME NEW k \in Chunks, k[1] = c, NEW n \in Int, Pending(k, n) PROVE n < call[c].cur
  <2>1. Active(k) /\ n < chunk[k].end /\ chunk[k].end \in Int
    BY <1>i, <1>q DEF Pending, Active, WorkInv, PoolTypeOK, ChunkRecord
  <2> QED
    BY <1>i, <1>1, <1>b, <1>q, <2>1 DEF ChunkInv, Splitting
<1>n. \A n \in Indices : n \in Int
  BY ParallelAssumption DEF Indices, Long
<1>8. DisjointInv'
  <2>1. ASSUME NEW d \in Callers PROVE DisjointInv!(d)'
    <3>1. CASE d # c
      <4>1. \A k \in Chunks : k[1] = d => k # t
        BY <1>k, <1>7, <3>1
      <4> QED
        BY <1>i, <1>a, <1>v, <1>p, <3>1, <4>1 DEF DisjointInv
    <3>2. CASE d = c
      <4>1. ASSUME NEW k1 \in Chunks, NEW k2 \in Chunks, NEW n \in Int, k1[1] = c, k2[1] = c,
                   Pending(k1, n)', Pending(k2, n)'
            PROVE  k1 = k2
        <5>1. CASE k1 # t /\ k2 # t
          BY <1>i, <1>p, <4>1, <5>1 DEF DisjointInv
        <5>2. CASE k1 = t /\ k2 # t
          BY <1>b, <1>p, <1>q, <4>1, <5>2
        <5>3. CASE k1 # t /\ k2 = t
          BY <1>b, <1>p, <1>q, <4>1, <5>3
        <5> QED
          BY <5>1, <5>2, <5>3
      <4>2. ASSUME NEW n \in Indices, ran'[c][n] # 0 PROVE DisjointInv!(c)!2!(n)!2'
        <5>1. /\ ran[c][n] = 1 /\ call[c].begin <= n /\ n < call[c].end /\ n < call[c].cur
              /\ \A k \in Chunks : k[1] = c => ~Pending(k, n)
          BY <1>i, <1>1, <1>v, <4>2 DEF DisjointInv, Splitting
        <5>2. ~Pending(t, n)'
          BY <1>b, <1>n, <1>p, <5>1
        <5>3. n < call'[c].cur
          BY <1>3, <1>b, <1>n, <5>1
        <5>4. \A k \in Chunks : k[1] = c => ~Pending(k, n)'
          BY <1>p, <5>1, <5>2
        <5> QED
          BY <1>3, <1>v, <5>1, <5>3, <5>4
      <4> QED
        BY <3>2, <4>1, <4>2
    <3> QED
      BY <3>1, <3>2
  <2> QED
    BY <2>1 DEF DisjointInv
<1>9. CoverInv'
  <2>1. ASSUME NEW d \in Callers, NEW n \in Indices PROVE CoverInv!(d, n)'
    <3>1. \A k \in Chunks : chunk[k].stage = "canceled" => chunk'[k].stage = "canceled"
      BY <1>k
    <3>2. Provided(d, n) => Provided(d, n)'
      BY <1>p, <1>v, <3>1 DEF Provided
    <3>3. CASE d # c
      BY <1>i, <1>a, <1>v, <3>2, <3>3 DEF CoverInv
    <3>4. CASE d = c
      <4>1. ASSUME call[c].begin <= n, n < call'[c].cur PROVE Provided(c, n)'
        <5>1. CASE n < call[c].cur
          BY <1>i, <1>1, <3>2, <3>4, <4>1, <5>1 DEF CoverInv, Splitting
        <5>2. CASE ~(n < call[c].cur)
          <6>1. Pending(t, n)' /\ t[1] = c
            BY <1>3, <1>b, <1>k, <1>n, <1>p, <1>7, <4>1, <5>2
          <6> QED
            BY <6>1 DEF Provided
        <5> QED
          BY <5>1, <5>2
      <4> QED
        BY <1>3, <3>4, <4>1
    <3> QED
      BY <3>3, <3>4
  <2> QED
    BY <2>1 DEF CoverInv
<1>10. OwedInv' /\ NestedCallNeverOk'
  <2>1. \A d \in Callers : call'[d].pc \in {"wait", "done"} => call'[d] = call[d] /\ d # c
    BY <1>3, <1>a
  <2>2. \A d \in Callers \ {c} : call'[d] = call[d] /\ \A k \in Chunks : k[1] = d => chunk'[k] = chunk[k]
    BY <1>a, <1>k
  <2>3. NestedCallNeverOk'
    BY <1>i, <2>1 DEF NestedCallNeverOk, Callers
  <2>4. \A w \in AllWorkers : Calling(w)' => Calling(w)
    BY <1>1, <1>a DEF Calling, Callers
  <2> QED
    BY <1>i, <1>v, <2>1, <2>2, <2>3, <2>4 DEF OwedInv, Callers
<1>11. HeapInv'
  <2>1. InStage({"queued", "canceled"})' = InStage({"queued", "canceled"}) \cup {t}
    BY <1>i, <1>t, <1>3, <1>k, <1>7 DEF InStage, PoolTypeOK
  <2> QED
    BY <1>i, <1>1, <1>3, <1>a, <1>h, <1>v, <1>7, <2>1 DEF HeapInv
<1> QED
  BY <1>t, <1>e, <1>4, <1>5, <1>6, <1>8, <1>9, <1>10, <1>11 DEF PoolInv

\* A call that waits has handed out its whole range, and is owed all of it.
LEMMA WaitKeepsPoolInv ==
  ASSUME PoolInv, NEW c \in Callers, WaitIdle(c)
  PROVE  PoolInv'
<1>i. PoolTypeOK /\ EarlyInv /\ SplitInv /\ ChunkInv /\ WorkInv /\ DisjointInv /\ CoverInv
      /\ OwedInv /\ NestedCallNeverOk /\ HeapInv
  BY DEF PoolInv
<1>1. call[c].pc = "loop" /\ ~HasMore(c)
  BY DEF WaitIdle
<1>2. /\ OnlyCall(c) /\ call'[c].pc = "wait"
      /\ call'[c].begin = call[c].begin /\ call'[c].end = call[c].end
      /\ call'[c].owed = InStage({"queued", "running", "canceled"})
  BY <1>i, CallWaits
<1>v. UNCHANGED <<cfg, cores, phase, wpc, chunk, heap, work, ran, cancel>>
  BY DEF WaitIdle, vars
<1>a. \A d \in Callers \ {c} : call'[d] = call[d]
  BY <1>2 DEF OnlyCall
<1>3. call[c].cur = call[c].end
  <2>1. /\ call[c].begin < call[c].end /\ call[c].i \in 0 .. WorkerCount
        /\ call[c].cur = Cut(c, call[c].i)
    BY <1>i, <1>1 DEF SplitInv, Splitting
  <2>2. /\ call[c].cur \in Int /\ call[c].cur <= call[c].end /\ call[c].end \in Int
        /\ Cut(c, WorkerCount) = call[c].end /\ WorkerCount \in Nat
    BY <1>i, <1>1, <2>1, CutOfCall, WorkerCountType, LifecycleAssumption DEF PoolTypeOK, CallRecord
  <2>3. CASE call[c].i = WorkerCount
    BY <2>1, <2>2, <2>3
  <2>4. CASE call[c].i < WorkerCount
    <3>1. ~(call[c].cur < call[c].end)
      BY <1>1, <2>4 DEF HasMore
    <3> QED
      BY <2>2, <3>1
  <2> QED
    BY <2>1, <2>2, <2>3, <2>4
<1>t. PoolTypeOK'
  BY <1>i, <1>2, <1>v DEF PoolTypeOK, OnlyCall
<1>e. EarlyInv' /\ WorkInv'
  BY <1>i, <1>1, <1>v DEF EarlyInv, WorkInv
<1>c. \A d \in Callers : \A m : Cut(d, m)' = Cut(d, m)
  BY <1>v, <1>a, <1>2, SameCut
<1>h. \A d \in Callers \ {c} : This(d)' = This(d)
  BY <1>a DEF This
<1>4. SplitInv'
  <2>1. ASSUME NEW d \in Callers PROVE SplitInv!(d)'
    <3>1. SplitInv!(d)
      BY <1>i DEF SplitInv
    <3>2. CASE d = c
      BY <1>1, <1>2, <3>1, <3>2 DEF Splitting
    <3>3. CASE d # c
      BY <1>a, <1>c, <1>h, <1>v, <3>1, <3>3, SameWorkerCount
    <3> QED
      BY <3>2, <3>3
  <2> QED
    BY <2>1 DEF SplitInv
<1>5. ChunkInv'
  BY <1>i, <1>2, <1>a, <1>v DEF ChunkInv, Active, Chunks, Splitting
<1>6. \A k, n : Pending(k, n)' <=> Pending(k, n)
  BY <1>v DEF Pending
<1>7. DisjointInv'
  <2>1. ASSUME NEW d \in Callers PROVE DisjointInv!(d)'
    BY <1>i, <1>2, <1>a, <1>v, <1>6 DEF DisjointInv, Splitting
  <2> QED
    BY <2>1 DEF DisjointInv
<1>8. CoverInv'
  <2>1. ASSUME NEW d \in Callers, NEW n \in Indices PROVE CoverInv!(d, n)'
    <3>1. Provided(d, n) => Provided(d, n)'
      BY <1>v, <1>6 DEF Provided
    <3>2. CASE d = c
      BY <1>i, <1>1, <1>2, <1>3, <3>1, <3>2 DEF CoverInv, Splitting
    <3>3. CASE d # c
      BY <1>i, <1>a, <1>v, <3>1, <3>3 DEF CoverInv
    <3> QED
      BY <3>2, <3>3
  <2> QED
    BY <2>1 DEF CoverInv
<1>9. OwedInv' /\ NestedCallNeverOk'
  <2>1. c \in AllWorkers => work[c] # NONE /\ work[c].chunk \in call'[c].owed
    <3>1. ASSUME c \in AllWorkers
          PROVE  work[c] # NONE /\ work[c].chunk \in Chunks /\ chunk[work[c].chunk].stage = "running"
      BY <1>i, <1>1, <3>1 DEF OwedInv, Calling, WorkInv, PoolTypeOK
    <3> QED
      BY <1>i, <1>2, <3>1 DEF InStage, PoolTypeOK
  <2>2. \A k \in Chunks : chunk[k].stage \in {"queued", "running", "canceled"} => k \in call'[c].owed
    BY <1>i, <1>2 DEF InStage, PoolTypeOK
  <2> QED
    BY <1>i, <1>2, <1>a, <1>v, <2>1, <2>2 DEF OwedInv, Calling, NestedCallNeverOk, Callers
<1>10. HeapInv'
  BY <1>i, <1>1, <1>2, <1>a, <1>h, <1>v DEF HeapInv, InStage
<1> QED
  BY <1>t, <1>e, <1>4, <1>5, <1>7, <1>8, <1>9, <1>10 DEF PoolInv

\* When all that it is owed has ended, no index of the range is left; and a call from a
\* callback is owed the chunk it is part of.
LEMMA ReturnKeepsPoolInv ==
  ASSUME PoolInv, NEW c \in Callers, WaitReturns(c)
  PROVE  PoolInv'
<1>i. PoolTypeOK /\ EarlyInv /\ SplitInv /\ ChunkInv /\ WorkInv /\ DisjointInv /\ CoverInv
      /\ OwedInv /\ NestedCallNeverOk /\ HeapInv
  BY DEF PoolInv
<1>1. call[c].pc = "wait" /\ (\A k \in call[c].owed : chunk[k].stage = "done") /\ Returns(c, "OK")
  BY DEF WaitReturns
<1>2. /\ OnlyCall(c) /\ call'[c].pc = "done" /\ call'[c].st = "OK"
      /\ call'[c].begin = call[c].begin /\ call'[c].end = call[c].end
  BY <1>i, <1>1, CallReturns
<1>v. UNCHANGED <<cfg, cores, phase, wpc, chunk, heap, work, ran, cancel>>
  BY DEF WaitReturns, vars
<1>a. \A d \in Callers \ {c} : call'[d] = call[d]
  BY <1>2 DEF OnlyCall
<1>3. \A k \in Chunks : k[1] = c => chunk[k].stage \notin {"queued", "running", "canceled"}
  BY <1>i, <1>1 DEF OwedInv
<1>4. c \notin AllWorkers
  <2> SUFFICES ASSUME c \in AllWorkers PROVE FALSE
    OBVIOUS
  <2>1. work[c] # NONE /\ work[c].chunk \in call[c].owed
    BY <1>i, <1>1 DEF OwedInv, Calling
  <2>2. chunk[work[c].chunk].stage = "running"
    BY <1>i, <2>1 DEF WorkInv
  <2> QED
    BY <1>1, <2>1, <2>2
<1>t. PoolTypeOK'
  BY <1>i, <1>2, <1>v DEF PoolTypeOK, OnlyCall
<1>e. EarlyInv' /\ WorkInv'
  BY <1>i, <1>1, <1>v DEF EarlyInv, WorkInv
<1>c. \A d \in Callers : \A m : Cut(d, m)' = Cut(d, m)
  BY <1>v, <1>a, <1>2, SameCut
<1>h. \A d \in Callers \ {c} : This(d)' = This(d)
  BY <1>a DEF This
<1>5. SplitInv'
  <2>1. ASSUME NEW d \in Callers PROVE SplitInv!(d)'
    <3>1. SplitInv!(d)
      BY <1>i DEF SplitInv
    <3>2. CASE d = c
      BY <1>1, <1>2, <3>1, <3>2 DEF Splitting
    <3>3. CASE d # c
      BY <1>a, <1>c, <1>h, <1>v, <3>1, <3>3, SameWorkerCount
    <3> QED
      BY <3>2, <3>3
  <2> QED
    BY <2>1 DEF SplitInv
<1>6. ChunkInv'
  BY <1>i, <1>2, <1>a, <1>v DEF ChunkInv, Active, Chunks, Splitting
<1>7. \A k, n : Pending(k, n)' <=> Pending(k, n)
  BY <1>v DEF Pending
<1>8. DisjointInv'
  <2>1. ASSUME NEW d \in Callers PROVE DisjointInv!(d)'
    BY <1>i, <1>2, <1>a, <1>v, <1>7 DEF DisjointInv, Splitting
  <2> QED
    BY <2>1 DEF DisjointInv
<1>9. CoverInv'
  <2>1. ASSUME NEW d \in Callers, NEW n \in Indices PROVE CoverInv!(d, n)'
    <3>1. Provided(d, n) => Provided(d, n)'
      BY <1>v, <1>7 DEF Provided
    <3>2. CASE d = c
      <4>1. \A k \in Chunks : k[1] = c => ~Pending(k, n)
        BY <1>i, <1>3 DEF Pending, WorkInv
      <4>2. Provided(c, n) => ran[c][n] = 1
        BY <1>3, <4>1 DEF Provided
      <4> QED
        BY <1>i, <1>1, <1>2, <1>v, <3>2, <4>2 DEF CoverInv, Splitting
    <3>3. CASE d # c
      BY <1>i, <1>a, <1>v, <3>1, <3>3 DEF CoverInv
    <3> QED
      BY <3>2, <3>3
  <2> QED
    BY <2>1 DEF CoverInv
<1>10. OwedInv' /\ NestedCallNeverOk'
  BY <1>i, <1>2, <1>4, <1>a, <1>v DEF OwedInv, Calling, NestedCallNeverOk, Callers
<1>11. HeapInv'
  BY <1>i, <1>1, <1>2, <1>a, <1>h, <1>v DEF HeapInv, InStage
<1> QED
  BY <1>t, <1>e, <1>5, <1>6, <1>8, <1>9, <1>10, <1>11 DEF PoolInv

\* What a step of a worker or of cancel_all leaves of SplitInv: it changes chunks that are
\* under way, not those that a call prepares.
LEMMA WorkKeepsSplit ==
  ASSUME PoolInv, UNCHANGED <<cfg, cores, call>>,
         \A c \in Callers : call[c].pc = "idle" => UNCHANGED ran[c],
         \A k \in Chunks : chunk[k].stage \in {"none"} => chunk'[k] = chunk[k]
  PROVE  SplitInv'
<1>1. \A d \in Callers : \A m : Cut(d, m)' = Cut(d, m)
  BY SameCut
<1>2. ASSUME NEW d \in Callers PROVE SplitInv!(d)'
  <2>1. SplitInv!(d)
    BY DEF PoolInv, SplitInv
  <2>2. call[d].pc \in {"submit", "push"} => chunk'[This(d)] = chunk[This(d)]
    BY ThisIsNew
  <2>3. This(d)' = This(d)
    BY DEF This
  <2> QED
    BY <1>1, <2>1, <2>2, <2>3, SameWorkerCount
<1> QED
  BY <1>2 DEF SplitInv

\* A chunk that is taken is pending as it was, now with the worker.
LEMMA TakeKeepsPoolInv ==
  ASSUME PoolInv, NEW w \in AllWorkers, TakeChunk(w)
  PROVE  PoolInv'
<1>i. PoolTypeOK /\ EarlyInv /\ SplitInv /\ ChunkInv /\ WorkInv /\ DisjointInv /\ CoverInv
      /\ OwedInv /\ NestedCallNeverOk /\ HeapInv
  BY DEF PoolInv
<1>1. PICK k \in Chunks :
           /\ chunk[k].stage = "queued"
           /\ OnlyChunk(k) /\ chunk'[k].stage = "running"
           /\ chunk'[k].begin = chunk[k].begin /\ chunk'[k].end = chunk[k].end
           /\ OnlyWork(w) /\ work'[w] # NONE
           /\ work'[w].chunk = k /\ work'[w].i = chunk[k].begin
           /\ heap' = heap \ {k}
           /\ wpc[w] = "loop" /\ wpc' = [wpc EXCEPT ![w] = "busy"]
  BY <1>i, ChunkTaken
<1>v. UNCHANGED <<cfg, cores, phase, call, ran, cancel>>
  BY DEF TakeChunk
<1>k. \A j \in Chunks \ {k} : chunk'[j] = chunk[j]
  BY <1>1 DEF OnlyChunk
<1>o. \A v \in AllWorkers \ {w} : work'[v] = work[v]
  BY <1>1 DEF OnlyWork
<1>2. work[w] = NONE
  BY <1>i, <1>1 DEF WorkInv
<1>3. \A v \in AllWorkers : work[v] # NONE => work[v].chunk # k
  BY <1>i, <1>1 DEF WorkInv
<1>t. PoolTypeOK'
  BY <1>i, <1>1, <1>v DEF PoolTypeOK, OnlyChunk, OnlyWork
<1>e. EarlyInv' /\ SplitInv'
  BY <1>i, <1>1, <1>k, <1>v, WorkKeepsSplit DEF EarlyInv
<1>4. ChunkInv'
  <2>1. \A j \in Chunks : /\ Active(j)' => Active(j)
                          /\ chunk'[j].begin = chunk[j].begin /\ chunk'[j].end = chunk[j].end
    BY <1>1, <1>k DEF Active
  <2> QED
    BY <1>i, <1>v, <2>1 DEF ChunkInv
<1>5. WorkInv'
  <2>1. ASSUME NEW v \in AllWorkers, work'[v] # NONE PROVE WorkInv!1!(v)!2'
    <3>1. CASE v = w
      <4>1. chunk[k].begin \in Int /\ chunk[k].begin <= chunk[k].end
        BY <1>i, <1>1 DEF ChunkInv, Active, PoolTypeOK, ChunkRecord
      <4>2. wpc'[w] = "busy"
        BY <1>i, <1>1 DEF PoolTypeOK
      <4> QED
        BY <1>1, <3>1, <4>1, <4>2
    <3>2. CASE v # w
      <4>1. work'[v] = work[v] /\ work[v].chunk \in Chunks \ {k}
        BY <1>i, <1>o, <1>3, <2>1, <3>2 DEF PoolTypeOK
      <4>2. wpc'[v] = wpc[v]
        BY <1>i, <1>1, <3>2 DEF PoolTypeOK
      <4> QED
        BY <1>i, <1>k, <2>1, <4>1, <4>2 DEF WorkInv
    <3> QED
      BY <3>1, <3>2
  <2>2. ASSUME NEW v \in AllWorkers, NEW u \in AllWorkers,
               work'[v] # NONE, work'[u] # NONE, work'[v].chunk = work'[u].chunk
        PROVE  v = u
    BY <1>i, <1>1, <1>o, <1>3, <2>2 DEF WorkInv
  <2>3. ASSUME NEW j \in Chunks, chunk'[j].stage = "running"
        PROVE  \E v \in AllWorkers : work'[v] # NONE /\ work'[v].chunk = j
    <3>1. CASE j = k
      BY <1>1, <3>1
    <3>2. CASE j # k
      <4>1. PICK v \in AllWorkers : work[v] # NONE /\ work[v].chunk = j
        BY <1>i, <1>k, <2>3, <3>2 DEF WorkInv
      <4> QED
        BY <1>o, <1>2, <4>1
    <3> QED
      BY <3>1, <3>2
  <2> QED
    BY <2>1, <2>2, <2>3 DEF WorkInv
<1>p. \A j \in Chunks : \A n : Pending(j, n)' <=> Pending(j, n)
  <2>1. ASSUME NEW j \in Chunks, j # k, NEW n PROVE Pending(j, n)' <=> Pending(j, n)
    BY <1>1, <1>2, <1>k, <1>o, <2>1 DEF Pending
  <2>2. ASSUME NEW n PROVE Pending(k, n) <=> chunk[k].begin <= n /\ n < chunk[k].end
    BY <1>1, <1>3 DEF Pending
  <2>3. ASSUME NEW n PROVE Pending(k, n)' <=> chunk[k].begin <= n /\ n < chunk[k].end
    BY <1>1, <1>3, <1>o DEF Pending
  <2> QED
    BY <2>1, <2>2, <2>3
<1>6. DisjointInv'
  <2>1. ASSUME NEW d \in Callers PROVE DisjointInv!(d)'
    BY <1>i, <1>v, <1>p DEF DisjointInv
  <2> QED
    BY <2>1 DEF DisjointInv
<1>7. CoverInv'
  <2>1. \A d \in Callers, n \in Indices : Provided(d, n) => Provided(d, n)'
    BY <1>1, <1>k, <1>p, <1>v DEF Provided
  <2> QED
    BY <1>i, <1>v, <2>1 DEF CoverInv
<1>8. OwedInv' /\ NestedCallNeverOk'
  <2>1. \A j \in Chunks : chunk'[j].stage \in {"queued", "running", "canceled"}
                            => chunk[j].stage \in {"queued", "running", "canceled"}
    BY <1>1, <1>k
  <2>2. ~Calling(w)
    BY <1>i, <1>2 DEF OwedInv
  <2> QED
    BY <1>i, <1>o, <1>v, <2>1, <2>2 DEF OwedInv, Calling, NestedCallNeverOk
<1>9. HeapInv'
  <2>1. InStage({"queued", "canceled"})' = InStage({"queued", "canceled"}) \ {k}
    BY <1>i, <1>t, <1>1, <1>k DEF InStage, PoolTypeOK
  <2>2. \A d \in Callers : call[d].pc \in {"submit", "push"} => This(d) # k
    BY <1>1, ThisIsNew
  <2> QED
    BY <1>i, <1>1, <1>v, <2>1, <2>2 DEF HeapInv, This
<1> QED
  BY <1>t, <1>e, <1>4, <1>5, <1>6, <1>7, <1>8, <1>9 DEF PoolInv

\* fn is called for an index that is pending, and it is pending no more.
LEMMA FnKeepsPoolInv ==
  ASSUME PoolInv, NEW w \in AllWorkers, CallFn(w)
  PROVE  PoolInv'
<1>i. PoolTypeOK /\ EarlyInv /\ SplitInv /\ ChunkInv /\ WorkInv /\ DisjointInv /\ CoverInv
      /\ OwedInv /\ NestedCallNeverOk /\ HeapInv
  BY DEF PoolInv
<1>1. /\ work[w] # NONE /\ work[w].i < chunk[work[w].chunk].end
      /\ OnlyWork(w) /\ work'[w] # NONE
      /\ work'[w].chunk = work[w].chunk /\ work'[w].i = work[w].i + 1
      /\ ran' = [ran EXCEPT ![work[w].chunk[1]][work[w].i] = @ + 1]
  BY <1>i, FnCalled
<1>v. UNCHANGED <<cfg, cores, phase, wpc, call, chunk, heap, cancel>>
  BY DEF CallFn, vars
<1>o. \A v \in AllWorkers \ {w} : work'[v] = work[v]
  BY <1>1 DEF OnlyWork
<1>2. PICK k \in Chunks, x \in Int : k = work[w].chunk /\ x = work[w].i
  BY <1>i, <1>1 DEF PoolTypeOK
<1>3. PICK c \in Callers : c = k[1]
  BY DEF Chunks
<1>4. /\ chunk[k].stage = "running" /\ chunk[k].begin <= x /\ x < chunk[k].end
      /\ chunk[k].begin \in Int /\ chunk[k].end \in Int
      /\ call[c].begin <= chunk[k].begin /\ chunk[k].end <= call[c].end
      /\ call[c].pc \in Splitting => chunk[k].end <= call[c].cur
      /\ call[c].begin \in Int /\ call[c].end \in Int /\ call[c].cur \in Int
  BY <1>i, <1>1, <1>2, <1>3 DEF WorkInv, ChunkInv, Active, PoolTypeOK, ChunkRecord, CallRecord
<1>5. call[c].pc # "idle" /\ <<call[c].begin, call[c].end>> \in Ranges \cup NestedRanges
  BY <1>i, <1>3, <1>4 DEF SplitInv
<1>6. x \in Indices
  <2>1. call[c].begin \in Long /\ call[c].end \in Long
    BY <1>5, RangeType
  <2> QED
    BY <1>4, <2>1, ParallelAssumption DEF Indices, Long
<1>7. /\ ran' \in [Callers -> [Indices -> Nat]]
      /\ \A d \in Callers, n \in Indices :
           ran'[d][n] = IF d = c /\ n = x THEN ran[d][n] + 1 ELSE ran[d][n]
  <2>1. ran' = [ran EXCEPT ![c] = [ran[c] EXCEPT ![x] = ran[c][x] + 1]]
    BY <1>1, <1>2, <1>3
  <2>2. ran \in [Callers -> [Indices -> Nat]]
    BY <1>i DEF PoolTypeOK
  <2> QED
    BY <1>6, <2>1, <2>2
<1>t. PoolTypeOK'
  BY <1>i, <1>1, <1>7, <1>v DEF PoolTypeOK, OnlyWork
<1>e. EarlyInv' /\ SplitInv'
  <2>1. \A d \in Callers : call[d].pc = "idle" => ran'[d] = ran[d]
    <3>1. ran' = [ran EXCEPT ![c] = [ran[c] EXCEPT ![x] = ran[c][x] + 1]]
      BY <1>1, <1>2, <1>3
    <3> QED
      BY <1>i, <1>5, <3>1 DEF PoolTypeOK
  <2> QED
    BY <1>i, <1>v, <2>1, WorkKeepsSplit DEF EarlyInv
<1>8. ChunkInv'
  BY <1>i, <1>v DEF ChunkInv, Active
<1>9. WorkInv'
  <2>1. ASSUME NEW v \in AllWorkers, work'[v] # NONE PROVE WorkInv!1!(v)!2'
    BY <1>i, <1>1, <1>2, <1>4, <1>o, <1>v, <2>1 DEF WorkInv
  <2>2. \A v \in AllWorkers : /\ work'[v] # NONE <=> work[v] # NONE
                              /\ work[v] # NONE => work'[v].chunk = work[v].chunk
    BY <1>1, <1>o
  <2> QED
    BY <1>i, <1>v, <2>1, <2>2 DEF WorkInv
<1>p. \A j \in Chunks, n \in Int : Pending(j, n)' <=> Pending(j, n) /\ ~(j = k /\ n = x)
  <2>1. ASSUME NEW j \in Chunks, j # k, NEW n \in Int PROVE Pending(j, n)' <=> Pending(j, n)
    BY <1>1, <1>2, <1>o, <1>v, <2>1 DEF Pending
  <2>2. \A v \in AllWorkers : work[v] # NONE /\ work[v].chunk = k => v = w
    BY <1>i, <1>1, <1>2 DEF WorkInv
  <2>3. ASSUME NEW n \in Int PROVE Pending(k, n) <=> x <= n /\ n < chunk[k].end
    BY <1>1, <1>2, <1>4, <2>2 DEF Pending
  <2>4. ASSUME NEW n \in Int PROVE Pending(k, n)' <=> x + 1 <= n /\ n < chunk[k].end
    BY <1>1, <1>2, <1>4, <1>o, <1>v, <2>2 DEF Pending
  <2>5. ASSUME NEW n \in Int PROVE Pending(k, n)' <=> Pending(k, n) /\ n # x
    BY <1>4, <2>3, <2>4
  <2> QED
    BY <2>1, <2>5
<1>q. Pending(k, x)
  BY <1>1, <1>2, <1>4 DEF Pending
<1>n. \A n \in Indices : n \in Int
  BY ParallelAssumption DEF Indices, Long
<1>z. ran[c][x] = 0
  BY <1>i, <1>3, <1>6, <1>q DEF DisjointInv
<1>10. DisjointInv'
  <2>1. ASSUME NEW d \in Callers, NEW n \in Indices, ran'[d][n] # 0
        PROVE  DisjointInv!(d)!2!(n)!2'
    <3>1. CASE d = c /\ n = x
      <4>1. ran'[c][x] = 1
        BY <1>6, <1>7, <1>z
      <4>2. /\ call[c].begin <= x /\ x < call[c].end
            /\ call[c].pc \in Splitting => x < call[c].cur
        BY <1>4
      <4>3. ASSUME NEW j \in Chunks, j[1] = c PROVE ~Pending(j, x)'
        BY <1>i, <1>3, <1>p, <1>q, <4>3 DEF DisjointInv
      <4> QED
        BY <1>v, <3>1, <4>1, <4>2, <4>3
    <3>2. CASE ~(d = c /\ n = x)
      <4>1. ran'[d][n] = ran[d][n]
        BY <1>7, <3>2
      <4> QED
        BY <1>i, <1>n, <1>p, <1>v, <2>1, <4>1 DEF DisjointInv
    <3> QED
      BY <3>1, <3>2
  <2>2. ASSUME NEW d \in Callers PROVE DisjointInv!(d)!1'
    BY <1>i, <1>p DEF DisjointInv
  <2> QED
    BY <2>1, <2>2 DEF DisjointInv
<1>11. CoverInv'
  <2>1. ASSUME NEW d \in Callers, NEW n \in Indices PROVE Provided(d, n) => Provided(d, n)'
    <3>1. CASE d = c /\ n = x
      BY <1>6, <1>7, <1>z, <3>1 DEF Provided
    <3>2. CASE ~(d = c /\ n = x)
      <4>1. ran'[d][n] = ran[d][n]
        BY <1>7, <3>2
      <4>2. \A j \in Chunks : j[1] = d /\ Pending(j, n) => Pending(j, n)'
        BY <1>3, <1>n, <1>p, <3>2
      <4> QED
        BY <1>v, <4>1, <4>2 DEF Provided
    <3> QED
      BY <3>1, <3>2
  <2>2. ASSUME NEW d \in Callers, NEW n \in Indices, ran[d][n] = 1 PROVE ran'[d][n] = 1
    BY <1>7, <1>z, <2>2
  <2> QED
    BY <1>i, <1>v, <2>1, <2>2 DEF CoverInv
<1>12. OwedInv' /\ NestedCallNeverOk'
  <2>1. \A v \in AllWorkers : work[v] # NONE => work'[v] # NONE /\ work'[v].chunk = work[v].chunk
    BY <1>1, <1>o
  <2>2. \A v \in AllWorkers : call[v].pc = "wait" => Calling(v)
    BY DEF Calling
  <2> QED
    BY <1>i, <1>v, <2>1, <2>2 DEF OwedInv, Calling, NestedCallNeverOk
<1>13. HeapInv'
  BY <1>i, <1>v DEF HeapInv, InStage, This
<1> QED
  BY <1>t, <1>e, <1>8, <1>9, <1>10, <1>11, <1>12, <1>13 DEF PoolInv

\* A chunk ends when nothing of it is pending.
LEMMA EndKeepsPoolInv ==
  ASSUME PoolInv, NEW w \in AllWorkers, EndChunk(w)
  PROVE  PoolInv'
<1>i. PoolTypeOK /\ EarlyInv /\ SplitInv /\ ChunkInv /\ WorkInv /\ DisjointInv /\ CoverInv
      /\ OwedInv /\ NestedCallNeverOk /\ HeapInv
  BY DEF PoolInv
<1>1. /\ work[w] # NONE /\ work[w].chunk \in Chunks
      /\ work[w].i >= chunk[work[w].chunk].end
      /\ OnlyChunk(work[w].chunk) /\ chunk'[work[w].chunk].stage = "done"
      /\ OnlyWork(w) /\ work'[w] = NONE
      /\ ~Calling(w) /\ wpc' = [wpc EXCEPT ![w] = "loop"]
  BY <1>i, ChunkEnded
<1>v. UNCHANGED <<cfg, cores, phase, call, heap, ran, cancel>>
  BY DEF EndChunk
<1>2. PICK k \in Chunks : k = work[w].chunk
  BY <1>1
<1>k. (\A j \in Chunks \ {k} : chunk'[j] = chunk[j]) /\ chunk'[k].stage = "done"
  BY <1>1, <1>2 DEF OnlyChunk
<1>o. \A v \in AllWorkers \ {w} : work'[v] = work[v]
  BY <1>1 DEF OnlyWork
<1>3. chunk[k].stage = "running" /\ \A v \in AllWorkers : work[v] # NONE /\ work[v].chunk = k => v = w
  BY <1>i, <1>1, <1>2 DEF WorkInv
<1>t. PoolTypeOK'
  BY <1>i, <1>1, <1>v DEF PoolTypeOK, OnlyChunk, OnlyWork
<1>e. EarlyInv' /\ SplitInv'
  BY <1>i, <1>3, <1>k, <1>v, WorkKeepsSplit DEF EarlyInv
<1>4. ChunkInv'
  BY <1>i, <1>k, <1>v DEF ChunkInv, Active
<1>5. WorkInv'
  <2>1. ASSUME NEW v \in AllWorkers, work'[v] # NONE
        PROVE  v # w /\ work'[v] = work[v] /\ work[v].chunk \in Chunks \ {k} /\ wpc'[v] = wpc[v]
    BY <1>i, <1>1, <1>3, <1>o, <2>1 DEF PoolTypeOK
  <2>2. ASSUME NEW j \in Chunks, chunk'[j].stage = "running"
        PROVE  \E v \in AllWorkers : work'[v] # NONE /\ work'[v].chunk = j
    <3>1. PICK v \in AllWorkers : work[v] # NONE /\ work[v].chunk = j /\ j # k
      BY <1>i, <1>k, <2>2 DEF WorkInv
    <3> QED
      BY <1>2, <1>o, <3>1
  <2> QED
    BY <1>i, <1>k, <2>1, <2>2 DEF WorkInv
<1>p. \A j \in Chunks, n \in Int : Pending(j, n)' <=> Pending(j, n)
  <2>1. ASSUME NEW j \in Chunks, j # k, NEW n \in Int PROVE Pending(j, n)' <=> Pending(j, n)
    BY <1>1, <1>2, <1>k, <1>o, <2>1 DEF Pending
  <2>2. ASSUME NEW n \in Int PROVE ~Pending(k, n)
    <3>1. work[w].i \in Int /\ chunk[k].end \in Int
      BY <1>i, <1>1 DEF PoolTypeOK, ChunkRecord
    <3> QED
      BY <1>1, <1>2, <1>3, <3>1 DEF Pending
  <2>3. ASSUME NEW n \in Int PROVE ~Pending(k, n)'
    BY <1>1, <1>3, <1>k, <1>o DEF Pending
  <2> QED
    BY <2>1, <2>2, <2>3
<1>n. \A n \in Indices : n \in Int
  BY ParallelAssumption DEF Indices, Long
<1>6. DisjointInv'
  <2>1. ASSUME NEW d \in Callers PROVE DisjointInv!(d)'
    BY <1>i, <1>n, <1>v, <1>p DEF DisjointInv
  <2> QED
    BY <2>1 DEF DisjointInv
<1>7. CoverInv'
  <2>1. \A d \in Callers, n \in Indices : Provided(d, n) => Provided(d, n)'
    BY <1>3, <1>k, <1>n, <1>p, <1>v DEF Provided
  <2> QED
    BY <1>i, <1>v, <2>1 DEF CoverInv
<1>8. OwedInv' /\ NestedCallNeverOk'
  <2>1. \A j \in Chunks : chunk'[j].stage \in {"queued", "running", "canceled"}
                            => chunk[j].stage \in {"queued", "running", "canceled"}
    BY <1>k
  <2> QED
    BY <1>i, <1>1, <1>o, <1>v, <2>1 DEF OwedInv, Calling, NestedCallNeverOk
<1>9. HeapInv'
  <2>1. InStage({"queued", "canceled"})' = InStage({"queued", "canceled"})
    BY <1>i, <1>t, <1>3, <1>k DEF InStage, PoolTypeOK
  <2> QED
    BY <1>i, <1>v, <2>1 DEF HeapInv, This
<1> QED
  BY <1>t, <1>e, <1>4, <1>5, <1>6, <1>7, <1>8, <1>9 DEF PoolInv

\* The indices of a chunk that cancel_all destroys are accounted for as dropped.
LEMMA DropKeepsPoolInv ==
  ASSUME PoolInv, CancelDestroy
  PROVE  PoolInv'
<1>i. PoolTypeOK /\ EarlyInv /\ SplitInv /\ ChunkInv /\ WorkInv /\ DisjointInv /\ CoverInv
      /\ OwedInv /\ NestedCallNeverOk /\ HeapInv
  BY DEF PoolInv
<1>1. PICK k \in Chunks :
        chunk[k].stage = "queued" /\ OnlyChunk(k) /\ chunk'[k].stage = "canceled"
  BY <1>i, ChunkCanceled
<1>v. UNCHANGED <<cfg, cores, phase, wpc, call, heap, work, ran, cancel>>
  BY DEF CancelDestroy, vars
<1>k. \A j \in Chunks \ {k} : chunk'[j] = chunk[j]
  BY <1>1 DEF OnlyChunk
<1>t. PoolTypeOK'
  BY <1>i, <1>1, <1>v DEF PoolTypeOK, OnlyChunk
<1>e. EarlyInv' /\ SplitInv'
  BY <1>i, <1>1, <1>k, <1>v, WorkKeepsSplit DEF EarlyInv
<1>2. ChunkInv'
  BY <1>i, <1>1, <1>k, <1>v DEF ChunkInv, Active
<1>3. \A w \in AllWorkers : work[w] # NONE => work[w].chunk \in Chunks \ {k}
  BY <1>i, <1>1 DEF WorkInv, PoolTypeOK
<1>4. WorkInv'
  BY <1>i, <1>1, <1>3, <1>k, <1>v DEF WorkInv
<1>p. \A j \in Chunks : \A n : Pending(j, n)' <=> Pending(j, n) /\ j # k
  <2>1. ASSUME NEW j \in Chunks, j # k, NEW n PROVE Pending(j, n)' <=> Pending(j, n)
    BY <1>k, <1>v, <2>1 DEF Pending
  <2>2. ASSUME NEW n PROVE ~Pending(k, n)'
    BY <1>1, <1>3, <1>v DEF Pending
  <2> QED
    BY <2>1, <2>2
<1>5. DisjointInv'
  <2>1. ASSUME NEW d \in Callers PROVE DisjointInv!(d)'
    BY <1>i, <1>v, <1>p DEF DisjointInv
  <2> QED
    BY <2>1 DEF DisjointInv
<1>6. CoverInv'
  <2>1. \A d \in Callers, n \in Indices : Provided(d, n) => Provided(d, n)'
    BY <1>1, <1>k, <1>p, <1>v DEF Provided
  <2> QED
    BY <1>i, <1>v, <2>1 DEF CoverInv
<1>7. OwedInv' /\ NestedCallNeverOk'
  <2>1. \A j \in Chunks : chunk'[j].stage \in {"queued", "running", "canceled"}
                            => chunk[j].stage \in {"queued", "running", "canceled"}
    BY <1>1, <1>k
  <2> QED
    BY <1>i, <1>v, <2>1 DEF OwedInv, Calling, NestedCallNeverOk
<1>8. HeapInv'
  <2>1. InStage({"queued", "canceled"})' = InStage({"queued", "canceled"})
    BY <1>i, <1>t, <1>1, <1>k DEF InStage, PoolTypeOK
  <2> QED
    BY <1>i, <1>v, <2>1 DEF HeapInv, This
<1> QED
  BY <1>t, <1>e, <1>2, <1>4, <1>5, <1>6, <1>7, <1>8 DEF PoolInv

\* Every step is one of those above.
LEMMA NextPoolInv == PoolInv /\ [PoolNext]_allVars => PoolInv'
<1> SUFFICES ASSUME PoolInv, [PoolNext]_allVars PROVE PoolInv'
  OBVIOUS
<1>i. PoolTypeOK /\ EarlyInv /\ SplitInv /\ WorkInv
  BY DEF PoolInv
<1>w. Workers \subseteq AllWorkers /\ Clients \cup Workers \subseteq Callers
  BY <1>i, WorkerCountType, LifecycleAssumption DEF Workers, AllWorkers, Callers
<1>1. ASSUME UNCHANGED pvars,
             \/ fq_scheduler_create \/ Over \/ Creator \/ fq_scheduler_shutdown \/ UNCHANGED vars
             \/ \E w \in Workers : ThreadEntry(w) \/ BeginUse(w) \/ EndUse(w) \/ Exit(w)
      PROVE  PoolInv'
  BY <1>i, <1>1, LifeSteps, LifeKeepsPoolInv
<1>2. ASSUME NEW c \in Clients \cup Workers,
             fq_scheduler_parallel_for(c) \/ CallStep(c) \/ WaitReturns(c)
      PROVE  PoolInv'
  BY <1>2, <1>w, BeginKeepsPoolInv, AllocKeepsPoolInv, AcceptKeepsPoolInv, QuitKeepsPoolInv,
     PushKeepsPoolInv, WaitKeepsPoolInv, ReturnKeepsPoolInv DEF CallStep
<1>3. ASSUME NEW w \in Workers, TakeChunk(w) \/ CallFn(w) \/ EndChunk(w) PROVE PoolInv'
  BY <1>3, <1>w, TakeKeepsPoolInv, FnKeepsPoolInv, EndKeepsPoolInv
<1>4. CASE CancelAll \/ CancelDestroy \/ CancelReturns
  BY <1>4, FlagsKeepPoolInv, DropKeepsPoolInv
<1>5. CASE UNCHANGED allVars
  BY <1>1, <1>5 DEF allVars
<1>6. ASSUME NEW c \in Clients \cup Workers, WaitPolls(c) PROVE PoolInv'
  BY <1>5, <1>6 DEF WaitPolls
<1>7. ASSUME NEW w \in Workers, WorkerStep(w) PROVE PoolInv'
  BY <1>1, <1>3, <1>7 DEF WorkerStep, Leave
<1>8. CASE \/ (fq_scheduler_create \/ Over) /\ UNCHANGED pvars
           \/ CreatorStep
           \/ CallsOver /\ fq_scheduler_shutdown /\ UNCHANGED pvars
  BY <1>1, <1>8 DEF CreatorStep
<1> QED
  BY <1>2, <1>4, <1>5, <1>6, <1>7, <1>8 DEF PoolNext

\* A pool that is not created yet has no calls.
LEMMA InitPoolInv == PoolInit => PoolInv
<1> SUFFICES ASSUME PoolInit PROVE PoolInv
  OBVIOUS
<1> DEFINE idle == [pc |-> "idle", begin |-> 0, end |-> 0, i |-> 0, cur |-> 0,
                    st |-> "OK", owed |-> {}]
<1>1. idle \in CallRecord
  <2>1. {} \in SUBSET Chunks
    OBVIOUS
  <2> QED
    BY <2>1 DEF CallRecord
<1>2. idle.pc = "idle" /\ idle.begin = 0 /\ idle.end = 0 /\ idle.i = 0
  OBVIOUS
<1>3. call = [c \in Callers |-> idle]
  BY DEF PoolInit
<1> HIDE DEF idle
<1>4. \A c \in Callers : /\ call[c] \in CallRecord /\ call[c].pc = "idle" /\ call[c].begin = 0
                         /\ call[c].end = 0 /\ call[c].i = 0
  BY <1>1, <1>2, <1>3
<1>5. Gone("none") \in ChunkRecord /\ Gone("none").stage = "none"
  BY GoneRecord DEF Stages
<1>6. chunk = [k \in Chunks |-> Gone("none")]
  BY DEF PoolInit, Chunks
<1>7. \A k \in Chunks : chunk[k] \in ChunkRecord /\ chunk[k].stage = "none"
  BY <1>5, <1>6
<1>8. cfg.thread_count \in Nat /\ (cfg.thread_count = 0 => cores \in Nat)
  <2>1. cfg \in Configs
    BY DEF PoolInit, Init
  <2>2. fq_scheduler_config_default.thread_count = 0
    BY DEF fq_scheduler_config_default
  <2>3. \A n : PoolConfig(n).thread_count = n
    BY DEF PoolConfig, fq_scheduler_config_default
  <2>4. cfg.thread_count \in Nat
    <3>1. CASE cfg = fq_scheduler_config_default
      BY <2>2, <3>1
    <3>2. CASE cfg \in {PoolConfig(n) : n \in ThreadCounts}
      BY <2>3, <3>2, LifecycleAssumption
    <3>3. CASE cfg \in [thread_count : ThreadCounts, queue_capacity : Capacities]
      BY <3>3, LifecycleAssumption
    <3> QED
      BY <2>1, <3>1, <3>2, <3>3 DEF Configs
  <2> QED
    BY <2>4, LifecycleAssumption DEF PoolInit, Init
<1>9. PoolTypeOK
  BY <1>3, <1>4, <1>6, <1>7, <1>8 DEF PoolInit, Init, PoolTypeOK, AllWorkers
<1>w. \A w \in AllWorkers : work[w] = NONE /\ w \in Callers
  BY DEF PoolInit, Callers
<1>10. EarlyInv /\ ChunkInv /\ WorkInv
  BY <1>4, <1>7, <1>w DEF EarlyInv, ChunkInv, Active, WorkInv
<1>11. SplitInv
  BY <1>4, <1>7 DEF SplitInv, Splitting, PoolInit
<1>12. DisjointInv /\ CoverInv
  <2>1. \A k \in Chunks : \A n : ~Pending(k, n)
    BY <1>7, <1>w DEF Pending
  <2>2. \A c \in Callers, n \in Indices : ran[c][n] = 0
    BY DEF PoolInit
  <2> QED
    BY <1>4, <2>1, <2>2 DEF DisjointInv, CoverInv, Splitting
<1>13. OwedInv /\ NestedCallNeverOk
  BY <1>4, <1>w DEF OwedInv, Calling, NestedCallNeverOk
<1>14. HeapInv
  BY <1>4, <1>6, <1>7 DEF HeapInv, InStage, PoolInit
<1> QED
  BY <1>9, <1>10, <1>11, <1>12, <1>13, <1>14 DEF PoolInv

\* The calls of parallel_for stay as PoolInv says, in every interleaving with the workers,
\* the creator and cancel_all, for ranges of at most LONG_MAX indices (ShortAssumption,
\* parallel.c:39-79).
THEOREM PoolInvariant == PoolSpec => []PoolInv
BY InitPoolInv, NextPoolInv, PTL DEF PoolSpec

\* For ranges of at most LONG_MAX indices (ShortAssumption) fn is called at most once for
\* an index, never outside the range, and when the call returns FQ_OK it has been called
\* for each (parallel.c:39-79).  MCLongRange shows that longer ranges have to be excluded.
THEOREM OkMeansCompleteTheorem == PoolSpec => []OkMeansComplete
<1>1. PoolInv => OkMeansComplete
  <2> SUFFICES ASSUME PoolInv, NEW c \in Callers, NEW n \in Indices
               PROVE  OkMeansComplete!(c, n)
    BY DEF OkMeansComplete
  <2>1. /\ n \in Int /\ call[c].begin \in Int /\ call[c].end \in Int /\ ran[c][n] \in Nat
    <3>1. n \in Int
      BY ParallelAssumption DEF Indices, Long
    <3> HIDE DEF Indices
    <3> QED
      BY <3>1 DEF PoolInv, PoolTypeOK, CallRecord
  <2>2. n \in call[c].begin .. call[c].end - 1 <=> call[c].begin <= n /\ n < call[c].end
    BY <2>1
  <2>3. ran[c][n] # 0 => ran[c][n] = 1 /\ call[c].begin <= n /\ n < call[c].end
    BY DEF PoolInv, DisjointInv
  <2>4. call[c].pc = "done" /\ call[c].st = "OK" /\ call[c].begin <= n /\ n < call[c].end
          => ran[c][n] = 1
    BY DEF PoolInv, CoverInv
  <2> QED
    BY <2>1, <2>2, <2>3, <2>4
<1> QED
  BY <1>1, PoolInvariant, PTL

\* A callback that calls parallel_for on its own pool never gets FQ_OK: it waits for the
\* chunk that it is part of (parallel.c:75-77).
THEOREM NestedCallTheorem == PoolSpec => []NestedCallNeverOk
<1>1. PoolInv => NestedCallNeverOk
  BY DEF PoolInv
<1> QED
  BY <1>1, PoolInvariant, PTL

-----------------------------------------------------------------------------
(* Nothing is left behind by the shutdown *)

Kinds == {"scheduler", "queue", "ring", "mutex", "cond", "workers", "arg", "thread"}
Resources == [kind : Kinds, of : Nat \cup {NONE}]

\* The shutdown joins every worker before it is over.
JoinInv ==
  /\ phase = "stopping" =>
       /\ todo \in Seq(Resources)
       /\ \A w \in Workers : \/ wpc[w] = "exited"
                             \/ \E m \in 1 .. Len(todo) : todo[m] = Res("thread", w)
  /\ phase = "down" => \A w \in Workers : wpc[w] = "exited"

\* Neither cancel_all nor a callback interferes with the shutdown.
Quiet == cancel = "no" /\ \A w \in AllWorkers : call[w].pc = "idle"

\* Where the chunks are, and who may still push one.
LeaveInv ==
  /\ cancel = "no" => \A k \in Chunks : chunk[k].stage # "canceled"
  /\ cancel = "no" /\ shutdown_flag => phase \in {"stopping", "down"}
  /\ phase \in {"stopping", "down"} => \A c \in Clients : ~Calling(c)
  /\ \A k \in Chunks : chunk[k].stage = "queued" => chunk[k].queue \in Workers \cup {Global}
  /\ \A w \in AllWorkers : work[w] # NONE => w \in Workers
  /\ Quiet => \A w \in Workers : wpc[w] = "exited" => shutdown_flag /\ NothingFor(w)

\* The two loops of fq_scheduler_shutdown join every worker (scheduler.c:296-300).
LEMMA JoinAllJoins ==
  ASSUME NEW n \in Nat, WorkerCount \in Nat
  PROVE  /\ JoinAll(n) \o ReleaseShared \in Seq(Resources)
         /\ \A w \in 0 .. n - 1 : \E m \in 1 .. Len(JoinAll(n) \o ReleaseShared) :
              (JoinAll(n) \o ReleaseShared)[m] = Res("thread", w)
<1> DEFINE A == [k \in 1 .. n |-> Res("thread", k - 1)]
           B == EachWorker(QueueRelease, 2, n)
<1>0. /\ Res("workers", NONE) \in Resources /\ Res("cond", NONE) \in Resources
      /\ Res("mutex", NONE) \in Resources /\ Res("scheduler", NONE) \in Resources
      /\ \A x \in Nat : /\ Res("thread", x) \in Resources
                        /\ Res("ring", x) \in Resources /\ Res("queue", x) \in Resources
  BY DEF Res, Resources, Kinds
<1>1. A \in Seq(Resources) /\ Len(A) = n
  BY <1>0
<1>2. B \in Seq(Resources)
  <2>1. \A q \in Nat : QueueRelease(q)[1] \in Resources /\ QueueRelease(q)[2] \in Resources
    BY <1>0 DEF QueueRelease
  <2> DEFINE part(k) == QueueRelease((k - 1) \div 2)[1 + ((k - 1) % 2)]
  <2>2. ASSUME NEW k \in 1 .. 2 * n PROVE part(k) \in Resources
    <3>1. (k - 1) \div 2 \in Nat /\ (1 + ((k - 1) % 2) = 1 \/ 1 + ((k - 1) % 2) = 2)
      OBVIOUS
    <3> QED
      BY <2>1, <3>1
  <2>3. B = [k \in 1 .. 2 * n |-> part(k)]
    BY DEF EachWorker
  <2>4. PICK m \in Nat : m = 2 * n
    OBVIOUS
  <2> HIDE DEF part, B
  <2>5. [k \in 1 .. m |-> part(k)] \in [1 .. m -> Resources]
    BY <2>2, <2>4
  <2> QED
    BY <2>3, <2>4, <2>5
<1>3. ReleaseShared \in Seq(Resources)
  <2>1. Global \in Nat
    BY DEF Global
  <2>2. PICK a \in Resources, b \in Resources, c \in Resources, d \in Resources :
          /\ a = Res("workers", NONE) /\ b = Res("cond", NONE)
          /\ c = Res("mutex", NONE) /\ d = Res("scheduler", NONE)
    BY <1>0
  <2>3. PICK e \in Resources, f \in Resources :
          e = Res("ring", Global) /\ f = Res("queue", Global)
    BY <1>0, <2>1
  <2>4. ReleaseShared = <<a, b, c>> \o <<e, f>> \o <<d>>
    BY <2>2, <2>3 DEF ReleaseShared, QueueRelease
  <2> HIDE DEF Resources
  <2>5. <<a, b, c>> \o <<e, f>> \o <<d>> \in Seq(Resources)
    OBVIOUS
  <2> QED
    BY <2>4, <2>5
<1>4. JoinAll(n) = A \o B
  BY DEF JoinAll
<1>5. \A w \in 0 .. n - 1 : A[w + 1] = Res("thread", w)
  OBVIOUS
<1> HIDE DEF A, B, Resources
<1>6. JoinAll(n) \in Seq(Resources) /\ \A m \in 1 .. n : JoinAll(n)[m] = A[m] /\ n <= Len(JoinAll(n))
  BY <1>1, <1>2, <1>4
<1>7. ASSUME NEW w \in 0 .. n - 1
      PROVE  \E m \in 1 .. Len(JoinAll(n) \o ReleaseShared) :
               (JoinAll(n) \o ReleaseShared)[m] = Res("thread", w)
  <2>1. PICK m \in 1 .. n : m = w + 1
    OBVIOUS
  <2>2. m \in 1 .. Len(JoinAll(n) \o ReleaseShared) /\ (JoinAll(n) \o ReleaseShared)[m] = A[m]
    BY <1>3, <1>6
  <2> QED
    BY <1>5, <2>1, <2>2
<1> QED
  BY <1>3, <1>6, <1>7

\* A worker that has left stays away.
LEMMA ExitedStays ==
  ASSUME PoolInv, PoolNext, phase # "creating", NEW w \in AllWorkers, wpc[w] = "exited"
  PROVE  wpc'[w] = "exited"
<1>1. PoolTypeOK /\ WorkInv
  BY DEF PoolInv
<1>2. ASSUME NEW v, EndChunk(v), v \in AllWorkers PROVE wpc[v] = "busy"
  BY <1>1, <1>2 DEF EndChunk, WorkInv
<1>3. Workers \subseteq AllWorkers
  BY <1>1, WorkerCountType, LifecycleAssumption DEF Workers, AllWorkers
<1>4. CASE (fq_scheduler_create \/ Over \/ fq_scheduler_shutdown \/ Creator)
  BY <1>4 DEF fq_scheduler_create, Over, vars, fq_scheduler_shutdown, Creator, Acquire, AcquireFails,
              Created, Release, Return
<1>5. ASSUME NEW v \in Workers, WorkerStep(v) PROVE wpc'[w] = "exited"
  <2>1. CASE ThreadEntry(v) \/ BeginUse(v) \/ EndUse(v) \/ Leave(v)
    BY <1>1, <2>1 DEF ThreadEntry, BeginUse, EndUse, Leave, Exit, PoolTypeOK
  <2>2. CASE TakeChunk(v) \/ CallFn(v)
    BY <1>1, <2>2 DEF TakeChunk, CallFn, vars, PoolTypeOK
  <2>3. CASE EndChunk(v)
    BY <1>1, <1>2, <1>3, <2>3 DEF EndChunk, PoolTypeOK
  <2> QED
    BY <1>5, <2>1, <2>2, <2>3 DEF WorkerStep
<1>6. ASSUME NEW c \in Clients \cup Workers,
             fq_scheduler_parallel_for(c) \/ CallStep(c) \/ WaitReturns(c) \/ WaitPolls(c)
      PROVE  wpc' = wpc
  BY <1>6 DEF fq_scheduler_parallel_for, CallStep, AllocRange, AllocFails, SubmitAccepted, SubmitFails,
              SubmitPush, WaitIdle, WaitReturns, WaitPolls, vars, allVars
<1>7. CASE CancelAll \/ CancelDestroy \/ CancelReturns
  BY <1>7 DEF CancelAll, CancelDestroy, CancelReturns, vars
<1> QED
  BY <1>4, <1>5, <1>6, <1>7 DEF PoolNext, CreatorStep

\* What a step does to the queues: a chunk gets there from a call that is at its push, and
\* only cancel_all destroys one.
QueueEffect ==
  \A k \in Chunks :
    /\ chunk'[k].stage = "queued" =>
         \/ chunk[k].stage = "queued" /\ chunk'[k].queue = chunk[k].queue
         \/ /\ chunk'[k].queue \in Workers \cup {Global}
            /\ \E c \in Clients \cup Workers : call[c].pc = "push"
    /\ chunk'[k].stage = "canceled" => chunk[k].stage = "canceled" \/ cancel # "no"

\* What a step does to the calls and to the workers.
CallEffect ==
  /\ \A c \in Callers : call'[c].pc = "idle" => call[c].pc = "idle"
  /\ \A c \in Clients : Calling(c)' => Calling(c) \/ phase = "up"
  /\ \A w \in AllWorkers : work'[w] # NONE => work[w] # NONE \/ w \in Workers

\* What a step does to the flags and the phase.
FlagEffect ==
  /\ cancel' = "no" => cancel = "no"
  /\ shutdown_flag => shutdown_flag'
  /\ cancel' = "no" /\ shutdown_flag' => shutdown_flag \/ phase' = "stopping"
  /\ phase \in {"stopping", "down"} => phase' \in {"stopping", "down"}
  /\ phase' \in {"stopping", "down"} =>
       phase \in {"stopping", "down"} \/ (call' = call /\ \A c \in Clients : ~Calling(c))

\* The steps of Lifecycle.
LEMMA LifeEffects ==
  ASSUME PoolInv, UNCHANGED pvars,
         \/ fq_scheduler_create \/ Over \/ Creator
         \/ CallsOver /\ fq_scheduler_shutdown
         \/ \E w \in Workers : ThreadEntry(w) \/ BeginUse(w) \/ EndUse(w) \/ Exit(w)
  PROVE  QueueEffect /\ CallEffect /\ FlagEffect
<1>1. QueueEffect /\ CallEffect
  BY DEF QueueEffect, CallEffect, pvars, Calling
<1>2. FlagEffect
  <2>1. CASE fq_scheduler_create \/ Over \/ (CallsOver /\ fq_scheduler_shutdown)
    BY <2>1 DEF fq_scheduler_create, Over, CallsOver, fq_scheduler_shutdown, FlagEffect, vars, pvars
  <2>2. CASE Creator
    BY <2>2 DEF Creator, Acquire, AcquireFails, Created, Release, Return, FlagEffect, pvars
  <2>3. ASSUME NEW w \in Workers, ThreadEntry(w) \/ BeginUse(w) \/ EndUse(w) \/ Exit(w)
        PROVE  FlagEffect
    BY <2>3 DEF ThreadEntry, BeginUse, EndUse, Exit, FlagEffect, pvars
  <2> QED
    BY <2>1, <2>2, <2>3
<1> QED
  BY <1>1, <1>2

\* The steps of the calls.
LEMMA CallEffects ==
  ASSUME PoolInv, NEW c \in Clients \cup Workers, c \in Callers,
         fq_scheduler_parallel_for(c) \/ CallStep(c) \/ WaitReturns(c) \/ WaitPolls(c)
  PROVE  QueueEffect /\ CallEffect /\ FlagEffect
<1>i. PoolTypeOK /\ SplitInv
  BY DEF PoolInv
<1>c. Clients \subseteq Callers
  BY DEF Callers
<1>1. UNCHANGED <<phase, shutdown_flag, cancel, work>>
  BY DEF fq_scheduler_parallel_for, CallStep, AllocRange, AllocFails, SubmitAccepted, SubmitFails,
         SubmitPush, WaitIdle, WaitReturns, WaitPolls, vars, pvars, allVars
<1>f. FlagEffect
  BY <1>1 DEF FlagEffect
<1>2. QueueEffect
  <2>1. CASE SubmitPush(c)
    <3>1. call[c].pc = "push" /\ call[c].i < WorkerCount
      BY <1>i, <2>1 DEF SubmitPush, SplitInv
    <3> QED
      BY <1>i, <2>1, <3>1, ChunkPushed DEF QueueEffect, OnlyChunk
  <2>2. CASE AllocRange(c)
    <3>1. This(c) \in Chunks /\ chunk[This(c)] \in ChunkRecord
      BY <1>i, <2>2, ThisChunk DEF AllocRange, HasMore, PoolTypeOK
    <3>2. \A k \in Chunks : chunk'[k].stage = chunk[k].stage /\ chunk'[k].queue = chunk[k].queue
      BY <1>i, <2>2, <3>1 DEF AllocRange, PoolTypeOK, ChunkRecord
    <3> QED
      BY <3>2 DEF QueueEffect
  <2>3. CASE chunk' = chunk
    BY <2>3 DEF QueueEffect
  <2> QED
    BY <2>1, <2>2, <2>3 DEF fq_scheduler_parallel_for, CallStep, AllocFails, SubmitAccepted,
       SubmitFails, WaitIdle, WaitReturns, WaitPolls, pvars, allVars
<1>3. CallEffect
  <2>1. CASE fq_scheduler_parallel_for(c)
    BY <1>i, <1>1, <1>c, <2>1, CallBegins
       DEF CallEffect, OnlyCall, Calling, fq_scheduler_parallel_for, MayCall
  <2>2. ASSUME OnlyCall(c), call'[c].pc # "idle", Calling(c) PROVE CallEffect
    BY <1>1, <1>c, <2>2 DEF CallEffect, OnlyCall, Calling
  <2>3. CASE AllocRange(c) \/ SubmitAccepted(c)
    <3>1. PICK x \in Splitting : call' = [call EXCEPT ![c].pc = x] /\ x # "idle"
      BY <2>3 DEF AllocRange, SubmitAccepted, Splitting
    <3>2. Calling(c)
      BY <2>3 DEF AllocRange, HasMore, SubmitAccepted, Calling
    <3> QED
      BY <1>i, <2>2, <3>1, <3>2, CallMoves
  <2>4. CASE AllocFails(c) \/ SubmitFails(c) \/ WaitReturns(c)
    <3>1. PICK x \in {"OK", "NOMEM", "CLOSED", "OVERFLOW"} : Returns(c, x)
      BY <2>4 DEF AllocFails, SubmitFails, WaitReturns
    <3>2. Calling(c)
      BY <2>4 DEF AllocFails, HasMore, SubmitFails, WaitReturns, Calling
    <3> QED
      BY <1>i, <2>2, <3>1, <3>2, CallReturns
  <2>5. CASE SubmitPush(c)
    <3>1. call[c].pc = "push" /\ call[c].i < WorkerCount
      BY <1>i, <2>5 DEF SubmitPush, SplitInv
    <3> QED
      BY <1>i, <2>2, <2>5, <3>1, ChunkPushed DEF Calling
  <2>6. CASE WaitIdle(c)
    BY <1>i, <2>2, <2>6, CallWaits DEF WaitIdle, Calling
  <2>7. CASE WaitPolls(c)
    BY <2>7 DEF WaitPolls, CallEffect, allVars, pvars, Calling
  <2> QED
    BY <2>1, <2>3, <2>4, <2>5, <2>6, <2>7 DEF CallStep
<1> QED
  BY <1>f, <1>2, <1>3

\* The steps of the workers with a chunk, and of cancel_all.
LEMMA WorkEffects ==
  ASSUME PoolInv, \/ \E w \in Workers : TakeChunk(w) \/ CallFn(w) \/ EndChunk(w)
                  \/ CancelAll \/ CancelDestroy \/ CancelReturns
  PROVE  QueueEffect /\ CallEffect /\ FlagEffect
<1>i. PoolTypeOK
  BY DEF PoolInv
<1>w. Workers \subseteq AllWorkers
  BY <1>i, WorkerCountType, LifecycleAssumption DEF Workers, AllWorkers
<1>1. FlagEffect
  <2>1. UNCHANGED phase
    BY DEF TakeChunk, CallFn, EndChunk, CancelAll, CancelDestroy, CancelReturns, vars
  <2>2. \/ UNCHANGED <<shutdown_flag, cancel>>
        \/ cancel' \in {"on", "over"} /\ (shutdown_flag => shutdown_flag')
    BY DEF TakeChunk, CallFn, EndChunk, CancelAll, CancelDestroy, CancelReturns, vars
  <2> QED
    BY <2>1, <2>2 DEF FlagEffect
<1>2. QueueEffect
  <2>1. ASSUME NEW w \in Workers, TakeChunk(w) PROVE QueueEffect
    <3>1. PICK k \in Chunks : OnlyChunk(k) /\ chunk'[k].stage = "running"
      BY <1>i, <1>w, <2>1, ChunkTaken
    <3> QED
      BY <3>1 DEF QueueEffect, OnlyChunk
  <2>2. ASSUME NEW w \in Workers, EndChunk(w) PROVE QueueEffect
    <3>1. PICK k \in Chunks : OnlyChunk(k) /\ chunk'[k].stage = "done"
      BY <1>i, <1>w, <2>2, ChunkEnded
    <3> QED
      BY <3>1 DEF QueueEffect, OnlyChunk
  <2>3. CASE CancelDestroy
    <3>1. PICK k \in Chunks : OnlyChunk(k) /\ chunk'[k].stage = "canceled"
      BY <1>i, <2>3, ChunkCanceled
    <3> QED
      BY <2>3, <3>1 DEF QueueEffect, OnlyChunk, CancelDestroy
  <2>4. CASE chunk' = chunk
    BY <2>4 DEF QueueEffect
  <2> QED
    BY <2>1, <2>2, <2>3, <2>4 DEF CallFn, CancelAll, CancelReturns
<1>3. CallEffect
  <2>1. UNCHANGED call
    BY DEF TakeChunk, CallFn, EndChunk, CancelAll, CancelDestroy, CancelReturns
  <2>2. ASSUME NEW w \in Workers, TakeChunk(w) \/ CallFn(w) \/ EndChunk(w)
        PROVE  \A v \in AllWorkers \ {w} : work'[v] = work[v]
    BY <1>i, <1>w, <2>2, ChunkTaken, FnCalled, ChunkEnded DEF OnlyWork
  <2>3. CancelAll \/ CancelDestroy \/ CancelReturns => work' = work
    BY DEF CancelAll, CancelDestroy, CancelReturns
  <2> QED
    BY <2>1, <2>2, <2>3 DEF CallEffect, Calling
<1> QED
  BY <1>1, <1>2, <1>3

\* Every step.
LEMMA NextEffects ==
  ASSUME PoolInv, [PoolNext]_allVars
  PROVE  QueueEffect /\ CallEffect /\ FlagEffect /\ UNCHANGED <<cfg, cores>>
<1>i. PoolTypeOK
  BY DEF PoolInv
<1>w. Workers \subseteq AllWorkers /\ Clients \cup Workers \subseteq Callers
  BY <1>i, WorkerCountType, LifecycleAssumption DEF Workers, AllWorkers, Callers
<1>1. CASE \/ (fq_scheduler_create \/ Over) /\ UNCHANGED pvars
           \/ CreatorStep
           \/ CallsOver /\ fq_scheduler_shutdown /\ UNCHANGED pvars
  <2>1. UNCHANGED <<cfg, cores>>
    BY <1>1 DEF fq_scheduler_create, Over, CreatorStep, Creator, Acquire, AcquireFails, Created,
                Release, Return, fq_scheduler_shutdown, vars
  <2> QED
    BY <1>1, <2>1, LifeEffects DEF CreatorStep
<1>2. ASSUME NEW w \in Workers, WorkerStep(w)
      PROVE  QueueEffect /\ CallEffect /\ FlagEffect /\ UNCHANGED <<cfg, cores>>
  <2>1. UNCHANGED <<cfg, cores>>
    BY <1>2 DEF WorkerStep, ThreadEntry, BeginUse, EndUse, Leave, Exit, TakeChunk, CallFn, EndChunk,
                vars
  <2> QED
    BY <1>2, <2>1, LifeEffects, WorkEffects DEF WorkerStep, Leave
<1>3. ASSUME NEW c \in Clients \cup Workers,
             fq_scheduler_parallel_for(c) \/ CallStep(c) \/ WaitReturns(c) \/ WaitPolls(c)
      PROVE  QueueEffect /\ CallEffect /\ FlagEffect /\ UNCHANGED <<cfg, cores>>
  <2>1. UNCHANGED <<cfg, cores>>
    BY <1>3 DEF fq_scheduler_parallel_for, CallStep, AllocRange, AllocFails, SubmitAccepted,
       SubmitFails, SubmitPush, WaitIdle, WaitReturns, WaitPolls, vars, allVars
  <2> QED
    BY <1>3, <1>w, <2>1, CallEffects
<1>4. CASE CancelAll \/ CancelDestroy \/ CancelReturns
  <2>1. UNCHANGED <<cfg, cores>>
    BY <1>4 DEF CancelAll, CancelDestroy, CancelReturns, vars
  <2> QED
    BY <1>4, <2>1, WorkEffects
<1>5. CASE UNCHANGED allVars
  BY <1>5 DEF QueueEffect, CallEffect, FlagEffect, Calling, allVars, vars, pvars
<1> QED
  BY <1>1, <1>2, <1>3, <1>4, <1>5 DEF PoolNext

\* The thread of every worker has been joined when the shutdown is over.
LEMMA NextJoinInv ==
  ASSUME PoolInv, JoinInv, [PoolNext]_allVars
  PROVE  JoinInv'
<1>i. PoolTypeOK
  BY DEF PoolInv
<1>w. Workers' = Workers /\ Workers \subseteq AllWorkers /\ WorkerCount \in Nat
  BY <1>i, NextEffects, SameWorkerCount, WorkerCountType, LifecycleAssumption
     DEF Workers, AllWorkers
<1>x. ASSUME phase # "creating", NEW w \in Workers, wpc[w] = "exited" PROVE wpc'[w] = "exited"
  <2>1. CASE PoolNext
    BY <1>w, <1>x, <2>1, ExitedStays
  <2>2. CASE UNCHANGED allVars
    BY <1>x, <2>2 DEF allVars, vars
  <2> QED
    BY <2>1, <2>2
<1>1. CASE fq_scheduler_shutdown
  <2>1. phase' = "stopping" /\ todo' = JoinAll(WorkerCount) \o ReleaseShared
    BY <1>1 DEF fq_scheduler_shutdown
  <2>2. \A w \in Workers : w \in 0 .. WorkerCount - 1
    BY DEF Workers
  <2> QED
    BY <1>w, <2>1, <2>2, JoinAllJoins DEF JoinInv
<1>2. CASE Release
  <2>1. ASSUME phase = "stopping"
        PROVE  /\ todo' \in Seq(Resources)
               /\ \A w \in Workers : \/ wpc'[w] = "exited"
                                     \/ \E m \in 1 .. Len(todo') : todo'[m] = Res("thread", w)
    <3> HIDE DEF Resources
    <3>1. todo \in Seq(Resources) /\ todo # << >> /\ todo' = Tail(todo) /\ Joinable(todo[1])
      BY <1>2, <2>1 DEF Release, JoinInv
    <3>2. todo' \in Seq(Resources)
      BY <3>1
    <3>3. ASSUME NEW w \in Workers, wpc[w] # "exited"
          PROVE  \E m \in 1 .. Len(todo') : todo'[m] = Res("thread", w)
      <4>1. PICK m \in 1 .. Len(todo) : todo[m] = Res("thread", w)
        BY <2>1, <3>3 DEF JoinInv
      <4>2. m # 1
        BY <3>1, <3>3, <4>1 DEF Joinable, Res
      <4>3. m - 1 \in 1 .. Len(todo') /\ todo'[m - 1] = todo[m]
        BY <3>1, <4>2
      <4> QED
        BY <4>1, <4>3
    <3> QED
      BY <1>x, <2>1, <3>2, <3>3
  <2> QED
    BY <1>2, <1>w, <2>1 DEF Release, JoinInv
<1>3. CASE Return
  <2>1. phase = "stopping" => \A w \in Workers : wpc[w] = "exited"
    BY <1>3 DEF Return, JoinInv
  <2> QED
    BY <1>3, <1>w, <1>x, <2>1 DEF Return, JoinInv
<1>4. ASSUME UNCHANGED <<phase, todo>> PROVE JoinInv'
  BY <1>4, <1>w, <1>x DEF JoinInv
<1>5. CASE fq_scheduler_create \/ Acquire \/ AcquireFails \/ Created
  BY <1>5 DEF fq_scheduler_create, Acquire, AcquireFails, Created, JoinInv
<1>6. ASSUME NEW w \in Workers, WorkerStep(w) PROVE UNCHANGED <<phase, todo>>
  BY <1>6 DEF WorkerStep, ThreadEntry, BeginUse, EndUse, Leave, Exit, TakeChunk, CallFn, EndChunk,
              vars
<1>7. ASSUME NEW c \in Clients \cup Workers,
             fq_scheduler_parallel_for(c) \/ CallStep(c) \/ WaitReturns(c) \/ WaitPolls(c)
      PROVE  UNCHANGED <<phase, todo>>
  BY <1>7 DEF fq_scheduler_parallel_for, CallStep, AllocRange, AllocFails, SubmitAccepted,
     SubmitFails, SubmitPush, WaitIdle, WaitReturns, WaitPolls, vars, allVars
<1>8. CancelAll \/ CancelDestroy \/ CancelReturns \/ Over \/ UNCHANGED allVars
        => UNCHANGED <<phase, todo>>
  BY DEF CancelAll, CancelDestroy, CancelReturns, Over, vars, allVars
<1> QED
  BY <1>1, <1>2, <1>3, <1>4, <1>5, <1>6, <1>7, <1>8 DEF PoolNext, CreatorStep, Creator

\* A worker ends by leaving its loop.
LEMMA OnlyLeave ==
  ASSUME PoolInv, [PoolNext]_allVars, NEW w \in AllWorkers, wpc[w] # "exited", wpc'[w] = "exited"
  PROVE  Leave(w)
<1>i. PoolTypeOK
  BY DEF PoolInv
<1>1. ~Acquire
  BY <1>i DEF Acquire, PoolTypeOK
<1>2. wpc' # wpc
  OBVIOUS
<1>3. PICK v \in Workers : WorkerStep(v)
  BY <1>1, <1>2 DEF PoolNext, fq_scheduler_create, Over, CreatorStep, Creator, AcquireFails,
     Created, Release, Return, fq_scheduler_shutdown, fq_scheduler_parallel_for, CallStep,
     AllocRange, AllocFails, SubmitAccepted, SubmitFails, SubmitPush, WaitIdle, WaitReturns,
     WaitPolls, CancelAll, CancelDestroy, CancelReturns, vars, allVars
<1>4. CASE ThreadEntry(v) \/ BeginUse(v) \/ EndUse(v) \/ TakeChunk(v) \/ EndChunk(v) \/ CallFn(v)
  BY <1>4, <1>i DEF ThreadEntry, BeginUse, EndUse, TakeChunk, EndChunk, CallFn, vars, PoolTypeOK
<1>5. CASE Leave(v)
  BY <1>5, <1>i DEF Leave, Exit, PoolTypeOK
<1> QED
  BY <1>3, <1>4, <1>5 DEF WorkerStep

\* A worker that leaves has nothing left in its queues, and nobody adds to them.
LEMMA NextLeaveInv ==
  ASSUME PoolInv, LeaveInv, [PoolNext]_allVars
  PROVE  LeaveInv'
<1>i. PoolTypeOK /\ DOMAIN chunk = Chunks /\ DOMAIN chunk' = Chunks
  BY NextPoolInv DEF PoolInv, PoolTypeOK
<1>e. QueueEffect /\ CallEffect /\ FlagEffect /\ UNCHANGED <<cfg, cores>>
  BY NextEffects
<1>w. Workers' = Workers /\ Global' = Global /\ Workers \subseteq AllWorkers
  BY <1>i, <1>e, SameWorkerCount, WorkerCountType, LifecycleAssumption DEF Workers, AllWorkers
<1>c. AllWorkers \subseteq Callers /\ Clients \subseteq Callers
  BY DEF Callers
<1>1. cancel' = "no" => \A k \in Chunks : chunk'[k].stage # "canceled"
  BY <1>e DEF LeaveInv, QueueEffect, FlagEffect
<1>2. cancel' = "no" /\ shutdown_flag' => phase' \in {"stopping", "down"}
  BY <1>e DEF LeaveInv, FlagEffect
<1>3. phase' \in {"stopping", "down"} => \A c \in Clients : ~Calling(c)'
  <2>1. CASE phase \in {"stopping", "down"}
    BY <1>e, <2>1 DEF LeaveInv, CallEffect
  <2>2. CASE phase \notin {"stopping", "down"}
    BY <1>e, <2>2 DEF FlagEffect, Calling
  <2> QED
    BY <2>1, <2>2
<1>4. \A k \in Chunks : chunk'[k].stage = "queued" => chunk'[k].queue \in Workers \cup {Global}
  BY <1>e DEF LeaveInv, QueueEffect
<1>5. \A w \in AllWorkers : work'[w] # NONE => w \in Workers
  BY <1>e DEF LeaveInv, CallEffect
<1>6. ASSUME Quiet', NEW w \in Workers, wpc'[w] = "exited"
      PROVE  shutdown_flag' /\ NothingFor(w)'
  <2>1. Quiet
    BY <1>6, <1>e, <1>c DEF Quiet, CallEffect, FlagEffect
  <2>2. CASE wpc[w] = "exited"
    <3>1. shutdown_flag /\ NothingFor(w) /\ phase \in {"stopping", "down"}
      BY <2>1, <2>2 DEF LeaveInv, Quiet
    <3>2. \A c \in Clients \cup Workers : call[c].pc # "push"
      BY <1>w, <2>1, <3>1 DEF LeaveInv, Quiet, Calling
    <3>3. \A k \in Chunks : chunk'[k].stage = "queued" => chunk'[k].queue \notin {w, Global}
      BY <1>e, <1>i, <3>1, <3>2 DEF QueueEffect, NothingFor, InStage
    <3> QED
      BY <1>e, <1>i, <1>w, <3>1, <3>3 DEF FlagEffect, NothingFor, InStage
  <2>3. CASE wpc[w] # "exited"
    <3>1. Leave(w)
      BY <1>6, <1>w, <2>3, OnlyLeave
    <3> QED
      BY <3>1, <1>w DEF Leave, Exit, NothingFor, InStage, pvars
  <2> QED
    BY <2>2, <2>3
<1> QED
  BY <1>1, <1>2, <1>3, <1>4, <1>5, <1>6, <1>w DEF LeaveInv

\* At first there is nothing to join and no chunk.
LEMMA InitLeaveInv == PoolInit => JoinInv /\ LeaveInv
<1> SUFFICES ASSUME PoolInit PROVE JoinInv /\ LeaveInv
  OBVIOUS
<1>1. \A k \in Chunks : chunk[k].stage = "none"
  BY DEF PoolInit, Chunks, Gone
<1>2. \A w \in AllWorkers : work[w] = NONE
  BY DEF PoolInit
<1>3. phase = "new" /\ shutdown_flag = FALSE
  BY DEF PoolInit, Init
<1>4. \A w \in AllWorkers : wpc[w] = "none"
  BY DEF PoolInit, Init, AllWorkers
<1>5. Workers \subseteq AllWorkers
  BY InitPoolInv, WorkerCountType, LifecycleAssumption DEF PoolInv, Workers, AllWorkers
<1> QED
  BY <1>1, <1>2, <1>3, <1>4, <1>5 DEF JoinInv, LeaveInv

\* A range has one owner, and after the shutdown none is left: the last worker to leave
\* found the global queue empty, each its own, and by then no call was at its push
\* (scheduler.c:95-97, 296-300).
THEOREM NoRangeLeaksTheorem == PoolSpec => []NoRangeLeaks
<1>1. PoolInv /\ JoinInv /\ LeaveInv => NoRangeLeaks
  <2> SUFFICES ASSUME PoolInv, JoinInv, LeaveInv PROVE NoRangeLeaks
    OBVIOUS
  <2>i. PoolTypeOK /\ WorkInv /\ HeapInv /\ OwedInv /\ DOMAIN chunk = Chunks
    BY DEF PoolInv, PoolTypeOK
  <2>1. ASSUME phase = "down", cancel = "no", \A w \in AllWorkers : call[w].pc = "idle"
        PROVE  heap = {} /\ PoolIdle
    <3>1. \A w \in Workers : wpc[w] = "exited" /\ NothingFor(w)
      BY <2>1 DEF JoinInv, LeaveInv, Quiet
    <3>2. 0 \in Workers
      BY <2>i, WorkerCountType DEF Workers
    <3>3. ASSUME NEW k \in Chunks PROVE chunk[k].stage # "queued"
      <4>1. SUFFICES ASSUME chunk[k].stage = "queued" PROVE FALSE
        OBVIOUS
      <4>2. chunk[k].queue \in Workers \cup {Global}
        BY <4>1 DEF LeaveInv
      <4>3. \A w \in Workers : chunk[k].queue \notin {w, Global}
        BY <2>i, <3>1, <4>1 DEF NothingFor, InStage
      <4> QED
        BY <3>2, <4>2, <4>3
    <3>4. ASSUME NEW k \in Chunks PROVE chunk[k].stage # "running"
      <4>1. SUFFICES ASSUME chunk[k].stage = "running" PROVE FALSE
        OBVIOUS
      <4>2. PICK w \in AllWorkers : work[w] # NONE
        BY <2>i, <4>1 DEF WorkInv
      <4>3. wpc[w] = "busy" /\ wpc[w] = "exited"
        BY <2>i, <3>1, <4>2 DEF WorkInv, LeaveInv
      <4> QED
        BY <4>3
    <3>5. \A k \in Chunks : chunk[k].stage \notin {"queued", "running", "canceled"}
      BY <2>1, <3>3, <3>4 DEF LeaveInv
    <3>6. \A c \in Callers : call[c].pc \notin {"submit", "push"}
      BY <2>1 DEF LeaveInv, Callers, Calling
    <3>7. /\ InStage({"queued", "running", "canceled"}) = {}
          /\ InStage({"queued", "canceled"}) = {}
      BY <2>i, <3>5 DEF InStage
    <3> QED
      BY <2>i, <3>6, <3>7 DEF HeapInv, PoolIdle
  <2> QED
    BY <2>i, <2>1 DEF NoRangeLeaks, HeapInv
<1>2. PoolInit => PoolInv /\ JoinInv /\ LeaveInv
  BY InitPoolInv, InitLeaveInv
<1>3. PoolInv /\ JoinInv /\ LeaveInv /\ [PoolNext]_allVars => (PoolInv /\ JoinInv /\ LeaveInv)'
  BY NextPoolInv, NextJoinInv, NextLeaveInv
<1> QED
  BY <1>1, <1>2, <1>3, PTL DEF PoolSpec
=============================================================================
