------------------------------ MODULE MCMemory ------------------------------
(***************************************************************************)
(* Two threads, two blocks, an int of 3 bits and a size_t of 4: the byte   *)
(* counter and the call counters overflow, sizes are masked, and the       *)
(* largest size wraps when the header is added.                            *)
(*                                                                         *)
(* The pure functions of Words and Clock are evaluated on words of 8 bits  *)
(* and on a short second, each call in an initial state of its own from    *)
(* which nothing else happens.                                             *)
(***************************************************************************)
EXTENDS Memory, Words, Clock

CONSTANTS t1, t2, b1, b2

TwoThreads == {t1, t2}
TwoPtrs == {b1, b2}
SomeSizes == {1, 15}
SomeCounts == {<<2, 1>>, <<3, 6>>}

VARIABLE call    \* the function that is evaluated and its arguments, or none

Calls ==
  [fn : {"next_pow2"}, x : Words, y : {0, 8}]
  \cup [fn : {"fq_align_up"}, x : Words, y : Powers]
  \cup [fn : {"fq_condition_timedwait"}, x : 0 .. NsPerSec - 1, y : 0 .. 3 * MsPerSec]
  \cup [fn : {"fq_timer"}, x : 0 .. 40, y : 0 .. 2 * TicksPerSec]
  \cup [fn : {"fq_atomic"}, x : Orders, y : {0}]

NoCall == [fn |-> "none", x |-> 0, y |-> 0]

Evaluated == call # NoCall /\ UNCHANGED <<vars, call>>

MCInit == MemoryInit /\ call \in Calls \cup {NoCall}

MCNext == (call = NoCall /\ MemoryNext /\ UNCHANGED call) \/ Evaluated

MCSpec == MCInit /\ [][MCNext]_<<vars, call>> /\ MemoryFairness

-----------------------------------------------------------------------------
(* Correctness properties *)

\* next_pow2 (queue.c:32-45) gives the least power of two that is not below its argument,
\* and 0 exactly for the arguments above the largest power of two of the word.  Where the
\* last shift is not compiled (queue.c:41, MSVC) that holds up to 2^32; above, the result
\* need not be a power of two, but it is still too large for a queue, or 0.
NextPow2IsCeiling ==
  call.fn = "next_pow2" =>
    LET v == call.x
        pow == next_pow2(v, call.y)
    IN IF call.y = 8 \/ v <= HalfWord
       THEN IF v > SizeMod \div 2 THEN pow = 0
            ELSE pow \in Powers /\ v <= pow /\ \A q \in Powers : v <= q => pow <= q
       ELSE v <= pow \/ (pow = 0 /\ v > SizeMod \div 2)

\* fq_align_up (memory.c:131-136) gives the next multiple of a power of two, for every size
\* whose next multiple is a size_t.  AlignedNotBelow is about the others.
AlignUpRounds ==
  call.fn = "fq_align_up" /\ call.x <= SizeMod - call.y =>
    LET up == fq_align_up(call.x, call.y)
    IN fq_is_aligned(up, call.y) /\ up >= call.x /\ up - call.x < call.y

\* memory.h:75 says that fq_align_up returns an "Aligned size >= size", of every size and
\* every power of two.
AlignedNotBelow == call.fn = "fq_align_up" => fq_align_up(call.x, call.y) >= call.x

\* The deadline of a timed wait (platform.c:150) is a valid timespec, exactly the timeout
\* away from now, also when the nanoseconds carry into the next second; a sleep
\* (platform.c:90) is as long as a wait.  On Windows a timer is exact up to a tick's
\* rounding as long as the counter times 10^9 fits in 63 bits, 15 minutes of uptime with
\* ticks of 100 ns (time.c:20).  ClockMonotonic is about the rest.
TimesExact ==
  /\ call.fn = "fq_condition_timedwait" => DeadlineExact([sec |-> 1, nsec |-> call.x], call.y)
  /\ call.fn = "fq_timer" /\ TimeFits(call.x + call.y) => TimerExact(call.x, call.y)

\* time.h:31 calls fq_time_now_ns "the current time in nanoseconds (monotonic clock)": the
\* time after some more ticks of the counter is not an earlier one (time.c:12-21).
ClockMonotonic == call.fn = "fq_timer" => WindowsNow(call.x) <= WindowsNow(call.x + call.y)

\* On every build an operation gets an order that it may have and that guarantees what
\* the caller asked for, whatever order is passed (atomic.h:45-167, 187-354); the failure
\* of a compare-and-exchange too, except that the builtins are always given the relaxed
\* order, the only one that memory.c:36, task.c:132 and future.c:189 ask for.
OrdersHonoured ==
  call.fn = "fq_atomic" =>
    \A build \in Builds :
      /\ \A op \in {"load", "store", "rmw", "bit"} :
           /\ Given(build, op, call.x) \in Legal(op)
           /\ Strength(call.x) \subseteq Strength(Given(build, op, call.x))
      /\ FailureOrder(build, call.x) \in Legal("load")
      /\ build # "gcc" \/ call.x = RELAXED
           => Strength(call.x) \subseteq Strength(FailureOrder(build, call.x))
=============================================================================
