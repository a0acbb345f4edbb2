-------------------------------- MODULE Clock --------------------------------
(***************************************************************************)
(* The time arithmetic of src/platform/platform.c and src/utils/time.c, on *)
(* a clock with NsPerSec nanoseconds and MsPerSec milliseconds in a second.*)
(***************************************************************************)
EXTENDS Integers

CONSTANTS NsPerSec, MsPerSec,
          TicksPerSec,    \* the frequency of the performance counter of Windows
          TimeHalf        \* 2^63: the nanoseconds are in -TimeHalf .. TimeHalf - 1

ASSUME ClockAssumption ==
  /\ MsPerSec \in Nat \ {0} /\ \E k \in 1 .. NsPerSec : NsPerSec = k * MsPerSec
  /\ TicksPerSec \in Nat \ {0} /\ TimeHalf \in Nat \ {0}

\* Mutant of Deadline: the carry of the nanoseconds is forgotten.
Deadline_NoCarry(now, ms) ==
  [sec  |-> now.sec + ms \div MsPerSec,
   nsec |-> now.nsec + (ms % MsPerSec) * (NsPerSec \div MsPerSec)]

\* The absolute time that fq_condition_timedwait gives to pthread_cond_timedwait.
Deadline(now, ms) ==
  LET nsec == now.nsec + (ms % MsPerSec) * (NsPerSec \div MsPerSec)
      carry == IF nsec >= NsPerSec THEN 1 ELSE 0
  IN [sec |-> now.sec + ms \div MsPerSec + carry, nsec |-> nsec - carry * NsPerSec]

\* The relative time that fq_thread_sleep_ms gives to nanosleep.
SleepTime(ms) ==
  [sec |-> ms \div MsPerSec, nsec |-> (ms % MsPerSec) * (NsPerSec \div MsPerSec)]

\* time_now_ns on POSIX.
Nanoseconds(time) == time.sec * NsPerSec + time.nsec

Wrap64(x) == ((x + TimeHalf) % (2 * TimeHalf)) - TimeHalf
Truncated(x, y) == IF x >= 0 THEN x \div y ELSE -((-x) \div y)

\* time_now_ns on Windows multiplies before it divides.
WindowsNow(counter) == Truncated(Wrap64(counter * NsPerSec), TicksPerSec)

fq_timer_elapsed_ns(start_ns, now_ns) == Wrap64(now_ns - start_ns)

fq_timer_elapsed_ms(start_ns, now_ns) ==
  Truncated(fq_timer_elapsed_ns(start_ns, now_ns), NsPerSec \div MsPerSec)

-----------------------------------------------------------------------------
(* What the times should be *)

\* The deadline is a valid timespec, exactly the timeout away from now; a sleep is as
\* long as a wait.
DeadlineExact(now, ms) ==
  LET due == Deadline(now, ms)
      wait == ms * (NsPerSec \div MsPerSec)
  IN /\ due.nsec \in 0 .. NsPerSec - 1 /\ Nanoseconds(due) = Nanoseconds(now) + wait
     /\ SleepTime(ms).nsec \in 0 .. NsPerSec - 1 /\ Nanoseconds(SleepTime(ms)) = wait

\* The product that time_now_ns divides fits in 63 bits.
TimeFits(counter) == counter * NsPerSec < TimeHalf

\* A timer that was started at the counter x and is read y ticks later is never negative
\* and less than one nanosecond off.
TimerExact(x, y) ==
  LET start == WindowsNow(x)
      now == WindowsNow(x + y)
      ns == fq_timer_elapsed_ns(start, now)
  IN /\ ns >= 0
     /\ ns * TicksPerSec - y * NsPerSec \in 1 - TicksPerSec .. TicksPerSec - 1
     /\ fq_timer_elapsed_ms(start, now) = ns \div (NsPerSec \div MsPerSec)
=============================================================================
