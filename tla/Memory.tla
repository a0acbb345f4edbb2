------------------------------- MODULE Memory -------------------------------
(***************************************************************************)
(* src/memory/memory.c: the default allocator, used by several threads.    *)
(* Every atomic operation on the four global counters is a step of its     *)
(* own.  malloc, realloc and free are external: they may fail, and they    *)
(* hand out blocks of exactly the bytes asked for.                         *)
(***************************************************************************)
EXTENDS Atomics, FiniteSets, FiniteSetsExt

CONSTANTS Threads,
          Ptrs,       \* the addresses that malloc hands out
          Sizes,      \* the arguments of fq_alloc and fq_realloc
          Counts,     \* the pairs <<count, size>> given to fq_calloc
          SIZE_MAX,
          Header,     \* sizeof(fq_alloc_header_t)
          Build,      \* the branch of atomic.h that is compiled
          NULL

ASSUME MemoryAssumption ==
  /\ SIZE_MAX \in Nat /\ Header \in 1 .. SIZE_MAX
  /\ Sizes \subseteq 0 .. SIZE_MAX /\ Counts \subseteq (0 .. SIZE_MAX) \X (0 .. SIZE_MAX)
  /\ Build \in Builds
  /\ NULL \notin Ptrs \cup [size : Nat, bytes : Nat, want : Nat]
  /\ IsFiniteSet(Threads) /\ IsFiniteSet(Ptrs)

VARIABLES g_alloc_count, g_free_count, g_allocated, g_peak,
          block,    \* what lies at each address: NULL, or the header's size, the bytes
                    \* that malloc gave, and the bytes that the caller wanted to use
          pc, job, ptr, old, new_val, p,   \* each thread's call and its locals
          over      \* history: the outstanding bytes have left the range of an int

globals == <<g_alloc_count, g_free_count, g_allocated, g_peak>>
locals == <<job, ptr, old, new_val, p>>
vars == <<globals, block, pc, locals, over>>

MemoryInit ==
  /\ g_alloc_count = 0 /\ g_free_count = 0 /\ g_allocated = 0 /\ g_peak = 0
  /\ block = [b \in Ptrs |-> NULL]
  /\ pc = [t \in Threads |-> "idle"]
  /\ job = [t \in Threads |-> "none"]
  /\ ptr = [t \in Threads |-> NULL]
  /\ old = [t \in Threads |-> 0]
  /\ new_val = [t \in Threads |-> 0]
  /\ p = [t \in Threads |-> 0]
  /\ over = FALSE

Goto(t, l) == pc' = [pc EXCEPT ![t] = l]

\* The call of thread t is over and its locals are gone.
Leave(t) ==
  /\ Goto(t, "idle")
  /\ job' = [job EXCEPT ![t] = "none"]
  /\ ptr' = [ptr EXCEPT ![t] = NULL]
  /\ old' = [old EXCEPT ![t] = 0]
  /\ new_val' = [new_val EXCEPT ![t] = 0]
  /\ p' = [p EXCEPT ![t] = 0]

Live == {b \in Ptrs : block[b] # NULL}

\* The program passes a block to one call at a time.
Free(b) == b \in Live /\ \A t \in Threads : ptr[t] # b

\* malloc(sizeof(*h) + size), where the sum is a size_t, and the header.
Fresh(size, want) ==
  [size |-> size, bytes |-> (Header + size) % (SIZE_MAX + 1), want |-> want]

\* size & 0x7FFFFFFF
Sz32(size) == size % IntHalf

-----------------------------------------------------------------------------
(* default_alloc, reached through fq_alloc and fq_calloc *)

Start(t, size, want) ==
  /\ pc[t] = "idle"
  /\ \E b \in Ptrs \ Live :
       /\ block' = [block EXCEPT ![b] = Fresh(size, want)]
       /\ ptr' = [ptr EXCEPT ![t] = b]
  /\ job' = [job EXCEPT ![t] = "alloc"]
  /\ Goto(t, "add")
  /\ UNCHANGED <<globals, old, new_val, p, over>>

fq_alloc(t) == \E size \in Sizes : Start(t, size, size)

\* Mutant of fq_calloc: the product is not checked.
fq_calloc_Unchecked(t) ==
  \E c \in Counts : Start(t, (c[1] * c[2]) % (SIZE_MAX + 1), c[1] * c[2])

\* The product is checked with a division before it is formed.
fq_calloc(t) ==
  \E c \in Counts :
    /\ ~(c[1] # 0 /\ c[2] > SIZE_MAX \div c[1])
    /\ Start(t, (c[1] * c[2]) % (SIZE_MAX + 1), c[1] * c[2])

\* realloc moves the block or grows it in place; when it fails the call returns NULL
\* and the old block stays.  Without a pointer it is fq_alloc.
fq_realloc(t) ==
  /\ pc[t] = "idle"
  /\ \E b \in Ptrs, size \in Sizes :
       /\ Free(b)
       /\ \E to \in {b} \cup (Ptrs \ Live) :
            /\ block' = [block EXCEPT ![b] = NULL, ![to] = Fresh(size, size)]
            /\ ptr' = [ptr EXCEPT ![t] = to]
       /\ old' = [old EXCEPT ![t] = block[b].size]
  /\ job' = [job EXCEPT ![t] = "realloc"]
  /\ Goto(t, "sub")
  /\ UNCHANGED <<globals, new_val, p, over>>

fq_free(t) ==
  /\ pc[t] = "idle"
  /\ \E b \in Ptrs :
       /\ Free(b)
       /\ ptr' = [ptr EXCEPT ![t] = b]
       /\ old' = [old EXCEPT ![t] = block[b].size]
  /\ job' = [job EXCEPT ![t] = "free"]
  /\ Goto(t, "sub")
  /\ UNCHANGED <<globals, block, new_val, p, over>>

-----------------------------------------------------------------------------
(* stats_free *)

\* Mutant of StatsSub: the size is not masked as it was when it was added.
StatsSub_Unmasked(t) ==
  /\ pc[t] = "sub"
  /\ g_allocated' = fetch_sub(g_allocated, old[t])
  /\ Goto(t, "fcount")
  /\ UNCHANGED <<g_alloc_count, g_free_count, g_peak, block, locals, over>>

StatsSub(t) ==
  /\ pc[t] = "sub"
  /\ g_allocated' = fetch_sub(g_allocated, Sz32(old[t]))
  /\ Goto(t, "fcount")
  /\ UNCHANGED <<g_alloc_count, g_free_count, g_peak, block, locals, over>>

\* A realloc goes on to stats_alloc, a free to free().
StatsFreeCount(t) ==
  /\ pc[t] = "fcount"
  /\ g_free_count' = fetch_add(g_free_count, 1)
  /\ Goto(t, IF job[t] = "realloc" THEN "add" ELSE "release")
  /\ UNCHANGED <<g_alloc_count, g_allocated, g_peak, block, locals, over>>

Release(t) ==
  /\ pc[t] = "release"
  /\ block' = [block EXCEPT ![ptr[t]] = NULL]
  /\ Leave(t)
  /\ UNCHANGED <<globals, over>>

-----------------------------------------------------------------------------
(* stats_alloc *)

\* new_val is prev + sz32: what the counter held right after the addition.
StatsAdd(t) ==
  LET sz32 == Sz32(block[ptr[t]].size) IN
  /\ pc[t] = "add"
  /\ g_allocated' = fetch_add(g_allocated, sz32)
  /\ new_val' = [new_val EXCEPT ![t] = Wrap(g_allocated + sz32)]
  /\ over' = (over \/ g_allocated + sz32 >= IntHalf)
  /\ Goto(t, "count")
  /\ UNCHANGED <<g_alloc_count, g_free_count, g_peak, block, job, ptr, old, p>>

StatsCount(t) ==
  /\ pc[t] = "count"
  /\ g_alloc_count' = fetch_add(g_alloc_count, 1)
  /\ Goto(t, "load")
  /\ UNCHANGED <<g_free_count, g_allocated, g_peak, block, locals, over>>

\* The head of the loop.
LoadPeakHigher(t) ==
  /\ pc[t] = "load" /\ new_val[t] > g_peak
  /\ p' = [p EXCEPT ![t] = g_peak]
  /\ Goto(t, "cas")
  /\ UNCHANGED <<globals, block, job, ptr, old, new_val, over>>

LoadPeakEnough(t) ==
  /\ pc[t] = "load" /\ new_val[t] <= g_peak
  /\ Leave(t)
  /\ UNCHANGED <<globals, block, over>>

\* Mutant of CasSucceeds: a store in place of the compare-and-exchange.
CasSucceeds_Store(t) ==
  /\ pc[t] = "cas"
  /\ g_peak' = new_val[t]
  /\ Leave(t)
  /\ UNCHANGED <<g_alloc_count, g_free_count, g_allocated, block, over>>

CasSucceeds(t) ==
  /\ pc[t] = "cas" /\ g_peak = p[t]
  /\ g_peak' = new_val[t]
  /\ Leave(t)
  /\ UNCHANGED <<g_alloc_count, g_free_count, g_allocated, block, over>>

\* Mutant of CasFails: the loop does not load the peak again.
CasFails_KeepsOld(t) ==
  /\ pc[t] = "cas" /\ CasMayFail(Build, g_peak, p[t])
  /\ UNCHANGED vars

\* p is loaded anew at the head of the loop.
CasFails(t) ==
  /\ pc[t] = "cas" /\ CasMayFail(Build, g_peak, p[t])
  /\ Goto(t, "load")
  /\ UNCHANGED <<globals, block, locals, over>>

-----------------------------------------------------------------------------

Step(t) == \/ StatsSub(t) \/ StatsFreeCount(t) \/ Release(t)
           \/ StatsAdd(t) \/ StatsCount(t) \/ LoadPeakHigher(t) \/ LoadPeakEnough(t)
           \/ CasSucceeds(t) \/ CasFails(t)

MemoryNext == \E t \in Threads : fq_alloc(t) \/ fq_calloc(t) \/ fq_realloc(t) \/ fq_free(t) \/ Step(t)

\* A call that has begun keeps running, and a weak compare-and-exchange that could
\* succeed again and again does so in the end.
MemoryFairness == \A t \in Threads : WF_vars(Step(t)) /\ SF_vars(CasSucceeds(t))

MemorySpec == MemoryInit /\ [][MemoryNext]_vars /\ MemoryFairness

-----------------------------------------------------------------------------
(* Correctness properties *)

\* What a live block contributes to g_allocated, given how far the call on it has come.
Counted(b) ==
  IF \E t \in Threads : ptr[t] = b /\ pc[t] \in {"add", "fcount", "release"} THEN 0
  ELSE IF \E t \in Threads : ptr[t] = b /\ pc[t] = "sub"
       THEN Sz32(old[CHOOSE t \in Threads : ptr[t] = b])
       ELSE Sz32(block[b].size)

\* The statistics balance (memory.c:23-87): between any two steps of any threads they are
\* the sum and the number of the live blocks, up to what the calls under way have not
\* yet counted, modulo the width of an int; so all are 0 again once everything is freed.
StatsBalance ==
  /\ g_allocated = Wrap(MapThenSumSet(Counted, Live))
  /\ Wrap(g_alloc_count - g_free_count) =
       Wrap(Cardinality(Live) - Cardinality({t \in Threads : pc[t] \in {"add", "count", "release"}}))

\* memory.h:97 calls peak_bytes the "High-water mark": no value of g_allocated is missed,
\* although several threads raise the peak without a lock (memory.c:31-39), as long as
\* the outstanding bytes fit an int.
PeakCatchesUp ==
  over \/ g_allocated <= g_peak
       \/ \E t \in Threads : pc[t] \in {"count", "load", "cas"} /\ g_allocated <= new_val[t]

\* A block has room for what the caller asked for: fq_calloc never wraps (memory.c:111),
\* and the sum with the header (memory.c:54, 69) wraps only within a header of SIZE_MAX.
RoomForRequest ==
  \A b \in Live : \/ block[b].bytes >= Header + block[b].want
                  \/ block[b].want > SIZE_MAX - Header /\ block[b].want = block[b].size

\* The loop that raises the peak ends (memory.c:31): each failure is spurious or due to
\* another thread's success, and successes only raise the peak.
PeakLoopEnds == \A t \in Threads : pc[t] = "load" ~> pc[t] = "idle"
=============================================================================
