------------------------------ MODULE RingQueue ------------------------------
(***************************************************************************)
(* src/queue/queue.c: the ring buffer behind every queue of the library.   *)
(*                                                                         *)
(* A producer holds push_lock and is the only writer of tail; a consumer   *)
(* holds pop_lock and is the only writer of head.  The two sides exclude   *)
(* each other only through the two indices: a producer reads head, and a   *)
(* consumer reads tail, without the other side's lock.  Every load and     *)
(* store that another thread can observe is a step of its own.  A step     *)
(* that only touches what the caller's lock protects (loading the own      *)
(* index, the unlock that directly follows the publishing store or the     *)
(* failed test) is part of the neighbouring step.                          *)
(*                                                                         *)
(* fq_queue_size and fq_queue_empty are in RingQueueSize.  The flag        *)
(* "closed" is not modelled: fq_queue_create clears it and nothing ever    *)
(* sets it.                                                                *)
(***************************************************************************)
EXTENDS Naturals, Sequences

CONSTANTS Threads,   \* the threads that call the queue
          Tasks,     \* the task pointers
          Capacity,  \* slots of the ring: one of them always stays free
          DrainMax,  \* the "max" argument of fq_queue_drain
          NULL       \* the null pointer, and the owner of a free mutex

ASSUME CapacityAssumption == Capacity \in Nat \ {0}
ASSUME DrainAssumption == DrainMax \in Nat \ {0}
ASSUME NullAssumption == NULL \notin Tasks /\ NULL \notin Threads

\* next_pow2 rounds the capacity up, which makes "& mask" the same as "% Capacity".
ASSUME MaskAssumption == \E n \in 0 .. Capacity : Capacity = 2^n

VARIABLES buffer, head, tail,   \* the ring
          push_lock, pop_lock,  \* the owner of each mutex, or NULL
          pc,                   \* where each thread is
          op, arg, out, ret,    \* each thread's call, see FifoQueue
          pos,                  \* the index loaded under the own lock
          val                   \* what a consumer has read from its slot

vars == <<buffer, head, tail, push_lock, pop_lock, pc, op, arg, out, ret, pos, val>>

Index == 0 .. Capacity - 1

PopOps == {"pop", "try_pop", "drain"}

PushPC == {"push_check", "push_write", "push_store"}  \* inside push_lock
PopPC  == {"pop_check", "pop_read", "pop_store"}      \* inside pop_lock

TypeOK ==
  /\ buffer \in [Index -> Tasks \cup {NULL}]
  /\ head \in Index /\ tail \in Index
  /\ push_lock \in Threads \cup {NULL}
  /\ pop_lock \in Threads \cup {NULL}
  /\ pc \in [Threads -> {"idle", "push_lock", "pop_lock", "done"} \cup PushPC \cup PopPC]
  /\ op \in [Threads -> {"none", "push"} \cup PopOps]
  /\ arg \in [Threads -> Tasks \cup {NULL}]
  /\ out \in [Threads -> Seq(Tasks)]
  /\ ret \in [Threads -> {"none", "FQ_OK", "FQ_ERR_OVERFLOW", "FQ_ERR_BUSY"}]
  /\ pos \in [Threads -> Index]
  /\ val \in [Threads -> Tasks \cup {NULL}]

\* (i + 1) & mask
Inc(i) == (i + 1) % Capacity

\* (tail - head) & mask
Distance(h, t) == (t + Capacity - h) % Capacity

\* The stored tasks, oldest first.
Contents == [i \in 1 .. Distance(head, tail) |-> buffer[(head + i - 1) % Capacity]]

\* fq_queue_create: a zeroed buffer, both indices 0, both mutexes free.
Init ==
  /\ buffer = [i \in Index |-> NULL]
  /\ head = 0 /\ tail = 0
  /\ push_lock = NULL /\ pop_lock = NULL
  /\ pc  = [t \in Threads |-> "idle"]
  /\ op  = [t \in Threads |-> "none"]
  /\ arg = [t \in Threads |-> NULL]
  /\ out = [t \in Threads |-> << >>]
  /\ ret = [t \in Threads |-> "none"]
  /\ pos = [t \in Threads |-> 0]
  /\ val = [t \in Threads |-> NULL]

Goto(t, l) == pc' = [pc EXCEPT ![t] = l]

\* The call of thread t has its answer.
Finish(t, status) ==
  /\ Goto(t, "done")
  /\ ret' = [ret EXCEPT ![t] = status]

-----------------------------------------------------------------------------
(* fq_queue_push *)

PushCall(t) ==
  /\ pc[t] = "idle"
  /\ \E k \in Tasks : arg' = [arg EXCEPT ![t] = k]
  /\ op' = [op EXCEPT ![t] = "push"]
  /\ Goto(t, "push_lock")
  /\ UNCHANGED <<buffer, head, tail, push_lock, pop_lock, out, ret, pos, val>>

\* Mutant of PushLock: the producers are not serialised.
PushLock_Unlocked(t) ==
  /\ pc[t] = "push_lock"
  /\ push_lock' = t
  /\ pos' = [pos EXCEPT ![t] = tail]
  /\ Goto(t, "push_check")
  /\ UNCHANGED <<buffer, head, tail, pop_lock, op, arg, out, ret, val>>

\* fq_mutex_lock, and the relaxed load of tail, which only the owner changes.
PushLock(t) ==
  /\ pc[t] = "push_lock"
  /\ push_lock = NULL
  /\ push_lock' = t
  /\ pos' = [pos EXCEPT ![t] = tail]
  /\ Goto(t, "push_check")
  /\ UNCHANGED <<buffer, head, tail, pop_lock, op, arg, out, ret, val>>

\* Mutant of PushFull: the overflow path returns without unlocking.
PushFull_KeepsLock(t) ==
  /\ pc[t] = "push_check"
  /\ Inc(pos[t]) = head
  /\ Finish(t, "FQ_ERR_OVERFLOW")
  /\ UNCHANGED <<buffer, head, tail, push_lock, pop_lock, op, arg, out, pos, val>>

\* The acquire load of head finds the ring full.
PushFull(t) ==
  /\ pc[t] = "push_check"
  /\ Inc(pos[t]) = head
  /\ push_lock' = NULL
  /\ Finish(t, "FQ_ERR_OVERFLOW")
  /\ UNCHANGED <<buffer, head, tail, pop_lock, op, arg, out, pos, val>>

\* Mutant of PushHasRoom: tail is published before the slot is written.
PushHasRoom_PublishesFirst(t) ==
  /\ pc[t] = "push_check"
  /\ Inc(pos[t]) # head
  /\ tail' = Inc(pos[t])
  /\ Goto(t, "push_write")
  /\ UNCHANGED <<buffer, head, push_lock, pop_lock, op, arg, out, ret, pos, val>>

PushHasRoom(t) ==
  /\ pc[t] = "push_check"
  /\ Inc(pos[t]) # head
  /\ Goto(t, "push_write")
  /\ UNCHANGED <<buffer, head, tail, push_lock, pop_lock, op, arg, out, ret, pos, val>>

PushWrite(t) ==
  /\ pc[t] = "push_write"
  /\ buffer' = [buffer EXCEPT ![pos[t]] = arg[t]]
  /\ Goto(t, "push_store")
  /\ UNCHANGED <<head, tail, push_lock, pop_lock, op, arg, out, ret, pos, val>>

\* The release store of tail, and the unlock.
PushStore(t) ==
  /\ pc[t] = "push_store"
  /\ tail' = Inc(pos[t])
  /\ push_lock' = NULL
  /\ Finish(t, "FQ_OK")
  /\ UNCHANGED <<buffer, head, pop_lock, op, arg, out, pos, val>>

-----------------------------------------------------------------------------
(* fq_queue_pop, fq_queue_try_pop and fq_queue_drain *)

PopCall(t) ==
  /\ pc[t] = "idle"
  /\ \E o \in PopOps : op' = [op EXCEPT ![t] = o]
  /\ Goto(t, "pop_lock")
  /\ UNCHANGED <<buffer, head, tail, push_lock, pop_lock, arg, out, ret, pos, val>>

\* A pop locks (the trylock before it changes nothing), a try_pop trylocks;
\* then the relaxed load of head, which only the owner changes.
PopLock(t) ==
  /\ pc[t] = "pop_lock"
  /\ pop_lock = NULL
  /\ pop_lock' = t
  /\ pos' = [pos EXCEPT ![t] = head]
  /\ Goto(t, "pop_check")
  /\ UNCHANGED <<buffer, head, tail, push_lock, op, arg, out, ret, val>>

\* Mutant of TryLockFails: a try_pop waits for the lock as a pop does.
TryLockFails_Waits(t) ==
  /\ pc[t] = "pop_lock" /\ op[t] = "try_pop"
  /\ pop_lock # NULL
  /\ UNCHANGED vars

TryLockFails(t) ==
  /\ pc[t] = "pop_lock" /\ op[t] = "try_pop"
  /\ pop_lock # NULL
  /\ Finish(t, "FQ_ERR_BUSY")
  /\ UNCHANGED <<buffer, head, tail, push_lock, pop_lock, op, arg, out, pos, val>>

\* The acquire load of tail finds the ring empty: a drain stops with what it has.
PopEmpty(t) ==
  /\ pc[t] = "pop_check"
  /\ pos[t] = tail
  /\ pop_lock' = NULL
  /\ Finish(t, IF op[t] = "drain" THEN "FQ_OK" ELSE "FQ_ERR_BUSY")
  /\ UNCHANGED <<buffer, head, tail, push_lock, op, arg, out, pos, val>>

PopNonEmpty(t) ==
  /\ pc[t] = "pop_check"
  /\ pos[t] # tail
  /\ Goto(t, "pop_read")
  /\ UNCHANGED <<buffer, head, tail, push_lock, pop_lock, op, arg, out, ret, pos, val>>

\* Mutant of PopRead: head moves on before the slot has been read.
PopRead_HeadFirst(t) ==
  /\ pc[t] = "pop_read"
  /\ head' = Inc(pos[t])
  /\ val' = [val EXCEPT ![t] = buffer[pos[t]]]
  /\ Goto(t, "pop_store")
  /\ UNCHANGED <<buffer, tail, push_lock, pop_lock, op, arg, out, ret, pos>>

PopRead(t) ==
  /\ pc[t] = "pop_read"
  /\ val' = [val EXCEPT ![t] = buffer[pos[t]]]
  /\ Goto(t, "pop_store")
  /\ UNCHANGED <<buffer, head, tail, push_lock, pop_lock, op, arg, out, ret, pos>>

\* The release store of head, and the unlock; a drain pops again up to DrainMax.
PopStore(t) ==
  /\ pc[t] = "pop_store"
  /\ head' = Inc(pos[t])
  /\ pop_lock' = NULL
  /\ out' = [out EXCEPT ![t] = Append(@, val[t])]
  /\ IF op[t] = "drain" /\ Len(out[t]) + 1 < DrainMax
     THEN Goto(t, "pop_lock") /\ UNCHANGED ret
     ELSE Finish(t, "FQ_OK")
  /\ UNCHANGED <<buffer, tail, push_lock, op, arg, pos, val>>

\* The call returns and its locals are gone.
Return(t) ==
  /\ pc[t] = "done"
  /\ Goto(t, "idle")
  /\ op'  = [op EXCEPT ![t] = "none"]
  /\ arg' = [arg EXCEPT ![t] = NULL]
  /\ out' = [out EXCEPT ![t] = << >>]
  /\ ret' = [ret EXCEPT ![t] = "none"]
  /\ pos' = [pos EXCEPT ![t] = 0]
  /\ val' = [val EXCEPT ![t] = NULL]
  /\ UNCHANGED <<buffer, head, tail, push_lock, pop_lock>>

-----------------------------------------------------------------------------

Push(t) == PushLock(t) \/ PushFull(t) \/ PushHasRoom(t) \/ PushWrite(t) \/ PushStore(t)

Pop(t) == \/ PopLock(t) \/ TryLockFails(t) \/ PopEmpty(t) \/ PopNonEmpty(t)
          \/ PopRead(t) \/ PopStore(t)

\* Nobody has to call the queue, but a call that has begun keeps running.
Step(t) == Push(t) \/ Pop(t) \/ Return(t)

Next == \E t \in Threads : PushCall(t) \/ PopCall(t) \/ Step(t)

Spec == Init /\ [][Next]_vars

Fairness == \A t \in Threads : WF_vars(Step(t))

FairSpec == Spec /\ Fairness

-----------------------------------------------------------------------------
(* Correctness properties *)

\* The two sides never touch one slot at the same time: the plain write of a
\* producer (queue.c:111) meets neither another producer's write nor a consumer's
\* plain read (queue.c:133), although the two sides hold different locks.
SlotRaceFree ==
  \A p, c \in Threads :
    (p # c /\ pc[p] = "push_write" /\ pc[c] \in {"push_write", "pop_read"})
      => pos[p] # pos[c]

\* Each mutex is held by exactly the thread that is inside its critical section.
LockDiscipline ==
  \A t \in Threads : /\ pc[t] \in PushPC <=> push_lock = t
                     /\ pc[t] \in PopPC <=> pop_lock = t

\* Where a thread is tells which call it runs, and whether it has its answer.
CallState ==
  \A t \in Threads :
    /\ pc[t] = "idle" <=> op[t] = "none"
    /\ pc[t] = "done" <=> ret[t] # "none"
    /\ pc[t] \in {"push_lock"} \cup PushPC => op[t] = "push" /\ arg[t] \in Tasks
    /\ pc[t] \in {"pop_lock"} \cup PopPC => op[t] \in PopOps /\ arg[t] = NULL
    /\ pc[t] = "idle" => arg[t] = NULL /\ out[t] = << >>

\* A producer works on the slot at tail, which stays outside the contents until
\* it has been written and published.
ProducerSlot ==
  \A t \in Threads :
    /\ pc[t] \in PushPC => pos[t] = tail
    /\ pc[t] \in {"push_write", "push_store"} => Inc(tail) # head
    /\ pc[t] = "push_store" => buffer[tail] = arg[t]

\* A consumer works on the slot at head, which stays the oldest stored task until
\* it has been taken.
ConsumerSlot ==
  \A t \in Threads :
    /\ pc[t] \in PopPC => pos[t] = head
    /\ pc[t] \in {"pop_read", "pop_store"} => head # tail
    /\ pc[t] = "pop_store" => val[t] = buffer[head]

\* Every occupied slot holds a task.
OccupiedSlots ==
  \A i \in Index : Distance(head, i) < Distance(head, tail) => buffer[i] \in Tasks

\* The inductive invariant of the ring (queue.c:94-164): lock ownership, the index
\* each side works on, and what the slots in between hold.
RingInv ==
  /\ TypeOK /\ LockDiscipline /\ CallState
  /\ ProducerSlot /\ ConsumerSlot /\ OccupiedSlots

\* The ring is a linearizable bounded FIFO queue: a push takes effect when tail is
\* stored or head is loaded, a pop when head is stored or tail is loaded.  FifoQueue
\* says in which two points that queue is weaker than queue.h.
Queue == INSTANCE FifoQueue WITH items <- Contents, Bound <- Capacity - 1

Linearizable == Queue!Spec

\* No call leaves a mutex locked behind it, on any of its return paths.
LocksReleased == []<>(push_lock = NULL) /\ []<>(pop_lock = NULL)

\* fq_queue_try_pop never blocks: it returns whatever the other threads do, even
\* if every other thread keeps taking pop_lock (queue.c:146).
TryPopReturns == \A t \in Threads : op[t] = "try_pop" ~> op[t] = "none"

\* queue.h:68, "FQ_ERR_BUSY if empty": a try_pop that answers FQ_ERR_BUSY does so
\* at a moment when the ring is empty.
BusyMeansEmpty ==
  [][\A t \in Threads :
       (op[t] = "try_pop" /\ ret[t] = "none" /\ ret'[t] = "FQ_ERR_BUSY") => head = tail]_vars

\* queue.h:99, "atomically moves up to max tasks": a drain that goes on with a
\* second task finds it next to the first, so nobody has taken one in between.
DrainIsAtomic ==
  [][\A t \in Threads :
       (PopLock(t) /\ out[t] # << >> /\ head # tail) => pos'[t] = Inc(pos[t])]_vars
=============================================================================
