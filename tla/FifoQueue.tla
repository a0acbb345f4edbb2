------------------------------ MODULE FifoQueue ------------------------------
(***************************************************************************)
(* The queue that the rest of the library relies on: a bounded FIFO of     *)
(* task pointers shared by any number of threads.  Every push and pop      *)
(* takes effect in one step between its call and its return: a push        *)
(* appends or finds the queue full, a pop takes the oldest task or finds   *)
(* the queue empty.                                                        *)
(*                                                                         *)
(* It is weaker than include/fastqueue/queue.h in two points, in which the *)
(* code does not do what the header says: fq_queue_try_pop may give up     *)
(* because another thread is popping (Contended), and fq_queue_drain is a  *)
(* run of pops (Dequeue), not one step.  RingQueue states what the header  *)
(* says as BusyMeansEmpty and DrainIsAtomic, and both are violated.        *)
(***************************************************************************)
EXTENDS Naturals, Sequences

CONSTANTS Threads,   \* the threads that call the queue
          Tasks,     \* the task pointers
          Bound,     \* how many tasks the queue can hold
          DrainMax,  \* the "max" argument of fq_queue_drain
          NULL       \* the null pointer

VARIABLES items,     \* the stored tasks, oldest first
          op,        \* the call each thread is executing, or "none"
          arg,       \* the task a push was given
          out,       \* the tasks a pop or a drain has delivered
          ret        \* the status of a call that has taken effect, or "none"

vars == <<items, op, arg, out, ret>>

PopOps == {"pop", "try_pop", "drain"}

Pending(t) == op[t] # "none" /\ ret[t] = "none"

Init ==
  /\ items = << >>
  /\ op  = [t \in Threads |-> "none"]
  /\ arg = [t \in Threads |-> NULL]
  /\ out = [t \in Threads |-> << >>]
  /\ ret = [t \in Threads |-> "none"]

Call(t, o, k) ==
  /\ op[t] = "none"
  /\ op'  = [op EXCEPT ![t] = o]
  /\ arg' = [arg EXCEPT ![t] = k]
  /\ UNCHANGED <<items, out, ret>>

CallPush(t) == \E k \in Tasks : Call(t, "push", k)

CallPop(t) == \E o \in PopOps : Call(t, o, NULL)

Answer(t, status) == ret' = [ret EXCEPT ![t] = status]

Enqueue(t) ==
  /\ Pending(t) /\ op[t] = "push"
  /\ Len(items) < Bound
  /\ items' = Append(items, arg[t])
  /\ Answer(t, "FQ_OK")
  /\ UNCHANGED <<op, arg, out>>

Overflow(t) ==
  /\ Pending(t) /\ op[t] = "push"
  /\ Len(items) = Bound
  /\ Answer(t, "FQ_ERR_OVERFLOW")
  /\ UNCHANGED <<items, op, arg, out>>

\* One pop.  A drain goes on after a task it has taken until it holds DrainMax of them.
Dequeue(t) ==
  /\ Pending(t) /\ op[t] \in PopOps
  /\ items # << >>
  /\ items' = Tail(items)
  /\ out' = [out EXCEPT ![t] = Append(@, Head(items))]
  /\ Answer(t, IF op[t] = "drain" /\ Len(out[t]) + 1 < DrainMax
               THEN "none" ELSE "FQ_OK")
  /\ UNCHANGED <<op, arg>>

FoundEmpty(t) ==
  /\ Pending(t) /\ op[t] \in PopOps
  /\ items = << >>
  /\ Answer(t, IF op[t] = "drain" THEN "FQ_OK" ELSE "FQ_ERR_BUSY")
  /\ UNCHANGED <<items, op, arg, out>>

\* The try_pop of a thread that meets another popper, whatever the contents.
Contended(t) ==
  /\ Pending(t) /\ op[t] = "try_pop"
  /\ \E u \in Threads \ {t} : Pending(u) /\ op[u] \in PopOps
  /\ Answer(t, "FQ_ERR_BUSY")
  /\ UNCHANGED <<items, op, arg, out>>

Return(t) ==
  /\ ret[t] # "none"
  /\ op'  = [op EXCEPT ![t] = "none"]
  /\ arg' = [arg EXCEPT ![t] = NULL]
  /\ out' = [out EXCEPT ![t] = << >>]
  /\ ret' = [ret EXCEPT ![t] = "none"]
  /\ UNCHANGED items

Next == \E t \in Threads :
  \/ CallPush(t) \/ CallPop(t)
  \/ Enqueue(t) \/ Overflow(t)
  \/ Dequeue(t) \/ FoundEmpty(t) \/ Contended(t)
  \/ Return(t)

Spec == Init /\ [][Next]_vars
==============================================================================
