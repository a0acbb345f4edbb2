---------------------------- MODULE RingQueueSize ----------------------------
(***************************************************************************)
(* fq_queue_size and fq_queue_empty of src/queue/queue.c, called by        *)
(* observers while other threads push and pop.  The code loads head and    *)
(* then tail, both relaxed and without a lock.  The history variable pops  *)
(* records what happened between the two loads.                            *)
(***************************************************************************)
EXTENDS RingQueue

CONSTANT Observers  \* the threads inside fq_queue_size or fq_queue_empty

ASSUME ObserverAssumption == Observers \cap Threads = {} /\ Capacity > 1

VARIABLES opc,      \* "idle", "loaded" (head has been read) or "done"
          ohead,    \* the value of head the observer has read
          size,     \* the result of fq_queue_size
          pops      \* tasks taken since head was read, counted up to Capacity

ovars == <<opc, ohead, size, pops>>
svars == <<vars, ovars>>

SizeInit ==
  /\ Init
  /\ opc = [o \in Observers |-> "idle"]
  /\ ohead = [o \in Observers |-> 0]
  /\ size = [o \in Observers |-> 0]
  /\ pops = [o \in Observers |-> 0]

SizeLoadHead(o) ==
  /\ opc[o] = "idle"
  /\ opc' = [opc EXCEPT ![o] = "loaded"]
  /\ ohead' = [ohead EXCEPT ![o] = head]
  /\ UNCHANGED <<vars, size, pops>>

\* Mutant of SizeLoadTail: the fullest ring is measured by capacity, not by mask.
SizeLoadTail_NoWrap(o) ==
  /\ opc[o] = "loaded"
  /\ opc' = [opc EXCEPT ![o] = "done"]
  /\ size' = [size EXCEPT ![o] = IF tail >= ohead[o] THEN tail - ohead[o] ELSE tail]
  /\ UNCHANGED <<vars, ohead, pops>>

SizeLoadTail(o) ==
  /\ opc[o] = "loaded"
  /\ opc' = [opc EXCEPT ![o] = "done"]
  /\ size' = [size EXCEPT ![o] = Distance(ohead[o], tail)]
  /\ UNCHANGED <<vars, ohead, pops>>

\* fq_queue_empty compares the size with 0; the locals are gone.
SizeReturn(o) ==
  /\ opc[o] = "done"
  /\ opc' = [opc EXCEPT ![o] = "idle"]
  /\ ohead' = [ohead EXCEPT ![o] = 0]
  /\ size' = [size EXCEPT ![o] = 0]
  /\ pops' = [pops EXCEPT ![o] = 0]
  /\ UNCHANGED vars

\* A step of the ring, recorded by the observers that are between their loads.
RingStep ==
  /\ Next
  /\ pops' = [o \in Observers |->
                IF opc[o] = "loaded" /\ head' # head /\ pops[o] < Capacity
                THEN pops[o] + 1 ELSE pops[o]]
  /\ UNCHANGED <<opc, ohead, size>>

SizeNext ==
  \/ RingStep
  \/ \E o \in Observers : SizeLoadHead(o) \/ SizeLoadTail(o) \/ SizeReturn(o)

SizeSpec == SizeInit /\ [][SizeNext]_svars

Measures(o) == opc[o] = "loaded" /\ opc'[o] = "done"

\* The size (queue.c:168) counts what is stored at the second load plus what was
\* taken since the first one, as long as these are fewer than the ring has slots:
\* without a concurrent pop it is exact, and it never underestimates.  Beyond that the
\* tail may lap the head that was read, and fq_queue_empty may call a queue empty that
\* has held a task all the time.
SizeCountsTakenTasks ==
  [][\A o \in Observers :
       Measures(o) /\ Distance(head, tail) + pops[o] < Capacity
         => size'[o] = Distance(head, tail) + pops[o]]_svars
=============================================================================
