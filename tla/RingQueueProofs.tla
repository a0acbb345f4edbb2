--------------------------- MODULE RingQueueProofs ---------------------------
(***************************************************************************)
(* Proofs about RingQueue for any number of threads and tasks, any         *)
(* capacity and any drain size: RingInv is an invariant, the slots are     *)
(* free of races, the ring implements FifoQueue, and fq_queue_size counts  *)
(* what it should.                                                         *)
(***************************************************************************)
EXTENDS RingQueueSize, TLAPS

\* One lap of the ring: the remainder of a number below twice the capacity.
LEMMA ModBelow ==
  ASSUME NEW x \in Nat, x < Capacity
  PROVE  x % Capacity = x
  BY CapacityAssumption

\* The second lap.
LEMMA ModLap ==
  ASSUME NEW x \in Nat, Capacity <= x, x < 2 * Capacity
  PROVE  x % Capacity = x - Capacity
  BY CapacityAssumption

\* The masked increment wraps the last index to 0 and stays an index.
LEMMA IncWrap ==
  ASSUME NEW i \in Index
  PROVE  /\ Inc(i) \in Index
         /\ Inc(i) = IF i + 1 = Capacity THEN 0 ELSE i + 1
  BY CapacityAssumption DEF Index, Inc

\* The masked difference is the number of steps from h up to t around the ring.
LEMMA DistanceWrap ==
  ASSUME NEW h \in Index, NEW t \in Index
  PROVE  /\ Distance(h, t) \in Index
         /\ Distance(h, t) = IF h <= t THEN t - h ELSE t + Capacity - h
<1>1. h \in Nat /\ t \in Nat /\ h < Capacity /\ t < Capacity
  BY CapacityAssumption DEF Index
<1>2. CASE h <= t
  <2>1. t + Capacity - h \in Nat /\ Capacity <= t + Capacity - h
        /\ t + Capacity - h < 2 * Capacity
    BY <1>1, <1>2, CapacityAssumption
  <2>2. (t + Capacity - h) % Capacity = t + Capacity - h - Capacity
    BY <1>1, <2>1, ModLap, CapacityAssumption
  <2> QED BY <1>1, <1>2, <2>2, CapacityAssumption DEF Distance, Index
<1>3. CASE ~(h <= t)
  <2>1. t + Capacity - h \in Nat /\ t + Capacity - h < Capacity
    BY <1>1, <1>3, CapacityAssumption
  <2>2. (t + Capacity - h) % Capacity = t + Capacity - h
    BY <1>1, <2>1, ModBelow, CapacityAssumption
  <2> QED BY <1>1, <1>3, <2>1, <2>2, CapacityAssumption DEF Distance, Index
<1> QED BY <1>2, <1>3

\* The ring is empty when the indices meet, and full one step before they do.
LEMMA EmptyFull ==
  ASSUME NEW h \in Index, NEW t \in Index
  PROVE  /\ Distance(h, t) = 0 <=> h = t
         /\ Distance(h, t) = Capacity - 1 <=> Inc(t) = h
<1>1. h \in Nat /\ t \in Nat /\ h < Capacity /\ t < Capacity
  BY CapacityAssumption DEF Index
<1>2. Inc(t) = IF t + 1 = Capacity THEN 0 ELSE t + 1
  BY IncWrap
<1>3. Distance(h, t) = IF h <= t THEN t - h ELSE t + Capacity - h
  BY DistanceWrap
<1> QED BY <1>1, <1>2, <1>3, CapacityAssumption

\* A ring whose indices differ has a slot at its head that is occupied.
LEMMA HeadOccupied ==
  ASSUME NEW h \in Index, NEW t \in Index, h # t
  PROVE  Distance(h, h) = 0 /\ Distance(h, t) > 0
<1>1. Distance(h, h) = 0 /\ Distance(h, t) # 0
  BY EmptyFull
<1>2. Distance(h, t) \in Nat
  BY DistanceWrap, CapacityAssumption DEF Index
<1> QED
  BY <1>1, <1>2

\* Storing the next tail adds one step to the distance, and one slot to the ring.
LEMMA DistancePush ==
  ASSUME NEW h \in Index, NEW t \in Index, Inc(t) # h
  PROVE  /\ Distance(h, Inc(t)) = Distance(h, t) + 1
         /\ \A i \in Index : Distance(h, i) = Distance(h, t) <=> i = t
<1>1. h \in Nat /\ t \in Nat /\ h < Capacity /\ t < Capacity
  BY CapacityAssumption DEF Index
<1>2. Inc(t) \in Index /\ Inc(t) = IF t + 1 = Capacity THEN 0 ELSE t + 1
  BY IncWrap
<1>3. Distance(h, t) = IF h <= t THEN t - h ELSE t + Capacity - h
  BY DistanceWrap
<1>4. Distance(h, Inc(t)) = IF h <= Inc(t) THEN Inc(t) - h ELSE Inc(t) + Capacity - h
  BY <1>2, DistanceWrap
<1>5. Distance(h, Inc(t)) = Distance(h, t) + 1
  BY <1>1, <1>2, <1>3, <1>4, CapacityAssumption
<1>6. ASSUME NEW i \in Index PROVE Distance(h, i) = Distance(h, t) <=> i = t
  <2>1. Distance(h, i) = IF h <= i THEN i - h ELSE i + Capacity - h
    BY DistanceWrap
  <2>2. i \in Nat /\ i < Capacity
    BY CapacityAssumption DEF Index
  <2> QED BY <1>1, <1>3, <2>1, <2>2, CapacityAssumption
<1> QED BY <1>5, <1>6

\* Storing the next head takes one step off the distance of every later slot.
LEMMA DistancePop ==
  ASSUME NEW h \in Index, NEW t \in Index, h # t
  PROVE  /\ Inc(h) # Inc(t)
         /\ Distance(Inc(h), t) = Distance(h, t) - 1
<1>1. h \in Nat /\ t \in Nat /\ h < Capacity /\ t < Capacity
  BY CapacityAssumption DEF Index
<1>2. /\ Inc(h) \in Index /\ Inc(h) = IF h + 1 = Capacity THEN 0 ELSE h + 1
      /\ Inc(t) = IF t + 1 = Capacity THEN 0 ELSE t + 1
  BY IncWrap
<1>3. Distance(h, t) = IF h <= t THEN t - h ELSE t + Capacity - h
  BY DistanceWrap
<1>4. Distance(Inc(h), t) = IF Inc(h) <= t THEN t - Inc(h) ELSE t + Capacity - Inc(h)
  BY <1>2, DistanceWrap
<1> QED BY <1>1, <1>2, <1>3, <1>4, CapacityAssumption

\* fq_queue_create establishes the invariant.
LEMMA InitRingInv == Init => RingInv
<1> SUFFICES ASSUME Init PROVE RingInv
  OBVIOUS
<1>1. 0 \in Index
  BY CapacityAssumption DEF Index
<1>2. TypeOK
  BY <1>1 DEF Init, TypeOK, PushPC, PopPC, PopOps
<1>3. LockDiscipline /\ CallState /\ ProducerSlot /\ ConsumerSlot
  BY NullAssumption DEF Init, LockDiscipline, CallState, ProducerSlot, ConsumerSlot,
                        PushPC, PopPC, PopOps
<1>4. OccupiedSlots
  <2>1. SUFFICES ASSUME NEW i \in Index, Distance(0, i) < Distance(0, 0) PROVE FALSE
    BY DEF Init, OccupiedSlots
  <2> QED BY <1>1, <2>1, DistanceWrap, CapacityAssumption DEF Index
<1> QED BY <1>2, <1>3, <1>4 DEF RingInv
\* Every step of a thread preserves the invariant.
LEMMA NextRingInv == RingInv /\ [Next]_vars => RingInv'
<1> SUFFICES ASSUME RingInv, [Next]_vars PROVE RingInv'
  OBVIOUS
<1> USE NullAssumption DEF PushPC, PopPC, PopOps, Goto, Finish, RingInv, TypeOK,
        LockDiscipline, CallState, ProducerSlot, ConsumerSlot
<1>0. CASE UNCHANGED vars
  BY <1>0 DEF vars, OccupiedSlots
<1>1. ASSUME NEW t \in Threads, PushCall(t) PROVE RingInv'
  <2> USE <1>1 DEF PushCall
  <2>1. TypeOK' /\ LockDiscipline' /\ CallState'
    OBVIOUS
  <2>2. ProducerSlot' /\ ConsumerSlot'
    OBVIOUS
  <2>3. OccupiedSlots'
    BY DEF OccupiedSlots
  <2> QED BY <2>1, <2>2, <2>3
<1>2. ASSUME NEW t \in Threads, PushLock(t) PROVE RingInv'
  <2> USE <1>2 DEF PushLock
  <2>1. TypeOK' /\ LockDiscipline' /\ CallState'
    OBVIOUS
  <2>2. ProducerSlot' /\ ConsumerSlot'
    OBVIOUS
  <2>3. OccupiedSlots'
    BY DEF OccupiedSlots
  <2> QED BY <2>1, <2>2, <2>3
<1>3. ASSUME NEW t \in Threads, PushFull(t) PROVE RingInv'
  <2> USE <1>3 DEF PushFull
  <2>1. TypeOK' /\ LockDiscipline' /\ CallState'
    OBVIOUS
  <2>2. ProducerSlot' /\ ConsumerSlot'
    OBVIOUS
  <2>3. OccupiedSlots'
    BY DEF OccupiedSlots
  <2> QED BY <2>1, <2>2, <2>3
<1>4. ASSUME NEW t \in Threads, PushHasRoom(t) PROVE RingInv'
  <2> USE <1>4 DEF PushHasRoom
  <2>1. TypeOK' /\ LockDiscipline' /\ CallState'
    OBVIOUS
  <2>2. ProducerSlot' /\ ConsumerSlot'
    OBVIOUS
  <2>3. OccupiedSlots'
    BY DEF OccupiedSlots
  <2> QED BY <2>1, <2>2, <2>3
<1>5. ASSUME NEW t \in Threads, PushWrite(t) PROVE RingInv'
  <2> USE <1>5 DEF PushWrite
  <2>1. TypeOK' /\ LockDiscipline' /\ CallState'
    OBVIOUS
  <2>2. ProducerSlot' /\ ConsumerSlot'
    OBVIOUS
  <2>3. OccupiedSlots'
    BY DEF OccupiedSlots
  <2> QED BY <2>1, <2>2, <2>3
<1>6. ASSUME NEW t \in Threads, PushStore(t) PROVE RingInv'
  <2> USE <1>6 DEF PushStore
  <2>1. tail' = Inc(tail) /\ Inc(tail) \in Index /\ Inc(tail) # head
        /\ buffer[tail] \in Tasks /\ UNCHANGED <<buffer, head>>
    BY IncWrap
  <2>2. TypeOK' /\ LockDiscipline' /\ CallState'
    BY <2>1
  <2>3. ProducerSlot' /\ ConsumerSlot'
    BY <2>1
  <2>4. ASSUME NEW i \in Index, Distance(head, i) < Distance(head, tail')
        PROVE  buffer[i] \in Tasks
    <3> HIDE <1>6
    <3>1. /\ Distance(head, tail') = Distance(head, tail) + 1
          /\ Distance(head, i) = Distance(head, tail) => i = tail
          /\ Distance(head, i) \in Nat /\ Distance(head, tail) \in Nat
      BY <2>1, DistancePush, DistanceWrap DEF Index
    <3>2. Distance(head, i) < Distance(head, tail) \/ i = tail
      BY <2>4, <3>1
    <3> QED BY <2>1, <3>2 DEF OccupiedSlots
  <2>5. OccupiedSlots'
    BY <2>1, <2>4 DEF OccupiedSlots
  <2> QED BY <2>2, <2>3, <2>5
<1>7. ASSUME NEW t \in Threads, PopCall(t) PROVE RingInv'
  <2> USE <1>7 DEF PopCall
  <2>1. TypeOK' /\ LockDiscipline' /\ CallState'
    OBVIOUS
  <2>2. ProducerSlot' /\ ConsumerSlot'
    OBVIOUS
  <2>3. OccupiedSlots'
    BY DEF OccupiedSlots
  <2> QED BY <2>1, <2>2, <2>3
<1>8. ASSUME NEW t \in Threads, PopLock(t) PROVE RingInv'
  <2> USE <1>8 DEF PopLock
  <2>1. TypeOK' /\ LockDiscipline' /\ CallState'
    OBVIOUS
  <2>2. ProducerSlot' /\ ConsumerSlot'
    OBVIOUS
  <2>3. OccupiedSlots'
    BY DEF OccupiedSlots
  <2> QED BY <2>1, <2>2, <2>3
<1>9. ASSUME NEW t \in Threads, TryLockFails(t) PROVE RingInv'
  <2> USE <1>9 DEF TryLockFails
  <2>1. TypeOK' /\ LockDiscipline' /\ CallState'
    OBVIOUS
  <2>2. ProducerSlot' /\ ConsumerSlot'
    OBVIOUS
  <2>3. OccupiedSlots'
    BY DEF OccupiedSlots
  <2> QED BY <2>1, <2>2, <2>3
<1>10. ASSUME NEW t \in Threads, PopEmpty(t) PROVE RingInv'
  <2> USE <1>10 DEF PopEmpty
  <2>1. TypeOK' /\ LockDiscipline' /\ CallState'
    OBVIOUS
  <2>2. ProducerSlot' /\ ConsumerSlot'
    OBVIOUS
  <2>3. OccupiedSlots'
    BY DEF OccupiedSlots
  <2> QED BY <2>1, <2>2, <2>3
<1>11. ASSUME NEW t \in Threads, PopNonEmpty(t) PROVE RingInv'
  <2> USE <1>11 DEF PopNonEmpty
  <2>1. TypeOK' /\ LockDiscipline' /\ CallState'
    OBVIOUS
  <2>2. ProducerSlot' /\ ConsumerSlot'
    OBVIOUS
  <2>3. OccupiedSlots'
    BY DEF OccupiedSlots
  <2> QED BY <2>1, <2>2, <2>3
<1>12. ASSUME NEW t \in Threads, PopRead(t) PROVE RingInv'
  <2> USE <1>12 DEF PopRead
  <2>1. TypeOK' /\ LockDiscipline' /\ CallState'
    OBVIOUS
  <2>2. ProducerSlot' /\ ConsumerSlot'
    OBVIOUS
  <2>3. OccupiedSlots'
    BY DEF OccupiedSlots
  <2> QED BY <2>1, <2>2, <2>3
<1>13. ASSUME NEW t \in Threads, PopStore(t) PROVE RingInv'
  <2>0. /\ \/ pc' = [pc EXCEPT ![t] = "pop_lock"] /\ ret' = ret
           \/ pc' = [pc EXCEPT ![t] = "done"] /\ ret' = [ret EXCEPT ![t] = "FQ_OK"]
        /\ pc[t] = "pop_store" /\ pop_lock' = NULL /\ head' = Inc(pos[t])
        /\ out' = [out EXCEPT ![t] = Append(@, val[t])]
        /\ UNCHANGED <<buffer, tail, push_lock, op, arg, pos, val>>
    BY <1>13 DEF PopStore
  <2>1. /\ head' = Inc(head) /\ Inc(head) \in Index /\ head # tail
        /\ val[t] = buffer[head]
    BY <2>0, IncWrap
  <2>2. buffer[head] \in Tasks
    <3>1. Distance(head, head) = 0 /\ Distance(head, tail) > 0
      <4>1. head \in Index /\ tail \in Index
        OBVIOUS
      <4> QED BY <2>1, <4>1, HeadOccupied
    <3> QED BY <3>1 DEF OccupiedSlots
  <2>3. TypeOK'
    <3>1. Append(out[t], val[t]) \in Seq(Tasks)
      BY <2>1, <2>2
    <3>2. out' \in [Threads -> Seq(Tasks)]
      BY <2>0, <3>1
    <3>3. pc' \in [Threads -> {"idle", "push_lock", "pop_lock", "done"} \cup PushPC \cup PopPC]
      BY <2>0
    <3>4. ret' \in [Threads -> {"none", "FQ_OK", "FQ_ERR_OVERFLOW", "FQ_ERR_BUSY"}]
      BY <2>0
    <3> QED BY <2>0, <2>1, <3>2, <3>3, <3>4
  <2>4. LockDiscipline' /\ CallState'
    BY <2>0
  <2>5. Inc(tail) # head'
    BY <2>1, DistancePop
  <2>6. ProducerSlot'
    BY <2>0, <2>5
  <2>7. ConsumerSlot'
    <3>1. pop_lock = t
      BY <2>0
    <3>2. ASSUME NEW u \in Threads, u # t PROVE pc'[u] \notin PopPC
      BY <2>0, <3>1, <3>2
    <3>3. pc'[t] \notin PopPC
      BY <2>0
    <3> QED BY <3>2, <3>3
  <2>8. ASSUME NEW i \in Index, Distance(head', i) < Distance(head', tail)
        PROVE  Distance(head, i) < Distance(head, tail)
    <3>1. Distance(head', tail) = Distance(head, tail) - 1
      BY <2>1, DistancePop
    <3>2. Distance(head', i) = Distance(head, i) - 1 \/ i = head
      BY <2>1, DistancePop
    <3>3. Distance(head, head) = 0 /\ Distance(head, tail) # 0
      BY <2>1, EmptyFull
    <3>4. Distance(head, i) \in Nat /\ Distance(head, tail) \in Nat
      BY DistanceWrap DEF Index
    <3> QED BY <2>8, <3>1, <3>2, <3>3, <3>4
  <2>9. OccupiedSlots'
    BY <2>0, <2>8 DEF OccupiedSlots
  <2> QED BY <2>3, <2>4, <2>6, <2>7, <2>9
<1>14. ASSUME NEW t \in Threads, Return(t) PROVE RingInv'
  <2> USE <1>14 DEF Return
  <2>1. 0 \in Index /\ << >> \in Seq(Tasks)
    BY CapacityAssumption DEF Index
  <2>2. TypeOK'
    BY <2>1
  <2>3. LockDiscipline' /\ CallState'
    OBVIOUS
  <2>4. ProducerSlot' /\ ConsumerSlot'
    OBVIOUS
  <2>5. OccupiedSlots'
    BY DEF OccupiedSlots
  <2> QED BY <2>2, <2>3, <2>4, <2>5
<1> QED BY <1>0, <1>1, <1>2, <1>3, <1>4, <1>5, <1>6, <1>7, <1>8, <1>9, <1>10, <1>11, <1>12, <1>13, <1>14 DEF Next, Step, Push, Pop

\* The inductive invariant of the ring holds in every behaviour of queue.c.
THEOREM RingInvariant == Spec => []RingInv
<1>1. Init => RingInv
  BY InitRingInv
<1>2. RingInv /\ [Next]_vars => RingInv'
  BY NextRingInv
<1> QED BY <1>1, <1>2, PTL DEF Spec

\* The unlocked pair of sides never meets in one slot (queue.c:111 and 133).
THEOREM NoSlotRace == Spec => []SlotRaceFree
<1>1. RingInv => SlotRaceFree
  BY NullAssumption DEF RingInv, LockDiscipline, ProducerSlot, ConsumerSlot, SlotRaceFree, PushPC, PopPC
<1> QED BY <1>1, RingInvariant, PTL

-----------------------------------------------------------------------------
(* The ring implements the bounded FIFO queue *)

Slot(h, i) == (h + i - 1) % Capacity

\* The i-th stored task lies i - 1 steps after head.
LEMMA SlotDistance ==
  ASSUME NEW h \in Index, NEW i \in 1 .. Capacity
  PROVE  /\ Slot(h, i) \in Index
         /\ Slot(h, i) = IF h + i - 1 < Capacity THEN h + i - 1 ELSE h + i - 1 - Capacity
         /\ Distance(h, Slot(h, i)) = i - 1
<1>1. h \in Nat /\ i \in Nat /\ h < Capacity /\ 1 <= i /\ i <= Capacity
  BY CapacityAssumption DEF Index
<1>2. h + i - 1 \in Nat /\ h + i - 1 < 2 * Capacity
  BY <1>1, CapacityAssumption
<1>3. Slot(h, i) = IF h + i - 1 < Capacity THEN h + i - 1 ELSE h + i - 1 - Capacity
  BY <1>1, <1>2, ModBelow, ModLap, CapacityAssumption DEF Slot
<1>4. Slot(h, i) \in Index
  BY <1>1, <1>3, CapacityAssumption DEF Index
<1>5. Distance(h, Slot(h, i)) =
        IF h <= Slot(h, i) THEN Slot(h, i) - h ELSE Slot(h, i) + Capacity - h
  BY <1>4, DistanceWrap
<1> QED BY <1>1, <1>3, <1>4, <1>5, CapacityAssumption

\* The contents are a sequence of as many tasks as the indices are apart.
LEMMA ContentsSeq ==
  ASSUME RingInv
  PROVE  /\ Contents = [i \in 1 .. Distance(head, tail) |-> buffer[Slot(head, i)]]
         /\ Contents \in Seq(Tasks)
         /\ Len(Contents) = Distance(head, tail)
         /\ Distance(head, tail) \in Nat /\ Distance(head, tail) < Capacity
<1>1. head \in Index /\ tail \in Index
  BY DEF RingInv, TypeOK
<1>2. Distance(head, tail) \in Nat /\ Distance(head, tail) < Capacity
  BY <1>1, DistanceWrap, CapacityAssumption DEF Index
<1>3. ASSUME NEW i \in 1 .. Distance(head, tail) PROVE buffer[Slot(head, i)] \in Tasks
  <2>1. Slot(head, i) \in Index /\ Distance(head, Slot(head, i)) = i - 1
    BY <1>1, <1>2, SlotDistance, CapacityAssumption
  <2>2. Distance(head, Slot(head, i)) < Distance(head, tail)
    BY <1>2, <2>1
  <2> QED BY <2>1, <2>2 DEF RingInv, OccupiedSlots
<1>4. Contents = [i \in 1 .. Distance(head, tail) |-> buffer[Slot(head, i)]]
  BY DEF Contents, Slot
<1> QED BY <1>2, <1>3, <1>4

\* A producer's write lands outside the contents.
LEMMA WriteKeepsContents ==
  ASSUME RingInv, NEW t \in Threads, PushWrite(t)
  PROVE  Contents' = Contents
<1>1. /\ head \in Index /\ tail \in Index /\ pos[t] = tail
      /\ buffer' = [buffer EXCEPT ![tail] = arg[t]]
      /\ UNCHANGED <<head, tail>>
  BY DEF RingInv, TypeOK, ProducerSlot, PushWrite, PushPC
<1>2. Distance(head, tail) \in Nat /\ Distance(head, tail) < Capacity
  BY ContentsSeq
<1>3. ASSUME NEW i \in 1 .. Distance(head, tail)
      PROVE  buffer'[Slot(head, i)] = buffer[Slot(head, i)]
  <2>1. Slot(head, i) \in Index /\ Distance(head, Slot(head, i)) = i - 1
    BY <1>1, <1>2, SlotDistance, CapacityAssumption
  <2>2. Slot(head, i) # tail
    BY <1>2, <2>1
  <2> QED BY <1>1, <2>1, <2>2 DEF RingInv, TypeOK
<1> QED BY <1>1, <1>3 DEF Contents, Slot

\* Publishing tail appends the task to the contents.
LEMMA StoreAppends ==
  ASSUME RingInv, NEW t \in Threads, PushStore(t)
  PROVE  /\ Contents' = Append(Contents, arg[t])
         /\ Len(Contents) < Capacity - 1
<1>1. /\ head \in Index /\ tail \in Index /\ Inc(tail) # head
      /\ arg[t] \in Tasks /\ buffer[tail] = arg[t]
      /\ tail' = Inc(tail) /\ UNCHANGED <<buffer, head>>
  BY DEF RingInv, TypeOK, CallState, ProducerSlot, PushStore, PushPC
<1> DEFINE n == Distance(head, tail)
<1>2. /\ n \in Nat /\ n < Capacity /\ Len(Contents) = n /\ Contents \in Seq(Tasks)
      /\ Contents = [i \in 1 .. n |-> buffer[Slot(head, i)]]
  BY ContentsSeq
<1>3. Distance(head, tail') = n + 1 /\ n < Capacity - 1
  <2>1. Distance(head, tail') = n + 1 /\ n # Capacity - 1
    BY <1>1, DistancePush, EmptyFull
  <2> QED BY <1>2, <2>1, CapacityAssumption
<1>4. Slot(head, n + 1) = tail
  <2>1. Slot(head, n + 1) \in Index /\ Distance(head, Slot(head, n + 1)) = n
    BY <1>1, <1>2, <1>3, SlotDistance, CapacityAssumption
  <2> QED BY <1>1, <2>1, DistancePush
<1>5. Contents' = [i \in 1 .. n + 1 |-> buffer[Slot(head, i)]]
  BY <1>1, <1>3 DEF Contents, Slot
<1>6. Append(Contents, arg[t]) = [i \in 1 .. n + 1 |-> IF i = n + 1 THEN arg[t] ELSE Contents[i]]
  BY <1>1, <1>2
<1>7. ASSUME NEW i \in 1 .. n + 1
      PROVE  buffer[Slot(head, i)] = IF i = n + 1 THEN arg[t] ELSE Contents[i]
  BY <1>1, <1>2, <1>4
<1> HIDE DEF n
<1> QED BY <1>2, <1>3, <1>5, <1>6, <1>7

\* Storing head takes the oldest task off the contents.
LEMMA StoreTakes ==
  ASSUME RingInv, NEW t \in Threads, PopStore(t)
  PROVE  /\ Contents # << >>
         /\ val[t] = Head(Contents)
         /\ Contents' = Tail(Contents)
<1>1. /\ head \in Index /\ tail \in Index /\ head # tail /\ val[t] = buffer[head]
      /\ head' = Inc(head) /\ Inc(head) \in Index /\ UNCHANGED <<buffer, tail>>
  BY IncWrap DEF RingInv, TypeOK, ConsumerSlot, PopStore, PopPC
<1> DEFINE n == Distance(head, tail)
<1>2. /\ n \in Nat /\ n < Capacity /\ Len(Contents) = n /\ Contents \in Seq(Tasks)
      /\ Contents = [i \in 1 .. n |-> buffer[Slot(head, i)]]
  BY ContentsSeq
<1>3. n # 0 /\ Distance(head', tail) = n - 1
  BY <1>1, EmptyFull, DistancePop
<1>4. Slot(head, 1) = head
  <2>1. Slot(head, 1) = IF head + 1 - 1 < Capacity THEN head + 1 - 1 ELSE head + 1 - 1 - Capacity
    BY <1>1, SlotDistance, CapacityAssumption
  <2> QED BY <1>1, <2>1, CapacityAssumption DEF Index
<1>5. ASSUME NEW i \in 1 .. n - 1 PROVE Slot(head', i) = Slot(head, i + 1)
  <2>1. /\ Slot(head', i) = IF head' + i - 1 < Capacity THEN head' + i - 1
                            ELSE head' + i - 1 - Capacity
        /\ Slot(head, i + 1) = IF head + (i + 1) - 1 < Capacity THEN head + (i + 1) - 1
                               ELSE head + (i + 1) - 1 - Capacity
    BY <1>1, <1>2, SlotDistance, CapacityAssumption
  <2>2. head' = IF head + 1 = Capacity THEN 0 ELSE head + 1
    BY <1>1, IncWrap
  <2>3. head \in Nat /\ head < Capacity /\ i \in Nat /\ i < Capacity /\ 1 <= i
    BY <1>1, <1>2, CapacityAssumption DEF Index
  <2> QED BY <2>1, <2>2, <2>3, CapacityAssumption
<1>6. Contents' = [i \in 1 .. n - 1 |-> buffer[Slot(head', i)]]
  BY <1>1, <1>3 DEF Contents, Slot
<1>7. Tail(Contents) = [i \in 1 .. n - 1 |-> Contents[i + 1]] /\ Head(Contents) = Contents[1]
  BY <1>2, <1>3
<1>8. ASSUME NEW i \in 1 .. n - 1 PROVE buffer[Slot(head', i)] = Contents[i + 1]
  BY <1>2, <1>5
<1>9. Contents # << >> /\ Contents[1] = buffer[head]
  BY <1>2, <1>3, <1>4
<1> HIDE DEF n
<1> QED BY <1>1, <1>6, <1>7, <1>8, <1>9

\* Every step of the ring is a step of the abstract queue or leaves it alone.
LEMMA NextRefines == RingInv /\ RingInv' /\ [Next]_vars => [Queue!Next]_(Queue!vars)
<1> SUFFICES ASSUME RingInv, RingInv', [Next]_vars PROVE [Queue!Next]_(Queue!vars)
  OBVIOUS
<1> USE DEF Goto, Finish, PushPC, PopPC, PopOps, Queue!Pending, Queue!Answer, Queue!PopOps
<1>1. CASE UNCHANGED vars
  BY <1>1 DEF vars, Queue!vars, Contents
<1>2. ASSUME NEW t \in Threads, PushCall(t) PROVE Queue!CallPush(t)
  BY <1>2 DEF PushCall, RingInv, CallState, Contents, Queue!CallPush, Queue!Call
<1>3. ASSUME NEW t \in Threads, PopCall(t) PROVE Queue!CallPop(t)
  <2>1. PICK o \in PopOps : op' = [op EXCEPT ![t] = o]
    BY <1>3 DEF PopCall
  <2>2. arg' = [arg EXCEPT ![t] = NULL]
    BY <1>3 DEF PopCall, RingInv, TypeOK, CallState
  <2>3. Queue!Call(t, o, NULL)
    BY <1>3, <2>1, <2>2 DEF PopCall, RingInv, CallState, Contents, Queue!Call
  <2> QED BY <2>3 DEF Queue!CallPop
<1>4. ASSUME NEW t \in Threads,
             PushLock(t) \/ PushHasRoom(t) \/ PopLock(t) \/ PopNonEmpty(t) \/ PopRead(t)
      PROVE  UNCHANGED Queue!vars
  BY <1>4 DEF PushLock, PushHasRoom, PopLock, PopNonEmpty, PopRead, Contents, Queue!vars
<1>5. ASSUME NEW t \in Threads, PushWrite(t) PROVE UNCHANGED Queue!vars
  BY <1>5, WriteKeepsContents DEF PushWrite, Queue!vars
<1>6. ASSUME NEW t \in Threads, PushFull(t) PROVE Queue!Overflow(t)
  <2>1. Len(Contents) = Capacity - 1
    BY <1>6, ContentsSeq, EmptyFull DEF PushFull, RingInv, TypeOK, ProducerSlot
  <2> QED BY <1>6, <2>1 DEF PushFull, RingInv, CallState, Contents, Queue!Overflow
<1>7. ASSUME NEW t \in Threads, PushStore(t) PROVE Queue!Enqueue(t)
  BY <1>7, StoreAppends DEF PushStore, RingInv, CallState, Queue!Enqueue
<1>8. ASSUME NEW t \in Threads, TryLockFails(t) PROVE Queue!Contended(t)
  <2>1. PICK u \in Threads : pop_lock = u
    BY <1>8 DEF TryLockFails, RingInv, TypeOK
  <2>2. pc[u] \in PopPC
    BY <2>1 DEF RingInv, LockDiscipline
  <2>3. u # t
    BY <1>8, <2>2 DEF TryLockFails, PopPC
  <2>4. Queue!Pending(u) /\ op[u] \in PopOps
    BY <2>2 DEF RingInv, CallState, PopPC, PopOps, Queue!Pending
  <2> QED
    BY <1>8, <2>3, <2>4 DEF TryLockFails, RingInv, CallState, Contents, Queue!Contended, Queue!PopOps, PopOps
<1>9. ASSUME NEW t \in Threads, PopEmpty(t) PROVE Queue!FoundEmpty(t)
  <2>1. Contents = << >>
    BY <1>9, ContentsSeq, EmptyFull DEF PopEmpty, RingInv, TypeOK, ConsumerSlot
  <2> QED BY <1>9, <2>1 DEF PopEmpty, RingInv, CallState, Contents, Queue!FoundEmpty
<1>10. ASSUME NEW t \in Threads, PopStore(t) PROVE Queue!Dequeue(t)
  BY <1>10, StoreTakes DEF PopStore, RingInv, TypeOK, CallState, Queue!Dequeue
<1>11. ASSUME NEW t \in Threads, Return(t) PROVE Queue!Return(t)
  BY <1>11 DEF Return, RingInv, CallState, Contents, Queue!Return
<1> QED BY <1>1, <1>2, <1>3, <1>4, <1>5, <1>6, <1>7, <1>8, <1>9, <1>10, <1>11
        DEF Next, Step, Push, Pop, Queue!Next

\* The ring of queue.c is a linearizable bounded FIFO queue that holds one task
\* less than it has slots, for any number of producers and consumers.
THEOREM RingImplementsQueue == Spec => Linearizable
<1>1. Init => Queue!Init
  <2> SUFFICES ASSUME Init PROVE Queue!Init
    OBVIOUS
  <2>1. Contents = << >>
    BY InitRingInv, ContentsSeq, EmptyFull DEF Init, RingInv, TypeOK
  <2> QED BY <2>1 DEF Init, Queue!Init
<1>2. RingInv /\ RingInv' /\ [Next]_vars => [Queue!Next]_(Queue!vars)
  BY NextRefines
<1> QED BY <1>1, <1>2, RingInvariant, PTL DEF Spec, Linearizable, Queue!Spec

-----------------------------------------------------------------------------
(* fq_queue_size *)

\* What an observer has read, and how far head has moved since, as long as it has not gone
\* once around the ring.
CountInv ==
  /\ opc \in [Observers -> {"idle", "loaded", "done"}]
  /\ ohead \in [Observers -> Index]
  /\ pops \in [Observers -> 0 .. Capacity]
  /\ DOMAIN size = Observers
  /\ \A o \in Observers : opc[o] = "idle" => pops[o] = 0
  /\ \A o \in Observers :
       opc[o] = "loaded" /\ pops[o] < Capacity => Distance(ohead[o], head) = pops[o]

\* Two distances of less than one lap add up.
LEMMA DistanceAdds ==
  ASSUME NEW a \in Index, NEW h \in Index, NEW t \in Index,
         Distance(a, h) + Distance(h, t) < Capacity
  PROVE  Distance(a, t) = Distance(a, h) + Distance(h, t)
<1>1. /\ Capacity \in Nat /\ a \in 0 .. Capacity - 1 /\ h \in 0 .. Capacity - 1
      /\ t \in 0 .. Capacity - 1
  BY CapacityAssumption DEF Index
<1>2. /\ Distance(a, h) = IF a <= h THEN h - a ELSE h + Capacity - a
      /\ Distance(h, t) = IF h <= t THEN t - h ELSE t + Capacity - h
      /\ Distance(a, t) = IF a <= t THEN t - a ELSE t + Capacity - a
  BY DistanceWrap
<1> QED
  BY <1>1, <1>2

\* Only a pop moves head, by one slot.
LEMMA HeadMoves ==
  ASSUME RingInv, [Next]_vars
  PROVE  head' = head \/ head' = Inc(head)
<1>1. ASSUME NEW t \in Threads, PopStore(t) PROVE head' = Inc(head)
  BY <1>1 DEF PopStore, RingInv, ConsumerSlot, PopPC
<1>2. ASSUME NEW t \in Threads, PushCall(t) \/ PopCall(t) \/ Push(t) \/ Return(t)
      PROVE  head' = head
  BY <1>2 DEF PushCall, PopCall, Push, PushLock, PushFull, PushHasRoom, PushWrite, PushStore, Return
<1>3. ASSUME NEW t \in Threads,
             PopLock(t) \/ TryLockFails(t) \/ PopEmpty(t) \/ PopNonEmpty(t) \/ PopRead(t)
      PROVE  head' = head
  BY <1>3 DEF PopLock, TryLockFails, PopEmpty, PopNonEmpty, PopRead
<1>4. CASE UNCHANGED vars
  BY <1>4 DEF vars
<1> QED
  BY <1>1, <1>2, <1>3, <1>4 DEF Next, Step, Pop

\* The observers do not change the ring.
LEMMA SizeRingStep == [SizeNext]_svars => [Next]_vars
BY DEF SizeNext, svars, RingStep, SizeLoadHead, SizeLoadTail, SizeReturn

\* The count is kept by the steps of the ring and of the observers.
LEMMA NextCountInv == RingInv /\ RingInv' /\ CountInv /\ [SizeNext]_svars => CountInv'
<1> SUFFICES ASSUME RingInv, RingInv', CountInv, [SizeNext]_svars PROVE CountInv'
  OBVIOUS
<1>i. /\ head \in Index /\ Capacity \in Nat /\ Capacity > 1
      /\ Distance(head, head) = 0 /\ 0 \in Index
  <2>1. head \in Index /\ Capacity \in Nat /\ Capacity > 1
    BY CapacityAssumption, ObserverAssumption DEF RingInv, TypeOK
  <2> QED
    BY <2>1, EmptyFull DEF Index
<1>1. CASE RingStep
  <2>1. /\ UNCHANGED <<opc, ohead, size>> /\ [Next]_vars
        /\ pops' = [o \in Observers |->
                      IF opc[o] = "loaded" /\ head' # head /\ pops[o] < Capacity
                      THEN pops[o] + 1 ELSE pops[o]]
    BY <1>1 DEF RingStep
  <2>2. pops' \in [Observers -> 0 .. Capacity]
    <3>1. \A o \in Observers : pops[o] \in 0 .. Capacity
      BY DEF CountInv
    <3>2. \A n \in 0 .. Capacity : n < Capacity => n + 1 \in 0 .. Capacity
      BY <1>i
    <3> QED
      BY <2>1, <3>1, <3>2
  <2>3. ASSUME NEW o \in Observers, opc[o] = "loaded", pops'[o] < Capacity
        PROVE  Distance(ohead[o], head') = pops'[o]
    <3>0. ohead[o] \in Index /\ pops[o] \in 0 .. Capacity
      BY DEF CountInv
    <3>1. CASE head' = head
      <4>1. pops'[o] = pops[o]
        BY <2>1, <3>1
      <4> QED
        BY <2>3, <3>1, <4>1 DEF CountInv
    <3>2. CASE head' # head
      <4>1. head' = Inc(head)
        BY <2>1, <3>2, HeadMoves
      <4>2. pops[o] + 1 < Capacity /\ pops'[o] = pops[o] + 1 /\ pops[o] < Capacity
        BY <1>i, <2>1, <2>3, <3>0, <3>2
      <4>3. Distance(ohead[o], head) = pops[o]
        BY <2>3, <4>2 DEF CountInv
      <4>4. Inc(head) # ohead[o]
        BY <1>i, <3>0, <4>2, <4>3, EmptyFull
      <4> QED
        BY <1>i, <3>0, <4>1, <4>2, <4>3, <4>4, DistancePush
    <3> QED
      BY <3>1, <3>2
  <2>4. \A o \in Observers : opc[o] = "idle" => pops'[o] = 0
    BY <2>1 DEF CountInv
  <2>5. \A o \in Observers :
          opc[o] = "loaded" /\ pops'[o] < Capacity => Distance(ohead[o], head)' = pops'[o]
    BY <2>1, <2>3 DEF Distance
  <2> QED
    BY <2>1, <2>2, <2>4, <2>5 DEF CountInv
<1>2. ASSUME NEW o \in Observers, SizeLoadHead(o) PROVE CountInv'
  BY <1>2, <1>i DEF CountInv, SizeLoadHead, vars
<1>3. ASSUME NEW o \in Observers, SizeLoadTail(o) PROVE CountInv'
  BY <1>3, <1>i DEF CountInv, SizeLoadTail, vars
<1>4. ASSUME NEW o \in Observers, SizeReturn(o) PROVE CountInv'
  BY <1>4, <1>i DEF CountInv, SizeReturn, vars
<1>5. CASE UNCHANGED svars
  BY <1>5 DEF CountInv, svars, ovars, vars
<1> QED
  BY <1>1, <1>2, <1>3, <1>4, <1>5 DEF SizeNext

\* fq_queue_size counts what is stored at its second load and what was taken since the
\* first, as long as these are fewer than the ring has slots (queue.c:168), for every
\* capacity and however the producers and the consumers run in between.
THEOREM SizeTheorem == SizeSpec => SizeCountsTakenTasks
<1>1. SizeInit => RingInv /\ CountInv
  <2>1. SizeInit => RingInv /\ 0 \in Index /\ 0 \in 0 .. Capacity
    BY InitRingInv, CapacityAssumption DEF SizeInit, Index
  <2> QED
    BY <2>1 DEF SizeInit, CountInv
<1>2. RingInv /\ CountInv /\ [SizeNext]_svars => (RingInv /\ CountInv)'
  BY NextRingInv, SizeRingStep, NextCountInv
<1>3. RingInv /\ CountInv /\ [SizeNext]_svars =>
        [\A o \in Observers :
           Measures(o) /\ Distance(head, tail) + pops[o] < Capacity
             => size'[o] = Distance(head, tail) + pops[o]]_svars
  <2> SUFFICES ASSUME RingInv, CountInv, SizeNext, NEW o \in Observers, Measures(o),
                      Distance(head, tail) + pops[o] < Capacity
               PROVE  size'[o] = Distance(head, tail) + pops[o]
    OBVIOUS
  <2>1. /\ head \in Index /\ tail \in Index /\ ohead[o] \in Index /\ pops[o] \in 0 .. Capacity
        /\ Capacity \in Nat
    BY CapacityAssumption DEF RingInv, TypeOK, CountInv
  <2>2. Distance(head, tail) \in Nat
    BY <2>1, DistanceWrap DEF Index
  <2>3. pops[o] < Capacity
    BY <2>1, <2>2
  <2>4. Distance(ohead[o], head) = pops[o]
    BY <2>3 DEF CountInv, Measures
  <2>5. SizeLoadTail(o)
    <3>1. ASSUME RingStep PROVE FALSE
      BY <3>1 DEF RingStep, Measures
    <3>2. ASSUME NEW p \in Observers, SizeLoadHead(p) \/ SizeReturn(p) PROVE FALSE
      BY <3>2 DEF SizeLoadHead, SizeReturn, Measures, CountInv
    <3>3. ASSUME NEW p \in Observers, SizeLoadTail(p) PROVE p = o
      BY <3>3 DEF SizeLoadTail, Measures, CountInv
    <3> QED
      BY <3>1, <3>2, <3>3 DEF SizeNext
  <2>6. size'[o] = Distance(ohead[o], tail)
    BY <2>5 DEF SizeLoadTail, CountInv
  <2>7. Distance(ohead[o], tail) = Distance(ohead[o], head) + Distance(head, tail)
    BY <2>1, <2>2, <2>4, DistanceAdds
  <2> QED
    BY <2>1, <2>2, <2>4, <2>6, <2>7
<1> QED
  BY <1>1, <1>2, <1>3, PTL DEF SizeSpec, SizeCountsTakenTasks
=============================================================================
