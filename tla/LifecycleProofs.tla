--------------------------- MODULE LifecycleProofs ---------------------------
(***************************************************************************)
(* Proofs about the creation and the shutdown of a pool, Lifecycle.tla, in *)
(* the specification of ParallelFor.tla, which uses the pool: for every    *)
(* number of workers and every configuration, whichever step of create     *)
(* fails.  ShortAssumption comes with ParallelForProofs, whose invariant   *)
(* about the workers is used here.                                         *)
(***************************************************************************)
EXTENDS ParallelForProofs, FiniteSetTheorems

-----------------------------------------------------------------------------
(* The invariant *)

SharedKinds == {"scheduler", "mutex", "cond", "workers"}
QueueKinds == {"queue", "ring"}

\* Everything that create acquires.
Parts == {r \in Resources : \/ r.kind \in SharedKinds /\ r.of = NONE
                            \/ r.kind \in QueueKinds /\ r.of \in 0 .. WorkerCount
                            \/ r.kind \in {"arg", "thread"} /\ r.of \in 0 .. WorkerCount - 1}

\* The step of create that acquires r.
At(r) ==
  CASE r.kind = "scheduler" -> 1
    [] r.kind = "queue"  -> IF r.of = WorkerCount THEN 2 ELSE 7 + 4 * r.of
    [] r.kind = "ring"   -> IF r.of = WorkerCount THEN 3 ELSE 8 + 4 * r.of
    [] r.kind = "mutex"  -> 4
    [] r.kind = "cond"   -> 5
    [] r.kind = "workers" -> 6
    [] r.kind = "arg"    -> 9 + 4 * r.of
    [] r.kind = "thread" -> 10 + 4 * r.of

Steps == 6 + 4 * WorkerCount

Running(w) == wpc[w] \in {"entry", "loop", "using", "busy"}

\* How far create has come, what the workers may do by then, and the rings.
StartInv ==
  /\ i \in 0 .. Steps
  /\ phase \in {"up", "stopping", "down"} => i = Steps
  /\ phase \in {"failing", "failed"} => i < Steps
  /\ \A w \in Workers : wpc[w] = "none" <=> i < 10 + 4 * w
  /\ \A w \in Workers : wpc[w] = "exited" => shutdown_flag
  /\ shutdown_flag => phase \in {"up", "stopping", "down"}
  /\ DOMAIN slots = {q \in 0 .. WorkerCount : At(Res("ring", q)) <= i}
  /\ uses \in [AllWorkers -> 0 .. WorkerCount \cup {NONE}]
  /\ \A w \in Workers : uses[w] # NONE => wpc[w] = "using" /\ uses[w] \in DOMAIN slots

\* Each element of S is in the sequence s, once.
Lists(s, S) ==
  /\ s \in Seq(Resources)
  /\ \A m \in 1 .. Len(s) : s[m] \in S
  /\ \A r \in S : \E m \in 1 .. Len(s) : s[m] = r
  /\ \A m, n \in 1 .. Len(s) : s[m] = s[n] => m = n

\* As long as t is in the sequence s, r comes later in it.
Keeps(s, t, r) ==
  \A m \in 1 .. Len(s) : s[m] = t => \E n \in 1 .. Len(s) : m < n /\ s[n] = r

\* What a worker may need: the scheduler and the queues that it may look into.
Needed ==
  {r \in Parts : \/ r.kind \in SharedKinds
                 \/ r.kind \in QueueKinds /\ r.of \in DOMAIN slots \ Stillborn}

\* The thread whose join keeps the creator from releasing what worker w needs: on the
\* error path of create no worker ends, so the creator never gets past the first.
Blocker(w) == Res("thread", IF phase = "failing" THEN 0 ELSE w)

\* Until the shutdown or a failure, what is allocated is what has been acquired, but for the
\* arguments that the threads have read.
BuildInv ==
  phase \in {"new", "creating", "up"} =>
    held = {r \in Parts : At(r) <= i /\ (r.kind = "arg" => wpc[r.of] \in {"none", "entry"})}

\* Then it is what is still to be released, and the arguments that no thread has read; and
\* what a worker needs is released after a thread that cannot be joined as long as it runs.
ReleaseInv ==
  phase \in {"failing", "stopping"} =>
    /\ Lists(todo, ToSet(todo))
    /\ ToSet(todo) \subseteq Parts
    /\ held = ToSet(todo) \cup Unread
    /\ \A r \in ToSet(todo) : r.kind = "arg" => wpc[r.of] = "none"
    /\ \A w \in Workers : Running(w) => Res("thread", w) \in ToSet(todo)
    /\ \A w \in Workers, r \in Needed : Keeps(todo, Blocker(w), r)

\* In the end nothing is left.
OverInv == phase \in {"failed", "down"} => held = {} /\ \A w \in Workers : ~Running(w)

\* Every ring that exists has the slots that fq_queue_create computed and accepted.
RingInv ==
  /\ cfg.queue_capacity \in Words
  /\ \A q \in DOMAIN slots : slots[q] = RingSlots(q)
  /\ \A q \in 0 .. WorkerCount : At(Res("queue", q)) <= i => ~(RingSlots(q) > MaxCapacity)

LifeInv == StartInv /\ BuildInv /\ ReleaseInv /\ OverInv

-----------------------------------------------------------------------------
(* The lists of what is acquired and released *)

\* The elements of two sequences that are put together.
LEMMA Joined ==
  ASSUME NEW S, NEW s \in Seq(S), NEW t \in Seq(S)
  PROVE  /\ s \o t \in Seq(S) /\ Len(s \o t) = Len(s) + Len(t)
         /\ \A k \in 1 .. Len(s) + Len(t) :
              (s \o t)[k] = IF k <= Len(s) THEN s[k] ELSE t[k - Len(s)]
OBVIOUS

\* The resources of the model.
LEMMA ResTypes ==
  /\ \A k \in Kinds, x \in Nat \cup {NONE} :
       Res(k, x) \in Resources /\ Res(k, x).kind = k /\ Res(k, x).of = x
  /\ \A r \in Resources : r.kind \in Kinds /\ r.of \in Nat \cup {NONE} /\ r = Res(r.kind, r.of)
BY DEF Res, Resources

\* Counting in fours, threes and twos.
LEMMA CountBy ==
  ASSUME NEW n \in Nat
  PROVE  /\ \A k \in 1 .. 4 * n : \E w \in 0 .. n - 1 : k \in {4*w + 1, 4*w + 2, 4*w + 3, 4*w + 4}
         /\ \A k \in 1 .. 3 * n : \E w \in 0 .. n - 1 : k \in {3*w + 1, 3*w + 2, 3*w + 3}
         /\ \A k \in 1 .. 2 * n : \E w \in 0 .. n - 1 : k \in {2*w + 1, 2*w + 2}
<1>1. ASSUME NEW k \in 1 .. 4 * n
      PROVE  \E w \in 0 .. n - 1 : k \in {4*w + 1, 4*w + 2, 4*w + 3, 4*w + 4}
  <2>1. (k - 1) \div 4 \in 0 .. n - 1
    OBVIOUS
  <2> WITNESS (k - 1) \div 4 \in 0 .. n - 1
  <2> QED
    OBVIOUS
<1>2. ASSUME NEW k \in 1 .. 3 * n
      PROVE  \E w \in 0 .. n - 1 : k \in {3*w + 1, 3*w + 2, 3*w + 3}
  <2>1. (k - 1) \div 3 \in 0 .. n - 1
    OBVIOUS
  <2> WITNESS (k - 1) \div 3 \in 0 .. n - 1
  <2> QED
    OBVIOUS
<1>3. ASSUME NEW k \in 1 .. 2 * n
      PROVE  \E w \in 0 .. n - 1 : k \in {2*w + 1, 2*w + 2}
  <2>1. (k - 1) \div 2 \in 0 .. n - 1
    OBVIOUS
  <2> WITNESS (k - 1) \div 2 \in 0 .. n - 1
  <2> QED
    OBVIOUS
<1> QED
  BY <1>1, <1>2, <1>3

\* The part of create that starts the workers, one after the other (scheduler.c:246-279).
LEMMA StartsEach ==
  ASSUME NEW n \in Nat
  PROVE  LET E == EachWorker(LAMBDA w : QueueParts(w) \o ThreadParts(w), 4, n) IN
         /\ E \in Seq(Resources) /\ Len(E) = 4 * n
         /\ \A w \in 0 .. n - 1 : /\ E[4*w + 1] = Res("queue", w) /\ E[4*w + 2] = Res("ring", w)
                                  /\ E[4*w + 3] = Res("arg", w) /\ E[4*w + 4] = Res("thread", w)
<1> DEFINE G == [w \in Nat |-> QueueParts(w) \o ThreadParts(w)]
           E == EachWorker(LAMBDA w : QueueParts(w) \o ThreadParts(w), 4, n)
<1>1. E = [k \in 1 .. 4 * n |-> G[(k - 1) \div 4][1 + ((k - 1) % 4)]]
  <2>1. \A k \in 1 .. 4 * n : (k - 1) \div 4 \in Nat
    OBVIOUS
  <2> QED
    BY <2>1 DEF EachWorker
<1>2. ASSUME NEW w \in Nat
      PROVE  /\ G[w][1] = Res("queue", w) /\ G[w][2] = Res("ring", w)
             /\ G[w][3] = Res("arg", w) /\ G[w][4] = Res("thread", w)
  <2>1. PICK a \in Resources, b \in Resources, c \in Resources, d \in Resources :
          a = Res("queue", w) /\ b = Res("ring", w) /\ c = Res("arg", w) /\ d = Res("thread", w)
    BY ResTypes DEF Kinds
  <2>2. G[w] = <<a, b>> \o <<c, d>>
    BY <2>1 DEF QueueParts, ThreadParts
  <2>3. /\ (<<a, b>> \o <<c, d>>)[1] = a /\ (<<a, b>> \o <<c, d>>)[2] = b
        /\ (<<a, b>> \o <<c, d>>)[3] = c /\ (<<a, b>> \o <<c, d>>)[4] = d
    <3> HIDE DEF Resources
    <3> QED
      OBVIOUS
  <2> QED
    BY <2>1, <2>2, <2>3
<1> HIDE DEF E, G
<1>3. ASSUME NEW w \in 0 .. n - 1
      PROVE  /\ E[4*w + 1] = Res("queue", w) /\ E[4*w + 2] = Res("ring", w)
             /\ E[4*w + 3] = Res("arg", w) /\ E[4*w + 4] = Res("thread", w)
  <2>1. E[4*w + 1] = G[w][1]
    <3>1. PICK k \in 1 .. 4 * n : k = 4*w + 1 /\ (k - 1) \div 4 = w /\ 1 + ((k - 1) % 4) = 1
      OBVIOUS
    <3> QED
      BY <1>1, <3>1
  <2>2. E[4*w + 2] = G[w][2]
    <3>1. PICK k \in 1 .. 4 * n : k = 4*w + 2 /\ (k - 1) \div 4 = w /\ 1 + ((k - 1) % 4) = 2
      OBVIOUS
    <3> QED
      BY <1>1, <3>1
  <2>3. E[4*w + 3] = G[w][3]
    <3>1. PICK k \in 1 .. 4 * n : k = 4*w + 3 /\ (k - 1) \div 4 = w /\ 1 + ((k - 1) % 4) = 3
      OBVIOUS
    <3> QED
      BY <1>1, <3>1
  <2>4. E[4*w + 4] = G[w][4]
    <3>1. PICK k \in 1 .. 4 * n : k = 4*w + 4 /\ (k - 1) \div 4 = w /\ 1 + ((k - 1) % 4) = 4
      OBVIOUS
    <3> QED
      BY <1>1, <3>1
  <2> QED
    BY <1>2, <2>1, <2>2, <2>3, <2>4
<1>4. ASSUME NEW k \in 1 .. 4 * n PROVE E[k] \in Resources
  <2>1. PICK w \in 0 .. n - 1 : k \in {4*w + 1, 4*w + 2, 4*w + 3, 4*w + 4}
    BY CountBy
  <2>2. /\ Res("queue", w) \in Resources /\ Res("ring", w) \in Resources
        /\ Res("arg", w) \in Resources /\ Res("thread", w) \in Resources
    BY ResTypes DEF Kinds
  <2> QED
    BY <1>3, <2>1, <2>2
<1>5. E \in Seq(Resources) /\ Len(E) = 4 * n
  <2>1. PICK m \in Nat : m = 4 * n
    OBVIOUS
  <2>2. E \in [1 .. m -> Resources]
    BY <1>1, <1>4, <2>1
  <2> QED
    BY <2>1, <2>2
<1> QED
  BY <1>3, <1>5 DEF E

\* The loop of the error paths over the workers that run (scheduler.c:255-259, 269-273).
LEMMA JoinsEach ==
  ASSUME NEW n \in Nat
  PROVE  LET E == JoinEach(n) IN
         /\ E \in Seq(Resources) /\ Len(E) = 3 * n
         /\ \A w \in 0 .. n - 1 :
              /\ E[3*w + 1] = Res("thread", w) /\ E[3*w + 2] = Res("ring", w)
              /\ E[3*w + 3] = Res("queue", w)
<1> DEFINE G == [w \in Nat |-> <<Res("thread", w)>> \o QueueRelease(w)]
           E == JoinEach(n)
<1>1. E = [k \in 1 .. 3 * n |-> G[(k - 1) \div 3][1 + ((k - 1) % 3)]]
  <2>1. \A k \in 1 .. 3 * n : (k - 1) \div 3 \in Nat
    OBVIOUS
  <2> QED
    BY <2>1 DEF EachWorker, JoinEach
<1>2. ASSUME NEW w \in Nat
      PROVE  G[w][1] = Res("thread", w) /\ G[w][2] = Res("ring", w) /\ G[w][3] = Res("queue", w)
  <2>1. PICK a \in Resources, b \in Resources, c \in Resources :
          a = Res("thread", w) /\ b = Res("ring", w) /\ c = Res("queue", w)
    BY ResTypes DEF Kinds
  <2>2. G[w] = <<a>> \o <<b, c>>
    BY <2>1 DEF QueueRelease
  <2>3. (<<a>> \o <<b, c>>)[1] = a /\ (<<a>> \o <<b, c>>)[2] = b /\ (<<a>> \o <<b, c>>)[3] = c
    <3> HIDE DEF Resources
    <3> QED
      OBVIOUS
  <2> QED
    BY <2>1, <2>2, <2>3
<1> HIDE DEF E, G
<1>3. ASSUME NEW w \in 0 .. n - 1
      PROVE  /\ E[3*w + 1] = Res("thread", w) /\ E[3*w + 2] = Res("ring", w)
             /\ E[3*w + 3] = Res("queue", w)
  <2>1. E[3*w + 1] = G[w][1]
    <3>1. PICK k \in 1 .. 3 * n : k = 3*w + 1 /\ (k - 1) \div 3 = w /\ 1 + ((k - 1) % 3) = 1
      OBVIOUS
    <3> QED
      BY <1>1, <3>1
  <2>2. E[3*w + 2] = G[w][2]
    <3>1. PICK k \in 1 .. 3 * n : k = 3*w + 2 /\ (k - 1) \div 3 = w /\ 1 + ((k - 1) % 3) = 2
      OBVIOUS
    <3> QED
      BY <1>1, <3>1
  <2>3. E[3*w + 3] = G[w][3]
    <3>1. PICK k \in 1 .. 3 * n : k = 3*w + 3 /\ (k - 1) \div 3 = w /\ 1 + ((k - 1) % 3) = 3
      OBVIOUS
    <3> QED
      BY <1>1, <3>1
  <2> QED
    BY <1>2, <2>1, <2>2, <2>3
<1>4. ASSUME NEW k \in 1 .. 3 * n PROVE E[k] \in Resources
  <2>1. PICK w \in 0 .. n - 1 : k \in {3*w + 1, 3*w + 2, 3*w + 3}
    BY CountBy
  <2>2. /\ Res("thread", w) \in Resources /\ Res("ring", w) \in Resources
        /\ Res("queue", w) \in Resources
    BY ResTypes DEF Kinds
  <2> QED
    BY <1>3, <2>1, <2>2
<1>5. E \in Seq(Resources) /\ Len(E) = 3 * n
  <2>1. PICK m \in Nat : m = 3 * n
    OBVIOUS
  <2>2. E \in [1 .. m -> Resources]
    BY <1>1, <1>4, <2>1
  <2> QED
    BY <2>1, <2>2
<1> QED
  BY <1>3, <1>5 DEF E

\* The second loop of fq_scheduler_shutdown (scheduler.c:299-300).
LEMMA ReleasesEach ==
  ASSUME NEW n \in Nat
  PROVE  LET E == EachWorker(QueueRelease, 2, n) IN
         /\ E \in Seq(Resources) /\ Len(E) = 2 * n
         /\ \A w \in 0 .. n - 1 :
              E[2*w + 1] = Res("ring", w) /\ E[2*w + 2] = Res("queue", w)
<1> DEFINE G == [w \in Nat |-> QueueRelease(w)]
           E == EachWorker(QueueRelease, 2, n)
<1>1. E = [k \in 1 .. 2 * n |-> G[(k - 1) \div 2][1 + ((k - 1) % 2)]]
  <2>1. \A k \in 1 .. 2 * n : (k - 1) \div 2 \in Nat
    OBVIOUS
  <2> QED
    BY <2>1 DEF EachWorker
<1>2. ASSUME NEW w \in Nat
      PROVE  G[w][1] = Res("ring", w) /\ G[w][2] = Res("queue", w)
  <2>1. PICK a \in Resources, b \in Resources :
          a = Res("ring", w) /\ b = Res("queue", w)
    BY ResTypes DEF Kinds
  <2>2. G[w] = <<a, b>>
    BY <2>1 DEF QueueRelease
  <2>3. (<<a, b>>)[1] = a /\ (<<a, b>>)[2] = b
    <3> HIDE DEF Resources
    <3> QED
      OBVIOUS
  <2> QED
    BY <2>1, <2>2, <2>3
<1> HIDE DEF E, G
<1>3. ASSUME NEW w \in 0 .. n - 1
      PROVE  E[2*w + 1] = Res("ring", w) /\ E[2*w + 2] = Res("queue", w)
  <2>1. E[2*w + 1] = G[w][1]
    <3>1. PICK k \in 1 .. 2 * n : k = 2*w + 1 /\ (k - 1) \div 2 = w /\ 1 + ((k - 1) % 2) = 1
      OBVIOUS
    <3> QED
      BY <1>1, <3>1
  <2>2. E[2*w + 2] = G[w][2]
    <3>1. PICK k \in 1 .. 2 * n : k = 2*w + 2 /\ (k - 1) \div 2 = w /\ 1 + ((k - 1) % 2) = 2
      OBVIOUS
    <3> QED
      BY <1>1, <3>1
  <2> QED
    BY <1>2, <2>1, <2>2
<1>4. ASSUME NEW k \in 1 .. 2 * n PROVE E[k] \in Resources
  <2>1. PICK w \in 0 .. n - 1 : k \in {2*w + 1, 2*w + 2}
    BY CountBy
  <2>2. Res("ring", w) \in Resources /\ Res("queue", w) \in Resources
    BY ResTypes DEF Kinds
  <2> QED
    BY <1>3, <2>1, <2>2
<1>5. E \in Seq(Resources) /\ Len(E) = 2 * n
  <2>1. PICK m \in Nat : m = 2 * n
    OBVIOUS
  <2>2. E \in [1 .. m -> Resources]
    BY <1>1, <1>4, <2>1
  <2> QED
    BY <2>1, <2>2
<1> QED
  BY <1>3, <1>5 DEF E

\* Two resources are the same if they have the same kind and the same owner.
LEMMA SameRes ==
  \A j, k \in Kinds, x, y \in Nat \cup {NONE} : Res(j, x) = Res(k, y) => j = k /\ x = y
BY DEF Res

\* Two lists of different things, one after the other.
LEMMA ListsJoined ==
  ASSUME NEW s, NEW S, NEW t, NEW T, Lists(s, S), Lists(t, T), \A r \in S : r \notin T
  PROVE  Lists(s \o t, S \cup T)
<1>1. s \in Seq(Resources) /\ t \in Seq(Resources) /\ Len(s) \in Nat /\ Len(t) \in Nat
  BY DEF Lists
<1>2. /\ s \o t \in Seq(Resources) /\ Len(s \o t) = Len(s) + Len(t)
      /\ \A k \in 1 .. Len(s) + Len(t) :
           (s \o t)[k] = IF k <= Len(s) THEN s[k] ELSE t[k - Len(s)]
  <2> HIDE DEF Resources
  <2> QED
    BY <1>1, Joined
<1>3. ASSUME NEW k \in 1 .. Len(s) + Len(t)
      PROVE  \/ k <= Len(s) /\ k \in 1 .. Len(s) /\ (s \o t)[k] = s[k] /\ s[k] \in S
             \/ /\ k > Len(s) /\ k - Len(s) \in 1 .. Len(t)
                /\ (s \o t)[k] = t[k - Len(s)] /\ t[k - Len(s)] \in T
  BY <1>1, <1>2 DEF Lists
<1>4. ASSUME NEW r \in S \cup T PROVE \E k \in 1 .. Len(s) + Len(t) : (s \o t)[k] = r
  <2>1. CASE r \in S
    <3>1. PICK k \in 1 .. Len(s) : s[k] = r
      BY <2>1 DEF Lists
    <3> QED
      BY <1>1, <1>2, <3>1
  <2>2. CASE r \in T
    <3>1. PICK k \in 1 .. Len(t) : t[k] = r
      BY <2>2 DEF Lists
    <3>2. PICK n \in 1 .. Len(s) + Len(t) : n = k + Len(s)
      BY <1>1
    <3>3. (s \o t)[n] = t[n - Len(s)] /\ n - Len(s) = k
      BY <1>1, <1>2, <3>2
    <3> QED
      BY <3>1, <3>3
  <2> QED
    BY <2>1, <2>2
<1>5. ASSUME NEW m \in 1 .. Len(s) + Len(t), NEW n \in 1 .. Len(s) + Len(t),
             (s \o t)[m] = (s \o t)[n]
      PROVE  m = n
  <2>1. CASE m <= Len(s) /\ n <= Len(s)
    BY <1>3, <1>5, <2>1 DEF Lists
  <2>2. CASE m > Len(s) /\ n > Len(s)
    <3>1. m - Len(s) = n - Len(s)
      BY <1>3, <1>5, <2>2 DEF Lists
    <3> QED
      BY <1>1, <3>1
  <2>3. CASE ~(m <= Len(s) <=> n <= Len(s))
    BY <1>3, <1>5, <2>3
  <2> QED
    BY <1>1, <2>1, <2>2, <2>3
<1> QED
  BY <1>2, <1>3, <1>4, <1>5 DEF Lists

\* The end of a list.
LEMMA ListsEnd ==
  ASSUME NEW s, NEW S, Lists(s, S), NEW a \in 1 .. Len(s), NEW T,
         \A m \in a .. Len(s) : s[m] \in T,
         \A r \in T : \E m \in a .. Len(s) : s[m] = r
  PROVE  Lists(SubSeq(s, a, Len(s)), T)
<1> DEFINE t == SubSeq(s, a, Len(s))
<1>1. s \in Seq(Resources) /\ Len(s) \in Nat
  BY DEF Lists
<1>2. /\ t \in Seq(Resources) /\ Len(t) = Len(s) - a + 1
      /\ \A k \in 1 .. Len(s) - a + 1 : t[k] = s[k + a - 1]
  <2> HIDE DEF Resources
  <2> QED
    BY <1>1
<1> HIDE DEF t
<1>3. ASSUME NEW m \in a .. Len(s) PROVE \E k \in 1 .. Len(t) : t[k] = s[m]
  <2>1. PICK k \in 1 .. Len(s) - a + 1 : k = m - a + 1
    BY <1>1
  <2>2. t[k] = s[m]
    BY <1>1, <1>2, <2>1
  <2> QED
    BY <1>2, <2>2
<1>4. ASSUME NEW k \in 1 .. Len(t) PROVE t[k] \in T
  BY <1>1, <1>2
<1>5. ASSUME NEW m \in 1 .. Len(t), NEW n \in 1 .. Len(t), t[m] = t[n] PROVE m = n
  <2>1. PICK k \in 1 .. Len(s), l \in 1 .. Len(s) : k = m + a - 1 /\ l = n + a - 1
    BY <1>1, <1>2
  <2>2. s[k] = s[l]
    BY <1>1, <1>2, <1>5, <2>1
  <2>3. k = l
    BY <2>2 DEF Lists
  <2> QED
    BY <1>1, <2>1, <2>3
<1>6. \A r \in T : \E k \in 1 .. Len(t) : t[k] = r
  BY <1>3
<1>7. Lists(t, T)
  BY <1>2, <1>4, <1>5, <1>6 DEF Lists
<1> QED
  BY <1>7 DEF t

\* JoinEach joins the thread and destroys the queue of each of the first n workers once.
LEMMA JoinEachLists ==
  ASSUME NEW n \in Nat
  PROVE  Lists(JoinEach(n), {r \in Resources : /\ r.kind \in {"thread", "ring", "queue"}
                                               /\ r.of \in 0 .. n - 1})
<1> DEFINE E == JoinEach(n)
           S == {r \in Resources : r.kind \in {"thread", "ring", "queue"} /\ r.of \in 0 .. n - 1}
<1>1. /\ E \in Seq(Resources) /\ Len(E) = 3 * n
      /\ \A w \in 0 .. n - 1 : /\ E[3*w + 1] = Res("thread", w) /\ E[3*w + 2] = Res("ring", w)
                               /\ E[3*w + 3] = Res("queue", w)
  BY JoinsEach
<1> HIDE DEF E
<1>2. ASSUME NEW k \in 1 .. 3 * n
      PROVE  \E w \in 0 .. n - 1 : \/ k = 3*w + 1 /\ E[k] = Res("thread", w)
                                   \/ k = 3*w + 2 /\ E[k] = Res("ring", w)
                                   \/ k = 3*w + 3 /\ E[k] = Res("queue", w)
  <2>1. PICK w \in 0 .. n - 1 : k \in {3*w + 1, 3*w + 2, 3*w + 3}
    BY CountBy
  <2> QED
    BY <1>1, <2>1
<1>3. ASSUME NEW k \in 1 .. 3 * n PROVE E[k] \in S
  BY <1>2, ResTypes DEF Kinds
<1>4. ASSUME NEW r \in S PROVE \E k \in 1 .. 3 * n : E[k] = r
  <2>1. r = Res(r.kind, r.of) /\ r.kind \in {"thread", "ring", "queue"} /\ r.of \in 0 .. n - 1
    BY ResTypes
  <2>2. PICK w \in 0 .. n - 1 : w = r.of
    BY <2>1
  <2>3. 3*w + 1 \in 1 .. 3 * n /\ 3*w + 2 \in 1 .. 3 * n /\ 3*w + 3 \in 1 .. 3 * n
    OBVIOUS
  <2> QED
    BY <1>1, <2>1, <2>2, <2>3
<1>5. ASSUME NEW k \in 1 .. 3 * n, NEW m \in 1 .. 3 * n, E[k] = E[m] PROVE k = m
  <2>1. PICK v \in 0 .. n - 1 : \/ k = 3*v + 1 /\ E[k] = Res("thread", v)
                                \/ k = 3*v + 2 /\ E[k] = Res("ring", v)
                                \/ k = 3*v + 3 /\ E[k] = Res("queue", v)
    BY <1>2
  <2>2. PICK w \in 0 .. n - 1 : \/ m = 3*w + 1 /\ E[m] = Res("thread", w)
                                \/ m = 3*w + 2 /\ E[m] = Res("ring", w)
                                \/ m = 3*w + 3 /\ E[m] = Res("queue", w)
    BY <1>2
  <2> QED
    BY <1>5, <2>1, <2>2, SameRes DEF Kinds
<1>6. Lists(E, S)
  BY <1>1, <1>3, <1>4, <1>5 DEF Lists
<1> QED
  BY <1>6 DEF E

\* JoinAll does the same, all the threads first.
LEMMA JoinAllLists ==
  ASSUME NEW n \in Nat
  PROVE  /\ Lists(JoinAll(n), {r \in Resources : /\ r.kind \in {"thread", "ring", "queue"}
                                                 /\ r.of \in 0 .. n - 1})
         /\ \A w \in 0 .. n - 1 : JoinAll(n)[w + 1] = Res("thread", w)
         /\ n <= Len(JoinAll(n))
<1> DEFINE A == [k \in 1 .. n |-> Res("thread", k - 1)]
           B == EachWorker(QueueRelease, 2, n)
           S == {r \in Resources : r.kind = "thread" /\ r.of \in 0 .. n - 1}
           T == {r \in Resources : r.kind \in {"ring", "queue"} /\ r.of \in 0 .. n - 1}
<1>1. A \in Seq(Resources) /\ Len(A) = n
  <2>1. \A k \in 1 .. n : Res("thread", k - 1) \in Resources
    BY ResTypes DEF Kinds
  <2> QED
    BY <2>1
<1>2. \A k \in 1 .. n : A[k] = Res("thread", k - 1)
  OBVIOUS
<1>3. JoinAll(n) = A \o B
  BY DEF JoinAll
<1>4. /\ B \in Seq(Resources) /\ Len(B) = 2 * n
      /\ \A w \in 0 .. n - 1 : B[2*w + 1] = Res("ring", w) /\ B[2*w + 2] = Res("queue", w)
  BY ReleasesEach
<1> HIDE DEF A, B
<1>5. Lists(A, S)
  <2>1. \A k \in 1 .. n : A[k] \in S
    BY <1>2, ResTypes DEF Kinds
  <2>2. ASSUME NEW r \in S PROVE \E k \in 1 .. n : A[k] = r
    <3>1. r = Res("thread", r.of) /\ r.of \in 0 .. n - 1
      BY ResTypes
    <3>2. r.of + 1 \in 1 .. n /\ A[r.of + 1] = Res("thread", r.of)
      BY <1>2, <3>1
    <3> QED
      BY <3>1, <3>2
  <2>3. ASSUME NEW k \in 1 .. n, NEW m \in 1 .. n, A[k] = A[m] PROVE k = m
    <3>1. k - 1 = m - 1
      BY <1>2, <2>3, SameRes DEF Kinds
    <3> QED
      BY <3>1
  <2> QED
    BY <1>1, <2>1, <2>2, <2>3 DEF Lists
<1>6. ASSUME NEW k \in 1 .. 2 * n
      PROVE  \E w \in 0 .. n - 1 : \/ k = 2*w + 1 /\ B[k] = Res("ring", w)
                                   \/ k = 2*w + 2 /\ B[k] = Res("queue", w)
  <2>1. PICK w \in 0 .. n - 1 : k \in {2*w + 1, 2*w + 2}
    BY CountBy
  <2> QED
    BY <1>4, <2>1
<1>7. Lists(B, T)
  <2>1. \A k \in 1 .. 2 * n : B[k] \in T
    BY <1>6, ResTypes DEF Kinds
  <2>2. ASSUME NEW r \in T PROVE \E k \in 1 .. 2 * n : B[k] = r
    <3>1. r = Res(r.kind, r.of) /\ r.kind \in {"ring", "queue"} /\ r.of \in 0 .. n - 1
      BY ResTypes
    <3>2. /\ 2*r.of + 1 \in 1 .. 2 * n /\ 2*r.of + 2 \in 1 .. 2 * n
          /\ B[2*r.of + 1] = Res("ring", r.of) /\ B[2*r.of + 2] = Res("queue", r.of)
      BY <1>4, <3>1
    <3> QED
      BY <3>1, <3>2
  <2>3. ASSUME NEW k \in 1 .. 2 * n, NEW m \in 1 .. 2 * n, B[k] = B[m] PROVE k = m
    <3>1. PICK v \in 0 .. n - 1 : \/ k = 2*v + 1 /\ B[k] = Res("ring", v)
                                  \/ k = 2*v + 2 /\ B[k] = Res("queue", v)
      BY <1>6
    <3>2. PICK w \in 0 .. n - 1 : \/ m = 2*w + 1 /\ B[m] = Res("ring", w)
                                  \/ m = 2*w + 2 /\ B[m] = Res("queue", w)
      BY <1>6
    <3> QED
      BY <2>3, <3>1, <3>2, SameRes DEF Kinds
  <2> QED
    BY <1>4, <2>1, <2>2, <2>3 DEF Lists
<1>8. Lists(A \o B, S \cup T)
  <2>1. \A r \in S : r \notin T
    OBVIOUS
  <2> QED
    BY <1>5, <1>7, <2>1, ListsJoined
<1>9. S \cup T = {r \in Resources : r.kind \in {"thread", "ring", "queue"} /\ r.of \in 0 .. n - 1}
  OBVIOUS
<1>10. /\ Len(A \o B) = n + 2 * n
       /\ \A w \in 0 .. n - 1 : (A \o B)[w + 1] = A[w + 1] /\ A[w + 1] = Res("thread", w)
  <2> HIDE DEF Resources
  <2>1. \A k \in 1 .. n : (A \o B)[k] = A[k]
    BY <1>1, <1>4, Joined
  <2> QED
    <3>1. Len(A \o B) = n + 2 * n
      BY <1>1, <1>4, Joined
    <3>2. ASSUME NEW w \in 0 .. n - 1
          PROVE  (A \o B)[w + 1] = A[w + 1] /\ A[w + 1] = Res("thread", w)
      <4>1. PICK k \in 1 .. n : k = w + 1 /\ k - 1 = w
        OBVIOUS
      <4> QED
        BY <1>2, <2>1, <4>1
    <3> QED
      BY <3>1, <3>2
<1>11. Lists(JoinAll(n), {r \in Resources : /\ r.kind \in {"thread", "ring", "queue"}
                                            /\ r.of \in 0 .. n - 1})
  BY <1>3, <1>8, <1>9
<1>12. n <= Len(JoinAll(n)) /\ \A w \in 0 .. n - 1 : JoinAll(n)[w + 1] = Res("thread", w)
  BY <1>3, <1>10
<1> QED
  BY <1>11, <1>12

\* The end of shutdown and of the error paths, item by item.
LEMMA SharedItems ==
  ASSUME WorkerCount \in Nat
  PROVE  /\ ReleaseShared \in Seq(Resources) /\ Len(ReleaseShared) = 6
         /\ ReleaseShared[1] = Res("workers", NONE) /\ ReleaseShared[2] = Res("cond", NONE)
         /\ ReleaseShared[3] = Res("mutex", NONE) /\ ReleaseShared[4] = Res("ring", WorkerCount)
         /\ ReleaseShared[5] = Res("queue", WorkerCount)
         /\ ReleaseShared[6] = Res("scheduler", NONE)
<1>1. PICK a \in Resources, b \in Resources, c \in Resources, d \in Resources, e \in Resources,
           f \in Resources :
        /\ a = Res("workers", NONE) /\ b = Res("cond", NONE) /\ c = Res("mutex", NONE)
        /\ d = Res("ring", WorkerCount) /\ e = Res("queue", WorkerCount)
        /\ f = Res("scheduler", NONE)
  BY ResTypes DEF Kinds
<1>2. ReleaseShared = <<a, b, c>> \o <<d, e>> \o <<f>>
  BY <1>1 DEF ReleaseShared, QueueRelease, Global
<1> DEFINE s == <<a, b, c>> \o <<d, e>> \o <<f>>
<1>3. /\ s \in Seq(Resources) /\ Len(s) = 6
      /\ s[1] = a /\ s[2] = b /\ s[3] = c /\ s[4] = d /\ s[5] = e /\ s[6] = f
  <2> HIDE DEF Resources
  <2> QED
    OBVIOUS
<1> QED
  BY <1>1, <1>2, <1>3

\* What belongs to the pool as a whole.
SharedParts ==
  {r \in Resources : \/ r.kind \in SharedKinds /\ r.of = NONE
                     \/ r.kind \in QueueKinds /\ r.of = WorkerCount}

\* What the workers share is one of these six.
LEMMA SharedCases ==
  ASSUME WorkerCount \in Nat
  PROVE  /\ \A m \in 1 .. 6 : m \in {1, 2, 3, 4, 5, 6}
         /\ \A r \in Resources :
              r \in SharedParts <=>
                r \in {Res("workers", NONE), Res("cond", NONE), Res("mutex", NONE),
                       Res("ring", WorkerCount), Res("queue", WorkerCount), Res("scheduler", NONE)}
<1>1. \A m \in 1 .. 6 : m \in {1, 2, 3, 4, 5, 6}
  OBVIOUS
<1>2. ASSUME NEW r \in Resources
      PROVE  r \in SharedParts <=>
               r \in {Res("workers", NONE), Res("cond", NONE), Res("mutex", NONE),
                      Res("ring", WorkerCount), Res("queue", WorkerCount), Res("scheduler", NONE)}
  BY DEF SharedParts, SharedKinds, QueueKinds, Res, Resources
<1> QED
  BY <1>1, <1>2

\* ReleaseShared releases each of these once.
LEMMA SharedLists ==
  ASSUME WorkerCount \in Nat
  PROVE  Lists(ReleaseShared, SharedParts)
<1> DEFINE s == ReleaseShared
<1>1. /\ s \in Seq(Resources) /\ Len(s) = 6
      /\ s[1] = Res("workers", NONE) /\ s[2] = Res("cond", NONE) /\ s[3] = Res("mutex", NONE)
      /\ s[4] = Res("ring", WorkerCount) /\ s[5] = Res("queue", WorkerCount)
      /\ s[6] = Res("scheduler", NONE)
  BY SharedItems
<1> HIDE DEF s
<1>2. ASSUME NEW m \in 1 .. 6 PROVE s[m] \in SharedParts
  <2>1. s[m] \in Resources
    <3>1. m \in {1, 2, 3, 4, 5, 6}
      OBVIOUS
    <3>2. /\ Res("workers", NONE) \in Resources /\ Res("cond", NONE) \in Resources
          /\ Res("mutex", NONE) \in Resources /\ Res("ring", WorkerCount) \in Resources
          /\ Res("queue", WorkerCount) \in Resources /\ Res("scheduler", NONE) \in Resources
      BY ResTypes DEF Kinds
    <3> QED
      BY <1>1, <3>1, <3>2
  <2> QED
    BY <1>1, <2>1, SharedCases
<1>3. ASSUME NEW r \in SharedParts PROVE \E m \in 1 .. 6 : s[m] = r
  <2>1. r \in Resources
    BY DEF SharedParts
  <2>2. 1 \in 1 .. 6 /\ 2 \in 1 .. 6 /\ 3 \in 1 .. 6 /\ 4 \in 1 .. 6 /\ 5 \in 1 .. 6 /\ 6 \in 1 .. 6
    OBVIOUS
  <2> QED
    BY <1>1, <2>1, <2>2, SharedCases
<1>4. ASSUME NEW m \in 1 .. 6, NEW n \in 1 .. 6, s[m] = s[n] PROVE m = n
  <2>1. m \in {1, 2, 3, 4, 5, 6} /\ n \in {1, 2, 3, 4, 5, 6}
    OBVIOUS
  <2> QED
    BY <1>1, <1>4, <2>1 DEF Res
<1>5. Lists(s, SharedParts)
  BY <1>1, <1>2, <1>3, <1>4 DEF Lists
<1> QED
  BY <1>5 DEF s

\* The steps of create, item by item.
LEMMA PlanItems ==
  ASSUME WorkerCount \in Nat
  PROVE  /\ Plan \in Seq(Resources) /\ Len(Plan) = Steps
         /\ Plan[1] = Res("scheduler", NONE)
         /\ Plan[2] = Res("queue", WorkerCount) /\ Plan[3] = Res("ring", WorkerCount)
         /\ Plan[4] = Res("mutex", NONE) /\ Plan[5] = Res("cond", NONE)
         /\ Plan[6] = Res("workers", NONE)
         /\ \A w \in 0 .. WorkerCount - 1 :
              /\ Plan[7 + 4*w] = Res("queue", w) /\ Plan[8 + 4*w] = Res("ring", w)
              /\ Plan[9 + 4*w] = Res("arg", w) /\ Plan[10 + 4*w] = Res("thread", w)
<1>1. PICK a \in Resources, b \in Resources, c \in Resources, d \in Resources, e \in Resources,
           f \in Resources :
        /\ a = Res("scheduler", NONE) /\ b = Res("queue", WorkerCount)
        /\ c = Res("ring", WorkerCount) /\ d = Res("mutex", NONE) /\ e = Res("cond", NONE)
        /\ f = Res("workers", NONE)
  BY ResTypes DEF Kinds
<1> DEFINE E == EachWorker(LAMBDA w : QueueParts(w) \o ThreadParts(w), 4, WorkerCount)
           s == <<a>> \o <<b, c>> \o <<d>> \o <<e>> \o <<f>>
<1>2. Plan = s \o E
  BY <1>1 DEF Plan, QueueParts, MutexParts, CondParts, Global
<1>3. /\ s \in Seq(Resources) /\ Len(s) = 6
      /\ s[1] = a /\ s[2] = b /\ s[3] = c /\ s[4] = d /\ s[5] = e /\ s[6] = f
  <2> HIDE DEF Resources
  <2> QED
    OBVIOUS
<1>4. /\ E \in Seq(Resources) /\ Len(E) = 4 * WorkerCount
      /\ \A w \in 0 .. WorkerCount - 1 :
           /\ E[4*w + 1] = Res("queue", w) /\ E[4*w + 2] = Res("ring", w)
           /\ E[4*w + 3] = Res("arg", w) /\ E[4*w + 4] = Res("thread", w)
  BY StartsEach
<1> HIDE DEF E, s
<1>5. /\ s \o E \in Seq(Resources) /\ Len(s \o E) = 6 + 4 * WorkerCount
      /\ \A k \in 1 .. 6 + 4 * WorkerCount : (s \o E)[k] = IF k <= 6 THEN s[k] ELSE E[k - 6]
  <2>1. /\ s \o E \in Seq(Resources) /\ Len(s \o E) = Len(s) + Len(E)
        /\ \A k \in 1 .. Len(s) + Len(E) :
             (s \o E)[k] = IF k <= Len(s) THEN s[k] ELSE E[k - Len(s)]
    <3> HIDE DEF Resources
    <3> QED
      BY <1>3, <1>4, Joined
  <2> QED
    BY <1>3, <1>4, <2>1
<1>6. ASSUME NEW w \in 0 .. WorkerCount - 1
      PROVE  /\ Plan[7 + 4*w] = Res("queue", w) /\ Plan[8 + 4*w] = Res("ring", w)
             /\ Plan[9 + 4*w] = Res("arg", w) /\ Plan[10 + 4*w] = Res("thread", w)
  <2>1. ASSUME NEW k \in 7 .. 6 + 4 * WorkerCount PROVE Plan[k] = E[k - 6]
    BY <1>2, <1>5
  <2>2. PICK k \in 7 .. 6 + 4 * WorkerCount, l \in 7 .. 6 + 4 * WorkerCount,
             m \in 7 .. 6 + 4 * WorkerCount, n \in 7 .. 6 + 4 * WorkerCount :
          k = 7 + 4*w /\ l = 8 + 4*w /\ m = 9 + 4*w /\ n = 10 + 4*w
    OBVIOUS
  <2>3. k - 6 = 4*w + 1 /\ l - 6 = 4*w + 2 /\ m - 6 = 4*w + 3 /\ n - 6 = 4*w + 4
    BY <2>2
  <2> QED
    BY <1>4, <2>1, <2>2, <2>3
<1>7. ASSUME NEW k \in 1 .. 6 PROVE Plan[k] = s[k]
  BY <1>2, <1>5
<1>8. /\ Plan[1] = a /\ Plan[2] = b /\ Plan[3] = c /\ Plan[4] = d /\ Plan[5] = e /\ Plan[6] = f
  BY <1>3, <1>7
<1>9. Plan \in Seq(Resources) /\ Len(Plan) = Steps
  BY <1>2, <1>5 DEF Steps
<1> QED
  BY <1>1, <1>6, <1>8, <1>9

\* Step At(r) acquires r, and every step acquires one part.
LEMMA PlanAt ==
  ASSUME WorkerCount \in Nat
  PROVE  /\ \A r \in Parts : At(r) \in 1 .. Steps /\ Plan[At(r)] = r
         /\ \A k \in 1 .. Steps : Plan[k] \in Parts /\ At(Plan[k]) = k
         /\ Len(Plan) = Steps /\ NONE \notin Nat
<1>0. NONE \notin Nat
  BY ParallelAssumption
<1>1. ASSUME NEW r \in Parts PROVE At(r) \in 1 .. Steps /\ Plan[At(r)] = r
  <2>1. r = Res(r.kind, r.of) /\ r.kind \in Kinds /\ r.of \in Nat \cup {NONE}
    BY ResTypes DEF Parts
  <2>2. CASE r.kind \in SharedKinds
    <3>1. r.of = NONE
      BY <2>2 DEF Parts, SharedKinds, QueueKinds
    <3> QED
      BY <2>1, <2>2, <3>1, PlanItems DEF At, Steps, SharedKinds
  <2>3. CASE r.kind \in QueueKinds /\ r.of = WorkerCount
    <3>1. 2 \in 1 .. Steps /\ 3 \in 1 .. Steps
      BY DEF Steps
    <3>2. At(r) = IF r.kind = "queue" THEN 2 ELSE 3
      BY <2>3 DEF At, QueueKinds
    <3>3. Plan[2] = Res("queue", WorkerCount) /\ Plan[3] = Res("ring", WorkerCount)
      BY PlanItems
    <3> QED
      BY <2>1, <2>3, <3>1, <3>2, <3>3 DEF QueueKinds
  <2>4. CASE (r.kind \in QueueKinds /\ r.of # WorkerCount) \/ r.kind \in {"arg", "thread"}
    <3>1. PICK w \in 0 .. WorkerCount - 1 : w = r.of
      BY <2>4 DEF Parts, SharedKinds, QueueKinds
    <3>2. /\ Plan[7 + 4*w] = Res("queue", w) /\ Plan[8 + 4*w] = Res("ring", w)
          /\ Plan[9 + 4*w] = Res("arg", w) /\ Plan[10 + 4*w] = Res("thread", w)
      BY PlanItems
    <3>3. /\ r.kind = "queue" => At(r) = 7 + 4*w
          /\ r.kind = "ring" => At(r) = 8 + 4*w
          /\ r.kind = "arg" => At(r) = 9 + 4*w
          /\ r.kind = "thread" => At(r) = 10 + 4*w
      BY <3>1 DEF At
    <3>4. /\ 7 + 4*w \in 1 .. Steps /\ 8 + 4*w \in 1 .. Steps
          /\ 9 + 4*w \in 1 .. Steps /\ 10 + 4*w \in 1 .. Steps
      BY DEF Steps
    <3> QED
      BY <2>1, <2>4, <3>1, <3>2, <3>3, <3>4 DEF QueueKinds
  <2> QED
    BY <2>1, <2>2, <2>3, <2>4 DEF Kinds, SharedKinds, QueueKinds
<1>2. ASSUME NEW k \in 1 .. Steps PROVE Plan[k] \in Parts /\ At(Plan[k]) = k
  <2>1. CASE k <= 6
    <3>1. k \in {1, 2, 3, 4, 5, 6}
      BY <2>1 DEF Steps
    <3>2. ASSUME NEW j \in SharedKinds
          PROVE  Res(j, NONE) \in Parts /\ Res(j, NONE).kind = j /\ Res(j, NONE).of = NONE
      <4>1. j \in Kinds /\ NONE \in Nat \cup {NONE}
        BY DEF SharedKinds, Kinds
      <4>2. Res(j, NONE) \in Resources /\ Res(j, NONE).kind = j /\ Res(j, NONE).of = NONE
        BY <4>1, ResTypes
      <4> QED
        BY <4>2 DEF Parts
    <3>3. ASSUME NEW j \in QueueKinds
          PROVE  /\ Res(j, WorkerCount) \in Parts
                 /\ Res(j, WorkerCount).kind = j /\ Res(j, WorkerCount).of = WorkerCount
      BY ResTypes DEF Parts, QueueKinds, Kinds
    <3> QED
      BY <3>1, <3>2, <3>3, PlanItems DEF At, SharedKinds, QueueKinds
  <2>2. CASE k > 6
    <3>1. PICK w \in 0 .. WorkerCount - 1 : k - 6 \in {4*w + 1, 4*w + 2, 4*w + 3, 4*w + 4}
      <4>1. k - 6 \in 1 .. 4 * WorkerCount
        BY <2>2 DEF Steps
      <4> QED
        BY <4>1, CountBy
    <3>2. k \in {7 + 4*w, 8 + 4*w, 9 + 4*w, 10 + 4*w}
      BY <3>1 DEF Steps
    <3>3. /\ Plan[7 + 4*w] = Res("queue", w) /\ Plan[8 + 4*w] = Res("ring", w)
          /\ Plan[9 + 4*w] = Res("arg", w) /\ Plan[10 + 4*w] = Res("thread", w)
      BY PlanItems
    <3>4. \A j \in {"queue", "ring", "arg", "thread"} :
            Res(j, w) \in Parts /\ Res(j, w).kind = j /\ Res(j, w).of = w
      BY ResTypes DEF Parts, QueueKinds, Kinds
    <3>5. /\ At(Res("queue", w)) = 7 + 4*w /\ At(Res("ring", w)) = 8 + 4*w
          /\ At(Res("arg", w)) = 9 + 4*w /\ At(Res("thread", w)) = 10 + 4*w
      BY <3>4 DEF At
    <3> QED
      BY <3>2, <3>3, <3>4, <3>5
  <2> QED
    BY <2>1, <2>2 DEF Steps
<1> QED
  BY <1>0, <1>1, <1>2, PlanItems

-----------------------------------------------------------------------------
(* What the error paths release *)

\* All that has been acquired before step k, except the arguments that the threads own;
\* if the step is the start of a thread its argument is still the creator's.
Undone(k) ==
  {r \in Parts : At(r) < k /\ (r.kind = "arg" => k = 10 + 4 * r.of)}

\* The parts that are acquired before the workers are started.
LEMMA EarlyParts ==
  ASSUME WorkerCount \in Nat \ {0}, NEW k \in 1 .. 7
  PROVE  \A r \in Resources :
           r \in Undone(k) <=>
             \/ r = Res("scheduler", NONE) /\ k > 1
             \/ r = Res("queue", WorkerCount) /\ k > 2
             \/ r = Res("ring", WorkerCount) /\ k > 3
             \/ r = Res("mutex", NONE) /\ k > 4
             \/ r = Res("cond", NONE) /\ k > 5
             \/ r = Res("workers", NONE) /\ k > 6
<1> SUFFICES ASSUME NEW r \in Resources
             PROVE  r \in Undone(k) <=>
                      \/ r = Res("scheduler", NONE) /\ k > 1
                      \/ r = Res("queue", WorkerCount) /\ k > 2
                      \/ r = Res("ring", WorkerCount) /\ k > 3
                      \/ r = Res("mutex", NONE) /\ k > 4
                      \/ r = Res("cond", NONE) /\ k > 5
                      \/ r = Res("workers", NONE) /\ k > 6
  OBVIOUS
<1>1. r.kind \in Kinds /\ r.of \in Nat \cup {NONE} /\ r = Res(r.kind, r.of)
  BY ResTypes
<1>2. NONE \notin Nat
  BY ParallelAssumption
<1>3. CASE r.kind \in SharedKinds
  <2>1. r \in Undone(k) <=> r.of = NONE /\ At(r) < k
    BY <1>3 DEF Undone, Parts, SharedKinds, QueueKinds
  <2> QED
    BY <1>1, <1>2, <1>3, <2>1 DEF SharedKinds, At, Res
<1>4. CASE r.kind \in QueueKinds
  <2>1. r \in Undone(k) <=> r.of \in 0 .. WorkerCount /\ At(r) < k
    BY <1>4 DEF Undone, Parts, SharedKinds, QueueKinds
  <2>2. r.of \in 0 .. WorkerCount /\ r.of # WorkerCount => ~(At(r) < k)
    BY <1>4 DEF At, QueueKinds
  <2> QED
    BY <1>1, <1>2, <1>4, <2>1, <2>2 DEF QueueKinds, At, Res
<1>5. CASE r.kind \in {"arg", "thread"}
  <2>1. r \in Undone(k) => r.of \in 0 .. WorkerCount - 1 /\ At(r) < k
    BY <1>5 DEF Undone, Parts, SharedKinds, QueueKinds
  <2>2. r.of \in 0 .. WorkerCount - 1 => ~(At(r) < k)
    BY <1>5 DEF At
  <2> QED
    BY <1>5, <2>1, <2>2 DEF Res
<1> QED
  BY <1>1, <1>3, <1>4, <1>5 DEF Kinds, SharedKinds, QueueKinds

\* A list of one thing.
LEMMA ListsOne ==
  ASSUME NEW r \in Resources
  PROVE  Lists(<<r>>, {r})
<1> HIDE DEF Resources
<1>1. <<r>> \in Seq(Resources) /\ Len(<<r>>) = 1 /\ <<r>>[1] = r /\ \A m \in 1 .. 1 : m = 1
  OBVIOUS
<1> QED
  BY <1>1 DEF Lists

\* What Cleanup releases if one of the first six steps fails.
LEMMA CleanupEarlyItems ==
  ASSUME WorkerCount \in Nat \ {0}
  PROVE  LET last(a) == SubSeq(ReleaseShared, a, 6) IN
         /\ Cleanup(Plan[1]) = << >> /\ Cleanup(Plan[2]) = last(6)
         /\ Cleanup(Plan[3]) = <<Res("queue", WorkerCount)>> \o last(6)
         /\ Cleanup(Plan[4]) = last(4) /\ Cleanup(Plan[5]) = last(3) /\ Cleanup(Plan[6]) = last(2)
<1>1. Len(ReleaseShared) = 6
  BY SharedItems
<1>2. /\ Plan[1].kind = "scheduler" /\ Plan[2].kind = "queue" /\ Plan[2].of = WorkerCount
      /\ Plan[3].kind = "ring" /\ Plan[3].of = WorkerCount
      /\ Plan[4].kind = "mutex" /\ Plan[5].kind = "cond" /\ Plan[6].kind = "workers"
  BY PlanItems DEF Res
<1>3. 6 - 1 + 1 = 6 /\ 6 - 3 + 1 = 4 /\ 6 - 4 + 1 = 3 /\ 6 - 5 + 1 = 2
  OBVIOUS
<1> DEFINE last(a) == SubSeq(ReleaseShared, a, 6)
<1>4. Cleanup(Plan[1]) = << >>
  BY <1>2 DEF Cleanup
<1>5. Cleanup(Plan[2]) = last(6)
  BY <1>1, <1>2, <1>3 DEF Cleanup, Global
<1>6. Cleanup(Plan[3]) = <<Res("queue", WorkerCount)>> \o last(6)
  BY <1>1, <1>2, <1>3 DEF Cleanup, Global
<1>7. Cleanup(Plan[4]) = last(4)
  BY <1>1, <1>2, <1>3 DEF Cleanup
<1>8. Cleanup(Plan[5]) = last(3)
  BY <1>1, <1>2, <1>3 DEF Cleanup
<1>9. Cleanup(Plan[6]) = last(2)
  BY <1>1, <1>2, <1>3 DEF Cleanup
<1> QED
  BY <1>4, <1>5, <1>6, <1>7, <1>8, <1>9

\* It releases what has been acquired (scheduler.c:187-242).
LEMMA CleanupEarly ==
  ASSUME WorkerCount \in Nat \ {0}, NEW k \in 1 .. 6
  PROVE  Lists(Cleanup(Plan[k]), Undone(k))
<1> DEFINE s == ReleaseShared
<1>1. /\ Lists(s, SharedParts) /\ Len(s) = 6
      /\ s[1] = Res("workers", NONE) /\ s[2] = Res("cond", NONE) /\ s[3] = Res("mutex", NONE)
      /\ s[4] = Res("ring", WorkerCount) /\ s[5] = Res("queue", WorkerCount)
      /\ s[6] = Res("scheduler", NONE)
  BY SharedItems, SharedLists
<1>2. \A r \in SharedParts : r \in Resources
  BY DEF SharedParts
<1>3. \A n \in 1 .. 7 : \A r \in Undone(n) : r \in Resources
  BY DEF Undone, Parts
<1>4. \A n \in 1 .. 7 : \A r \in Resources :
        r \in Undone(n) <=>
          \/ r = s[6] /\ n > 1
          \/ r = s[5] /\ n > 2
          \/ r = s[4] /\ n > 3
          \/ r = s[3] /\ n > 4
          \/ r = s[2] /\ n > 5
          \/ r = s[1] /\ n > 6
  BY <1>1, EarlyParts
<1>5. \A m \in 1 .. 6 : s[m] \in Resources
  BY <1>1, <1>2 DEF Lists
<1> HIDE DEF s
<1>6. ASSUME NEW a \in 2 .. 6, NEW n \in 2 .. 7, (a = 6 /\ n = 2) \/ (a # 6 /\ a = 8 - n)
      PROVE  Lists(SubSeq(s, a, 6), Undone(n))
  <2>1. \A m \in a .. 6 : s[m] \in Undone(n)
    <3> SUFFICES ASSUME NEW m \in a .. 6 PROVE s[m] \in Undone(n)
      OBVIOUS
    <3>1. m \in {2, 3, 4, 5, 6} /\ s[m] \in Resources
      BY <1>5
    <3> QED
      BY <1>4, <1>6, <3>1
  <2>2. \A r \in Undone(n) : \E m \in a .. 6 : s[m] = r
    BY <1>3, <1>4, <1>6
  <2>3. Len(s) = 6 /\ a \in 1 .. Len(s)
    BY <1>1
  <2>4. /\ \A m \in a .. Len(s) : s[m] \in Undone(n)
        /\ \A r \in Undone(n) : \E m \in a .. Len(s) : s[m] = r
    BY <2>1, <2>2, <2>3
  <2>5. Lists(SubSeq(s, a, Len(s)), Undone(n))
    <3>1. Lists(s, SharedParts) /\ a \in 1 .. Len(s)
      BY <1>1, <2>3
    <3> QED
      BY <2>4, <3>1, ListsEnd
  <2> QED
    BY <2>3, <2>5
<1>7. /\ Cleanup(Plan[1]) = << >> /\ Cleanup(Plan[2]) = SubSeq(s, 6, 6)
      /\ Cleanup(Plan[3]) = <<s[5]>> \o SubSeq(s, 6, 6)
      /\ Cleanup(Plan[4]) = SubSeq(s, 4, 6) /\ Cleanup(Plan[5]) = SubSeq(s, 3, 6)
      /\ Cleanup(Plan[6]) = SubSeq(s, 2, 6)
  BY <1>1, CleanupEarlyItems DEF s
<1>8. CASE k = 1
  <2>1. << >> \in Seq(Resources) /\ Len(<< >>) = 0
    OBVIOUS
  <2>2. \A r \in Undone(1) : FALSE
    BY <1>3, <1>4
  <2>3. Lists(<< >>, Undone(1))
    BY <2>1, <2>2 DEF Lists
  <2> QED
    BY <1>7, <1>8, <2>3
<1>9. CASE k \in {2, 4, 5, 6}
  <2>1. /\ Lists(SubSeq(s, 6, 6), Undone(2)) /\ Lists(SubSeq(s, 4, 6), Undone(4))
        /\ Lists(SubSeq(s, 3, 6), Undone(5)) /\ Lists(SubSeq(s, 2, 6), Undone(6))
    <3> HIDE DEF s
    <3>1. Lists(SubSeq(s, 6, 6), Undone(2))
      BY <1>6
    <3>2. Lists(SubSeq(s, 4, 6), Undone(4))
      BY <1>6
    <3>3. Lists(SubSeq(s, 3, 6), Undone(5))
      BY <1>6
    <3>4. Lists(SubSeq(s, 2, 6), Undone(6))
      BY <1>6
    <3> QED
      BY <3>1, <3>2, <3>3, <3>4
  <2> QED
    BY <1>7, <1>9, <2>1
<1>10. CASE k = 3
  <2>1. Lists(<<s[5]>>, {s[5]}) /\ Lists(SubSeq(s, 6, 6), Undone(2))
    BY <1>5, <1>6, ListsOne
  <2>2. s[5] # s[6] /\ s[5] # s[4] /\ s[6] # s[4]
    BY <1>1 DEF Res
  <2>3. \A r \in {s[5]} : r \notin Undone(2)
    BY <1>4, <1>5, <2>2
  <2>4. {s[5]} \cup Undone(2) = Undone(3)
    BY <1>3, <1>4, <1>5
  <2>5. Lists(<<s[5]>> \o SubSeq(s, 6, 6), {s[5]} \cup Undone(2))
    BY <2>1, <2>3, ListsJoined
  <2> QED
    BY <1>7, <1>10, <2>4, <2>5
<1> QED
  BY <1>8, <1>9, <1>10

\* The parts that are acquired before worker w is started, and those of worker w.
LEMMA LateParts ==
  ASSUME WorkerCount \in Nat \ {0}, NEW w \in 0 .. WorkerCount - 1, NEW j \in 0 .. 3
  PROVE  \A r \in Resources :
           r \in Undone(7 + 4 * w + j) <=>
             \/ r.kind \in {"thread", "ring", "queue"} /\ r.of \in 0 .. w - 1
             \/ r \in SharedParts
             \/ r = Res("queue", w) /\ j > 0
             \/ r = Res("ring", w) /\ j > 1
             \/ r = Res("arg", w) /\ j = 3
<1> DEFINE late(r) == \/ r.kind \in {"thread", "ring", "queue"} /\ r.of \in 0 .. w - 1
                      \/ r \in SharedParts
                      \/ r = Res("queue", w) /\ j > 0
                      \/ r = Res("ring", w) /\ j > 1
                      \/ r = Res("arg", w) /\ j = 3
<1> SUFFICES ASSUME NEW r \in Resources
             PROVE  r \in Undone(7 + 4 * w + j) <=> late(r)
  OBVIOUS
<1>1. r.kind \in Kinds /\ r.of \in Nat \cup {NONE} /\ r = Res(r.kind, r.of)
  BY ResTypes
<1>2. NONE \notin Nat
  BY ParallelAssumption
<1>3. CASE r.kind \in SharedKinds
  <2>1. r \in Undone(7 + 4 * w + j) <=> r.of = NONE /\ At(r) < 7 + 4 * w + j
    BY <1>3 DEF Undone, Parts, SharedKinds, QueueKinds
  <2>2. At(r) < 7 + 4 * w + j
    BY <1>3 DEF At, SharedKinds
  <2>3. late(r) <=> r.of = NONE
    BY <1>3 DEF SharedKinds, QueueKinds, SharedParts, Res
  <2> QED
    BY <2>1, <2>2, <2>3
<1>4. CASE r.kind \in QueueKinds
  <2>1. r \in Undone(7 + 4 * w + j) <=> r.of \in 0 .. WorkerCount /\ At(r) < 7 + 4 * w + j
    BY <1>4 DEF Undone, Parts, SharedKinds, QueueKinds
  <2>2. CASE r.of = WorkerCount
    <3>1. At(r) < 7 + 4 * w + j
      BY <1>4, <2>2 DEF At, QueueKinds
    <3>2. r \in SharedParts
      BY <1>4, <2>2 DEF SharedParts
    <3> QED
      BY <2>1, <2>2, <3>1, <3>2
  <2>3. CASE r.of # WorkerCount
    <3>1. r \notin SharedParts
      BY <1>4, <2>3 DEF SharedParts, SharedKinds, QueueKinds
    <3>2. CASE r.of \in Nat
      <4>1. At(r) = IF r.kind = "queue" THEN 7 + 4 * r.of ELSE 8 + 4 * r.of
        BY <1>4, <2>3 DEF At, QueueKinds
      <4>2. late(r) <=> \/ r.of \in 0 .. w - 1
                        \/ r.of = w /\ r.kind = "queue" /\ j > 0
                        \/ r.of = w /\ r.kind = "ring" /\ j > 1
        BY <1>1, <1>4, <3>1 DEF QueueKinds, Res
      <4> QED
        BY <1>4, <2>1, <2>3, <3>2, <4>1, <4>2 DEF QueueKinds
    <3>3. CASE r.of = NONE
      BY <1>2, <1>4, <2>1, <3>1, <3>3 DEF Res
    <3> QED
      BY <1>1, <3>2, <3>3
  <2> QED
    BY <2>2, <2>3
<1>5. CASE r.kind \in {"arg", "thread"}
  <2>1. r \in Undone(7 + 4 * w + j) <=>
          /\ r.of \in 0 .. WorkerCount - 1 /\ At(r) < 7 + 4 * w + j
          /\ r.kind = "arg" => 7 + 4 * w + j = 10 + 4 * r.of
    BY <1>5 DEF Undone, Parts, SharedKinds, QueueKinds
  <2>2. r \notin SharedParts
    BY <1>5 DEF SharedParts, SharedKinds, QueueKinds
  <2>3. late(r) <=> \/ r.kind = "thread" /\ r.of \in 0 .. w - 1
                    \/ r.kind = "arg" /\ r.of = w /\ j = 3
    BY <1>1, <1>5, <2>2 DEF Res
  <2>4. CASE r.of \in Nat
    <3>1. At(r) = IF r.kind = "arg" THEN 9 + 4 * r.of ELSE 10 + 4 * r.of
      BY <1>5 DEF At
    <3> QED
      BY <1>5, <2>1, <2>3, <2>4, <3>1
  <2>5. CASE r.of = NONE
    BY <1>2, <1>5, <2>1, <2>3, <2>5
  <2> QED
    BY <1>1, <2>4, <2>5
<1> QED
  BY <1>1, <1>3, <1>4, <1>5 DEF Kinds, SharedKinds, QueueKinds

\* Putting three lists together.
LEMMA JoinedThree ==
  ASSUME NEW S, NEW s \in Seq(S), NEW t \in Seq(S), NEW u \in Seq(S)
  PROVE  (s \o t) \o u = s \o (t \o u)
OBVIOUS

\* What follows in the tail of a list follows in the list.
LEMMA KeepsJoined ==
  ASSUME NEW s, NEW S, NEW u, NEW U, Lists(s, S), Lists(u, U), NEW t, NEW r, t \notin S,
         Keeps(u, t, r)
  PROVE  Keeps(s \o u, t, r)
<1>1. s \in Seq(Resources) /\ u \in Seq(Resources) /\ Len(s) \in Nat /\ Len(u) \in Nat
  BY DEF Lists
<1>2. /\ Len(s \o u) = Len(s) + Len(u)
      /\ \A k \in 1 .. Len(s) + Len(u) :
           (s \o u)[k] = IF k <= Len(s) THEN s[k] ELSE u[k - Len(s)]
  <2> HIDE DEF Resources
  <2> QED
    BY <1>1, Joined
<1>3. ASSUME NEW m \in 1 .. Len(s) + Len(u), (s \o u)[m] = t
      PROVE  \E n \in 1 .. Len(s) + Len(u) : m < n /\ (s \o u)[n] = r
  <2>1. ~(m <= Len(s))
    BY <1>1, <1>2, <1>3 DEF Lists
  <2>2. PICK k \in 1 .. Len(u) : k = m - Len(s) /\ u[k] = t
    BY <1>1, <1>2, <1>3, <2>1
  <2>3. PICK l \in 1 .. Len(u) : k < l /\ u[l] = r
    BY <2>2 DEF Keeps
  <2>4. PICK n \in 1 .. Len(s) + Len(u) : n = l + Len(s)
    BY <1>1
  <2>5. (s \o u)[n] = u[n - Len(s)] /\ n - Len(s) = l
    BY <1>1, <1>2, <2>4
  <2> QED
    BY <1>1, <2>2, <2>3, <2>4, <2>5
<1> QED
  BY <1>2, <1>3 DEF Keeps

\* The loop over the workers and what follows it, on the error paths: everything in it but
\* the first thread is released after that has been joined.
LEMMA RestLists ==
  ASSUME WorkerCount \in Nat \ {0}, NEW w \in 0 .. WorkerCount - 1
  PROVE  /\ Lists(JoinEach(w) \o ReleaseShared, Undone(7 + 4 * w))
         /\ \A r \in Undone(7 + 4 * w) :
              r # Res("thread", 0) => Keeps(JoinEach(w) \o ReleaseShared, Res("thread", 0), r)
<1> DEFINE A == {r \in Resources : r.kind \in {"thread", "ring", "queue"} /\ r.of \in 0 .. w - 1}
           J == JoinEach(w)
           s == J \o ReleaseShared
<1>1. Lists(J, A) /\ Lists(ReleaseShared, SharedParts)
  BY JoinEachLists, SharedLists
<1>2. \A r \in A : r \notin SharedParts
  BY ParallelAssumption DEF SharedParts, SharedKinds, QueueKinds
<1>3. \A r \in SharedParts : r \in Resources
  BY DEF SharedParts
<1>4. A \cup SharedParts = Undone(7 + 4 * w)
  <2>1. \A r \in Undone(7 + 4 * w) : r \in Resources
    BY DEF Undone, Parts
  <2>2. 7 + 4 * w + 0 = 7 + 4 * w /\ 0 \in 0 .. 3
    OBVIOUS
  <2>3. \A r \in Resources : r \in Undone(7 + 4 * w) <=>
          (r.kind \in {"thread", "ring", "queue"} /\ r.of \in 0 .. w - 1) \/ r \in SharedParts
    BY <2>2, LateParts
  <2> QED
    BY <1>3, <2>1, <2>3
<1>5. Lists(s, A \cup SharedParts)
  BY <1>1, <1>2, ListsJoined
<1>6. ASSUME NEW r \in A \cup SharedParts, r # Res("thread", 0)
      PROVE  Keeps(s, Res("thread", 0), r)
  <2>1. CASE w = 0
    <3>1. Res("thread", 0) \notin A \cup SharedParts
      BY <2>1, ResTypes DEF SharedParts, SharedKinds, QueueKinds, Kinds
    <3>2. \A m \in 1 .. Len(s) : s[m] # Res("thread", 0)
      BY <1>5, <3>1 DEF Lists
    <3> QED
      BY <3>2 DEF Keeps
  <2>2. CASE w # 0
    <3>1. J \in Seq(Resources) /\ Len(J) = 3 * w /\ J[1] = Res("thread", 0)
      <4>1. 0 \in 0 .. w - 1 /\ 3 * 0 + 1 = 1
        BY <2>2
      <4>2. w \in Nat
        OBVIOUS
      <4>3. /\ J \in Seq(Resources) /\ Len(J) = 3 * w
            /\ \A v \in 0 .. w - 1 : J[3*v + 1] = Res("thread", v)
        BY <4>2, JoinsEach
      <4>4. J[3*0 + 1] = Res("thread", 0)
        BY <4>1, <4>3
      <4> HIDE DEF J
      <4> QED
        BY <4>1, <4>3, <4>4
    <3>2. s[1] = Res("thread", 0) /\ 1 \in 1 .. Len(s)
      <4>1. ReleaseShared \in Seq(Resources) /\ Len(ReleaseShared) = 6
        BY SharedItems
      <4>2. 1 <= Len(J)
        BY <2>2, <3>1
      <4> HIDE DEF Resources, J
      <4> QED
        BY <3>1, <4>1, <4>2
    <3>3. PICK n \in 1 .. Len(s) : s[n] = r
      BY <1>5 DEF Lists
    <3>4. \A m \in 1 .. Len(s) : s[m] = Res("thread", 0) => m = 1
      BY <1>5, <3>2 DEF Lists
    <3>5. n # 1
      BY <1>6, <3>2, <3>3
    <3>6. Len(s) \in Nat
      BY <1>5 DEF Lists
    <3>7. 1 < n
      BY <3>5, <3>6
    <3> HIDE DEF s
    <3> QED
      BY <3>3, <3>4, <3>7 DEF Keeps
  <2> QED
    BY <2>1, <2>2
<1> QED
  BY <1>4, <1>5, <1>6

\* What Cleanup releases if a step for worker w fails.
LEMMA CleanupLateItems ==
  ASSUME WorkerCount \in Nat \ {0}, NEW w \in 0 .. WorkerCount - 1
  PROVE  LET R == JoinEach(w) \o ReleaseShared IN
         /\ Cleanup(Plan[7 + 4*w]) = R
         /\ Cleanup(Plan[8 + 4*w]) = <<Res("queue", w)>> \o R
         /\ Cleanup(Plan[9 + 4*w]) = QueueRelease(w) \o R
         /\ Cleanup(Plan[10 + 4*w]) = (<<Res("arg", w)>> \o QueueRelease(w)) \o R
<1> DEFINE J == JoinEach(w)
           R == J \o ReleaseShared
<1>1. w \in Nat /\ w # Global
  BY DEF Global
<1>2. /\ Plan[7 + 4*w].kind = "queue" /\ Plan[7 + 4*w].of = w
      /\ Plan[8 + 4*w].kind = "ring" /\ Plan[8 + 4*w].of = w
      /\ Plan[9 + 4*w].kind = "arg" /\ Plan[9 + 4*w].of = w
      /\ Plan[10 + 4*w].kind = "thread" /\ Plan[10 + 4*w].of = w
  <2>1. /\ Plan[7 + 4*w] = Res("queue", w) /\ Plan[8 + 4*w] = Res("ring", w)
        /\ Plan[9 + 4*w] = Res("arg", w) /\ Plan[10 + 4*w] = Res("thread", w)
    BY PlanItems
  <2> QED
    BY <2>1 DEF Res
<1>3. /\ J \in Seq(Resources) /\ ReleaseShared \in Seq(Resources)
      /\ <<Res("queue", w)>> \in Seq(Resources) /\ <<Res("arg", w)>> \in Seq(Resources)
      /\ QueueRelease(w) \in Seq(Resources)
      /\ <<Res("arg", w)>> \o QueueRelease(w) \in Seq(Resources)
  <2>1. PICK a \in Resources, b \in Resources, c \in Resources :
          a = Res("arg", w) /\ b = Res("ring", w) /\ c = Res("queue", w)
    BY <1>1, ResTypes DEF Kinds
  <2>2. <<c>> \in Seq(Resources) /\ <<a>> \in Seq(Resources) /\ <<b, c>> \in Seq(Resources)
        /\ <<a>> \o <<b, c>> \in Seq(Resources)
    <3> HIDE DEF Resources
    <3> QED
      OBVIOUS
  <2> QED
    BY <1>1, <2>1, <2>2, JoinsEach, SharedItems DEF QueueRelease
<1> HIDE DEF J, Resources
<1>4. Cleanup(Plan[7 + 4*w]) = R
  BY <1>1, <1>2 DEF Cleanup, J
<1>5. Cleanup(Plan[8 + 4*w]) = <<Res("queue", w)>> \o R
  <2>1. Cleanup(Plan[8 + 4*w]) = (<<Res("queue", w)>> \o J) \o ReleaseShared
    BY <1>1, <1>2 DEF Cleanup, J
  <2> QED
    BY <1>3, <2>1, JoinedThree
<1>6. Cleanup(Plan[9 + 4*w]) = QueueRelease(w) \o R
  <2>1. Cleanup(Plan[9 + 4*w]) = (QueueRelease(w) \o J) \o ReleaseShared
    BY <1>1, <1>2 DEF Cleanup, J
  <2> QED
    BY <1>3, <2>1, JoinedThree
<1>7. Cleanup(Plan[10 + 4*w]) = (<<Res("arg", w)>> \o QueueRelease(w)) \o R
  <2> DEFINE A == <<Res("arg", w)>> \o QueueRelease(w)
  <2>1. Cleanup(Plan[10 + 4*w]) = (A \o J) \o ReleaseShared
    BY <1>1, <1>2 DEF Cleanup, J
  <2>2. A \in Seq(Resources)
    BY <1>3
  <2> HIDE DEF A
  <2>3. (A \o J) \o ReleaseShared = A \o (J \o ReleaseShared)
    BY <1>3, <2>2, JoinedThree
  <2>4. Cleanup(Plan[10 + 4*w]) = A \o R
    BY <2>1, <2>3
  <2> QED
    BY <2>4 DEF A
<1> QED
  BY <1>4, <1>5, <1>6, <1>7 DEF J

\* A queue is destroyed in two steps.
LEMMA QueueLists ==
  ASSUME NEW q \in Nat
  PROVE  /\ Lists(QueueRelease(q), {Res("ring", q), Res("queue", q)})
         /\ Lists(<<Res("arg", q)>> \o QueueRelease(q),
                  {Res("arg", q), Res("ring", q), Res("queue", q)})
<1>1. Res("arg", q) \in Resources /\ Res("ring", q) \in Resources /\ Res("queue", q) \in Resources
  BY ResTypes DEF Kinds
<1>2. /\ Lists(<<Res("ring", q)>>, {Res("ring", q)}) /\ Lists(<<Res("arg", q)>>, {Res("arg", q)})
      /\ Lists(<<Res("queue", q)>>, {Res("queue", q)})
  BY <1>1, ListsOne
<1>3. /\ Res("ring", q) # Res("queue", q) /\ Res("arg", q) # Res("queue", q)
      /\ Res("arg", q) # Res("ring", q)
  BY DEF Res
<1>4. PICK a \in Resources, b \in Resources : a = Res("ring", q) /\ b = Res("queue", q) /\ a # b
  BY <1>1, <1>3
<1>5. Lists(QueueRelease(q), {Res("ring", q), Res("queue", q)})
  <2>1. /\ <<a, b>> \in Seq(Resources) /\ Len(<<a, b>>) = 2 /\ <<a, b>>[1] = a /\ <<a, b>>[2] = b
        /\ \A m \in 1 .. 2 : m = 1 \/ m = 2
    <3> HIDE DEF Resources
    <3> QED
      OBVIOUS
  <2>2. Lists(<<a, b>>, {a, b})
    BY <1>4, <2>1 DEF Lists
  <2> QED
    BY <1>4, <2>2 DEF QueueRelease
<1>6. Lists(<<Res("arg", q)>> \o QueueRelease(q), {Res("arg", q), Res("ring", q), Res("queue", q)})
  <2>1. Lists(<<Res("arg", q)>> \o QueueRelease(q),
              {Res("arg", q)} \cup {Res("ring", q), Res("queue", q)})
    <3>1. \A r \in {Res("arg", q)} : r \notin {Res("ring", q), Res("queue", q)}
      BY <1>3
    <3> QED
      BY <1>2, <1>5, <3>1, ListsJoined
  <2>2. {Res("arg", q)} \cup {Res("ring", q), Res("queue", q)}
          = {Res("arg", q), Res("ring", q), Res("queue", q)}
    OBVIOUS
  <2> QED
    BY <2>1, <2>2
<1> QED
  BY <1>5, <1>6

\* It releases what has been acquired (scheduler.c:246-279), and what belongs to the
\* workers that run after the first of them has been joined.
LEMMA CleanupLate ==
  ASSUME WorkerCount \in Nat \ {0}, NEW w \in 0 .. WorkerCount - 1, NEW j \in 0 .. 3
  PROVE  /\ Lists(Cleanup(Plan[7 + 4 * w + j]), Undone(7 + 4 * w + j))
         /\ \A r \in Undone(7 + 4 * w) :
              r # Res("thread", 0) => Keeps(Cleanup(Plan[7 + 4 * w + j]), Res("thread", 0), r)
<1> DEFINE R == JoinEach(w) \o ReleaseShared
           B == Undone(7 + 4 * w)
           U == Undone(7 + 4 * w + j)
           t == Res("thread", 0)
<1>1. /\ Lists(R, B)
      /\ \A r \in B : r # t => Keeps(R, t, r)
  BY RestLists
<1>2. \A r \in Resources :
        r \in B <=> \/ r.kind \in {"thread", "ring", "queue"} /\ r.of \in 0 .. w - 1
                    \/ r \in SharedParts
  <2>1. 7 + 4 * w + 0 = 7 + 4 * w /\ 0 \in 0 .. 3
    OBVIOUS
  <2> QED
    BY <2>1, LateParts
<1>3. \A r \in Resources :
        r \in U <=> \/ r \in B
                    \/ r = Res("queue", w) /\ j > 0
                    \/ r = Res("ring", w) /\ j > 1
                    \/ r = Res("arg", w) /\ j = 3
  BY <1>2, LateParts
<1>4. /\ \A c \in {"queue", "ring", "arg"} :
           Res(c, w) \in Resources /\ Res(c, w).kind = c /\ Res(c, w).of = w
      /\ t.kind = "thread"
  BY ResTypes DEF Kinds
<1>5. Res("queue", w) \notin B /\ Res("ring", w) \notin B /\ Res("arg", w) \notin B
  <2>1. \A r \in SharedParts : r.of # w
    BY ParallelAssumption DEF SharedParts
  <2> QED
    BY <1>2, <1>4, <2>1
<1>6. (\A r \in B : r \in Resources) /\ \A r \in U : r \in Resources
  BY DEF Undone, Parts
<1> HIDE DEF R, B, U
<1>7. /\ Lists(<<Res("queue", w)>>, {Res("queue", w)})
      /\ Lists(QueueRelease(w), {Res("ring", w), Res("queue", w)})
      /\ Lists(<<Res("arg", w)>> \o QueueRelease(w),
               {Res("arg", w), Res("ring", w), Res("queue", w)})
  BY <1>4, ListsOne, QueueLists
<1>8. ASSUME NEW p, NEW P, Lists(p, P), \A r \in P : r \notin B, t \notin P
      PROVE  Lists(p \o R, P \cup B) /\ \A r \in B : r # t => Keeps(p \o R, t, r)
  <2>1. Lists(p \o R, P \cup B)
    BY <1>1, <1>8, ListsJoined
  <2>2. ASSUME NEW r \in B, r # t PROVE Keeps(p \o R, t, r)
    <3>1. Keeps(R, t, r)
      BY <1>1, <2>2
    <3> HIDE DEF t
    <3> QED
      BY <1>1, <1>8, <3>1, KeepsJoined
  <2> QED
    BY <2>1, <2>2
<1>9. /\ Cleanup(Plan[7 + 4 * w]) = R
      /\ Cleanup(Plan[8 + 4 * w]) = <<Res("queue", w)>> \o R
      /\ Cleanup(Plan[9 + 4 * w]) = QueueRelease(w) \o R
      /\ Cleanup(Plan[10 + 4 * w]) = (<<Res("arg", w)>> \o QueueRelease(w)) \o R
  BY CleanupLateItems DEF R
<1>10. /\ j = 0 => 7 + 4 * w + j = 7 + 4 * w
       /\ j = 1 => 7 + 4 * w + j = 8 + 4 * w
       /\ j = 2 => 7 + 4 * w + j = 9 + 4 * w
       /\ j = 3 => 7 + 4 * w + j = 10 + 4 * w
       /\ j \in {0, 1, 2, 3}
  OBVIOUS
<1>11. CASE j = 0
  <2>1. U = B
    BY <1>3, <1>6, <1>11
  <2>2. Cleanup(Plan[7 + 4 * w + j]) = R
    BY <1>9, <1>10, <1>11
  <2> QED
    BY <1>1, <2>1, <2>2 DEF U, B
<1>12. CASE j = 1
  <2> DEFINE p == <<Res("queue", w)>>
             P == {Res("queue", w)}
  <2>1. U = P \cup B
    BY <1>3, <1>4, <1>6, <1>12
  <2>2. Cleanup(Plan[7 + 4 * w + j]) = p \o R
    BY <1>9, <1>10, <1>12
  <2>3. (\A r \in P : r \notin B) /\ t \notin P
    BY <1>4, <1>5
  <2>4. Lists(p \o R, P \cup B) /\ \A r \in B : r # t => Keeps(p \o R, t, r)
    BY <1>7, <1>8, <2>3
  <2> QED
    BY <2>1, <2>2, <2>4 DEF U, B
<1>13. CASE j = 2
  <2> DEFINE p == QueueRelease(w)
             P == {Res("ring", w), Res("queue", w)}
  <2>1. U = P \cup B
    BY <1>3, <1>4, <1>6, <1>13
  <2>2. Cleanup(Plan[7 + 4 * w + j]) = p \o R
    BY <1>9, <1>10, <1>13
  <2>3. (\A r \in P : r \notin B) /\ t \notin P
    BY <1>4, <1>5
  <2>4. Lists(p \o R, P \cup B) /\ \A r \in B : r # t => Keeps(p \o R, t, r)
    BY <1>7, <1>8, <2>3
  <2> QED
    BY <2>1, <2>2, <2>4 DEF U, B
<1>14. CASE j = 3
  <2> DEFINE p == <<Res("arg", w)>> \o QueueRelease(w)
             P == {Res("arg", w), Res("ring", w), Res("queue", w)}
  <2>1. U = P \cup B
    BY <1>3, <1>4, <1>6, <1>14
  <2>2. Cleanup(Plan[7 + 4 * w + j]) = p \o R
    BY <1>9, <1>10, <1>14
  <2>3. (\A r \in P : r \notin B) /\ t \notin P
    BY <1>4, <1>5
  <2>4. Lists(p \o R, P \cup B) /\ \A r \in B : r # t => Keeps(p \o R, t, r)
    BY <1>7, <1>8, <2>3
  <2> QED
    BY <2>1, <2>2, <2>4 DEF U, B
<1> QED
  BY <1>10, <1>11, <1>12, <1>13, <1>14

\* Of these, what does not belong to the worker whose start is step k.
Lasting(k) ==
  {r \in Undone(k) : \/ r.kind \in SharedKinds
                     \/ r.kind \in QueueKinds /\ (r.of = WorkerCount \/ 10 + 4 * r.of < k)}

\* Whichever step of create fails, what has been acquired is released, once; and what the
\* workers that run may use, after the first of them has been joined.
LEMMA CleanupLists ==
  ASSUME WorkerCount \in Nat \ {0}, NEW k \in 1 .. Steps
  PROVE  /\ Lists(Cleanup(Plan[k]), Undone(k))
         /\ \A r \in Lasting(k) : Keeps(Cleanup(Plan[k]), Res("thread", 0), r)
<1> DEFINE t == Res("thread", 0)
<1>t. t \in Resources /\ t.kind = "thread" /\ t.of = 0
  BY ResTypes DEF Kinds
<1>1. CASE k <= 6
  <2>1. k \in 1 .. 6
    BY <1>1 DEF Steps
  <2>2. Lists(Cleanup(Plan[k]), Undone(k))
    BY <2>1, CleanupEarly
  <2>3. t \notin Undone(k)
    BY <2>1, <1>t DEF Undone, At
  <2>4. \A m \in 1 .. Len(Cleanup(Plan[k])) : Cleanup(Plan[k])[m] # t
    BY <2>2, <2>3 DEF Lists
  <2>5. \A r \in Undone(k) : Keeps(Cleanup(Plan[k]), t, r)
    BY <2>4 DEF Keeps
  <2> QED
    BY <2>2, <2>5 DEF Lasting
<1>2. CASE k > 6
  <2>1. PICK w \in 0 .. WorkerCount - 1, j \in 0 .. 3 : k = 7 + 4 * w + j
    <3>1. k - 6 \in 1 .. 4 * WorkerCount
      BY <1>2 DEF Steps
    <3>2. PICK w \in 0 .. WorkerCount - 1 : k - 6 \in {4*w + 1, 4*w + 2, 4*w + 3, 4*w + 4}
      BY <3>1, CountBy
    <3>3. k - (7 + 4 * w) \in 0 .. 3 /\ k = 7 + 4 * w + (k - (7 + 4 * w))
      BY <3>2 DEF Steps
    <3> QED
      BY <3>3
  <2>2. /\ Lists(Cleanup(Plan[k]), Undone(k))
        /\ \A r \in Undone(7 + 4 * w) : r # t => Keeps(Cleanup(Plan[k]), t, r)
    BY <2>1, CleanupLate
  <2>3. ASSUME NEW r \in Lasting(k) PROVE r \in Undone(7 + 4 * w) /\ r # t
    <3>0. /\ r \in Undone(k)
          /\ \/ r.kind \in SharedKinds
             \/ r.kind \in QueueKinds /\ (r.of = WorkerCount \/ 10 + 4 * r.of < k)
      BY DEF Lasting
    <3>1. r # t
      BY <1>t, <3>0 DEF SharedKinds, QueueKinds
    <3>2. At(r) < 7 + 4 * w
      <4>1. CASE r.kind \in SharedKinds
        BY <4>1 DEF At, SharedKinds
      <4>2. CASE r.kind \in QueueKinds /\ r.of = WorkerCount
        BY <4>2 DEF At, QueueKinds
      <4>3. CASE r.kind \in QueueKinds /\ r.of # WorkerCount /\ 10 + 4 * r.of < k
        <5>1. r.of \in 0 .. WorkerCount
          BY <3>0, <4>3 DEF Undone, Parts, SharedKinds, QueueKinds
        <5> QED
          BY <2>1, <4>3, <5>1 DEF At, QueueKinds
      <4> QED
        BY <3>0, <4>1, <4>2, <4>3
    <3> QED
      BY <3>0, <3>1, <3>2 DEF Undone, SharedKinds, QueueKinds
  <2> QED
    BY <2>2, <2>3
<1> QED
  BY <1>1, <1>2 DEF Steps

\* The shutdown releases all that create has acquired, but for the arguments, which the
\* threads own; what the workers use, after all of them have been joined (scheduler.c:286-309).
LEMMA ShutdownLists ==
  ASSUME WorkerCount \in Nat \ {0}
  PROVE  LET s == JoinAll(WorkerCount) \o ReleaseShared IN
         /\ Lists(s, {r \in Parts : r.kind # "arg"})
         /\ \A w \in 0 .. WorkerCount - 1, r \in Parts :
              r.kind \notin {"arg", "thread"} => Keeps(s, Res("thread", w), r)
<1> DEFINE J == JoinAll(WorkerCount)
           s == J \o ReleaseShared
           A == {r \in Resources : /\ r.kind \in {"thread", "ring", "queue"}
                                   /\ r.of \in 0 .. WorkerCount - 1}
           P == {r \in Parts : r.kind # "arg"}
<1>1. /\ Lists(J, A) /\ WorkerCount <= Len(J)
      /\ \A w \in 0 .. WorkerCount - 1 : J[w + 1] = Res("thread", w)
  BY JoinAllLists
<1>2. Lists(ReleaseShared, SharedParts) /\ Len(ReleaseShared) = 6
  BY SharedLists, SharedItems
<1>3. \A r \in A : r \notin SharedParts
  BY ParallelAssumption DEF SharedParts, SharedKinds, QueueKinds
<1>4. A \cup SharedParts = P
  <2>1. ASSUME NEW r \in Resources PROVE r \in A \cup SharedParts <=> r \in P
    BY ParallelAssumption, ResTypes DEF SharedParts, SharedKinds, QueueKinds, Parts, Kinds
  <2> QED
    BY <2>1 DEF SharedParts, Parts
<1>5. Lists(s, P)
  <2>1. Lists(s, A \cup SharedParts)
    BY <1>1, <1>2, <1>3, ListsJoined
  <2> QED
    BY <1>4, <2>1
<1>6. /\ J \in Seq(Resources) /\ Len(J) \in Nat /\ ReleaseShared \in Seq(Resources)
      /\ s \in Seq(Resources) /\ Len(s) \in Nat
  BY <1>1, <1>2, <1>5 DEF Lists
<1>7. /\ Len(s) = Len(J) + 6
      /\ \A k \in 1 .. Len(J) : s[k] = J[k]
  <2>1. /\ Len(J \o ReleaseShared) = Len(J) + Len(ReleaseShared)
        /\ \A k \in 1 .. Len(J) + Len(ReleaseShared) :
             (J \o ReleaseShared)[k] = IF k <= Len(J) THEN J[k] ELSE ReleaseShared[k - Len(J)]
    <3> HIDE DEF Resources, J
    <3> QED
      BY <1>6, Joined
  <2> QED
    BY <1>2, <1>6, <2>1
<1> HIDE DEF J, s, P, Resources
<1>8. ASSUME NEW w \in 0 .. WorkerCount - 1
      PROVE  w + 1 \in 1 .. Len(s) /\ s[w + 1] = Res("thread", w)
  <2>1. w + 1 \in 1 .. Len(J) /\ w + 1 \in 1 .. Len(s)
    BY <1>1, <1>6, <1>7
  <2> QED
    BY <1>1, <1>7, <2>1
<1>9. ASSUME NEW w \in 0 .. WorkerCount - 1, NEW r \in P, r.kind # "thread"
      PROVE  Keeps(s, Res("thread", w), r)
  <2>1. PICK n \in 1 .. Len(s) : s[n] = r
    BY <1>5 DEF Lists
  <2>2. \A m \in 1 .. Len(s) : s[m] = Res("thread", w) => m = w + 1
    BY <1>5, <1>8 DEF Lists
  <2>3. ~(n <= WorkerCount)
    <3>1. SUFFICES ASSUME n <= WorkerCount PROVE FALSE
      OBVIOUS
    <3>2. PICK v \in 0 .. WorkerCount - 1 : n = v + 1
      <4>1. n - 1 \in 0 .. WorkerCount - 1 /\ n = (n - 1) + 1
        BY <1>6, <3>1
      <4> QED
        BY <4>1
    <3>3. r = Res("thread", v)
      BY <1>8, <2>1, <3>2
    <3> QED
      BY <1>9, <3>3 DEF Res
  <2>4. w + 1 < n
    BY <1>6, <2>3
  <2> QED
    BY <2>1, <2>2, <2>4 DEF Keeps
<1> QED
  BY <1>5, <1>9 DEF s, P, J

-----------------------------------------------------------------------------
(* The steps of the pool *)

\* What is in a list.
LEMMA InList ==
  ASSUME NEW S, NEW s \in Seq(S)
  PROVE  \A r : r \in ToSet(s) <=> \E m \in 1 .. Len(s) : s[m] = r
BY DEF ToSet

\* A worker that has read its argument goes on in its loop, or leaves it.
Moves(w) ==
  /\ UNCHANGED <<cfg, cores, phase, i, held, todo, slots, shutdown_flag>>
  /\ wpc[w] \in {"loop", "using", "busy"} /\ wpc'[w] \in {"loop", "using", "busy", "exited"}
  /\ wpc'[w] = "exited" => shutdown_flag
  /\ uses'[w] # NONE => wpc'[w] = "using" /\ uses'[w] \in DOMAIN slots
  /\ uses' \in [AllWorkers -> 0 .. WorkerCount \cup {NONE}]
  /\ \A v \in AllWorkers \ {w} : wpc'[v] = wpc[v] /\ uses'[v] = uses[v]

\* cancel_all sets the flag as well.
SetsFlag ==
  /\ phase = "up" /\ shutdown_flag' = TRUE
  /\ UNCHANGED <<cfg, cores, phase, i, held, todo, slots, wpc, uses>>

\* What a step of the pool is for the creator and the workers.
LEMMA PoolSteps ==
  ASSUME PoolInv, StartInv, [PoolNext]_allVars
  PROVE  \/ UNCHANGED vars \/ fq_scheduler_create \/ Acquire \/ AcquireFails \/ Created
         \/ Release \/ Return \/ fq_scheduler_shutdown \/ SetsFlag
         \/ \E w \in Workers : ThreadEntry(w) \/ Moves(w)
<1>i. PoolTypeOK /\ WorkInv /\ WorkerCount \in 1 .. MaxThreads
  BY WorkerCountType DEF PoolInv
<1>w. Workers \subseteq AllWorkers /\ Workers \cup {Global} = 0 .. WorkerCount
  BY <1>i, LifecycleAssumption DEF Workers, AllWorkers, Global
<1>u. uses \in [AllWorkers -> 0 .. WorkerCount \cup {NONE}]
  BY DEF StartInv
<1>1. CASE (fq_scheduler_create \/ Over) /\ UNCHANGED pvars
  BY <1>1 DEF Over
<1>2. CASE CreatorStep
  BY <1>2 DEF CreatorStep, Creator
<1>3. CASE CallsOver /\ fq_scheduler_shutdown /\ UNCHANGED pvars
  BY <1>3
<1>4. ASSUME NEW w \in Workers, WorkerStep(w) PROVE ThreadEntry(w) \/ Moves(w) \/ UNCHANGED vars
  <2>0. /\ w \in AllWorkers
        /\ wpc \in [AllWorkers -> {"none", "entry", "loop", "using", "busy", "exited"}]
    BY <1>i, <1>w DEF PoolTypeOK
  <2>1. CASE ThreadEntry(w)
    BY <2>1
  <2>2. CASE BeginUse(w)
    <3>1. PICK q \in 0 .. WorkerCount : Published(q) /\ uses' = [uses EXCEPT ![w] = q]
      BY <1>w, <2>2 DEF BeginUse
    <3> QED
      BY <1>u, <2>0, <2>2, <3>1 DEF BeginUse, Published, Moves
  <2>3. CASE EndUse(w)
    BY <1>u, <2>0, <2>3 DEF EndUse, Moves
  <2>4. CASE Leave(w)
    <3>1. uses[w] = NONE
      BY <2>4 DEF Leave, Exit, StartInv
    <3> QED
      BY <1>u, <2>0, <2>4, <3>1 DEF Leave, Exit, Moves
  <2>5. CASE TakeChunk(w)
    <3>1. uses[w] = NONE
      BY <2>5 DEF TakeChunk, StartInv
    <3> QED
      BY <1>u, <2>0, <2>5, <3>1 DEF TakeChunk, Moves
  <2>6. CASE CallFn(w)
    BY <2>6 DEF CallFn
  <2>7. CASE EndChunk(w)
    <3>1. wpc[w] = "busy"
      BY <1>i, <2>0, <2>7 DEF EndChunk, WorkInv
    <3>2. uses[w] = NONE
      BY <3>1 DEF StartInv
    <3> QED
      BY <1>u, <2>0, <2>7, <3>1, <3>2 DEF EndChunk, Moves
  <2> QED
    BY <1>4, <2>1, <2>2, <2>3, <2>4, <2>5, <2>6, <2>7 DEF WorkerStep
<1>5. ASSUME NEW c \in Clients \cup Workers,
             fq_scheduler_parallel_for(c) \/ CallStep(c) \/ WaitReturns(c) \/ WaitPolls(c)
      PROVE  UNCHANGED vars
  BY <1>5 DEF fq_scheduler_parallel_for, CallStep, AllocRange, AllocFails, SubmitAccepted,
              SubmitFails, SubmitPush, WaitIdle, WaitReturns, WaitPolls, allVars
<1>6. CASE CancelAll
  BY <1>6 DEF CancelAll, SetsFlag
<1>7. CASE CancelDestroy \/ CancelReturns
  BY <1>7 DEF CancelDestroy, CancelReturns
<1>8. CASE UNCHANGED allVars
  BY <1>8 DEF allVars
<1> QED
  BY <1>1, <1>2, <1>3, <1>4, <1>5, <1>6, <1>7, <1>8 DEF PoolNext

\* What is fixed with the configuration.
LEMMA SameShape ==
  ASSUME UNCHANGED <<cfg, cores>>
  PROVE  /\ WorkerCount' = WorkerCount /\ Workers' = Workers /\ Steps' = Steps /\ Parts' = Parts
         /\ \A r : At(r)' = At(r)
         /\ Plan' = Plan
<1>1. WorkerCount' = WorkerCount /\ Workers' = Workers /\ Global' = Global
  BY SameWorkerCount
<1>2. Steps' = Steps /\ Parts' = Parts
  BY <1>1 DEF Steps, Parts
<1>3. ASSUME NEW r PROVE At(r)' = At(r)
  BY <1>1 DEF At
<1>4. Plan' = Plan
  BY <1>1 DEF Plan, QueueParts, ThreadParts, MutexParts, CondParts, EachWorker, Res
<1> QED
  BY <1>1, <1>2, <1>3, <1>4

\* The two parts of a queue are acquired one after the other.
LEMMA RingParts ==
  ASSUME WorkerCount \in Nat
  PROVE  \A q \in 0 .. WorkerCount :
           /\ Res("ring", q) \in Parts /\ Res("queue", q) \in Parts
           /\ At(Res("queue", q)) = At(Res("ring", q)) - 1
           /\ At(Res("ring", q)) = IF q = WorkerCount THEN 3 ELSE 8 + 4 * q
<1> SUFFICES ASSUME NEW q \in 0 .. WorkerCount
             PROVE  /\ Res("ring", q) \in Parts /\ Res("queue", q) \in Parts
                    /\ At(Res("queue", q)) = At(Res("ring", q)) - 1
                    /\ At(Res("ring", q)) = IF q = WorkerCount THEN 3 ELSE 8 + 4 * q
  OBVIOUS
<1>1. \A k \in QueueKinds : Res(k, q) \in Resources /\ Res(k, q).kind = k /\ Res(k, q).of = q
  BY ResTypes DEF QueueKinds, Kinds
<1> QED
  BY <1>1 DEF QueueKinds, Parts, At

\* The steps that start no worker.
LEMMA StartStays ==
  ASSUME PoolInv, StartInv,
         UNCHANGED vars \/ fq_scheduler_create \/ AcquireFails \/ Created \/ Release \/ Return
           \/ fq_scheduler_shutdown \/ SetsFlag
  PROVE  StartInv'
<1>i. PoolTypeOK /\ WorkerCount \in 1 .. MaxThreads /\ WorkerCount \in Nat
  BY WorkerCountType, LifecycleAssumption DEF PoolInv
<1>1. UNCHANGED <<cfg, cores, i, slots, wpc, uses>>
  BY DEF vars, fq_scheduler_create, AcquireFails, Created, Release, Return, fq_scheduler_shutdown,
         SetsFlag
<1>2. WorkerCount' = WorkerCount /\ Workers' = Workers /\ Steps' = Steps /\ AllWorkers' = AllWorkers
  BY <1>1, SameShape DEF AllWorkers
<1>3. {q \in 0 .. WorkerCount : At(Res("ring", q)) <= i}'
        = {q \in 0 .. WorkerCount : At(Res("ring", q)) <= i}
  BY <1>1, <1>2 DEF At, Res
<1>4. Len(Plan) = Steps
  BY <1>i, PlanAt
<1>5. /\ phase' \in {"up", "stopping", "down"} => i = Steps
      /\ phase' \in {"failing", "failed"} => i < Steps
      /\ shutdown_flag' => phase' \in {"up", "stopping", "down"}
      /\ shutdown_flag => shutdown_flag'
  BY <1>i, <1>4 DEF StartInv, PoolTypeOK, vars, fq_scheduler_create, AcquireFails, Created, Release,
                    Return, fq_scheduler_shutdown, SetsFlag
<1> QED
  BY <1>1, <1>2, <1>3, <1>5 DEF StartInv

\* A worker that reads its argument, or that goes on.
LEMMA StartMoves ==
  ASSUME PoolInv, StartInv, NEW w \in Workers, ThreadEntry(w) \/ Moves(w)
  PROVE  StartInv'
<1>i. PoolTypeOK /\ WorkerCount \in 1 .. MaxThreads
  BY WorkerCountType DEF PoolInv
<1>w. Workers \subseteq AllWorkers
  BY <1>i, LifecycleAssumption DEF Workers, AllWorkers
<1>1. UNCHANGED <<cfg, cores, phase, i, slots, shutdown_flag>>
  BY DEF ThreadEntry, Moves
<1>2. WorkerCount' = WorkerCount /\ Workers' = Workers /\ Steps' = Steps /\ AllWorkers' = AllWorkers
  BY <1>1, SameShape DEF AllWorkers
<1>3. {q \in 0 .. WorkerCount : At(Res("ring", q)) <= i}'
        = {q \in 0 .. WorkerCount : At(Res("ring", q)) <= i}
  BY <1>1, <1>2 DEF At, Res
<1>4. wpc \in [AllWorkers -> {"none", "entry", "loop", "using", "busy", "exited"}]
  BY <1>i DEF PoolTypeOK
<1>5. ASSUME NEW v \in Workers
      PROVE  /\ wpc'[v] = "none" <=> wpc[v] = "none"
             /\ wpc'[v] = "exited" => shutdown_flag
             /\ uses'[v] # NONE => wpc'[v] = "using" /\ uses'[v] \in DOMAIN slots
  BY <1>w, <1>4 DEF StartInv, ThreadEntry, Moves
<1>6. uses' \in [AllWorkers -> 0 .. WorkerCount \cup {NONE}]
  BY DEF StartInv, ThreadEntry, Moves
<1> QED
  BY <1>1, <1>2, <1>3, <1>5, <1>6 DEF StartInv

\* The parts of a worker.
LEMMA WorkerParts ==
  ASSUME WorkerCount \in Nat
  PROVE  \A w \in 0 .. WorkerCount - 1 :
           /\ Res("arg", w) \in Parts /\ At(Res("arg", w)) = 9 + 4 * w
           /\ Res("thread", w) \in Parts /\ At(Res("thread", w)) = 10 + 4 * w
<1> SUFFICES ASSUME NEW w \in 0 .. WorkerCount - 1
             PROVE  /\ Res("arg", w) \in Parts /\ At(Res("arg", w)) = 9 + 4 * w
                    /\ Res("thread", w) \in Parts /\ At(Res("thread", w)) = 10 + 4 * w
  OBVIOUS
<1>1. \A k \in {"arg", "thread"} : Res(k, w) \in Resources /\ Res(k, w).kind = k /\ Res(k, w).of = w
  BY ResTypes DEF Kinds
<1> QED
  BY <1>1 DEF Parts, At

\* A step of create that succeeds.
LEMMA StartAcquires ==
  ASSUME PoolInv, StartInv, Acquire
  PROVE  StartInv'
<1>i. PoolTypeOK /\ WorkerCount \in 1 .. MaxThreads /\ WorkerCount \in Nat
  BY WorkerCountType, LifecycleAssumption DEF PoolInv
<1>w. Workers \subseteq AllWorkers /\ Workers = 0 .. WorkerCount - 1
  BY <1>i, LifecycleAssumption DEF Workers, AllWorkers
<1>1. /\ UNCHANGED <<cfg, cores, phase, shutdown_flag, uses>>
      /\ phase = "creating" /\ i' = i + 1 /\ i + 1 \in 1 .. Steps /\ i \in Nat
  <2>1. Len(Plan) = Steps /\ Steps \in Nat
    BY <1>i, PlanAt DEF Steps
  <2> QED
    BY <2>1 DEF Acquire, StartInv
<1>2. PICK r \in Parts : r = Plan[i + 1] /\ At(r) = i + 1
  BY <1>i, <1>1, PlanAt
<1>3. /\ slots' = IF r.kind = "ring" THEN [q \in DOMAIN slots \cup {r.of} |->
                                             IF q = r.of THEN RingSlots(q) ELSE slots[q]]
                                     ELSE slots
      /\ wpc' = IF r.kind = "thread" THEN [wpc EXCEPT ![r.of] = "entry"] ELSE wpc
  BY <1>2 DEF Acquire
<1>4. r \in Resources /\ r = Res(r.kind, r.of)
  BY ResTypes DEF Parts
<1>5. WorkerCount' = WorkerCount /\ Workers' = Workers /\ Steps' = Steps /\ AllWorkers' = AllWorkers
  BY <1>1, SameShape DEF AllWorkers
<1>6. {q \in 0 .. WorkerCount : At(Res("ring", q)) <= i}'
        = {q \in 0 .. WorkerCount : At(Res("ring", q)) <= i + 1}
  BY <1>1, <1>5 DEF At, Res
<1>7. DOMAIN slots' = {q \in 0 .. WorkerCount : At(Res("ring", q)) <= i + 1}
  <2>1. \A q \in 0 .. WorkerCount : /\ Res("ring", q) \in Parts /\ At(Res("ring", q)) \in Nat
                                    /\ Plan[At(Res("ring", q))] = Res("ring", q)
    BY <1>i, RingParts, PlanAt
  <2>2. CASE r.kind = "ring"
    <3>1. r.of \in 0 .. WorkerCount /\ At(Res("ring", r.of)) = i + 1
      BY <1>2, <1>4, <2>2 DEF Parts, SharedKinds, QueueKinds
    <3>2. \A q \in 0 .. WorkerCount : At(Res("ring", q)) = i + 1 => q = r.of
      BY <1>2, <1>4, <2>1, <2>2 DEF Res
    <3>3. DOMAIN slots' = DOMAIN slots \cup {r.of}
      BY <1>3, <2>2
    <3>4. DOMAIN slots = {q \in 0 .. WorkerCount : At(Res("ring", q)) <= i}
      BY DEF StartInv
    <3> QED
      BY <1>1, <2>1, <3>1, <3>2, <3>3, <3>4
  <2>3. CASE r.kind # "ring"
    <3>1. \A q \in 0 .. WorkerCount : At(Res("ring", q)) # i + 1
      <4>1. \A q \in 0 .. WorkerCount : Res("ring", q) # r
        BY <2>3 DEF Res
      <4> QED
        BY <1>2, <2>1, <4>1
    <3>2. DOMAIN slots' = {q \in 0 .. WorkerCount : At(Res("ring", q)) <= i}
      BY <1>3, <2>3 DEF StartInv
    <3> QED
      BY <1>1, <2>1, <3>1, <3>2
  <2> QED
    BY <2>2, <2>3
<1>8. DOMAIN slots \subseteq DOMAIN slots'
  BY <1>3
<1>9. ASSUME NEW w \in Workers
      PROVE  /\ wpc'[w] = "none" <=> i + 1 < 10 + 4 * w
             /\ wpc'[w] # wpc[w] => wpc[w] = "none" /\ wpc'[w] = "entry"
  <2>1. Res("thread", w) \in Parts /\ At(Res("thread", w)) = 10 + 4 * w
    BY <1>i, <1>w, WorkerParts
  <2>2. wpc[w] = "none" <=> i < 10 + 4 * w
    BY DEF StartInv
  <2>3. wpc \in [AllWorkers -> {"none", "entry", "loop", "using", "busy", "exited"}]
    BY <1>i DEF PoolTypeOK
  <2>4. CASE r = Res("thread", w)
    <3>1. r.kind = "thread" /\ r.of = w /\ i + 1 = 10 + 4 * w
      BY <1>2, <2>1, <2>4 DEF Res
    <3>2. wpc'[w] = "entry"
      BY <1>3, <1>w, <2>3, <3>1
    <3> QED
      BY <1>1, <2>2, <3>1, <3>2
  <2>5. CASE r # Res("thread", w)
    <3>1. i + 1 # 10 + 4 * w
      BY <1>2, <2>1, <2>5, <1>i, PlanAt
    <3>2. wpc'[w] = wpc[w]
      BY <1>3, <1>4, <1>w, <2>3, <2>5
    <3> QED
      BY <1>1, <1>w, <2>2, <3>1, <3>2
  <2> QED
    BY <2>4, <2>5
<1>10. ASSUME NEW w \in Workers
       PROVE  /\ wpc'[w] = "exited" => shutdown_flag
              /\ uses[w] # NONE => wpc'[w] = "using" /\ uses[w] \in DOMAIN slots'
  BY <1>8, <1>9 DEF StartInv
<1> QED
  BY <1>1, <1>5, <1>6, <1>7, <1>9, <1>10 DEF StartInv

\* How far create has come is kept up to date by every step of the pool.
LEMMA NextStartInv ==
  ASSUME PoolInv, StartInv, [PoolNext]_allVars
  PROVE  StartInv'
BY PoolSteps, StartStays, StartMoves, StartAcquires

\* At first nothing has been acquired.
LEMMA InitStartInv == PoolInit => StartInv
<1> SUFFICES ASSUME PoolInit PROVE StartInv
  OBVIOUS
<1>1. PoolTypeOK /\ WorkerCount \in 1 .. MaxThreads /\ WorkerCount \in Nat
  BY InitPoolInv, WorkerCountType, LifecycleAssumption DEF PoolInv
<1>2. Workers \subseteq AllWorkers
  BY <1>1, LifecycleAssumption DEF Workers, AllWorkers
<1>3. /\ phase = "new" /\ i = 0 /\ slots = << >> /\ shutdown_flag = FALSE
      /\ wpc = [w \in AllWorkers |-> "none"] /\ uses = [w \in AllWorkers |-> NONE]
  BY DEF PoolInit, Init, AllWorkers
<1>4. \A q \in 0 .. WorkerCount : ~(At(Res("ring", q)) <= 0)
  BY <1>1, RingParts
<1>5. 0 \in 0 .. Steps /\ \A w \in Workers : 0 < 10 + 4 * w
  BY <1>1 DEF Steps, Workers
<1>6. DOMAIN slots = {}
  BY <1>3
<1> QED
  BY <1>2, <1>3, <1>4, <1>5, <1>6 DEF StartInv

-----------------------------------------------------------------------------
(* Until the pool is shut down or create fails *)

\* The arguments that a thread has not read.
LEMMA ArgParts ==
  ASSUME PoolTypeOK
  PROVE  /\ \A r \in Parts : r.kind = "arg" => r.of \in Workers /\ r = Res("arg", r.of)
         /\ \A r : r \in Unread <=> \E w \in Workers : wpc[w] = "entry" /\ r = Res("arg", w)
         /\ Unread \subseteq Parts /\ Workers \subseteq AllWorkers
<1>1. WorkerCount \in 1 .. MaxThreads /\ WorkerCount \in Nat
  BY WorkerCountType, LifecycleAssumption
<1>2. \A r \in Parts : r.kind = "arg" => r.of \in Workers /\ r = Res("arg", r.of)
  BY <1>1, ResTypes DEF Parts, SharedKinds, QueueKinds, Workers
<1>3. \A r : r \in Unread <=> \E w \in Workers : wpc[w] = "entry" /\ r = Res("arg", w)
  BY DEF Unread
<1>4. \A w \in Workers : Res("arg", w) \in Parts
  BY <1>1, WorkerParts DEF Workers
<1>5. Workers \subseteq AllWorkers
  BY <1>1, LifecycleAssumption DEF Workers, AllWorkers
<1> QED
  BY <1>2, <1>3, <1>4, <1>5

\* Until the pool is shut down or create fails, what is allocated is what has been
\* acquired, but for the arguments that the threads have read (scheduler.c:187-284).
LEMMA NextBuildInv ==
  ASSUME PoolInv, StartInv, BuildInv, [PoolNext]_allVars
  PROVE  BuildInv'
<1>i. PoolTypeOK /\ WorkerCount \in Nat
  BY WorkerCountType, LifecycleAssumption DEF PoolInv
<1>a. /\ \A r \in Parts : r.kind = "arg" => r.of \in Workers /\ r = Res("arg", r.of)
      /\ Workers \subseteq AllWorkers /\ Workers = 0 .. WorkerCount - 1
  BY <1>i, ArgParts DEF Workers
<1>t. wpc \in [AllWorkers -> {"none", "entry", "loop", "using", "busy", "exited"}]
  BY <1>i DEF PoolTypeOK
<1>s. ASSUME UNCHANGED <<cfg, cores>>
      PROVE  Parts' = Parts /\ \A r : At(r)' = At(r)
  BY <1>s, SameShape
<1> DEFINE Got(n, f) == {r \in Parts : /\ At(r) <= n
                                       /\ r.kind = "arg" => f[r.of] \in {"none", "entry"}}
<1>b. phase \in {"new", "creating", "up"} => held = Got(i, wpc)
  BY DEF BuildInv
<1>c. ASSUME UNCHANGED <<cfg, cores>>, phase' \in {"new", "creating", "up"} => held' = Got(i', wpc')
      PROVE  BuildInv'
  BY <1>c, <1>s DEF BuildInv
<1> HIDE DEF Got
<1>1. CASE UNCHANGED vars \/ fq_scheduler_create \/ Created \/ SetsFlag
  <2>1. UNCHANGED <<cfg, cores, i, wpc, held>>
    BY <1>1 DEF vars, fq_scheduler_create, Created, SetsFlag
  <2>2. phase' \in {"new", "creating", "up"} => phase \in {"new", "creating", "up"}
    BY <1>1 DEF vars, fq_scheduler_create, Created, SetsFlag
  <2> QED
    BY <1>b, <1>c, <2>1, <2>2
<1>2. CASE AcquireFails \/ Release \/ Return \/ fq_scheduler_shutdown
  <2>1. UNCHANGED <<cfg, cores>> /\ phase' \notin {"new", "creating", "up"}
    BY <1>2 DEF AcquireFails, Release, Return, fq_scheduler_shutdown
  <2> QED
    BY <1>c, <2>1
<1>3. CASE Acquire
  <2>1. /\ UNCHANGED <<cfg, cores, phase>> /\ phase = "creating" /\ i' = i + 1
        /\ i + 1 \in 1 .. Steps /\ i \in Nat
    <3>1. Len(Plan) = Steps /\ Steps \in Nat
      BY <1>i, PlanAt DEF Steps
    <3> QED
      BY <1>3, <3>1 DEF Acquire, StartInv
  <2>2. PICK r \in Parts : r = Plan[i + 1] /\ At(r) = i + 1 /\ held' = held \cup {r}
    BY <1>3, <1>i, <2>1, PlanAt DEF Acquire
  <2>3. \A p \in Parts : At(p) \in Nat /\ (At(p) = i + 1 => p = r)
    BY <1>i, <2>2, PlanAt
  <2>4. ASSUME NEW w \in Workers
        PROVE  /\ wpc'[w] \in {"none", "entry"} <=> wpc[w] \in {"none", "entry"}
               /\ r = Res("arg", w) => wpc[w] = "none"
    <3>1. r.kind = "thread" => r.of \in Workers /\ r = Res("thread", r.of)
      BY <1>a, ResTypes DEF Parts, SharedKinds, QueueKinds
    <3>2. At(Res("thread", w)) = 10 + 4 * w /\ At(Res("arg", w)) = 9 + 4 * w
      BY <1>i, <1>a, WorkerParts
    <3>3. wpc[w] = "none" <=> i < 10 + 4 * w
      BY DEF StartInv
    <3>4. wpc' = IF r.kind = "thread" THEN [wpc EXCEPT ![r.of] = "entry"] ELSE wpc
      BY <1>3, <2>2 DEF Acquire
    <3>5. r.kind = "thread" /\ r.of = w => wpc[w] = "none" /\ wpc'[w] = "entry"
      BY <1>a, <1>t, <2>1, <2>2, <3>1, <3>2, <3>3, <3>4
    <3>6. ~(r.kind = "thread" /\ r.of = w) => wpc'[w] = wpc[w]
      BY <1>a, <1>t, <3>1, <3>4
    <3>7. r = Res("arg", w) => wpc[w] = "none"
      BY <1>a, <2>1, <2>2, <3>2, <3>3
    <3> QED
      BY <3>5, <3>6, <3>7
  <2>5. r.kind = "arg" => wpc'[r.of] \in {"none", "entry"}
    BY <1>a, <2>4
  <2>6. held = Got(i, wpc)
    BY <1>b, <2>1
  <2>7. held' = Got(i + 1, wpc')
    <3>1. ASSUME NEW p \in Parts, p # r PROVE p \in Got(i, wpc) <=> p \in Got(i + 1, wpc')
      <4>1. At(p) <= i <=> At(p) <= i + 1
        BY <2>1, <2>3, <3>1
      <4>2. p.kind = "arg" => (wpc'[p.of] \in {"none", "entry"} <=> wpc[p.of] \in {"none", "entry"})
        BY <1>a, <2>4
      <4> QED
        BY <4>1, <4>2 DEF Got
    <3>2. r \in Got(i + 1, wpc')
      BY <2>1, <2>2, <2>5 DEF Got
    <3>3. Got(i, wpc) \subseteq Parts /\ Got(i + 1, wpc') \subseteq Parts
      BY DEF Got
    <3> QED
      BY <2>2, <2>6, <3>1, <3>2, <3>3
  <2> QED
    BY <1>c, <2>1, <2>7
<1>4. ASSUME NEW w \in Workers, ThreadEntry(w) PROVE BuildInv'
  <2>1. /\ UNCHANGED <<cfg, cores, phase, i>> /\ held' = held \ {Res("arg", w)}
        /\ wpc' = [wpc EXCEPT ![w] = "loop"]
    BY <1>4 DEF ThreadEntry
  <2>2. wpc'[w] = "loop" /\ \A v \in AllWorkers \ {w} : wpc'[v] = wpc[v]
    BY <1>a, <1>t, <2>1
  <2>3. Res("arg", w).kind = "arg" /\ Res("arg", w).of = w
    BY DEF Res
  <2>4. Got(i, wpc') = Got(i, wpc) \ {Res("arg", w)}
    BY <1>a, <2>2, <2>3 DEF Got
  <2> QED
    BY <1>b, <1>c, <2>1, <2>4
<1>5. ASSUME NEW w \in Workers, Moves(w) PROVE BuildInv'
  <2>1. Got(i, wpc') = Got(i, wpc)
    <3>1. \A v \in Workers : wpc'[v] \in {"none", "entry"} <=> wpc[v] \in {"none", "entry"}
      BY <1>5, <1>a DEF Moves
    <3> QED
      BY <1>a, <3>1 DEF Got
  <2> QED
    BY <1>5, <1>b, <1>c, <2>1 DEF Moves
<1> QED
  BY <1>1, <1>2, <1>3, <1>4, <1>5, PoolSteps

-----------------------------------------------------------------------------
(* The release *)

\* The conjuncts of ReleaseInv about the list t, what is held h and the workers f.
Releases(t, h, f) ==
  /\ Lists(t, ToSet(t)) /\ ToSet(t) \subseteq Parts
  /\ \A r : r \in h <=> r \in ToSet(t) \/ \E w \in Workers : f[w] = "entry" /\ r = Res("arg", w)
  /\ \A r \in ToSet(t) : r.kind = "arg" => f[r.of] = "none"
  /\ \A w \in Workers :
       f[w] \in {"entry", "loop", "using", "busy"} => Res("thread", w) \in ToSet(t)

\* ReleaseInv before and after a step.
LEMMA ReleaseParts ==
  /\ ReleaseInv <=> (phase \in {"failing", "stopping"} =>
       Releases(todo, held, wpc) /\ \A w \in Workers, r \in Needed : Keeps(todo, Blocker(w), r))
  /\ UNCHANGED <<cfg, cores>> =>
       (ReleaseInv' <=> (phase' \in {"failing", "stopping"} =>
          Releases(todo', held', wpc')
          /\ \A w \in Workers, r \in Needed' : Keeps(todo', Blocker(w)', r)))
<1>1. \A h, t : h = t \cup Unread <=>
        \A r : r \in h <=> r \in t \/ \E w \in Workers : wpc[w] = "entry" /\ r = Res("arg", w)
  BY DEF Unread
<1>2. ReleaseInv <=> (phase \in {"failing", "stopping"} =>
        Releases(todo, held, wpc) /\ \A w \in Workers, r \in Needed : Keeps(todo, Blocker(w), r))
  BY <1>1 DEF ReleaseInv, Releases, Running
<1>3. ASSUME UNCHANGED <<cfg, cores>>
      PROVE  ReleaseInv' <=> (phase' \in {"failing", "stopping"} =>
               Releases(todo', held', wpc')
               /\ \A w \in Workers, r \in Needed' : Keeps(todo', Blocker(w)', r))
  <2>1. Workers' = Workers /\ Parts' = Parts
    BY <1>3, SameShape
  <2>2. \A h, t : h = t \cup Unread' <=>
          \A r : r \in h <=> r \in t \/ \E w \in Workers : wpc'[w] = "entry" /\ r = Res("arg", w)
    BY <2>1 DEF Unread, Res
  <2>3. Lists(todo, ToSet(todo))' <=> Lists(todo', ToSet(todo'))
    BY DEF Lists, ToSet
  <2>4. ToSet(todo)' = ToSet(todo')
    BY DEF ToSet
  <2>5. (\A w \in Workers, r \in Needed : Keeps(todo, Blocker(w), r))'
          <=> \A w \in Workers, r \in Needed' : Keeps(todo', Blocker(w)', r)
    BY <2>1 DEF Keeps
  <2>6. (held = ToSet(todo) \cup Unread)' <=>
          \A r : r \in held' <=>
            r \in ToSet(todo') \/ \E w \in Workers : wpc'[w] = "entry" /\ r = Res("arg", w)
    BY <2>2, <2>4
  <2>7. (\A w \in Workers : Running(w) => Res("thread", w) \in ToSet(todo))' <=>
          \A w \in Workers : wpc'[w] \in {"entry", "loop", "using", "busy"} =>
            Res("thread", w) \in ToSet(todo')
    BY <2>1, <2>4 DEF Running, Res
  <2> DEFINE keeps == \A w \in Workers, r \in Needed : Keeps(todo, Blocker(w), r)
             joins == \A w \in Workers : Running(w) => Res("thread", w) \in ToSet(todo)
             counts == held = ToSet(todo) \cup Unread
             once == Lists(todo, ToSet(todo))
  <2>8. ReleaseInv' <=> (phase' \in {"failing", "stopping"} =>
          /\ once' /\ ToSet(todo') \subseteq Parts /\ counts'
          /\ \A r \in ToSet(todo') : r.kind = "arg" => wpc'[r.of] = "none"
          /\ joins' /\ keeps')
    BY <2>1, <2>4 DEF ReleaseInv
  <2> HIDE DEF keeps, joins, counts, once
  <2>9. /\ once' <=> Lists(todo', ToSet(todo'))
        /\ keeps' <=> \A w \in Workers, r \in Needed' : Keeps(todo', Blocker(w)', r)
    BY <2>3, <2>5 DEF keeps, once
  <2>10. /\ counts' <=> \A r : r \in held' <=>
                          \/ r \in ToSet(todo')
                          \/ \E w \in Workers : wpc'[w] = "entry" /\ r = Res("arg", w)
         /\ joins' <=> \A w \in Workers : wpc'[w] \in {"entry", "loop", "using", "busy"} =>
                         Res("thread", w) \in ToSet(todo')
    BY <2>6, <2>7 DEF counts, joins
  <2> QED
    BY <2>8, <2>9, <2>10 DEF Releases
<1> QED
  BY <1>2, <1>3

\* Taking the first item off a list.
LEMMA ListsTail ==
  ASSUME NEW s, NEW S, Lists(s, S), s # << >>
  PROVE  /\ Lists(Tail(s), S \ {Head(s)}) /\ Head(s) \in S
         /\ \A t, r : Keeps(s, t, r) => Keeps(Tail(s), t, r)
<1>1. s \in Seq(Resources) /\ Len(s) \in Nat
  BY DEF Lists
<1>2. /\ Len(s) > 0 /\ Head(s) = s[1] /\ Tail(s) \in Seq(Resources) /\ Len(Tail(s)) = Len(s) - 1
      /\ \A m \in 1 .. Len(s) - 1 : Tail(s)[m] = s[m + 1] /\ m + 1 \in 1 .. Len(s)
  <2> HIDE DEF Resources
  <2> QED
    BY <1>1
<1> DEFINE u == Tail(s)
<1> HIDE DEF u
<1>3. /\ u \in Seq(Resources) /\ Len(u) = Len(s) - 1 /\ 1 \in 1 .. Len(s)
      /\ \A m \in 1 .. Len(u) : u[m] = s[m + 1] /\ m + 1 \in 1 .. Len(s) /\ m + 1 # 1
  BY <1>1, <1>2 DEF u
<1>4. ASSUME NEW n \in 1 .. Len(s), n # 1 PROVE \E m \in 1 .. Len(u) : n = m + 1 /\ u[m] = s[n]
  <2>1. n - 1 \in 1 .. Len(u) /\ n = (n - 1) + 1
    BY <1>1, <1>3, <1>4
  <2> QED
    BY <1>3, <2>1
<1>5. Head(s) \in S
  BY <1>2, <1>3 DEF Lists
<1>6. Lists(u, S \ {Head(s)})
  <2>1. \A m \in 1 .. Len(u) : u[m] \in S \ {s[1]}
    BY <1>3 DEF Lists
  <2>2. ASSUME NEW r \in S \ {s[1]} PROVE \E m \in 1 .. Len(u) : u[m] = r
    <3>1. PICK n \in 1 .. Len(s) : s[n] = r
      BY DEF Lists
    <3> QED
      BY <1>4, <2>2, <3>1
  <2>3. ASSUME NEW m \in 1 .. Len(u), NEW n \in 1 .. Len(u), u[m] = u[n] PROVE m = n
    <3>1. m + 1 = n + 1
      BY <1>3, <2>3 DEF Lists
    <3> QED
      BY <1>1, <1>3, <3>1
  <2> QED
    BY <1>2, <1>3, <2>1, <2>2, <2>3 DEF Lists
<1>7. ASSUME NEW t, NEW r, Keeps(s, t, r) PROVE Keeps(u, t, r)
  <2>1. ASSUME NEW m \in 1 .. Len(u), u[m] = t PROVE \E k \in 1 .. Len(u) : m < k /\ u[k] = r
    <3>1. m + 1 \in 1 .. Len(s) /\ s[m + 1] = t
      BY <1>3, <2>1
    <3>2. PICK n \in 1 .. Len(s) : m + 1 < n /\ s[n] = r
      BY <1>7, <3>1 DEF Keeps
    <3>3. PICK k \in 1 .. Len(u) : n = k + 1 /\ u[k] = s[n]
      BY <1>1, <1>4, <3>2
    <3> QED
      BY <1>1, <1>3, <3>2, <3>3
  <2> QED
    BY <2>1 DEF Keeps
<1> QED
  BY <1>5, <1>6, <1>7 DEF u

\* The error path begins (scheduler.c:187-279).
LEMMA FailureReleases ==
  ASSUME PoolInv, StartInv, BuildInv, AcquireFails
  PROVE  ReleaseInv'
<1>i. PoolTypeOK /\ WorkerCount \in Nat \ {0} /\ WorkerCount \in Nat
  BY WorkerCountType, LifecycleAssumption DEF PoolInv
<1>1. /\ UNCHANGED <<cfg, cores, i, held, slots, wpc>> /\ phase' = "failing" /\ phase = "creating"
      /\ i + 1 \in 1 .. Steps /\ i \in Nat /\ todo' = Cleanup(Plan[i + 1])
  <2>1. Len(Plan) = Steps /\ Steps \in Nat
    BY <1>i, PlanAt DEF Steps
  <2> QED
    BY <2>1 DEF AcquireFails, StartInv
<1>a. /\ \A r \in Parts : r.kind = "arg" => r.of \in Workers /\ r = Res("arg", r.of)
      /\ Workers = 0 .. WorkerCount - 1
  BY <1>i, ArgParts DEF Workers
<1>p. \A w \in Workers : /\ Res("arg", w) \in Parts /\ At(Res("arg", w)) = 9 + 4 * w
                         /\ Res("thread", w) \in Parts /\ At(Res("thread", w)) = 10 + 4 * w
                         /\ Res("arg", w).kind = "arg" /\ Res("arg", w).of = w
                         /\ Res("thread", w).kind = "thread" /\ Res("thread", w).of = w
  BY <1>i, <1>a, WorkerParts DEF Res
<1>n. \A w \in Workers : wpc[w] = "none" <=> i < 10 + 4 * w
  BY DEF StartInv
<1>2. /\ Lists(todo', Undone(i + 1))
      /\ \A r \in Lasting(i + 1) : Keeps(todo', Res("thread", 0), r)
  BY <1>i, <1>1, CleanupLists
<1>3. ToSet(todo') = Undone(i + 1)
  <2>1. todo' \in Seq(Resources)
    BY <1>2 DEF Lists
  <2>2. \A r : r \in ToSet(todo') <=> \E m \in 1 .. Len(todo') : todo'[m] = r
    BY <2>1, InList
  <2>3. (\A m \in 1 .. Len(todo') : todo'[m] \in Undone(i + 1))
        /\ \A r \in Undone(i + 1) : \E m \in 1 .. Len(todo') : todo'[m] = r
    BY <1>2 DEF Lists
  <2>4. \A r : r \in ToSet(todo') <=> r \in Undone(i + 1)
    BY <2>2, <2>3
  <2> QED
    BY <2>4
<1>4. Releases(todo', held', wpc')
  <2>1. Lists(todo', ToSet(todo')) /\ ToSet(todo') \subseteq Parts
    BY <1>2, <1>3 DEF Undone
  <2>2. ASSUME NEW r
        PROVE  r \in held <=> \/ r \in Undone(i + 1)
                              \/ \E w \in Workers : wpc[w] = "entry" /\ r = Res("arg", w)
    <3>1. r \in held <=> /\ r \in Parts /\ At(r) <= i
                         /\ r.kind = "arg" => wpc[r.of] \in {"none", "entry"}
      BY <1>1 DEF BuildInv
    <3>2. CASE r \notin Parts
      BY <1>p, <3>1, <3>2 DEF Undone
    <3>3. CASE r \in Parts /\ r.kind # "arg"
      <4>1. At(r) \in Nat
        BY <1>i, <3>3, PlanAt
      <4>2. r \in held <=> r \in Undone(i + 1)
        BY <1>1, <3>1, <3>3, <4>1 DEF Undone
      <4> QED
        BY <1>p, <3>3, <4>2
    <3>4. CASE r \in Parts /\ r.kind = "arg"
      <4>1. PICK w \in Workers : r = Res("arg", w) /\ r.of = w /\ At(r) = 9 + 4 * w
        BY <1>a, <1>p, <3>4
      <4>2. r \in Undone(i + 1) <=> i + 1 = 10 + 4 * w
        BY <1>1, <1>a, <3>4, <4>1 DEF Undone
      <4>3. r \in held <=> 9 + 4 * w <= i /\ wpc[w] \in {"none", "entry"}
        BY <3>1, <3>4, <4>1
      <4>4. (\E v \in Workers : wpc[v] = "entry" /\ r = Res("arg", v)) <=> wpc[w] = "entry"
        BY <1>p, <4>1
      <4>5. wpc[w] = "none" <=> i < 10 + 4 * w
        BY <1>n
      <4> QED
        BY <1>1, <1>a, <4>2, <4>3, <4>4, <4>5
    <3> QED
      BY <3>2, <3>3, <3>4
  <2>3. \A r \in Undone(i + 1) : r.kind = "arg" => wpc[r.of] = "none"
    <3> SUFFICES ASSUME NEW r \in Undone(i + 1), r.kind = "arg" PROVE wpc[r.of] = "none"
      OBVIOUS
    <3>1. PICK w \in Workers : w = r.of /\ i + 1 = 10 + 4 * w
      BY <1>a DEF Undone
    <3> QED
      BY <1>1, <1>a, <1>n, <3>1
  <2>4. \A w \in Workers : wpc[w] # "none" => Res("thread", w) \in Undone(i + 1)
    BY <1>1, <1>a, <1>n, <1>p DEF Undone
  <2> QED
    BY <1>1, <1>3, <2>1, <2>2, <2>3, <2>4 DEF Releases
<1>5. ASSUME NEW w \in Workers, NEW r \in Needed' PROVE Keeps(todo', Blocker(w)', r)
  <2>1. Blocker(w)' = Res("thread", 0)
    BY <1>1 DEF Blocker, Res
  <2>2. CASE i + 1 <= 10
    <3>1. Res("thread", 0) \notin Undone(i + 1)
      <4>1. 0 \in Workers
        BY <1>i, <1>a
      <4> QED
        BY <1>1, <1>p, <2>2, <4>1 DEF Undone
    <3>2. \A m \in 1 .. Len(todo') : todo'[m] # Res("thread", 0)
      BY <1>2, <3>1 DEF Lists
    <3> QED
      BY <2>1, <3>2 DEF Keeps
  <2>3. CASE i + 1 > 10
    <3>1. Parts' = Parts /\ Plan' = Plan
      BY <1>1, SameShape
    <3>2. /\ r \in Parts
          /\ \/ r.kind \in SharedKinds
             \/ r.kind \in QueueKinds /\ r.of \in DOMAIN slots /\ r.of \notin Stillborn'
      BY <1>1, <3>1 DEF Needed
    <3>3. r \in Lasting(i + 1)
      <4>1. CASE r.kind \in SharedKinds
        <5>0. \/ r.kind = "scheduler" \/ r.kind = "mutex"
              \/ r.kind = "cond" \/ r.kind = "workers"
          BY <4>1 DEF SharedKinds
        <5>1. At(r) \in {1, 4, 5, 6}
          BY <5>0 DEF At
        <5> QED
          BY <1>1, <2>3, <3>2, <4>1, <5>1 DEF Lasting, Undone, SharedKinds
      <4>2. CASE r.kind \in QueueKinds /\ r.of = WorkerCount
        <5>1. At(r) <= 6 /\ At(r) \in Nat
          BY <4>2 DEF At, QueueKinds
        <5> QED
          BY <1>1, <2>3, <3>2, <4>2, <5>1 DEF Lasting, Undone, QueueKinds
      <4>3. CASE r.kind \in QueueKinds /\ r.of # WorkerCount
        <5>1. r.of \in 0 .. WorkerCount /\ At(Res("ring", r.of)) <= i /\ r.of \notin Stillborn'
          BY <3>2, <4>3 DEF StartInv, SharedKinds, QueueKinds
        <5>2. PICK q \in 0 .. WorkerCount - 1 : q = r.of
          BY <1>i, <4>3, <5>1
        <5>3. 8 + 4 * q <= i
          BY <1>i, <4>3, <5>1, <5>2, RingParts
        <5>4. Plan[9 + 4 * q] = Res("arg", q) /\ Plan[10 + 4 * q] = Res("thread", q)
          BY <1>i, PlanItems
        <5>5. Stillborn' = IF Plan[i + 1].kind \in {"arg", "thread"} THEN {Plan[i + 1].of} ELSE {}
          BY <1>1, <3>1 DEF Stillborn
        <5>6. i # 8 + 4 * q
          <6>1. SUFFICES ASSUME i = 8 + 4 * q PROVE FALSE
            OBVIOUS
          <6>2. i + 1 = 9 + 4 * q
            BY <6>1
          <6> QED
            BY <5>1, <5>2, <5>4, <5>5, <6>2 DEF Res
        <5>7. i # 9 + 4 * q
          <6>1. SUFFICES ASSUME i = 9 + 4 * q PROVE FALSE
            OBVIOUS
          <6>2. i + 1 = 10 + 4 * q
            BY <6>1
          <6> QED
            BY <5>1, <5>2, <5>4, <5>5, <6>2 DEF Res
        <5>8. 10 + 4 * q < i + 1
          BY <1>1, <5>3, <5>6, <5>7
        <5>9. At(r) <= 8 + 4 * q /\ At(r) \in Nat
          BY <4>3, <5>2 DEF At, QueueKinds
        <5> QED
          BY <1>1, <3>2, <4>3, <5>2, <5>8, <5>9 DEF Lasting, Undone, QueueKinds
      <4> QED
        BY <3>2, <4>1, <4>2, <4>3
    <3> QED
      BY <1>2, <2>1, <3>3
  <2> QED
    BY <1>1, <2>2, <2>3
<1> QED
  BY <1>1, <1>4, <1>5, ReleaseParts

\* A list has the items that it lists.
LEMMA ListsSet ==
  ASSUME NEW s, NEW S, Lists(s, S)
  PROVE  ToSet(s) = S
<1>1. s \in Seq(Resources)
  BY DEF Lists
<1>2. \A r : r \in ToSet(s) <=> \E m \in 1 .. Len(s) : s[m] = r
  BY <1>1, InList
<1>3. (\A m \in 1 .. Len(s) : s[m] \in S) /\ \A r \in S : \E m \in 1 .. Len(s) : s[m] = r
  BY DEF Lists
<1>4. \A r : r \in ToSet(s) <=> r \in S
  BY <1>2, <1>3
<1> QED
  BY <1>4

\* The shutdown begins (scheduler.c:286-309).
LEMMA ShutdownReleases ==
  ASSUME PoolInv, StartInv, BuildInv, fq_scheduler_shutdown
  PROVE  ReleaseInv'
<1>i. PoolTypeOK /\ WorkerCount \in Nat \ {0} /\ WorkerCount \in Nat
  BY WorkerCountType, LifecycleAssumption DEF PoolInv
<1>1. /\ UNCHANGED <<cfg, cores, i, held, slots, wpc>> /\ phase' = "stopping" /\ phase = "up"
      /\ i = Steps /\ todo' = JoinAll(WorkerCount) \o ReleaseShared
  BY DEF fq_scheduler_shutdown, StartInv
<1>a. /\ \A r \in Parts : r.kind = "arg" => r.of \in Workers /\ r = Res("arg", r.of)
      /\ Workers = 0 .. WorkerCount - 1
  BY <1>i, ArgParts DEF Workers
<1>p. \A w \in Workers : /\ Res("arg", w) \in Parts /\ Res("thread", w) \in Parts
                         /\ Res("arg", w).kind = "arg" /\ Res("arg", w).of = w
                         /\ Res("thread", w).kind = "thread"
  BY <1>i, <1>a, WorkerParts DEF Res
<1>n. \A w \in Workers : wpc[w] # "none"
  BY <1>i, <1>1, <1>a DEF StartInv, Steps
<1> DEFINE P == {r \in Parts : r.kind # "arg"}
<1>2. /\ Lists(todo', P)
      /\ \A w \in Workers, r \in Parts :
           r.kind \notin {"arg", "thread"} => Keeps(todo', Res("thread", w), r)
  BY <1>i, <1>1, <1>a, ShutdownLists
<1>3. ToSet(todo') = P
  BY <1>2, ListsSet
<1>4. Releases(todo', held', wpc')
  <2>1. Lists(todo', ToSet(todo')) /\ ToSet(todo') \subseteq Parts
    BY <1>2, <1>3
  <2>2. ASSUME NEW r
        PROVE  r \in held <=> r \in P \/ \E w \in Workers : wpc[w] = "entry" /\ r = Res("arg", w)
    <3>1. r \in held <=> r \in Parts /\ (r.kind = "arg" => wpc[r.of] \in {"none", "entry"})
      <4>1. \A p \in Parts : At(p) <= i
        BY <1>i, <1>1, PlanAt DEF Steps
      <4> QED
        BY <1>1, <4>1 DEF BuildInv
    <3> QED
      BY <1>a, <1>n, <1>p, <3>1
  <2>3. \A w \in Workers : Res("thread", w) \in P
    BY <1>p
  <2> QED
    BY <1>1, <1>3, <2>1, <2>2, <2>3 DEF Releases
<1>5. ASSUME NEW w \in Workers, NEW r \in Needed' PROVE Keeps(todo', Blocker(w)', r)
  <2>1. Blocker(w)' = Res("thread", w)
    BY <1>1 DEF Blocker, Res
  <2>2. Parts' = Parts
    BY <1>1, SameShape
  <2>3. r \in Parts /\ r.kind \notin {"arg", "thread"}
    BY <2>2 DEF Needed, SharedKinds, QueueKinds
  <2> QED
    BY <1>2, <2>1, <2>3
<1> QED
  BY <1>1, <1>4, <1>5, ReleaseParts

\* What a worker needs does not change during the release.
LEMMA SameNeeds ==
  ASSUME UNCHANGED <<cfg, cores, phase, i, slots>>
  PROVE  Needed' = Needed /\ \A w \in Workers : Blocker(w)' = Blocker(w)
<1>1. Parts' = Parts /\ Plan' = Plan
  BY SameShape
<1>2. Stillborn' = Stillborn
  BY <1>1 DEF Stillborn
<1> QED
  BY <1>1, <1>2 DEF Needed, Blocker, Res

\* One item is released; a thread only when it has ended.
LEMMA ItemReleased ==
  ASSUME PoolInv, ReleaseInv, Release
  PROVE  ReleaseInv'
<1>1. /\ UNCHANGED <<cfg, cores, phase, i, slots, wpc>> /\ phase \in {"failing", "stopping"}
      /\ todo # << >> /\ Joinable(Head(todo)) /\ held' = held \ {Head(todo)} /\ todo' = Tail(todo)
  BY DEF Release
<1>2. Releases(todo, held, wpc) /\ \A w \in Workers, r \in Needed : Keeps(todo, Blocker(w), r)
  BY <1>1, ReleaseParts
<1> DEFINE h == Head(todo)
<1>3. /\ Lists(todo', ToSet(todo) \ {h}) /\ h \in ToSet(todo)
      /\ \A t, r : Keeps(todo, t, r) => Keeps(todo', t, r)
  BY <1>1, <1>2, ListsTail DEF Releases
<1>4. ToSet(todo') = ToSet(todo) \ {h}
  BY <1>3, ListsSet
<1>5. \A w \in Workers : h = Res("thread", w) => wpc[w] = "exited"
  BY <1>1 DEF Joinable, Res
<1>6. \A w \in Workers : h = Res("arg", w) => wpc[w] = "none"
  BY <1>2, <1>3 DEF Releases, Res
<1> HIDE DEF h
<1>7. Releases(todo', held', wpc')
  <2>1. \A r : r \in held' <=> r \in held /\ r # h
    BY <1>1 DEF h
  <2>2. ASSUME NEW r
        PROVE  r \in held' <=> \/ r \in ToSet(todo')
                               \/ \E w \in Workers : wpc[w] = "entry" /\ r = Res("arg", w)
    BY <1>2, <1>3, <1>4, <1>6, <2>1 DEF Releases
  <2> QED
    BY <1>1, <1>2, <1>3, <1>4, <1>5, <2>2 DEF Releases
<1>8. Needed' = Needed /\ \A w \in Workers : Blocker(w)' = Blocker(w)
  BY <1>1, SameNeeds
<1>9. \A w \in Workers, r \in Needed' : Keeps(todo', Blocker(w)', r)
  BY <1>2, <1>3, <1>8
<1> QED
  BY <1>1, <1>7, <1>9, ReleaseParts

\* A worker that reads its argument or goes on during the release.
LEMMA ReleaseGoesOn ==
  ASSUME PoolInv, ReleaseInv, UNCHANGED vars \/ \E w \in Workers : ThreadEntry(w) \/ Moves(w)
  PROVE  ReleaseInv'
<1>i. PoolTypeOK
  BY DEF PoolInv
<1>w. Workers \subseteq AllWorkers
  BY <1>i, ArgParts
<1>t. wpc \in [AllWorkers -> {"none", "entry", "loop", "using", "busy", "exited"}]
  BY <1>i DEF PoolTypeOK
<1>1. UNCHANGED <<cfg, cores, phase, i, slots, todo>>
  BY DEF vars, ThreadEntry, Moves
<1>2. Needed' = Needed /\ \A w \in Workers : Blocker(w)' = Blocker(w)
  BY <1>1, SameNeeds
<1> SUFFICES ASSUME phase \in {"failing", "stopping"} PROVE Releases(todo', held', wpc')
  BY <1>1, <1>2, ReleaseParts
<1>3. Releases(todo, held, wpc)
  BY ReleaseParts
<1>4. CASE UNCHANGED vars
  BY <1>3, <1>4 DEF vars
<1>5. ASSUME NEW w \in Workers, ThreadEntry(w) PROVE Releases(todo', held', wpc')
  <2>1. /\ wpc[w] = "entry" /\ held' = held \ {Res("arg", w)} /\ wpc'[w] = "loop"
        /\ \A v \in Workers \ {w} : wpc'[v] = wpc[v]
    BY <1>5, <1>t, <1>w DEF ThreadEntry
  <2>2. /\ Res("arg", w) \notin ToSet(todo)
        /\ \A v \in Workers : Res("arg", w) = Res("arg", v) => v = w
    BY <1>3, <2>1 DEF Releases, Res
  <2>3. ASSUME NEW r
        PROVE  r \in held' <=> \/ r \in ToSet(todo)
                               \/ \E v \in Workers : wpc'[v] = "entry" /\ r = Res("arg", v)
    BY <1>3, <2>1, <2>2 DEF Releases
  <2>4. \A r \in ToSet(todo) : r.kind = "arg" => r.of \in Workers
    BY <1>3, <1>i, ArgParts DEF Releases
  <2>5. \A r \in ToSet(todo) : r.kind = "arg" => wpc'[r.of] = "none"
    BY <1>3, <2>1, <2>4 DEF Releases
  <2> QED
    BY <1>1, <1>3, <2>1, <2>3, <2>5 DEF Releases
<1>6. ASSUME NEW w \in Workers, Moves(w) PROVE Releases(todo', held', wpc')
  <2>1. \A v \in Workers : /\ wpc'[v] = "entry" <=> wpc[v] = "entry"
                           /\ wpc[v] = "none" => wpc'[v] = "none"
                           /\ wpc'[v] \in {"entry", "loop", "using", "busy"} =>
                                wpc[v] \in {"entry", "loop", "using", "busy"}
    BY <1>6, <1>w DEF Moves
  <2>2. \A r \in ToSet(todo) : r.kind = "arg" => r.of \in Workers
    BY <1>3, <1>i, ArgParts DEF Releases
  <2>3. held' = held
    BY <1>6 DEF Moves
  <2> QED
    BY <1>1, <1>3, <2>1, <2>2, <2>3 DEF Releases
<1> QED
  BY <1>4, <1>5, <1>6

\* While something is being released, the list stays complete, and in an order in which no
\* running worker loses what it needs (scheduler.c:246-309).
LEMMA NextReleaseInv ==
  ASSUME PoolInv, StartInv, BuildInv, ReleaseInv, [PoolNext]_allVars
  PROVE  ReleaseInv'
<1>1. CASE fq_scheduler_create \/ Acquire \/ Created \/ Return \/ SetsFlag
  <2>1. UNCHANGED <<cfg, cores>> /\ phase' \notin {"failing", "stopping"}
    BY <1>1 DEF fq_scheduler_create, Acquire, Created, Return, SetsFlag
  <2> QED
    BY <2>1, ReleaseParts
<1> QED
  BY <1>1, PoolSteps, FailureReleases, ShutdownReleases, ItemReleased, ReleaseGoesOn

\* When create has failed or shutdown has returned, nothing is allocated and nobody runs.
LEMMA NextOverInv ==
  ASSUME PoolInv, StartInv, ReleaseInv, OverInv, [PoolNext]_allVars
  PROVE  OverInv'
<1>i. PoolTypeOK
  BY DEF PoolInv
<1>1. CASE \/ fq_scheduler_create \/ Acquire \/ AcquireFails \/ Created \/ Release
           \/ fq_scheduler_shutdown \/ SetsFlag
  <2>1. phase' \notin {"failed", "down"}
    BY <1>1 DEF fq_scheduler_create, Acquire, AcquireFails, Created, Release, fq_scheduler_shutdown,
                SetsFlag
  <2> QED
    BY <2>1 DEF OverInv
<1>2. CASE UNCHANGED vars
  <2>1. Workers' = Workers
    BY <1>2, SameShape DEF vars
  <2> QED
    BY <1>2, <2>1 DEF OverInv, Running, vars
<1>3. CASE Return
  <2>1. /\ UNCHANGED <<cfg, cores, held, wpc>> /\ phase \in {"failing", "stopping"} /\ todo = << >>
    BY <1>3 DEF Return
  <2>2. ToSet(todo) = {}
    BY <2>1 DEF ToSet
  <2>3. \A w \in Workers : ~Running(w)
    BY <2>1, <2>2 DEF ReleaseInv
  <2>4. held = {}
    BY <2>1, <2>2, <2>3, <1>i, ArgParts DEF ReleaseInv, Running
  <2>5. Workers' = Workers
    BY <2>1, SameShape
  <2> QED
    BY <2>1, <2>3, <2>4, <2>5 DEF OverInv, Running
<1>4. ASSUME NEW w \in Workers, ThreadEntry(w) \/ Moves(w) PROVE OverInv'
  <2>1. Running(w) /\ phase' = phase
    BY <1>4 DEF Running, ThreadEntry, Moves
  <2> QED
    BY <2>1 DEF OverInv
<1> QED
  BY <1>1, <1>2, <1>3, <1>4, PoolSteps

-----------------------------------------------------------------------------
(* The theorems *)

\* At first nothing is allocated.
LEMMA InitLifeInv == PoolInit => PoolInv /\ LifeInv
<1> SUFFICES ASSUME PoolInit PROVE PoolInv /\ LifeInv
  OBVIOUS
<1>1. PoolInv /\ StartInv /\ WorkerCount \in Nat
  BY InitPoolInv, InitStartInv, WorkerCountType, LifecycleAssumption DEF PoolInv
<1>2. phase = "new" /\ i = 0 /\ held = {}
  BY DEF PoolInit, Init
<1>3. \A r \in Parts : ~(At(r) <= 0)
  BY <1>1, PlanAt
<1> QED
  BY <1>1, <1>2, <1>3 DEF LifeInv, BuildInv, ReleaseInv, OverInv

\* What create and shutdown hold, and in which order they release it, whichever step of
\* create fails and however the workers run in between.
THEOREM LifeInvariant == PoolSpec => [](PoolInv /\ LifeInv)
<1>1. PoolInit => PoolInv /\ LifeInv
  BY InitLifeInv
<1>2. PoolInv /\ LifeInv /\ [PoolNext]_allVars => (PoolInv /\ LifeInv)'
  BY NextPoolInv, NextStartInv, NextBuildInv, NextReleaseInv, NextOverInv DEF LifeInv
<1> QED
  BY <1>1, <1>2, PTL DEF PoolSpec

\* A list without repetition is as long as its set is large.
LEMMA ListsCount ==
  ASSUME NEW s, NEW S, Lists(s, S)
  PROVE  Cardinality(S) = Len(s)
<1>1. s \in Seq(Resources) /\ Len(s) \in Nat
  BY DEF Lists
<1> DEFINE f == [m \in 1 .. Len(s) |-> s[m]]
<1>2. f \in Injection(1 .. Len(s), S) /\ f \in Surjection(1 .. Len(s), S)
  BY DEF Lists, Injection, Surjection, IsInjective
<1>3. ExistsBijection(1 .. Len(s), S)
  BY <1>2 DEF ExistsBijection, Bijection
<1> QED
  BY <1>1, <1>3, FS_CountingElements

\* The first steps of create.
LEMMA PlanBegins ==
  ASSUME WorkerCount \in Nat, NEW n \in 0 .. Steps
  PROVE  \A r : r \in ToSet(SubSeq(Plan, 1, n)) <=> r \in Parts /\ At(r) <= n
<1>1. Plan \in Seq(Resources) /\ Len(Plan) = Steps /\ Steps \in Nat
  BY PlanItems DEF Steps
<1> DEFINE s == SubSeq(Plan, 1, n)
<1>2. s \in Seq(Resources) /\ Len(s) = n /\ \A k \in 1 .. n : s[k] = Plan[k]
  <2> HIDE DEF Resources
  <2> QED
    BY <1>1
<1>3. \A r : r \in ToSet(s) <=> \E k \in 1 .. n : Plan[k] = r
  <2>1. \A r : r \in ToSet(s) <=> \E k \in 1 .. Len(s) : s[k] = r
    BY <1>2, InList
  <2> HIDE DEF s
  <2> QED
    BY <1>2, <2>1
<1> HIDE DEF s
<1>4. ASSUME NEW r PROVE (\E k \in 1 .. n : Plan[k] = r) <=> r \in Parts /\ At(r) <= n
  <2>1. ASSUME NEW k \in 1 .. n, Plan[k] = r PROVE r \in Parts /\ At(r) <= n
    BY <1>1, <2>1, PlanAt
  <2>2. ASSUME r \in Parts, At(r) <= n PROVE \E k \in 1 .. n : Plan[k] = r
    BY <1>1, <2>2, PlanAt
  <2> QED
    BY <2>1, <2>2
<1> QED
  BY <1>3, <1>4 DEF s

\* Nothing leaks and nothing is released twice, whichever step of fq_scheduler_create fails
\* and whatever the workers do meanwhile (scheduler.c:187-309), for every number of workers.
THEOREM AccountedTheorem == PoolSpec => []Accounted
<1>1. PoolInv /\ LifeInv => Accounted
  <2> SUFFICES ASSUME PoolInv, LifeInv PROVE Accounted
    OBVIOUS
  <2>i. /\ PoolTypeOK /\ WorkerCount \in Nat
        /\ StartInv /\ BuildInv /\ ReleaseInv /\ OverInv
    BY WorkerCountType, LifecycleAssumption DEF PoolInv, LifeInv
  <2>1. ASSUME phase \in {"failing", "stopping"}
        PROVE  held = ToSet(todo) \cup Unread /\ Cardinality(ToSet(todo)) = Len(todo)
    BY <2>1, <2>i, ListsCount DEF ReleaseInv
  <2>2. phase \in {"failed", "down"} => held = {}
    BY <2>i DEF OverInv
  <2>3. ASSUME phase \in {"creating", "up"}
        PROVE  held \cup {Res("arg", w) : w \in Workers}
                 = ToSet(SubSeq(Plan, 1, i)) \cup {Res("arg", w) : w \in Workers}
    <3>1. \A r : r \in ToSet(SubSeq(Plan, 1, i)) <=> r \in Parts /\ At(r) <= i
      BY <2>i, PlanBegins DEF StartInv
    <3>2. \A r : r \in held <=> /\ r \in Parts /\ At(r) <= i
                                /\ r.kind = "arg" => wpc[r.of] \in {"none", "entry"}
      BY <2>3, <2>i DEF BuildInv
    <3>3. \A r \in Parts : r.kind = "arg" => r \in {Res("arg", w) : w \in Workers}
      BY <2>i, ArgParts
    <3> QED
      BY <3>1, <3>2, <3>3
  <2> QED
    BY <2>1, <2>2, <2>3 DEF Accounted
<1> QED
  BY <1>1, LifeInvariant, PTL

\* What a running worker needs is allocated.
LEMMA NeededIsHeld ==
  ASSUME PoolInv, LifeInv, NEW w \in Workers, wpc[w] \in {"loop", "using", "busy"},
         NEW r \in Needed
  PROVE  r \in held
<1>i. /\ PoolTypeOK /\ WorkerCount \in Nat /\ Workers = 0 .. WorkerCount - 1
      /\ StartInv /\ BuildInv /\ ReleaseInv /\ OverInv
  BY WorkerCountType, LifecycleAssumption DEF PoolInv, LifeInv, Workers
<1>0. Running(w) /\ i \in Nat /\ 10 + 4 * w <= i
  <2>1. ~(i < 10 + 4 * w) /\ i \in 0 .. Steps
    BY <1>i DEF StartInv
  <2> QED
    BY <1>i, <2>1 DEF Running, Steps
<1>1. /\ r \in Parts
      /\ \/ r.kind \in SharedKinds
         \/ r.kind \in QueueKinds /\ r.of \in DOMAIN slots
  BY DEF Needed
<1>2. CASE phase \in {"new", "creating", "up"}
  <2>1. At(r) <= i
    <3>1. CASE r.kind \in SharedKinds
      <4>0. \/ r.kind = "scheduler" \/ r.kind = "mutex"
            \/ r.kind = "cond" \/ r.kind = "workers"
        BY <3>1 DEF SharedKinds
      <4>1. At(r) \in {1, 4, 5, 6}
        BY <4>0 DEF At
      <4> QED
        BY <1>0, <1>i, <4>1
    <3>2. CASE r.kind \in QueueKinds /\ r.of \in DOMAIN slots
      <4>1. r.of \in 0 .. WorkerCount /\ At(Res("ring", r.of)) <= i
        BY <1>i, <3>2 DEF StartInv
      <4>2. /\ At(Res("queue", r.of)) = At(Res("ring", r.of)) - 1
            /\ At(Res("ring", r.of)) \in Nat
        BY <1>i, <4>1, RingParts
      <4>3. r = Res(r.kind, r.of)
        BY <1>1, ResTypes DEF Parts
      <4> QED
        BY <1>0, <3>2, <4>1, <4>2, <4>3 DEF QueueKinds
    <3> QED
      BY <1>1, <3>1, <3>2
  <2>2. r.kind # "arg"
    BY <1>1 DEF SharedKinds, QueueKinds
  <2> QED
    BY <1>1, <1>2, <1>i, <2>1, <2>2 DEF BuildInv
<1>3. CASE phase \in {"failing", "stopping"}
  <2>1. PICK b \in Workers : Blocker(w) = Res("thread", b) /\ Running(b)
    <3>1. CASE phase = "stopping"
      BY <1>0, <3>1 DEF Blocker
    <3>2. CASE phase = "failing"
      <4>1. 0 \in Workers /\ Blocker(w) = Res("thread", 0)
        BY <1>i, <3>2 DEF Blocker
      <4>2. ~(i < 10 + 4 * 0)
        BY <1>0, <1>i
      <4>3. wpc[0] # "none" /\ wpc[0] # "exited"
        BY <1>i, <3>2, <4>1, <4>2 DEF StartInv
      <4>4. wpc[0] \in {"none", "entry", "loop", "using", "busy", "exited"}
        BY <1>i, <4>1, ArgParts DEF PoolTypeOK
      <4> QED
        BY <4>1, <4>3, <4>4 DEF Running
    <3> QED
      BY <1>3, <3>1, <3>2
  <2>2. /\ Res("thread", b) \in ToSet(todo) /\ Keeps(todo, Res("thread", b), r)
        /\ todo \in Seq(Resources)
    BY <1>3, <1>i, <2>1 DEF ReleaseInv, Lists
  <2>3. \A p : p \in ToSet(todo) <=> \E m \in 1 .. Len(todo) : todo[m] = p
    BY <2>2, InList
  <2>4. \E n \in 1 .. Len(todo) : todo[n] = r
    BY <2>2, <2>3 DEF Keeps
  <2> QED
    BY <1>3, <1>i, <2>3, <2>4 DEF ReleaseInv
<1>4. CASE phase \in {"failed", "down"}
  BY <1>0, <1>4, <1>i DEF OverInv
<1> QED
  BY <1>2, <1>3, <1>4, <1>i DEF PoolTypeOK

\* A running worker finds the scheduler, its own queue and every queue that it looks into
\* alive, during the creation, on its error paths and during the shutdown
\* (scheduler.c:60-97, 246-309); except for the queue of a worker that could not be started.
THEOREM WorkersFindTheirDataTheorem == PoolSpec => []WorkersFindTheirData
<1>1. PoolInv /\ LifeInv => WorkersFindTheirData
  <2> SUFFICES ASSUME PoolInv, LifeInv, NEW w \in Workers
               PROVE  /\ wpc[w] \in {"loop", "using", "busy"} =>
                           ToSet(ReleaseShared) \cup ToSet(QueueRelease(w)) \subseteq held
                      /\ uses[w] # NONE =>
                           uses[w] \in Stillborn \/ ToSet(QueueRelease(uses[w])) \subseteq held
    BY DEF WorkersFindTheirData
  <2>i. /\ PoolTypeOK /\ WorkerCount \in Nat /\ Workers = 0 .. WorkerCount - 1 /\ StartInv
        /\ WorkerCount \in Nat \ {0}
    BY WorkerCountType, LifecycleAssumption DEF PoolInv, LifeInv, Workers
  <2>1. ASSUME NEW q \in 0 .. WorkerCount, q \in DOMAIN slots, q \notin Stillborn
        PROVE  ToSet(QueueRelease(q)) \subseteq Needed
    <3>0. q \in Nat
      BY <2>1, <2>i
    <3>1. ToSet(QueueRelease(q)) = {Res("ring", q), Res("queue", q)}
      <4>1. Lists(QueueRelease(q), {Res("ring", q), Res("queue", q)})
        BY <3>0, QueueLists
      <4> QED
        BY <4>1, ListsSet
    <3>2. /\ Res("ring", q) \in Parts /\ Res("queue", q) \in Parts
          /\ Res("ring", q).kind = "ring" /\ Res("queue", q).kind = "queue"
          /\ Res("ring", q).of = q /\ Res("queue", q).of = q
      BY <2>i, RingParts DEF Res
    <3> QED
      BY <2>1, <3>1, <3>2 DEF Needed, QueueKinds
  <2>2. ASSUME wpc[w] \in {"loop", "using", "busy"}
        PROVE  ToSet(ReleaseShared) \cup ToSet(QueueRelease(w)) \subseteq held
    <3>1. i \in 0 .. Steps /\ 10 + 4 * w <= i
      <4>1. ~(i < 10 + 4 * w) /\ i \in 0 .. Steps
        BY <2>2, <2>i DEF StartInv
      <4> QED
        BY <2>i, <4>1 DEF Steps
    <3>2. w \in DOMAIN slots /\ WorkerCount \in DOMAIN slots
      BY <2>i, <3>1, RingParts DEF StartInv, Steps
    <3>3. w \notin Stillborn /\ WorkerCount \notin Stillborn
      <4>1. SUFFICES ASSUME phase = "failing", Plan[i + 1].kind \in {"arg", "thread"}
                     PROVE  Plan[i + 1].of # w /\ Plan[i + 1].of # WorkerCount
        BY DEF Stillborn
      <4>2. i + 1 \in 1 .. Steps
        BY <2>i, <3>1, <4>1 DEF StartInv, Steps
      <4>3. PICK r \in Parts : r = Plan[i + 1] /\ At(r) = i + 1
        BY <2>i, <4>2, PlanAt
      <4>4. r.kind \in {"arg", "thread"} /\ r.of \in 0 .. WorkerCount - 1
        BY <4>1, <4>3 DEF Parts, SharedKinds, QueueKinds
      <4>5. At(r) = 9 + 4 * r.of \/ At(r) = 10 + 4 * r.of
        BY <4>4 DEF At
      <4> QED
        BY <2>i, <3>1, <4>2, <4>3, <4>4, <4>5
    <3>4. ToSet(ReleaseShared) = SharedParts
      BY <2>i, SharedLists, ListsSet
    <3>5. SharedParts \subseteq Needed
      BY <2>i, <3>2, <3>3 DEF SharedParts, Needed, Parts
    <3>6. ToSet(QueueRelease(w)) \subseteq Needed
      BY <2>1, <2>i, <3>2, <3>3
    <3> QED
      BY <2>2, <3>4, <3>5, <3>6, NeededIsHeld
  <2>3. ASSUME uses[w] # NONE, uses[w] \notin Stillborn
        PROVE  ToSet(QueueRelease(uses[w])) \subseteq held
    <3>1. wpc[w] = "using" /\ uses[w] \in DOMAIN slots /\ uses[w] \in 0 .. WorkerCount
      BY <2>3, <2>i DEF StartInv
    <3>2. ToSet(QueueRelease(uses[w])) \subseteq Needed
      BY <2>1, <2>3, <3>1
    <3> QED
      BY <3>1, <3>2, NeededIsHeld
  <2> QED
    BY <2>2, <2>3
<1> QED
  BY <1>1, LifeInvariant, PTL

-----------------------------------------------------------------------------
(* The rings *)

\* The size of a ring is fixed with the configuration.
LEMMA SameRings ==
  ASSUME UNCHANGED <<cfg, cores>>
  PROVE  \A q : RingSlots(q)' = RingSlots(q)
<1>1. WorkerCount' = WorkerCount /\ Global' = Global
  BY SameWorkerCount
<1> QED
  BY <1>1 DEF RingSlots

\* At first there is no ring, and the capacity is a word.
LEMMA InitRingInv == PoolInit => RingInv
<1> SUFFICES ASSUME PoolInit PROVE RingInv
  OBVIOUS
<1>1. WorkerCount \in Nat
  BY InitPoolInv, WorkerCountType, LifecycleAssumption DEF PoolInv
<1>2. cfg \in Configs /\ i = 0 /\ slots = << >>
  BY DEF PoolInit, Init
<1>3. cfg.queue_capacity \in Capacities
  BY <1>2, LifecycleAssumption DEF Configs, PoolConfig, fq_scheduler_config_default
<1>4. \A q \in 0 .. WorkerCount : ~(At(Res("queue", q)) <= 0)
  BY <1>1, RingParts
<1>5. DOMAIN slots = {}
  BY <1>2
<1> QED
  BY <1>2, <1>3, <1>4, <1>5, LifecycleAssumption DEF RingInv

\* A step of create that succeeds: fq_queue_create has compared the size with the limit
\* before it allocates the queue, and allocates the ring with that size (queue.c:49-67).
LEMMA RingAcquired ==
  ASSUME PoolInv, StartInv, RingInv, Acquire
  PROVE  RingInv'
<1>i. WorkerCount \in Nat
  BY WorkerCountType, LifecycleAssumption DEF PoolInv
<1>1. /\ UNCHANGED <<cfg, cores>>
      /\ i' = i + 1 /\ i + 1 \in 1 .. Steps /\ i \in Nat
  <2>1. Len(Plan) = Steps /\ Steps \in Nat
    BY <1>i, PlanAt DEF Steps
  <2> QED
    BY <2>1 DEF Acquire, StartInv
<1>2. PICK r \in Parts : r = Plan[i + 1] /\ At(r) = i + 1
  BY <1>i, <1>1, PlanAt
<1>3. /\ ~Rejected(r)
      /\ slots' = IF r.kind = "ring" THEN [q \in DOMAIN slots \cup {r.of} |->
                                             IF q = r.of THEN RingSlots(q) ELSE slots[q]]
                  ELSE slots
  BY <1>2 DEF Acquire
<1>4. /\ WorkerCount' = WorkerCount /\ \A p : At(p)' = At(p)
      /\ \A q : RingSlots(q)' = RingSlots(q)
  BY <1>1, SameShape, SameRings
<1>5. \A q \in DOMAIN slots' : slots'[q] = RingSlots(q)
  BY <1>3 DEF RingInv
<1>6. ASSUME NEW q \in 0 .. WorkerCount, At(Res("queue", q)) <= i + 1
      PROVE  ~(RingSlots(q) > MaxCapacity)
  <2>0. /\ Res("queue", q) \in Parts /\ At(Res("queue", q)) \in Int
        /\ Res("queue", q).kind = "queue" /\ Res("queue", q).of = q
    <3>1. Res("queue", q) \in Parts
      BY <1>i, RingParts
    <3>2. At(Res("queue", q)) \in Int
      BY <1>i, <3>1, PlanAt DEF Steps
    <3> QED
      BY <3>1, <3>2 DEF Res
  <2>1. CASE At(Res("queue", q)) <= i
    BY <2>1 DEF RingInv
  <2>2. CASE At(Res("queue", q)) = i + 1
    <3>1. r = Res("queue", q)
      BY <1>i, <1>1, <1>2, <2>0, <2>2, PlanAt
    <3> QED
      BY <1>3, <2>0, <3>1 DEF Rejected
  <2> QED
    BY <1>1, <1>6, <2>0, <2>1, <2>2
<1>7. cfg'.queue_capacity \in Words
  BY <1>1 DEF RingInv
<1> QED
  BY <1>1, <1>4, <1>5, <1>6, <1>7 DEF RingInv

\* No other step creates a ring.
LEMMA NextRingInv ==
  ASSUME PoolInv, StartInv, RingInv, [PoolNext]_allVars
  PROVE  RingInv'
<1>1. CASE UNCHANGED <<cfg, cores, i, slots>>
  <2>1. /\ WorkerCount' = WorkerCount /\ \A p : At(p)' = At(p)
        /\ \A q : RingSlots(q)' = RingSlots(q)
    BY <1>1, SameShape, SameRings
  <2> QED
    BY <1>1, <2>1 DEF RingInv
<1>2. CASE \/ UNCHANGED vars \/ fq_scheduler_create \/ AcquireFails \/ Created \/ Release
           \/ Return \/ fq_scheduler_shutdown \/ SetsFlag
  <2>1. UNCHANGED <<cfg, cores, i, slots>>
    BY <1>2 DEF vars, fq_scheduler_create, AcquireFails, Created, Release, Return,
                fq_scheduler_shutdown, SetsFlag
  <2> QED
    BY <1>1, <2>1
<1>3. ASSUME NEW w \in Workers, ThreadEntry(w) \/ Moves(w) PROVE RingInv'
  <2>1. UNCHANGED <<cfg, cores, i, slots>>
    BY <1>3 DEF ThreadEntry, Moves
  <2> QED
    BY <1>1, <2>1
<1> QED
  BY <1>2, <1>3, RingAcquired, PoolSteps

\* The size of every ring that exists is the one that fq_queue_create computed from the
\* capacity and accepted.
THEOREM RingInvariant == PoolSpec => [](PoolInv /\ LifeInv /\ RingInv)
<1>1. PoolInit => RingInv
  BY InitRingInv
<1>2. PoolInv /\ LifeInv /\ RingInv /\ [PoolNext]_allVars => RingInv'
  BY NextRingInv DEF LifeInv
<1> QED
  BY <1>1, <1>2, LifeInvariant, PTL DEF PoolSpec

\* The share of a worker of the capacity.
LEMMA ShareOfCapacity ==
  ASSUME NEW c \in Nat, NEW n \in Nat \ {0}
  PROVE  c \div n \in Nat /\ c \div n <= c
<1> DEFINE d == c \div n
<1>1. d \in Nat /\ c % n \in Nat /\ c = n * d + (c % n)
  BY CutBounds
<1> HIDE DEF d
<1>2. 1 * d <= n * d /\ n * d \in Nat
  BY <1>1, ProductGrows
<1>3. d <= c
  BY <1>1, <1>2
<1> QED
  BY <1>1, <1>3 DEF d

\* The size that fq_queue_create computes, when next_pow2 does what it is for.
LEMMA RingSize ==
  ASSUME WordFacts(SizeofPointer), cfg.queue_capacity \in Words, WorkerCount \in Nat \ {0}, NEW q,
         ~(RingSlots(q) > MaxCapacity)
  PROVE  \/ RingSlots(q) \in Powers /\ RingSlots(q) \in MinCapacity .. MaxCapacity
         \/ RingSlots(q) = 0 /\ cfg.queue_capacity > SizeMod \div 2
<1> DEFINE c == IF q = Global THEN cfg.queue_capacity ELSE cfg.queue_capacity \div WorkerCount
           v == IF c < MinCapacity THEN MinCapacity ELSE c
<1>1. PICK h \in Nat : h = SizeMod \div 2 /\ h <= SizeMod - 1
  <2>1. SizeMod \in Nat /\ MinCapacity \in 1 .. SizeMod \div 2
    BY LifecycleAssumption DEF WordFacts
  <2> QED
    BY <2>1
<1>2. /\ SizeMod \in Nat /\ MinCapacity \in 1 .. h /\ MaxCapacity \in 1 .. h
      /\ Powers \subseteq 1 .. h /\ HalfWord \in Nat /\ MaxCapacity <= HalfWord
  BY <1>1, LifecycleAssumption DEF WordFacts
<1>3. cfg.queue_capacity \in Nat /\ cfg.queue_capacity <= SizeMod - 1
  BY <1>2 DEF Words
<1>4. c \in Nat /\ c <= cfg.queue_capacity
  BY <1>3, ShareOfCapacity
<1>5. v \in Words /\ MinCapacity <= v /\ (v > h => cfg.queue_capacity > h)
  <2> HIDE DEF c
  <2> QED
    BY <1>1, <1>2, <1>3, <1>4 DEF Words
<1> DEFINE pow == next_pow2(v, SizeofPointer)
<1>6. RingSlots(q) = pow
  BY DEF RingSlots
<1>7. IF v <= HalfWord THEN pow \in Powers /\ v <= pow
      ELSE pow \in Nat /\ (v <= pow \/ (pow = 0 /\ v > h))
  BY <1>1, <1>5 DEF WordFacts
<1> HIDE DEF v, pow
<1>8. CASE v <= HalfWord
  <2>1. pow \in 1 .. h
    BY <1>2, <1>7, <1>8
  <2> QED
    BY <1>2, <1>5, <1>6, <1>7, <1>8, <2>1 DEF Words
<1>9. CASE ~(v <= HalfWord)
  <2>1. v \in Nat /\ ~(v <= pow)
    BY <1>2, <1>5, <1>6, <1>7, <1>9 DEF Words
  <2> QED
    BY <1>1, <1>5, <1>6, <1>7, <1>9, <2>1
<1> QED
  BY <1>8, <1>9

\* The ring of every queue has a power of two of slots between the two limits of config.h,
\* or none when the capacity is above the largest power of two of a size_t (queue.c:49-67),
\* for every word size on which next_pow2 rounds up to a power of two as far as half a word.
THEOREM RingsTheorem ==
  ASSUME WordFacts(SizeofPointer)
  PROVE  PoolSpec => []RingsInBounds
<1>1. PoolInv /\ LifeInv /\ RingInv => RingsInBounds
  <2> SUFFICES ASSUME PoolInv, LifeInv, RingInv, NEW q \in DOMAIN slots
               PROVE  \/ slots[q] \in Powers /\ slots[q] \in MinCapacity .. MaxCapacity
                      \/ slots[q] = 0 /\ cfg.queue_capacity > SizeMod \div 2
    BY DEF RingsInBounds
  <2>1. WorkerCount \in Nat \ {0} /\ WorkerCount \in Nat
    BY WorkerCountType, LifecycleAssumption DEF PoolInv
  <2>2. q \in 0 .. WorkerCount /\ At(Res("ring", q)) <= i /\ i \in Int
    BY DEF LifeInv, StartInv, Steps
  <2>3. At(Res("queue", q)) <= i
    BY <2>1, <2>2, RingParts
  <2>4. slots[q] = RingSlots(q) /\ ~(RingSlots(q) > MaxCapacity) /\ cfg.queue_capacity \in Words
    BY <2>2, <2>3 DEF RingInv
  <2> QED
    BY <2>1, <2>4, RingSize
<1> QED
  BY <1>1, RingInvariant, PTL
=============================================================================
