--------------------------- MODULE SchedulerProofs ---------------------------
(***************************************************************************)
(* Proofs about Scheduler for any number of workers, clients and tasks,    *)
(* any queue sizes and any set of calls.                                   *)
(***************************************************************************)
EXTENDS Scheduler, FiniteSetTheorems, TLAPS

\* The global queue and the workers' queues are different queues.
LEMMA QueueFacts ==
  /\ Global \in Queues /\ 0 \in Queues /\ 0 \in Workers
  /\ Workers \subseteq Queues /\ Workers \subseteq Threads /\ Clients \subseteq Threads
  /\ Clients \cap Workers = {}
  BY WorkerAssumption, ClientAssumption DEF Global, Queues, Workers, Threads

\* try_steal visits queues of workers only.
LEMMA StealOrderType ==
  ASSUME NEW w \in Workers
  PROVE  StealOrder(w) \in Seq(Queues)
<1>1. ASSUME NEW j \in 1 .. WorkerCount - 1 PROVE (w + j) % WorkerCount \in Queues
  BY WorkerAssumption DEF Workers, Queues
<1>2. [j \in 1 .. WorkerCount - 1 |-> (w + j) % WorkerCount] \in Seq(Queues)
  BY <1>1, WorkerAssumption
<1> QED
  BY <1>2 DEF StealOrder

\* The search of a worker begins with a queue, and ends after at least two.
LEMMA SearchOrderType ==
  ASSUME NEW w \in Workers
  PROVE  SearchOrder(w) \in Seq(Queues) /\ Len(SearchOrder(w)) >= 2
<1>1. StealOrder(w) \in Seq(Queues) /\ w \in Queues /\ Global \in Queues
  BY StealOrderType, QueueFacts
<1>2. <<Global, w>> \in Seq(Queues) /\ <<w>> \in Seq(Queues) /\ <<Global>> \in Seq(Queues)
  BY <1>1
<1> QED
  BY <1>1, <1>2 DEF SearchOrder

\* The queue that a worker looks into is one of the scheduler's.
LEMMA ProbedType ==
  ASSUME TypeOK, PcInv, NEW w \in Workers
  PROVE  Probed(w) \in Queues
<1>1. probe[w] \in 1 .. Len(SearchOrder(w))
  BY DEF TypeOK, PcInv
<1> QED
  BY <1>1, SearchOrderType DEF Probed

-----------------------------------------------------------------------------
(* How many tasks are in a set of stages *)

\* There are finitely many tasks in any set of stages.
LEMMA InStagesFinite ==
  ASSUME NEW S
  PROVE  /\ IsFiniteSet(InStages(S)) /\ Cardinality(InStages(S)) \in Nat
         /\ Cardinality(InStages(S)) = 0 <=> InStages(S) = {}
<1>1. InStages(S) \in SUBSET Tasks
  BY DEF InStages
<1>2. IsFiniteSet(InStages(S))
  BY <1>1, FS_Subset, TaskAssumption
<1> QED
  BY <1>2, FS_CardinalityType, FS_EmptySet

\* What a task that moves from stage a to stage s adds to the number.
Gain(a, s, S) == (IF s \in S THEN 1 ELSE 0) - (IF a \in S THEN 1 ELSE 0)

\* When one task changes its stage the number changes by its gain.
LEMMA CountMove ==
  ASSUME TypeOK, NEW k \in Tasks, NEW s, Stage(k, s), NEW S
  PROVE  Cardinality(InStages(S))' = Cardinality(InStages(S)) + Gain(stage[k], s, S)
<1>1. CASE stage[k] \notin S /\ s \in S
  <2>1. InStages(S)' = InStages(S) \cup {k} /\ k \notin InStages(S)
    BY <1>1 DEF TypeOK, Stage, InStages
  <2>2. Cardinality(InStages(S))' = Cardinality(InStages(S)) + 1
    BY <2>1, InStagesFinite, FS_AddElement
  <2>3. Gain(stage[k], s, S) = 1
    BY <1>1 DEF Gain
  <2> QED
    BY <2>2, <2>3
<1>2. CASE stage[k] \in S /\ s \notin S
  <2>1. InStages(S)' = InStages(S) \ {k} /\ k \in InStages(S)
    BY <1>2 DEF TypeOK, Stage, InStages
  <2>2. Cardinality(InStages(S))' = Cardinality(InStages(S)) - 1
    BY <2>1, InStagesFinite, FS_RemoveElement
  <2>3. Gain(stage[k], s, S) = -1
    BY <1>2 DEF Gain
  <2> QED
    BY <2>2, <2>3, InStagesFinite
<1>3. CASE stage[k] \in S <=> s \in S
  <2>1. InStages(S)' = InStages(S)
    BY <1>3 DEF TypeOK, Stage, InStages
  <2> QED
    BY <1>3, <2>1, InStagesFinite DEF Gain
<1> QED
  BY <1>1, <1>2, <1>3

\* The stages that tasks_submitted counts.
SubmittedStages == Stages \ {"new", "submitting", "refused"}

\* A step that moves one task keeps the counters right if it adds to each of them what
\* the move adds to the number that the counter stands for.
LEMMA CountersMove ==
  ASSUME TypeOK, CountersMatch, NEW k \in Tasks, NEW s, Stage(k, s),
         tasks_submitted' = tasks_submitted + Gain(stage[k], s, SubmittedStages),
         tasks_pending'   = tasks_pending + Gain(stage[k], s, PendingStages),
         tasks_active'    = tasks_active + Gain(stage[k], s, ActiveStages),
         tasks_completed' = tasks_completed + Gain(stage[k], s, EndedStages),
         tasks_canceled'  = tasks_canceled + Gain(stage[k], s, {"canceled"})
  PROVE  CountersMatch'
  BY CountMove DEF CountersMatch, SubmittedStages

\* Most moves of a task are between stages that all counters treat alike.
LEMMA SameCounters ==
  ASSUME SchedInv, NEW k \in Tasks, NEW s, Stage(k, s), UNCHANGED counters,
         <<stage[k], s>> \in
           {<<"new", "submitting">>, <<"submitting", "refused">>, <<"counted", "queued">>,
            <<"queued", "taken">>, <<"queued", "batched">>, <<"settled", "destroyed">>}
  PROVE  CountersMatch'
<1>1. /\ Gain(stage[k], s, SubmittedStages) = 0 /\ Gain(stage[k], s, PendingStages) = 0
      /\ Gain(stage[k], s, ActiveStages) = 0 /\ Gain(stage[k], s, EndedStages) = 0
      /\ Gain(stage[k], s, {"canceled"}) = 0
  BY DEF Gain, SubmittedStages, Stages, PendingStages, ActiveStages, EndedStages
<1>2. /\ tasks_submitted' = tasks_submitted + Gain(stage[k], s, SubmittedStages)
      /\ tasks_pending'   = tasks_pending + Gain(stage[k], s, PendingStages)
      /\ tasks_active'    = tasks_active + Gain(stage[k], s, ActiveStages)
      /\ tasks_completed' = tasks_completed + Gain(stage[k], s, EndedStages)
      /\ tasks_canceled'  = tasks_canceled + Gain(stage[k], s, {"canceled"})
  BY <1>1 DEF SchedInv, TypeOK, counters
<1> QED
  BY <1>2, CountersMove DEF SchedInv

\* The counters are natural numbers because they count.
LEMMA CountersNat ==
  ASSUME CountersMatch'
  PROVE  /\ tasks_submitted' \in Nat /\ tasks_completed' \in Nat /\ tasks_canceled' \in Nat
         /\ tasks_pending' \in Nat /\ tasks_active' \in Nat
<1>1. ASSUME NEW S PROVE Cardinality(InStages(S)') \in Nat
  <2>1. InStages(S)' \in SUBSET Tasks
    BY DEF InStages
  <2> QED
    BY <2>1, FS_Subset, FS_CardinalityType, TaskAssumption
<1> QED
  BY <1>1 DEF CountersMatch

-----------------------------------------------------------------------------
(* Steps that move no task *)

\* A step that leaves tasks and counters alone, and in which no thread gets hold of a
\* task or lets one go, keeps everything that is said about tasks.
LEMMA QuietTasks ==
  ASSUME SchedInv, UNCHANGED <<counters, queue, cur, sub, batch, stage>>,
         \A t \in Threads : \/ pc'[t] = pc[t]
                            \/ pc[t] \notin HandPC /\ pc'[t] \notin HandPC
                            \/ /\ pc[t] \in HoldingPC /\ pc'[t] \in HoldingPC
                               /\ SubStage(pc'[t]) = SubStage(pc[t])
  PROVE  StageInv' /\ UniqueInv' /\ PresentInv' /\ CountersMatch'
<1>1. CountersMatch'
  BY DEF SchedInv, CountersMatch, counters, InStages
<1>2. \A t \in Threads :
        /\ pc'[t] \in HandPC <=> pc[t] \in HandPC
        /\ pc'[t] \in HoldingPC <=> pc[t] \in HoldingPC
        /\ pc[t] \in HandPC => HandStage(pc'[t]) = HandStage(pc[t])
        /\ pc[t] \in HoldingPC => SubStage(pc'[t]) = SubStage(pc[t])
  BY DEF HandPC, HoldingPC, SubmitPC, HandStage, SubStage
<1>3. StageInv'
  BY <1>2, QueueFacts DEF SchedInv, StageInv
<1>4. UniqueInv'
  BY <1>2 DEF SchedInv, UniqueInv
<1>5. PresentInv'
  BY <1>2 DEF SchedInv, PresentInv
<1> QED
  BY <1>1, <1>3, <1>4, <1>5

\* A step in which no thread enters or leaves a pop keeps the locks as they are.
LEMMA QuietLocks ==
  ASSUME SchedInv, UNCHANGED pop_lock,
         \A w \in Workers : pc'[w] = "take" \/ pc[w] = "take" =>
                              pc'[w] = pc[w] /\ probe'[w] = probe[w],
         \A c \in Clients : pc'[c] = "ca_take" \/ pc[c] = "ca_take" =>
                              pc'[c] = pc[c] /\ victim'[c] = victim[c]
  PROVE  PopsExclude'
  BY DEF SchedInv, PopsExclude, Pops, Probed

\* A worker without a task goes from one place of its loop to another.
LEMMA WorkerMoves ==
  ASSUME SchedInv, NEW w \in Workers, NEW l \in WorkerPC \ HandPC, pc[w] \notin HandPC, Goto(w, l),
         UNCHANGED <<shutdown_flag, counters, queue, cur, callVars, freed, stage>>,
         pop_lock' \in [Queues -> Threads \cup {NULL}], submit_mutex' \in Workers \cup {NULL},
         probe' \in [Workers -> Nat \ {0}],
         \A v \in Workers : probe'[v] <= Len(SearchOrder(v)),
         PopsExclude'
  PROVE  SchedInv'
<1>1. pc' = [pc EXCEPT ![w] = l] /\ w \in Threads
  BY QueueFacts DEF Goto
<1>2. TypeOK'
  BY <1>1 DEF SchedInv, TypeOK, counters, callVars
<1>3. PcInv'
  BY <1>1, QueueFacts DEF SchedInv, TypeOK, PcInv, HandPC, callVars
<1>4. StageInv' /\ UniqueInv' /\ PresentInv' /\ CountersMatch'
  BY <1>1, QuietTasks DEF SchedInv, TypeOK, callVars
<1> QED
  BY <1>2, <1>3, <1>4 DEF SchedInv

\* The worker takes no lock of a queue in such a step.
LEMMA WorkerMovesFree ==
  ASSUME SchedInv, NEW w \in Workers, NEW l \in WorkerPC \ HandPC, l # "take",
         pc[w] \notin HandPC, pc[w] # "take", Goto(w, l),
         UNCHANGED <<shutdown_flag, counters, queue, pop_lock, cur, callVars, freed, stage>>,
         submit_mutex' \in Workers \cup {NULL},
         probe' = probe \/ \E n \in 1 .. Len(SearchOrder(w)) : probe' = [probe EXCEPT ![w] = n]
  PROVE  SchedInv'
<1>1. pc' = [pc EXCEPT ![w] = l]
  BY DEF Goto
<1>2. PopsExclude'
  BY <1>1, QuietLocks, QueueFacts DEF SchedInv, TypeOK, callVars
<1>3. /\ probe' \in [Workers -> Nat \ {0}]
      /\ \A v \in Workers : probe'[v] <= Len(SearchOrder(v))
  <2>1. /\ probe \in [Workers -> Nat \ {0}]
        /\ \A v \in Workers : probe[v] <= Len(SearchOrder(v))
    BY DEF SchedInv, TypeOK, PcInv
  <2>2. ASSUME NEW n \in 1 .. Len(SearchOrder(w)), probe' = [probe EXCEPT ![w] = n]
        PROVE  /\ probe' \in [Workers -> Nat \ {0}]
               /\ \A v \in Workers : probe'[v] <= Len(SearchOrder(v))
    <3>1. n \in Nat \ {0} /\ n <= Len(SearchOrder(w))
      BY SearchOrderType
    <3> QED
      BY <2>1, <2>2, <3>1
  <2> QED
    BY <2>1, <2>2
<1>4. pop_lock' \in [Queues -> Threads \cup {NULL}]
  BY DEF SchedInv, TypeOK
<1> QED
  BY <1>2, <1>3, <1>4, WorkerMoves

\* A client goes on inside a call without touching a task.
LEMMA ClientMoves ==
  ASSUME SchedInv, NEW c \in Clients, NEW l \in ClientPC, pc[c] \in ClientPC,
         pc' = [pc EXCEPT ![c] = l] \/ Broadcast(c, l),
         batch[c] # << >> => l \in {"ca_lock", "ca_take", "ca_destroy"},
         UNCHANGED <<counters, queue, submit_mutex, workerVars, sub, next, batch, stage>>,
         shutdown_flag' \in BOOLEAN, freed' \in BOOLEAN,
         pop_lock' \in [Queues -> Threads \cup {NULL}],
         victim' \in [Clients -> Queues], owed' \in [Clients -> SUBSET Tasks],
         PopsExclude'
  PROVE  SchedInv'
<1>1. c \in Threads /\ pc \in [Threads -> WorkerPC \cup SubmitPC \cup ClientPC]
  BY QueueFacts DEF SchedInv, TypeOK
<1>2. /\ pc' \in [Threads -> WorkerPC \cup SubmitPC \cup ClientPC] /\ pc'[c] = l
      /\ \A t \in Threads \ {c} : pc'[t] = pc[t] \/ (pc[t] = "waiting" /\ pc'[t] = "woken")
  <2>1. CASE pc' = [pc EXCEPT ![c] = l]
    BY <1>1, <2>1
  <2>2. CASE Broadcast(c, l)
    BY <1>1, <2>2 DEF Broadcast, WorkerPC
  <2> QED
    BY <2>1, <2>2
<1>3. l \notin HandPC /\ pc[c] \notin HandPC /\ "waiting" \notin HandPC /\ "woken" \notin HandPC
  BY DEF ClientPC, HandPC, SubmitPC
<1>4. TypeOK'
  BY <1>2 DEF SchedInv, TypeOK, counters, workerVars
<1>5. PcInv'
  <2>1. \A w \in Workers : w # c /\ w \in Threads
    BY QueueFacts
  <2>2. \A d \in Clients : d # c => pc[d] # "waiting"
    BY DEF SchedInv, PcInv, ClientPC, SubmitPC
  <2>3. \A t \in Threads : pc'[t] \in SubmitPC <=> pc[t] \in SubmitPC
    BY <1>2, <1>3 DEF HandPC
  <2>4. \A w \in Workers : /\ pc'[w] \in WorkerPC \cup SubmitPC
                           /\ pc'[w] \in HandPC <=> pc[w] \in HandPC
    BY <1>2, <1>3, <2>1 DEF SchedInv, PcInv, WorkerPC
  <2>5. \A d \in Clients : d # c => pc'[d] = pc[d]
    BY <1>2, <2>2, QueueFacts
  <2> QED
    BY <1>2, <2>3, <2>4, <2>5, QueueFacts DEF SchedInv, PcInv, workerVars
<1>6. StageInv' /\ UniqueInv' /\ PresentInv' /\ CountersMatch'
  BY <1>2, <1>3, QuietTasks DEF workerVars
<1> QED
  BY <1>4, <1>5, <1>6 DEF SchedInv

\* The client takes no lock of a queue in such a step.
LEMMA ClientMovesFree ==
  ASSUME SchedInv, NEW c \in Clients, NEW l \in ClientPC \ {"ca_take"},
         pc[c] \in ClientPC \ {"ca_take"},
         pc' = [pc EXCEPT ![c] = l] \/ Broadcast(c, l),
         batch[c] # << >> => l \in {"ca_lock", "ca_take", "ca_destroy"},
         UNCHANGED <<counters, queue, pop_lock, submit_mutex, workerVars, sub, next, batch, stage>>,
         shutdown_flag' \in BOOLEAN, freed' \in BOOLEAN,
         victim' = victim \/ victim' = [victim EXCEPT ![c] = Global],
         owed' \in [Clients -> SUBSET Tasks]
  PROVE  SchedInv'
<1>1. c \in Threads /\ pc \in [Threads -> WorkerPC \cup SubmitPC \cup ClientPC]
  BY QueueFacts DEF SchedInv, TypeOK
<1>2. /\ pc'[c] = l
      /\ \A t \in Threads \ {c} : pc'[t] = pc[t] \/ (pc[t] = "waiting" /\ pc'[t] = "woken")
  <2>1. CASE pc' = [pc EXCEPT ![c] = l]
    BY <1>1, <2>1
  <2>2. CASE Broadcast(c, l)
    BY <1>1, <2>2 DEF Broadcast
  <2> QED
    BY <2>1, <2>2
<1>3. PopsExclude'
  <2>1. \A w \in Workers : pc'[w] = "take" \/ pc[w] = "take" =>
                             pc'[w] = pc[w] /\ probe'[w] = probe[w]
    BY <1>2, QueueFacts DEF workerVars
  <2>2. \A d \in Clients \ {c} : victim'[d] = victim[d]
    BY DEF SchedInv, TypeOK
  <2>3. \A d \in Clients : pc'[d] = "ca_take" \/ pc[d] = "ca_take" =>
                             pc'[d] = pc[d] /\ victim'[d] = victim[d]
    BY <1>2, <2>2, QueueFacts
  <2> QED
    BY <2>1, <2>3, QuietLocks
<1>4. /\ victim' \in [Clients -> Queues]
      /\ pop_lock' \in [Queues -> Threads \cup {NULL}]
  BY QueueFacts DEF SchedInv, TypeOK
<1> QED
  BY <1>3, <1>4, ClientMoves

\* The steps of a worker that has no task in its hands.
LEMMA SearchStep ==
  ASSUME SchedInv, NEW w \in Workers,
         LoopTop(w) \/ ExitGlobal(w) \/ ExitOwn(w) \/ TryLock(w) \/ TakeNothing(w)
  PROVE  SchedInv'
<1> DEFINE N == Len(SearchOrder(w))
<1>0. /\ N \in Nat /\ N >= 2 /\ probe[w] \in 1 .. N /\ Probed(w) \in Queues /\ w \in Threads
      /\ pop_lock \in [Queues -> Threads \cup {NULL}] /\ submit_mutex \in Workers \cup {NULL}
      /\ pc \in [Threads -> WorkerPC \cup SubmitPC \cup ClientPC]
      /\ probe \in [Workers -> Nat \ {0}]
      /\ \A v \in Workers : probe[v] <= Len(SearchOrder(v))
  <2>1. TypeOK /\ PcInv
    BY DEF SchedInv
  <2>2. N \in Nat /\ N >= 2
    BY SearchOrderType
  <2>3. probe[w] \in 1 .. N
    BY <2>1, <2>2 DEF TypeOK, PcInv
  <2>4. Probed(w) \in Queues
    BY <2>1, ProbedType
  <2> QED
    BY <2>1, <2>2, <2>3, <2>4, QueueFacts DEF TypeOK, PcInv
<1> HIDE DEF N
<1>1. CASE LoopTop(w)
  <2>1. 1 \in 1 .. N
    BY <1>0
  <2> QED
    BY <1>0, <1>1, <2>1, WorkerMovesFree DEF LoopTop, Goto, WorkerPC, HandPC, SubmitPC, N
<1>2. CASE ExitGlobal(w)
  BY <1>0, <1>2, WorkerMovesFree DEF ExitGlobal, workerVars, Goto, WorkerPC, HandPC, SubmitPC
<1>3. CASE ExitOwn(w)
  BY <1>0, <1>3, WorkerMovesFree DEF ExitOwn, workerVars, Goto, WorkerPC, HandPC, SubmitPC
<1>4. ASSUME NextProbe(w)
      PROVE  /\ \E l \in {"find", "idle_lock"} : Goto(w, l)
             /\ probe' = probe \/ \E n \in 1 .. N : probe' = [probe EXCEPT ![w] = n]
  <2>1. CASE probe[w] < N
    <3>1. probe[w] + 1 \in 1 .. N
      BY <1>0, <2>1
    <3> QED
      BY <1>0, <1>4, <2>1, <3>1 DEF NextProbe, N
  <2>2. CASE ~(probe[w] < N)
    BY <1>4, <2>2 DEF NextProbe, N
  <2> QED
    BY <2>1, <2>2
<1>5. CASE TryLock(w)
  <2>1. CASE pop_lock[Probed(w)] = NULL
    <3>1. /\ pop_lock' = [pop_lock EXCEPT ![Probed(w)] = w] /\ Goto(w, "take")
          /\ pc[w] = "find" /\ UNCHANGED <<probe, victim>>
      BY <1>5, <2>1 DEF TryLock, callVars
    <3>2. PopsExclude'
      BY <1>0, <2>1, <3>1, QueueFacts, NullAssumption
      DEF SchedInv, PopsExclude, Pops, Probed, Goto
    <3>3. pop_lock' \in [Queues -> Threads \cup {NULL}]
      BY <1>0, <3>1
    <3> QED
      BY <1>0, <1>5, <3>1, <3>2, <3>3, WorkerMoves DEF TryLock, WorkerPC, HandPC, SubmitPC
  <2>2. CASE pop_lock[Probed(w)] # NULL
    BY <1>0, <1>4, <1>5, <2>2, WorkerMovesFree DEF TryLock, WorkerPC, HandPC, SubmitPC, N
  <2> QED
    BY <2>1, <2>2
<1>6. CASE TakeNothing(w)
  <2>1. /\ pop_lock' = [pop_lock EXCEPT ![Probed(w)] = NULL] /\ pc[w] = "take" /\ NextProbe(w)
        /\ UNCHANGED victim
    BY <1>6 DEF TakeNothing, callVars
  <2>2. PICK l \in {"find", "idle_lock"} : Goto(w, l)
    BY <1>4, <2>1
  <2>3. /\ probe' \in [Workers -> Nat \ {0}]
        /\ \A v \in Workers : probe'[v] <= Len(SearchOrder(v))
        /\ \A v \in Workers : v # w => probe'[v] = probe[v]
    <3>1. CASE probe' = probe
      BY <1>0, <3>1
    <3>2. ASSUME NEW n \in 1 .. N, probe' = [probe EXCEPT ![w] = n]
          PROVE  /\ probe' \in [Workers -> Nat \ {0}]
                 /\ \A v \in Workers : probe'[v] <= Len(SearchOrder(v))
                 /\ \A v \in Workers : v # w => probe'[v] = probe[v]
      <4>1. n \in Nat \ {0} /\ n <= Len(SearchOrder(w))
        BY <1>0 DEF N
      <4> QED
        BY <1>0, <3>2, <4>1
    <3> QED
      BY <1>4, <2>1, <3>1, <3>2
  <2>4. PopsExclude'
    BY <1>0, <2>1, <2>2, <2>3, QueueFacts, NullAssumption
    DEF SchedInv, PopsExclude, Pops, Probed, Goto
  <2>5. pop_lock' \in [Queues -> Threads \cup {NULL}]
    BY <1>0, <2>1
  <2> QED
    BY <1>0, <1>6, <2>1, <2>2, <2>3, <2>4, <2>5, WorkerMoves
    DEF TakeNothing, WorkerPC, HandPC, SubmitPC
<1> QED
  BY <1>1, <1>2, <1>3, <1>5, <1>6

\* The idle path of worker_main: no task moves.
LEMMA IdleStep ==
  ASSUME SchedInv, NEW w \in Workers,
         IdleLock(w) \/ IdleGlobal(w) \/ IdleOwn(w) \/ Timeout(w) \/ Woken(w)
  PROVE  SchedInv'
<1>0. submit_mutex \in Workers \cup {NULL}
  BY DEF SchedInv, TypeOK
<1>1. CASE IdleLock(w)
  BY <1>0, <1>1, WorkerMovesFree DEF IdleLock, workerVars, WorkerPC, HandPC, SubmitPC
<1>2. CASE IdleGlobal(w)
  BY <1>0, <1>2, WorkerMovesFree DEF IdleGlobal, workerVars, WorkerPC, HandPC, SubmitPC
<1>3. CASE IdleOwn(w)
  BY <1>0, <1>3, WorkerMovesFree DEF IdleOwn, workerVars, WorkerPC, HandPC, SubmitPC
<1>4. CASE Timeout(w) \/ Woken(w)
  BY <1>0, <1>4, WorkerMovesFree DEF Timeout, Woken, workerVars, WorkerPC, HandPC, SubmitPC
<1> QED
  BY <1>1, <1>2, <1>3, <1>4

\* The steps of a client that take no task.
LEMMA WaitStep ==
  ASSUME SchedInv, NEW c \in Clients,
         \/ WaitIdle(c) \/ LoadPending1(c) \/ LoadActive1(c) \/ LoadPending2(c) \/ LoadActive2(c)
  PROVE  SchedInv'
<1>0. /\ shutdown_flag \in BOOLEAN /\ freed \in BOOLEAN /\ owed \in [Clients -> SUBSET Tasks]
      /\ batch[c] # << >> => pc[c] \in {"ca_lock", "ca_take", "ca_destroy"}
  BY DEF SchedInv, TypeOK, PcInv
<1>1. CASE WaitIdle(c)
  <2>1. owed' \in [Clients -> SUBSET Tasks]
    BY <1>0, <1>1 DEF WaitIdle
  <2> QED
    BY <1>0, <1>1, <2>1, ClientMovesFree DEF WaitIdle, MayCall, Goto, ClientPC
<1>2. CASE LoadPending1(c) \/ LoadActive1(c) \/ LoadPending2(c)
  <2>1. /\ pc[c] \in {"idle_p1", "idle_a1", "idle_p2"}
        /\ \E l \in {"idle_p1", "idle_a1", "idle_p2", "idle_a2"} : pc' = [pc EXCEPT ![c] = l]
        /\ UNCHANGED <<shutdown_flag, counters, queue, pop_lock, submit_mutex, workerVars,
                       callVars, freed, stage>>
    BY <1>2 DEF LoadPending1, LoadActive1, LoadPending2, Load, Goto
  <2> QED
    BY <1>0, <2>1, ClientMovesFree DEF callVars, ClientPC
<1>3. CASE LoadActive2(c)
  <2>1. owed' \in [Clients -> SUBSET Tasks]
    BY <1>0, <1>3 DEF LoadActive2
  <2>2. \E l \in {"ready", "idle_p1"} : pc' = [pc EXCEPT ![c] = l]
    BY <1>3 DEF LoadActive2, Goto
  <2> QED
    BY <1>0, <1>3, <2>1, <2>2, ClientMovesFree DEF LoadActive2, ClientPC
<1> QED
  BY <1>1, <1>2, <1>3

\* The steps of cancel_all and shutdown that move no task.
LEMMA StopStep ==
  ASSUME SchedInv, NEW c \in Clients,
         CancelAll(c) \/ CancelBroadcast(c) \/ Shutdown(c) \/ ShutdownBroadcast(c) \/ ShutdownJoin(c)
  PROVE  SchedInv'
<1>0. /\ shutdown_flag \in BOOLEAN /\ freed \in BOOLEAN /\ owed \in [Clients -> SUBSET Tasks]
      /\ batch[c] # << >> => pc[c] \in {"ca_lock", "ca_take", "ca_destroy"}
  BY DEF SchedInv, TypeOK, PcInv
<1>1. CASE CancelAll(c)
  BY <1>0, <1>1, ClientMovesFree DEF CancelAll, MayCall, Goto, ClientPC
<1>2. CASE CancelBroadcast(c)
  BY <1>0, <1>2, ClientMovesFree DEF CancelBroadcast, callVars, ClientPC
<1>3. CASE Shutdown(c)
  BY <1>0, <1>3, ClientMovesFree DEF Shutdown, MayCall, Goto, callVars, ClientPC
<1>4. CASE ShutdownBroadcast(c)
  BY <1>0, <1>4, ClientMovesFree DEF ShutdownBroadcast, callVars, ClientPC
<1>5. CASE ShutdownJoin(c)
  BY <1>0, <1>5, ClientMovesFree DEF ShutdownJoin, Goto, callVars, ClientPC
<1> QED
  BY <1>1, <1>2, <1>3, <1>4, <1>5

\* fq_queue_drain takes the lock, and gives it back when the queue is empty.
LEMMA DrainStep ==
  ASSUME SchedInv, NEW c \in Clients, CancelLock(c) \/ CancelTakeNothing(c)
  PROVE  SchedInv'
<1>0. /\ shutdown_flag \in BOOLEAN /\ freed \in BOOLEAN /\ owed \in [Clients -> SUBSET Tasks]
      /\ pop_lock \in [Queues -> Threads \cup {NULL}] /\ victim \in [Clients -> Queues]
      /\ pc \in [Threads -> WorkerPC \cup SubmitPC \cup ClientPC] /\ victim[c] \in Queues
      /\ c \in Threads
  BY QueueFacts DEF SchedInv, TypeOK
<1>1. CASE CancelLock(c)
  <2>1. PopsExclude'
    BY <1>0, <1>1, QueueFacts, NullAssumption
    DEF CancelLock, workerVars, callVars, Goto, SchedInv, PopsExclude, Pops, Probed
  <2>2. pop_lock' \in [Queues -> Threads \cup {NULL}]
    BY <1>0, <1>1 DEF CancelLock
  <2> QED
    BY <1>0, <1>1, <2>1, <2>2, ClientMoves DEF CancelLock, callVars, Goto, ClientPC
<1>2. CASE CancelTakeNothing(c)
  <2>1. PopsExclude'
    BY <1>0, <1>2, QueueFacts, NullAssumption
    DEF CancelTakeNothing, workerVars, callVars, Goto, SchedInv, PopsExclude, Pops, Probed
  <2>2. pop_lock' \in [Queues -> Threads \cup {NULL}]
    BY <1>0, <1>2 DEF CancelTakeNothing
  <2> QED
    BY <1>0, <1>2, <2>1, <2>2, ClientMoves DEF CancelTakeNothing, callVars, Goto, ClientPC
<1> QED
  BY <1>1, <1>2

-----------------------------------------------------------------------------
(* Submission *)

\* The call has a task in its hands, and it is nobody else's.
LEMMA SubmitOwner ==
  ASSUME SchedInv, NEW t \in Threads, pc[t] \in HoldingPC
  PROVE  /\ sub[t] \in Tasks /\ stage[sub[t]] = SubStage(pc[t])
         /\ \A q \in Queues : \A j \in DOMAIN queue[q] : queue[q][j] # sub[t]
         /\ \A w \in Workers : cur[w] # sub[t]
         /\ \A u \in Threads \ {t} : pc[u] \in HoldingPC => sub[u] # sub[t]
         /\ \A c \in Clients : \A j \in DOMAIN batch[c] : batch[c][j] # sub[t]
<1>1. sub[t] \in Tasks
  BY DEF SchedInv, TypeOK, PcInv, HoldingPC
<1>2. stage[sub[t]] = SubStage(pc[t]) /\ SubStage(pc[t]) \in {"submitting", "counted"}
  BY DEF SchedInv, StageInv, SubStage
<1>3. \A w \in Workers : cur[w] # sub[t]
  <2> SUFFICES ASSUME NEW w \in Workers, cur[w] = sub[t] PROVE FALSE
    OBVIOUS
  <2>1. pc[w] \in HandPC
    BY <1>1, NullAssumption DEF SchedInv, PcInv
  <2>2. HandStage(pc[w]) \notin {"submitting", "counted"}
    BY DEF HandStage
  <2> QED
    BY <1>2, <2>1, <2>2 DEF SchedInv, StageInv
<1> QED
  BY <1>1, <1>2, <1>3 DEF SchedInv, StageInv, UniqueInv

\* FQ_ERR_CLOSED or FQ_ERR_OVERFLOW: the caller destroys the task.
LEMMA SubmitGivesUp ==
  ASSUME SchedInv, NEW t \in Threads, pc[t] \in HoldingPC, NEW s \in {"refused", "rejected"},
         Stage(sub[t], s), Back(t), CountersMatch',
         UNCHANGED <<shutdown_flag, queue, pop_lock, submit_mutex, workerVars, next, victim,
                     batch, owed, freed>>
  PROVE  SchedInv'
<1> DEFINE l == IF t \in Workers THEN "run" ELSE "ready"
<1>1. /\ pc' = [pc EXCEPT ![t] = l] /\ sub' = [sub EXCEPT ![t] = NULL]
      /\ stage' = [stage EXCEPT ![sub[t]] = s]
      /\ pc \in [Threads -> WorkerPC \cup SubmitPC \cup ClientPC]
      /\ sub \in [Threads -> Tasks \cup {NULL}] /\ stage \in [Tasks -> Stages]
      /\ sub[t] \in Tasks
  BY SubmitOwner DEF Back, Goto, Stage, SchedInv, TypeOK
<1>2. /\ l \in WorkerPC \cup ClientPC /\ l \notin SubmitPC /\ l # "take" /\ l # "ca_take"
      /\ t \in Workers => l \in HandPC /\ HandStage(l) = "running"
      /\ t \in Clients => l \in ClientPC /\ l \notin HandPC
      /\ pc[t] \in SubmitPC /\ pc[t] # "take" /\ pc[t] # "ca_take"
      /\ HandStage(pc[t]) = "running"
  BY QueueFacts DEF WorkerPC, ClientPC, SubmitPC, HandPC, HandStage, HoldingPC
<1> HIDE DEF l
<1>3. TypeOK'
  BY <1>1, <1>2, CountersNat
  DEF SchedInv, TypeOK, workerVars, Stages, CountersMatch
<1>4. PcInv'
  BY <1>1, <1>2, QueueFacts DEF SchedInv, PcInv, workerVars, HandPC, WorkerPC
<1>5. PopsExclude'
  BY <1>1, <1>2, QuietLocks, QueueFacts DEF workerVars
<1>6. StageInv'
  <2>1. /\ \A r \in Queues : \A j \in DOMAIN queue'[r] : stage'[queue'[r][j]] = "queued"
        /\ \A c \in Clients : \A j \in DOMAIN batch'[c] : stage'[batch'[c][j]] = "batched"
    BY <1>1, SubmitOwner DEF SchedInv, TypeOK, StageInv
  <2>2. \A w \in Workers : pc'[w] \in HandPC => stage'[cur'[w]] = HandStage(pc'[w])
    <3> SUFFICES ASSUME NEW w \in Workers, pc'[w] \in HandPC
                 PROVE  stage'[cur'[w]] = HandStage(pc'[w])
      OBVIOUS
    <3>1. pc[w] \in HandPC /\ HandStage(pc'[w]) = HandStage(pc[w])
      BY <1>1, <1>2, QueueFacts DEF HandPC
    <3> QED
      BY <1>1, <3>1, SubmitOwner DEF SchedInv, StageInv, TypeOK, workerVars
  <2>3. \A u \in Threads : pc'[u] \in HoldingPC => stage'[sub'[u]] = SubStage(pc'[u])
    BY <1>1, <1>2, SubmitOwner DEF SchedInv, StageInv, HoldingPC
  <2> QED
    BY <2>1, <2>2, <2>3 DEF StageInv
<1>7. UniqueInv'
  BY <1>1, <1>2 DEF SchedInv, UniqueInv, workerVars, HoldingPC
<1>8. PresentInv'
  BY <1>1, <1>2 DEF SchedInv, PresentInv, workerVars, HoldingPC
<1> QED
  BY <1>3, <1>4, <1>5, <1>6, <1>7, <1>8 DEF SchedInv

\* A queue with room takes the task.
LEMMA SubmitEnqueues ==
  ASSUME SchedInv, NEW t \in Threads, pc[t] \in {"sub_push", "sub_global"}, NEW q \in Queues,
         Enqueue(q, sub[t]), Stage(sub[t], "queued"), Goto(t, "sub_signal"),
         next' \in [Threads -> Workers],
         UNCHANGED <<shutdown_flag, counters, pop_lock, submit_mutex, workerVars, sub, victim,
                     batch, owed, freed>>
  PROVE  SchedInv'
<1>0. pc[t] \in HoldingPC /\ SubStage(pc[t]) = "counted"
  BY DEF HoldingPC, SubmitPC, SubStage
<1>1. /\ pc' = [pc EXCEPT ![t] = "sub_signal"]
      /\ stage' = [stage EXCEPT ![sub[t]] = "queued"]
      /\ queue' = [queue EXCEPT ![q] = Append(@, sub[t])]
      /\ pc \in [Threads -> WorkerPC \cup SubmitPC \cup ClientPC]
      /\ queue \in [Queues -> Seq(Tasks)] /\ stage \in [Tasks -> Stages]
      /\ sub[t] \in Tasks /\ stage[sub[t]] = "counted"
  BY <1>0, SubmitOwner DEF Enqueue, Goto, Stage, SchedInv, TypeOK
<1>2. /\ queue'[q] = Append(queue[q], sub[t]) /\ queue[q] \in Seq(Tasks)
      /\ \A r \in Queues \ {q} : queue'[r] = queue[r]
      /\ DOMAIN queue'[q] = 1 .. Len(queue[q]) + 1 /\ Len(queue[q]) \in Nat
      /\ DOMAIN queue[q] = 1 .. Len(queue[q])
      /\ \A j \in DOMAIN queue'[q] :
           queue'[q][j] = IF j = Len(queue[q]) + 1 THEN sub[t] ELSE queue[q][j]
  BY <1>1
<1>3. \A r \in Queues : \A j \in DOMAIN queue'[r] :
        \/ j \in DOMAIN queue[r] /\ queue'[r][j] = queue[r][j]
        \/ r = q /\ j = Len(queue[q]) + 1 /\ queue'[r][j] = sub[t]
  BY <1>2
<1>10. TypeOK'
  BY <1>1, <1>2 DEF SchedInv, TypeOK, workerVars, Stages, PendingStages, SubmitPC, counters
<1>4. PcInv'
  BY <1>1, QueueFacts DEF SchedInv, PcInv, workerVars, HandPC, SubmitPC
<1>5. PopsExclude'
  BY <1>1, QuietLocks, QueueFacts DEF workerVars
<1>6. StageInv'
  <2>1. \A r \in Queues : \A j \in DOMAIN queue'[r] : stage'[queue'[r][j]] = "queued"
    BY <1>0, <1>1, <1>2, SubmitOwner DEF SchedInv, TypeOK, StageInv
  <2>2. \A w \in Workers : pc'[w] \in HandPC => stage'[cur'[w]] = HandStage(pc'[w])
    <3> SUFFICES ASSUME NEW w \in Workers, pc'[w] \in HandPC
                 PROVE  stage'[cur'[w]] = HandStage(pc'[w])
      OBVIOUS
    <3>1. pc[w] \in HandPC /\ HandStage(pc'[w]) = HandStage(pc[w])
      BY <1>1, QueueFacts DEF HandPC, SubmitPC, HandStage
    <3> QED
      BY <1>0, <1>1, <3>1, SubmitOwner DEF SchedInv, StageInv, TypeOK, workerVars
  <2>3. \A u \in Threads : pc'[u] \in HoldingPC => stage'[sub'[u]] = SubStage(pc'[u])
    BY <1>0, <1>1, SubmitOwner DEF SchedInv, StageInv, HoldingPC
  <2>4. \A c \in Clients : \A j \in DOMAIN batch'[c] : stage'[batch'[c][j]] = "batched"
    BY <1>0, <1>1, SubmitOwner DEF SchedInv, TypeOK, StageInv
  <2> QED
    BY <2>1, <2>2, <2>3, <2>4 DEF StageInv
<1>7. UniqueInv'
  <2>1. \A r, p \in Queues : \A i \in DOMAIN queue'[r], j \in DOMAIN queue'[p] :
          queue'[r][i] = queue'[p][j] => r = p /\ i = j
    <3> SUFFICES ASSUME NEW r \in Queues, NEW p \in Queues,
                        NEW i \in DOMAIN queue'[r], NEW j \in DOMAIN queue'[p],
                        queue'[r][i] = queue'[p][j]
                 PROVE  r = p /\ i = j
      OBVIOUS
    <3>0. \A i1 \in DOMAIN queue[r], j1 \in DOMAIN queue[p] :
            queue[r][i1] = queue[p][j1] => r = p /\ i1 = j1
      BY DEF SchedInv, UniqueInv
    <3>1. \A i1 \in DOMAIN queue[r] : queue[r][i1] # sub[t]
      BY <1>0, SubmitOwner
    <3>2. \A j1 \in DOMAIN queue[p] : queue[p][j1] # sub[t]
      BY <1>0, SubmitOwner
    <3> QED
      BY <1>3, <3>0, <3>1, <3>2
  <2> QED
    BY <1>1, <2>1 DEF SchedInv, UniqueInv, workerVars, HoldingPC
<1>8. PresentInv'
  <2>1. \A r \in Queues : \A j \in DOMAIN queue[r] :
          j \in DOMAIN queue'[r] /\ queue'[r][j] = queue[r][j]
    BY <1>2
  <2>2. \E j \in DOMAIN queue'[q] : queue'[q][j] = sub[t]
    <3>1. Len(queue[q]) + 1 \in DOMAIN queue'[q]
      BY <1>2
    <3> QED
      BY <1>2, <3>1
  <2>3. ASSUME NEW k \in Tasks, stage'[k] = "queued"
        PROVE  \E r \in Queues : \E j \in DOMAIN queue'[r] : queue'[r][j] = k
    BY <1>1, <2>1, <2>2, <2>3 DEF SchedInv, PresentInv
  <2>4. ASSUME NEW k \in Tasks, stage'[k] # "queued"
        PROVE  k # sub[t] /\ stage'[k] = stage[k]
    BY <1>1, <2>4
  <2>5. \A u \in Threads : u # t => pc'[u] = pc[u] /\ sub'[u] = sub[u]
    BY <1>1
  <2> QED
    BY <2>3, <2>4, <2>5 DEF SchedInv, PresentInv, workerVars
<1>9. CountersMatch'
  BY <1>1, SameCounters, CountersMove DEF SchedInv, TypeOK, counters, Stage
<1> QED
  BY <1>10, <1>4, <1>5, <1>6, <1>7, <1>8, <1>9 DEF SchedInv

\* The call goes on, its task stays in its hands.
LEMMA SubmitMoves ==
  ASSUME SchedInv, NEW t \in Threads, pc[t] \in HoldingPC, NEW l \in HoldingPC,
         SubStage(l) = SubStage(pc[t]), Goto(t, l), next' \in [Threads -> Workers],
         UNCHANGED <<shutdown_flag, counters, queue, pop_lock, submit_mutex, workerVars, sub, victim,
                     batch, owed, freed, stage>>
  PROVE  SchedInv'
<1>1. /\ pc' = [pc EXCEPT ![t] = l]
      /\ pc \in [Threads -> WorkerPC \cup SubmitPC \cup ClientPC]
      /\ pc[t] \in SubmitPC /\ l \in SubmitPC
      /\ {pc[t], l} \cap {"take", "ca_take"} = {} /\ SubmitPC \subseteq HandPC
  BY DEF Goto, SchedInv, TypeOK, HoldingPC, SubmitPC, HandPC
<1>2. TypeOK'
  BY <1>1 DEF SchedInv, TypeOK, counters, workerVars
<1>3. PcInv'
  <2>1. \A u \in Threads : /\ pc'[u] \in SubmitPC <=> pc[u] \in SubmitPC
                           /\ pc'[u] \in HandPC <=> pc[u] \in HandPC
                           /\ pc'[u] \in SubmitPC \/ pc'[u] = pc[u]
    BY <1>1
  <2>2. pc[t] \notin {"ca_lock", "ca_take", "ca_destroy"}
    BY DEF HoldingPC, SubmitPC
  <2>3. \A c \in Clients : batch'[c] # << >> => pc'[c] \in {"ca_lock", "ca_take", "ca_destroy"}
    BY <1>1, <2>2, QueueFacts DEF SchedInv, PcInv
  <2> QED
    BY <2>1, <2>3, QueueFacts DEF SchedInv, PcInv, workerVars
<1>4. PopsExclude'
  BY <1>1, QuietLocks, QueueFacts DEF workerVars
<1>5. StageInv' /\ UniqueInv' /\ PresentInv' /\ CountersMatch'
  BY <1>1, QuietTasks DEF workerVars
<1> QED
  BY <1>2, <1>3, <1>4, <1>5 DEF SchedInv

\* Both counters go up.
LEMMA SubmitCountStep ==
  ASSUME SchedInv, NEW t \in Threads, SubmitCount(t)
  PROVE  SchedInv'
<1>0. pc[t] \in HoldingPC /\ SubStage(pc[t]) = "submitting"
  BY DEF SubmitCount, HoldingPC, SubmitPC, SubStage
<1>1. PICK l \in {"sub_push", "sub_global"} : pc' = [pc EXCEPT ![t] = l]
  BY DEF SubmitCount, Goto
<1>2. /\ stage' = [stage EXCEPT ![sub[t]] = "counted"]
      /\ pc \in [Threads -> WorkerPC \cup SubmitPC \cup ClientPC]
      /\ stage \in [Tasks -> Stages]
      /\ sub[t] \in Tasks /\ stage[sub[t]] = "submitting"
  BY <1>0, SubmitOwner DEF SubmitCount, Stage, SchedInv, TypeOK
<1>3. /\ l \in SubmitPC /\ l \in HoldingPC /\ SubStage(l) = "counted" /\ SubmitPC \subseteq HandPC
      /\ HandStage(l) = "running" /\ HandStage(pc[t]) = "running"
      /\ {pc[t], l} \cap {"take", "ca_take"} = {}
      /\ pc[t] \in SubmitPC
  BY DEF SubmitCount, HoldingPC, SubmitPC, SubStage, HandPC, HandStage
<1>4. CountersMatch'
  <2>1. /\ Gain("submitting", "counted", SubmittedStages) = 1
        /\ Gain("submitting", "counted", PendingStages) = 1
        /\ Gain("submitting", "counted", ActiveStages) = 0
        /\ Gain("submitting", "counted", EndedStages) = 0
        /\ Gain("submitting", "counted", {"canceled"}) = 0
    BY DEF Gain, SubmittedStages, Stages, PendingStages, ActiveStages, EndedStages
  <2>2. /\ tasks_active' = tasks_active + 0 /\ tasks_completed' = tasks_completed + 0
        /\ tasks_canceled' = tasks_canceled + 0
    BY DEF SubmitCount, SchedInv, TypeOK
  <2> QED
    BY <1>2, <2>1, <2>2, CountersMove DEF SchedInv, SubmitCount
<1>5. TypeOK'
  BY <1>1, <1>2, <1>3, <1>4, CountersNat
  DEF SchedInv, TypeOK, SubmitCount, callVars, workerVars, Stages, PendingStages
<1>6. PcInv'
  BY <1>1, <1>2, <1>3, QueueFacts DEF SubmitCount, SchedInv, PcInv, callVars, workerVars
<1>7. PopsExclude'
  BY <1>1, <1>2, <1>3, QuietLocks, QueueFacts DEF SubmitCount, callVars, workerVars
<1>8. StageInv'
  <2>1. /\ \A r \in Queues : \A j \in DOMAIN queue'[r] : stage'[queue'[r][j]] = "queued"
        /\ \A c \in Clients : \A j \in DOMAIN batch'[c] : stage'[batch'[c][j]] = "batched"
    BY <1>0, <1>2, SubmitOwner DEF SubmitCount, callVars, SchedInv, TypeOK, StageInv
  <2>2. \A w \in Workers : pc'[w] \in HandPC => stage'[cur'[w]] = HandStage(pc'[w])
    <3> SUFFICES ASSUME NEW w \in Workers, pc'[w] \in HandPC
                 PROVE  stage'[cur'[w]] = HandStage(pc'[w])
      OBVIOUS
    <3>1. pc[w] \in HandPC /\ HandStage(pc'[w]) = HandStage(pc[w])
      BY <1>1, <1>2, <1>3, QueueFacts
    <3> QED
      BY <1>0, <1>2, <3>1, SubmitOwner DEF SubmitCount, SchedInv, StageInv, TypeOK, workerVars
  <2>3. \A u \in Threads : pc'[u] \in HoldingPC => stage'[sub'[u]] = SubStage(pc'[u])
    BY <1>0, <1>1, <1>2, <1>3, SubmitOwner DEF SubmitCount, callVars, SchedInv, StageInv
  <2> QED
    BY <2>1, <2>2, <2>3 DEF StageInv
<1>9. UniqueInv'
  BY <1>0, <1>1, <1>2, <1>3 DEF SubmitCount, SchedInv, UniqueInv, callVars, workerVars
<1>10. PresentInv'
  BY <1>0, <1>1, <1>2, <1>3 DEF SubmitCount, SchedInv, PresentInv, callVars, workerVars
<1> QED
  BY <1>4, <1>5, <1>6, <1>7, <1>8, <1>9, <1>10 DEF SchedInv

\* The signal wakes at most one worker; the task has left the submitter's hands already.
LEMMA SubmitSignalStep ==
  ASSUME SchedInv, NEW t \in Threads, SubmitSignal(t)
  PROVE  SchedInv'
<1> DEFINE back == IF t \in Workers THEN "run" ELSE "ready"
<1>1. /\ sub' = [sub EXCEPT ![t] = NULL] /\ pc[t] = "sub_signal"
      /\ pc \in [Threads -> WorkerPC \cup SubmitPC \cup ClientPC]
      /\ sub \in [Threads -> Tasks \cup {NULL}]
  BY DEF SubmitSignal, SchedInv, TypeOK
<1>2. /\ pc' \in [Threads -> WorkerPC \cup SubmitPC \cup ClientPC] /\ pc'[t] = back
      /\ \A u \in Threads \ {t} :
           pc'[u] = pc[u] \/ (u \in Workers /\ pc[u] = "waiting" /\ pc'[u] = "woken")
  <2>1. CASE Goto(t, back)
    BY <1>1, <2>1 DEF Goto, WorkerPC, ClientPC
  <2>2. ASSUME NEW w \in Workers, pc[w] = "waiting",
               pc' = [pc EXCEPT ![t] = back, ![w] = "woken"]
        PROVE  <1>2
    BY <1>1, <2>2, QueueFacts DEF WorkerPC, ClientPC
  <2> QED
    BY <2>1, <2>2 DEF SubmitSignal
<1>3. /\ t \in Workers => back \in HandPC /\ back \in WorkerPC
      /\ t \in Clients => back \notin HandPC /\ back \in ClientPC
      /\ HandStage(back) = "running" /\ HandStage("sub_signal") = "running"
      /\ back \notin SubmitPC /\ "sub_signal" \in HandPC /\ SubmitPC \subseteq HandPC
      /\ {"waiting", "woken"} \cap HandPC = {} /\ "woken" \in WorkerPC
      /\ back \notin {"take", "ca_take"} /\ "sub_signal" \in SubmitPC
      /\ HoldingPC \subseteq SubmitPC /\ "sub_signal" \notin HoldingPC
  BY QueueFacts DEF HandPC, HandStage, SubmitPC, WorkerPC, ClientPC, HoldingPC
<1> HIDE DEF back
<1>4. TypeOK'
  BY <1>1, <1>2 DEF SubmitSignal, SchedInv, TypeOK, counters, workerVars
<1>5. PcInv'
  BY <1>1, <1>2, <1>3, QueueFacts DEF SubmitSignal, SchedInv, PcInv, workerVars
<1>6. PopsExclude'
  BY <1>1, <1>2, <1>3, QuietLocks, QueueFacts DEF SubmitSignal, workerVars
<1>7. StageInv'
  <2>1. \A w \in Workers : pc'[w] \in HandPC =>
                             pc[w] \in HandPC /\ HandStage(pc'[w]) = HandStage(pc[w])
    BY <1>1, <1>2, <1>3, QueueFacts
  <2>2. \A u \in Threads : pc'[u] \in HoldingPC =>
                             u # t /\ pc[u] = pc'[u] /\ sub'[u] = sub[u]
    BY <1>1, <1>2, <1>3
  <2> QED
    BY <2>1, <2>2 DEF SubmitSignal, SchedInv, StageInv, workerVars
<1>8. UniqueInv'
  BY <1>1, <1>2, <1>3 DEF SubmitSignal, SchedInv, UniqueInv, workerVars
<1>9. PresentInv'
  BY <1>1, <1>2, <1>3 DEF SubmitSignal, SchedInv, PresentInv, workerVars
<1>10. CountersMatch'
  BY DEF SubmitSignal, SchedInv, CountersMatch, InStages, counters
<1> QED
  BY <1>4, <1>5, <1>6, <1>7, <1>8, <1>9, <1>10 DEF SchedInv

\* fq_scheduler_submit is entered with a task that nobody has seen.
LEMMA BeginStep ==
  ASSUME SchedInv, NEW t \in Threads, pc[t] = IF t \in Workers THEN "run" ELSE "ready",
         NEW k \in Tasks, Begin(t, k)
  PROVE  SchedInv'
<1>1. /\ pc' = [pc EXCEPT ![t] = "sub_check"] /\ sub' = [sub EXCEPT ![t] = k]
      /\ stage' = [stage EXCEPT ![k] = "submitting"] /\ stage[k] = "new"
      /\ pc \in [Threads -> WorkerPC \cup SubmitPC \cup ClientPC]
      /\ sub \in [Threads -> Tasks \cup {NULL}] /\ stage \in [Tasks -> Stages]
      /\ k # NULL
  BY NullAssumption DEF Begin, Goto, Stage, SchedInv, TypeOK
<1>2. /\ pc[t] \notin SubmitPC /\ pc[t] \notin {"take", "ca_take", "ca_lock", "ca_destroy"}
      /\ t \in Workers => pc[t] \in HandPC
      /\ HandStage(pc[t]) = "running" /\ HandStage("sub_check") = "running"
      /\ SubStage("sub_check") = "submitting" /\ "sub_check" \in HoldingPC
      /\ HoldingPC \subseteq SubmitPC /\ SubmitPC \subseteq HandPC
  BY DEF SubmitPC, HandPC, HandStage, SubStage, HoldingPC
<1>3. /\ \A q \in Queues : \A j \in DOMAIN queue[q] : queue[q][j] # k
      /\ \A w \in Workers : cur[w] # k
      /\ \A u \in Threads : pc[u] \in HoldingPC => sub[u] # k
      /\ \A c \in Clients : \A j \in DOMAIN batch[c] : batch[c][j] # k
  <2>1. \A w \in Workers : cur[w] # k
    <3> SUFFICES ASSUME NEW w \in Workers, cur[w] = k PROVE FALSE
      OBVIOUS
    <3>1. pc[w] \in HandPC
      BY <1>1 DEF SchedInv, PcInv
    <3>2. HandStage(pc[w]) # "new"
      BY DEF HandStage
    <3> QED
      BY <1>1, <3>1, <3>2 DEF SchedInv, StageInv
  <2>2. \A u \in Threads : pc[u] \in HoldingPC => sub[u] # k
    BY <1>1 DEF SchedInv, StageInv, SubStage
  <2> QED
    BY <1>1, <2>1, <2>2 DEF SchedInv, StageInv
<1>4. TypeOK'
  BY <1>1 DEF Begin, SchedInv, TypeOK, counters, workerVars, SubmitPC, Stages
<1>5. PcInv'
  BY <1>1, <1>2, QueueFacts DEF Begin, SchedInv, PcInv, workerVars, HoldingPC
<1>6. PopsExclude'
  BY <1>1, <1>2, QuietLocks, QueueFacts DEF Begin, workerVars
<1>7. StageInv'
  <2>1. /\ \A r \in Queues : \A j \in DOMAIN queue'[r] : stage'[queue'[r][j]] = "queued"
        /\ \A c \in Clients : \A j \in DOMAIN batch'[c] : stage'[batch'[c][j]] = "batched"
    BY <1>1, <1>3 DEF Begin, SchedInv, TypeOK, StageInv
  <2>2. \A w \in Workers : pc'[w] \in HandPC => stage'[cur'[w]] = HandStage(pc'[w])
    <3> SUFFICES ASSUME NEW w \in Workers, pc'[w] \in HandPC
                 PROVE  stage'[cur'[w]] = HandStage(pc'[w])
      OBVIOUS
    <3>1. pc[w] \in HandPC /\ HandStage(pc'[w]) = HandStage(pc[w])
      BY <1>1, <1>2, QueueFacts
    <3> QED
      BY <1>1, <1>3, <3>1 DEF Begin, SchedInv, StageInv, TypeOK, workerVars
  <2>3. \A u \in Threads : pc'[u] \in HoldingPC => stage'[sub'[u]] = SubStage(pc'[u])
    BY <1>1, <1>2, <1>3 DEF SchedInv, StageInv
  <2> QED
    BY <2>1, <2>2, <2>3 DEF StageInv
<1>8. UniqueInv'
  BY <1>1, <1>2, <1>3 DEF Begin, SchedInv, UniqueInv, workerVars
<1>9. PresentInv'
  BY <1>1, <1>2 DEF Begin, SchedInv, PresentInv, workerVars
<1>10. CountersMatch'
  BY <1>1, SameCounters DEF Begin
<1> QED
  BY <1>4, <1>5, <1>6, <1>7, <1>8, <1>9, <1>10 DEF SchedInv

\* fq_scheduler_submit keeps the invariant.
LEMMA SubmitStep ==
  ASSUME SchedInv, NEW t \in Threads, Submit(t)
  PROVE  SchedInv'
<1>0. /\ next \in [Threads -> Workers] /\ next[t] \in Queues /\ Global \in Queues
      /\ [next EXCEPT ![t] = (@ + 1) % WorkerCount] \in [Threads -> Workers]
  <2>1. next \in [Threads -> Workers]
    BY DEF SchedInv, TypeOK
  <2>2. (next[t] + 1) % WorkerCount \in Workers
    BY <2>1, WorkerAssumption DEF Workers
  <2> QED
    BY <2>1, <2>2, QueueFacts
<1>1. CASE SubmitClosed(t)
  <2>1. pc[t] \in HoldingPC /\ SubStage(pc[t]) = "submitting"
    BY <1>1 DEF SubmitClosed, HoldingPC, SubmitPC, SubStage
  <2>2. sub[t] \in Tasks /\ stage[sub[t]] = "submitting"
    BY <2>1, SubmitOwner
  <2>3. CountersMatch'
    BY <1>1, <2>2, SameCounters DEF SubmitClosed
  <2> QED
    BY <1>1, <2>1, <2>3, SubmitGivesUp DEF SubmitClosed
<1>2. CASE SubmitOpen(t)
  BY <1>0, <1>2, SubmitMoves DEF SubmitOpen, callVars, HoldingPC, SubmitPC, SubStage
<1>3. CASE SubmitPush(t)
  <2>1. CASE Len(queue[next[t]]) < LocalBound
    BY <1>0, <1>3, <2>1, SubmitEnqueues DEF SubmitPush
  <2>2. CASE ~(Len(queue[next[t]]) < LocalBound)
    BY <1>0, <1>3, <2>2, SubmitMoves DEF SubmitPush, HoldingPC, SubmitPC, SubStage
  <2> QED
    BY <2>1, <2>2
<1>4. CASE SubmitPushGlobal(t)
  <2>1. CASE Len(queue[Global]) < GlobalBound
    BY <1>0, <1>4, <2>1, SubmitEnqueues DEF SubmitPushGlobal, callVars
  <2>2. CASE ~(Len(queue[Global]) < GlobalBound)
    BY <1>0, <1>4, <2>2, SubmitMoves DEF SubmitPushGlobal, callVars, HoldingPC, SubmitPC, SubStage
  <2> QED
    BY <2>1, <2>2
<1>5. CASE SubmitUndo(t)
  <2>1. pc[t] \in HoldingPC /\ SubStage(pc[t]) = "counted"
    BY <1>5 DEF SubmitUndo, HoldingPC, SubmitPC, SubStage
  <2>2. sub[t] \in Tasks /\ stage[sub[t]] = "counted"
    BY <2>1, SubmitOwner
  <2>3. /\ Gain("counted", "rejected", SubmittedStages) = 0
        /\ Gain("counted", "rejected", PendingStages) = -1
        /\ Gain("counted", "rejected", ActiveStages) = 0
        /\ Gain("counted", "rejected", EndedStages) = 0
        /\ Gain("counted", "rejected", {"canceled"}) = 0
    BY DEF Gain, SubmittedStages, Stages, PendingStages, ActiveStages, EndedStages
  <2>4. /\ tasks_submitted' = tasks_submitted + 0 /\ tasks_pending' = tasks_pending + (-1)
        /\ tasks_active' = tasks_active + 0 /\ tasks_completed' = tasks_completed + 0
        /\ tasks_canceled' = tasks_canceled + 0
    BY <1>5 DEF SubmitUndo, SchedInv, TypeOK
  <2>5. CountersMatch'
    BY <1>5, <2>2, <2>3, <2>4, CountersMove DEF SubmitUndo, SchedInv
  <2> QED
    BY <1>5, <2>1, <2>5, SubmitGivesUp DEF SubmitUndo
<1> QED
  BY <1>1, <1>2, <1>3, <1>4, <1>5, SubmitCountStep, SubmitSignalStep DEF Submit

-----------------------------------------------------------------------------
(* Taking a task from a queue *)

\* Where the elements of a queue are after the first has been taken.
LEMMA TailFacts ==
  ASSUME NEW T, NEW s \in Seq(T), s # << >>
  PROVE  /\ Head(s) = s[1] /\ 1 \in DOMAIN s /\ s[1] \in T /\ Tail(s) \in Seq(T)
         /\ \A j \in DOMAIN Tail(s) : j + 1 \in DOMAIN s /\ Tail(s)[j] = s[j + 1] /\ j + 1 # 1
         /\ \A j \in DOMAIN s : j = 1 \/ (j - 1 \in DOMAIN Tail(s) /\ Tail(s)[j - 1] = s[j])
         /\ \A j \in DOMAIN Tail(s) : j \in Int
<1>1. /\ Len(s) \in Nat /\ Len(s) >= 1 /\ DOMAIN s = 1 .. Len(s) /\ Len(Tail(s)) = Len(s) - 1
      /\ Tail(s) \in Seq(T) /\ DOMAIN Tail(s) = 1 .. Len(s) - 1 /\ Head(s) = s[1]
  OBVIOUS
<1>2. \A j \in 1 .. Len(s) - 1 : Tail(s)[j] = s[j + 1]
  OBVIOUS
<1> QED
  BY <1>1, <1>2

\* The oldest task of a queue is in nobody's hands.
LEMMA PopTask ==
  ASSUME SchedInv, NEW q \in Queues, queue[q] # << >>, NEW k, k = Head(queue[q])
  PROVE  /\ k \in Tasks /\ stage[k] = "queued" /\ k # NULL
         /\ \A w \in Workers : cur[w] # k
         /\ \A u \in Threads : pc[u] \in HoldingPC => sub[u] # k
         /\ \A c \in Clients : \A j \in DOMAIN batch[c] : batch[c][j] # k
<1>0. queue \in [Queues -> Seq(Tasks)] /\ queue[q] \in Seq(Tasks)
  BY DEF SchedInv, TypeOK
<1>1. k = queue[q][1] /\ 1 \in DOMAIN queue[q] /\ k \in Tasks /\ k # NULL
  BY <1>0, TailFacts, NullAssumption
<1>2. stage[k] = "queued"
  BY <1>0, <1>1 DEF SchedInv, StageInv
<1>3. \A w \in Workers : cur[w] # k
  <2> SUFFICES ASSUME NEW w \in Workers, cur[w] = k PROVE FALSE
    OBVIOUS
  <2>1. pc[w] \in HandPC
    BY <1>1 DEF SchedInv, PcInv
  <2>2. HandStage(pc[w]) # "queued"
    BY DEF HandStage
  <2> QED
    BY <1>2, <2>1, <2>2 DEF SchedInv, StageInv
<1>4. /\ \A u \in Threads : pc[u] \in HoldingPC => sub[u] # k
      /\ \A c \in Clients : \A j \in DOMAIN batch[c] : batch[c][j] # k
  BY <1>2 DEF SchedInv, StageInv, SubStage
<1> QED
  BY <1>1, <1>2, <1>3, <1>4

\* The oldest task of a queue leaves it and nothing else changes there.
LEMMA PopFacts ==
  ASSUME SchedInv, NEW q \in Queues, queue[q] # << >>,
         queue' = [queue EXCEPT ![q] = Tail(@)], NEW k, k = Head(queue[q]),
         NEW s \in Stages, s # "queued", Stage(k, s)
  PROVE  /\ stage' \in [Tasks -> Stages] /\ queue' \in [Queues -> Seq(Tasks)]
         /\ \A r \in Queues : \A j \in DOMAIN queue'[r] : stage'[queue'[r][j]] = "queued"
         /\ \A r, p \in Queues : \A i \in DOMAIN queue'[r], j \in DOMAIN queue'[p] :
              queue'[r][i] = queue'[p][j] => r = p /\ i = j
         /\ \A m \in Tasks : stage'[m] = "queued" =>
              \E r \in Queues : \E j \in DOMAIN queue'[r] : queue'[r][j] = m
<1>0. queue \in [Queues -> Seq(Tasks)] /\ stage \in [Tasks -> Stages] /\ queue[q] \in Seq(Tasks)
  BY DEF SchedInv, TypeOK
<1>1. /\ k = queue[q][1] /\ 1 \in DOMAIN queue[q] /\ k \in Tasks
      /\ queue'[q] \in Seq(Tasks)
      /\ \A j \in DOMAIN queue'[q] : /\ j + 1 \in DOMAIN queue[q] /\ j \in Int
                                     /\ queue'[q][j] = queue[q][j + 1] /\ j + 1 # 1
      /\ \A j \in DOMAIN queue[q] :
           j = 1 \/ (j - 1 \in DOMAIN queue'[q] /\ queue'[q][j - 1] = queue[q][j])
      /\ \A r \in Queues \ {q} : queue'[r] = queue[r]
  <2>1. queue'[q] = Tail(queue[q]) /\ \A r \in Queues \ {q} : queue'[r] = queue[r]
    BY <1>0
  <2> QED
    BY <1>0, <2>1, TailFacts
<1>2. stage[k] = "queued" /\ stage' = [stage EXCEPT ![k] = s]
  BY PopTask DEF Stage
<1>5. /\ stage' \in [Tasks -> Stages] /\ queue' \in [Queues -> Seq(Tasks)]
  BY <1>0, <1>1, <1>2
\* A task of the new queue, where it was before.
<1>6. \A r \in Queues : \A j \in DOMAIN queue'[r] :
        \E i \in DOMAIN queue[r] : /\ queue[r][i] = queue'[r][j] /\ queue[r][i] # k
                                   /\ i = IF r = q THEN j + 1 ELSE j
  <2> SUFFICES ASSUME NEW r \in Queues, NEW j \in DOMAIN queue'[r]
               PROVE  \E i \in DOMAIN queue[r] :
                        /\ queue[r][i] = queue'[r][j] /\ queue[r][i] # k
                        /\ i = IF r = q THEN j + 1 ELSE j
    OBVIOUS
  <2>0. \A i \in DOMAIN queue[r] : queue[r][i] = queue[q][1] => r = q /\ i = 1
    BY <1>1 DEF SchedInv, UniqueInv
  <2>1. CASE r = q
    BY <1>1, <2>0, <2>1
  <2>2. CASE r # q
    BY <1>1, <2>0, <2>2
  <2> QED
    BY <2>1, <2>2
<1>7. \A r \in Queues : \A j \in DOMAIN queue'[r] : stage'[queue'[r][j]] = "queued"
  <2> SUFFICES ASSUME NEW r \in Queues, NEW j \in DOMAIN queue'[r]
               PROVE  stage'[queue'[r][j]] = "queued"
    OBVIOUS
  <2>1. PICK i \in DOMAIN queue[r] : queue[r][i] = queue'[r][j] /\ queue[r][i] # k
    BY <1>6
  <2>2. stage[queue[r][i]] = "queued" /\ queue[r][i] \in Tasks
    BY <1>0, <2>1 DEF SchedInv, StageInv
  <2> QED
    BY <1>0, <1>2, <2>1, <2>2
<1>8. \A r, p \in Queues : \A i \in DOMAIN queue'[r], j \in DOMAIN queue'[p] :
        queue'[r][i] = queue'[p][j] => r = p /\ i = j
  <2> SUFFICES ASSUME NEW r \in Queues, NEW p \in Queues,
                      NEW i \in DOMAIN queue'[r], NEW j \in DOMAIN queue'[p],
                      queue'[r][i] = queue'[p][j]
               PROVE  r = p /\ i = j
    OBVIOUS
  <2>1. PICK i1 \in DOMAIN queue[r] : /\ queue[r][i1] = queue'[r][i]
                                      /\ i1 = IF r = q THEN i + 1 ELSE i
    BY <1>6
  <2>2. PICK j1 \in DOMAIN queue[p] : /\ queue[p][j1] = queue'[p][j]
                                      /\ j1 = IF p = q THEN j + 1 ELSE j
    BY <1>6
  <2>3. r = p /\ i1 = j1
    BY <2>1, <2>2 DEF SchedInv, UniqueInv
  <2>4. r = q => i \in Int /\ j \in Int
    BY <1>1, <2>3
  <2> QED
    BY <2>1, <2>2, <2>3, <2>4
<1>9. ASSUME NEW m \in Tasks, stage'[m] = "queued"
      PROVE  \E r \in Queues : \E j \in DOMAIN queue'[r] : queue'[r][j] = m
  <2>1. m # k /\ stage[m] = "queued"
    BY <1>0, <1>1, <1>2, <1>9
  <2>2. PICK r \in Queues : \E j \in DOMAIN queue[r] : queue[r][j] = m
    BY <2>1 DEF SchedInv, PresentInv
  <2>3. PICK j \in DOMAIN queue[r] : queue[r][j] = m
    BY <2>2
  <2>4. CASE r = q
    <3>1. j - 1 \in DOMAIN queue'[q] /\ queue'[q][j - 1] = m
      BY <1>1, <2>1, <2>3, <2>4
    <3> QED
      BY <3>1
  <2>5. CASE r # q
    BY <1>1, <2>3, <2>5
  <2> QED
    BY <2>4, <2>5
<1> QED
  BY <1>5, <1>7, <1>8, <1>9

\* A worker takes the oldest task of the queue that it has locked.
LEMMA TakeTaskStep ==
  ASSUME SchedInv, NEW w \in Workers, TakeTask(w)
  PROVE  SchedInv'
<1>q. PICK q \in Queues : q = Probed(w)
  BY ProbedType DEF SchedInv
<1>k. PICK k : k = Head(queue[q])
  OBVIOUS
<1>0. /\ q \in Queues /\ queue[q] # << >> /\ queue' = [queue EXCEPT ![q] = Tail(@)]
      /\ pop_lock' = [pop_lock EXCEPT ![q] = NULL] /\ Stage(k, "taken") /\ k = Head(queue[q])
      /\ cur' = [cur EXCEPT ![w] = k] /\ pc' = [pc EXCEPT ![w] = "activate"] /\ pc[w] = "take"
      /\ w \in Threads /\ pop_lock \in [Queues -> Threads \cup {NULL}]
      /\ pc \in [Threads -> WorkerPC \cup SubmitPC \cup ClientPC]
      /\ cur \in [Workers -> Tasks \cup {NULL}]
      /\ UNCHANGED <<shutdown_flag, counters, submit_mutex, probe, callVars, freed>>
  BY <1>q, <1>k, QueueFacts DEF TakeTask, Dequeue, Goto, SchedInv, TypeOK
<1>1. "taken" \in Stages
  BY DEF Stages, PendingStages
<1>2. k \in Tasks /\ stage[k] = "queued" /\ k # NULL /\ stage \in [Tasks -> Stages]
  BY <1>0, PopTask DEF SchedInv, TypeOK
<1>3. /\ stage' = [stage EXCEPT ![k] = "taken"]
      /\ stage' \in [Tasks -> Stages] /\ queue' \in [Queues -> Seq(Tasks)]
      /\ \A v \in Workers : cur[v] # k
      /\ \A u \in Threads : pc[u] \in HoldingPC => sub[u] # k
      /\ \A c \in Clients : \A j \in DOMAIN batch[c] : batch[c][j] # k
  <2>1. stage' \in [Tasks -> Stages] /\ queue' \in [Queues -> Seq(Tasks)]
    BY <1>0, <1>1, PopFacts
  <2> QED
    BY <1>0, <2>1, PopTask DEF Stage
<1>4. \A r \in Queues : \A j \in DOMAIN queue'[r] : stage'[queue'[r][j]] = "queued"
  BY <1>0, <1>1, PopFacts
<1>5. \A r, p \in Queues : \A i \in DOMAIN queue'[r], j \in DOMAIN queue'[p] :
        queue'[r][i] = queue'[p][j] => r = p /\ i = j
  BY <1>0, <1>1, PopFacts
<1>6. \A m \in Tasks : stage'[m] = "queued" =>
        \E r \in Queues : \E j \in DOMAIN queue'[r] : queue'[r][j] = m
  BY <1>0, <1>1, PopFacts
<1>7. /\ "take" \notin HandPC /\ "activate" \in HandPC /\ "activate" \in WorkerPC
      /\ {"take", "activate"} \cap SubmitPC = {} /\ HandStage("activate") = "taken"
      /\ HoldingPC \subseteq SubmitPC
  BY DEF HandPC, WorkerPC, SubmitPC, HoldingPC, HandStage
<1>8. TypeOK'
  BY <1>0, <1>2, <1>3, <1>7 DEF SchedInv, TypeOK, counters, callVars
<1>9. PcInv'
  BY <1>0, <1>2, <1>7, QueueFacts DEF SchedInv, PcInv, callVars
<1>10. PopsExclude'
  BY <1>q, <1>0, QueueFacts, NullAssumption DEF SchedInv, PopsExclude, Pops, Probed, callVars
<1>11. StageInv'
  <2>1. \A v \in Workers : pc'[v] \in HandPC => stage'[cur'[v]] = HandStage(pc'[v])
    <3> SUFFICES ASSUME NEW v \in Workers, pc'[v] \in HandPC
                 PROVE  stage'[cur'[v]] = HandStage(pc'[v])
      OBVIOUS
    <3>1. CASE v = w
      BY <1>0, <1>2, <1>3, <1>7, <3>1
    <3>2. CASE v # w
      BY <1>0, <1>3, <3>2, QueueFacts DEF SchedInv, StageInv
    <3> QED
      BY <3>1, <3>2
  <2>2. \A u \in Threads : pc'[u] \in HoldingPC => stage'[sub'[u]] = SubStage(pc'[u])
    BY <1>0, <1>3, <1>7 DEF SchedInv, StageInv, callVars
  <2>3. \A c \in Clients : \A j \in DOMAIN batch'[c] : stage'[batch'[c][j]] = "batched"
    BY <1>0, <1>3 DEF SchedInv, StageInv, callVars
  <2> QED
    BY <1>4, <2>1, <2>2, <2>3 DEF StageInv
<1>12. UniqueInv'
  <2>1. \A u, v \in Workers : cur'[u] # NULL /\ cur'[u] = cur'[v] => u = v
    BY <1>0, <1>3 DEF SchedInv, UniqueInv
  <2>2. \A u, v \in Threads :
          pc'[u] \in HoldingPC /\ pc'[v] \in HoldingPC /\ sub'[u] = sub'[v] => u = v
    BY <1>0, <1>7 DEF SchedInv, UniqueInv, callVars
  <2> QED
    BY <1>0, <1>5, <2>1, <2>2 DEF SchedInv, UniqueInv, callVars
<1>13. PresentInv'
  <2> SUFFICES ASSUME NEW m \in Tasks
               PROVE  /\ stage'[m] \in {"taken", "active", "running", "ran", "settled"} =>
                           \E v \in Workers : cur'[v] = m
                      /\ stage'[m] \in {"submitting", "counted"} =>
                           \E u \in Threads : pc'[u] \in HoldingPC /\ sub'[u] = m
                      /\ stage'[m] = "batched" =>
                           \E c \in Clients : \E j \in DOMAIN batch'[c] : batch'[c][j] = m
    BY <1>6 DEF PresentInv
  <2>1. CASE m = k
    BY <1>0, <1>2, <1>3, <2>1
  <2>2. CASE m # k
    <3>1. stage'[m] = stage[m]
      BY <1>3, <2>2
    <3>2. w \in Workers /\ cur[w] = NULL /\ m # NULL
      BY <1>0, <1>7, NullAssumption DEF SchedInv, PcInv
    <3>3. \A v \in Workers : cur[v] = m => cur'[v] = m
      BY <1>0, <3>2
    <3>4. \A u \in Threads : pc[u] \in HoldingPC => pc'[u] = pc[u] /\ sub'[u] = sub[u]
      BY <1>0, <1>7 DEF callVars
    <3> QED
      BY <1>0, <3>1, <3>3, <3>4 DEF SchedInv, PresentInv, callVars
  <2> QED
    BY <2>1, <2>2
<1>14. CountersMatch'
  BY <1>0, <1>2, SameCounters
<1> QED
  BY <1>8, <1>9, <1>10, <1>11, <1>12, <1>13, <1>14 DEF SchedInv

-----------------------------------------------------------------------------
(* Executing a task *)

\* The worker has a task in its hands, and it is nobody else's.
LEMMA WorkerOwner ==
  ASSUME SchedInv, NEW w \in Workers, pc[w] \in HandPC
  PROVE  /\ cur[w] \in Tasks /\ stage[cur[w]] = HandStage(pc[w]) /\ cur[w] # NULL
         /\ \A q \in Queues : \A j \in DOMAIN queue[q] : queue[q][j] # cur[w]
         /\ \A v \in Workers \ {w} : cur[v] # cur[w]
         /\ \A u \in Threads : pc[u] \in HoldingPC => sub[u] # cur[w]
         /\ \A c \in Clients : \A j \in DOMAIN batch[c] : batch[c][j] # cur[w]
<1>1. cur[w] \in Tasks /\ cur[w] # NULL
  BY DEF SchedInv, TypeOK, PcInv
<1>2. /\ stage[cur[w]] = HandStage(pc[w])
      /\ HandStage(pc[w]) \notin {"submitting", "counted", "queued", "batched"}
  BY DEF SchedInv, StageInv, HandStage
<1>3. \A v \in Workers \ {w} : cur[v] # cur[w]
  BY <1>1 DEF SchedInv, UniqueInv
<1>4. \A u \in Threads : pc[u] \in HoldingPC => sub[u] # cur[w]
  BY <1>2 DEF SchedInv, StageInv, SubStage
<1> QED
  BY <1>1, <1>2, <1>3, <1>4 DEF SchedInv, StageInv

\* The worker goes on to the next step of the execution.
LEMMA WorkerAdvances ==
  ASSUME SchedInv, NEW w \in Workers, pc[w] \in HandPC \ SubmitPC,
         NEW l \in HandPC \ SubmitPC, NEW s, s = HandStage(l),
         Stage(cur[w], s), Goto(w, l), CountersMatch',
         UNCHANGED <<shutdown_flag, queue, pop_lock, submit_mutex, workerVars, callVars, freed>>
  PROVE  SchedInv'
<1>1. /\ pc' = [pc EXCEPT ![w] = l] /\ stage' = [stage EXCEPT ![cur[w]] = s]
      /\ pc \in [Threads -> WorkerPC \cup SubmitPC \cup ClientPC]
      /\ stage \in [Tasks -> Stages] /\ cur[w] \in Tasks /\ w \in Threads
  BY WorkerOwner, QueueFacts DEF Goto, Stage, SchedInv, TypeOK
<1>2. /\ HandPC \ SubmitPC \subseteq WorkerPC /\ HoldingPC \subseteq SubmitPC
      /\ s \in {"taken", "active", "running", "ran", "settled"} /\ s \in Stages
      /\ {pc[w], l} \cap {"take", "ca_take"} = {}
  BY DEF HandPC, SubmitPC, WorkerPC, HoldingPC, HandStage, Stages, PendingStages, ActiveStages,
         EndedStages
<1>3. TypeOK'
  BY <1>1, <1>2, CountersNat DEF SchedInv, TypeOK, workerVars, callVars
<1>4. PcInv'
  BY <1>1, <1>2, QueueFacts DEF SchedInv, PcInv, workerVars, callVars
<1>5. PopsExclude'
  BY <1>1, <1>2, QuietLocks, QueueFacts DEF workerVars, callVars
<1>6. StageInv'
  <2>1. /\ \A r \in Queues : \A j \in DOMAIN queue'[r] : stage'[queue'[r][j]] = "queued"
        /\ \A c \in Clients : \A j \in DOMAIN batch'[c] : stage'[batch'[c][j]] = "batched"
    BY <1>1, WorkerOwner DEF callVars, SchedInv, TypeOK, StageInv
  <2>2. \A v \in Workers : pc'[v] \in HandPC => stage'[cur'[v]] = HandStage(pc'[v])
    <3> SUFFICES ASSUME NEW v \in Workers, pc'[v] \in HandPC
                 PROVE  stage'[cur'[v]] = HandStage(pc'[v])
      OBVIOUS
    <3>1. CASE v = w
      BY <1>1, <3>1 DEF workerVars
    <3>2. CASE v # w
      <4>1. v \in Threads /\ pc'[v] = pc[v] /\ cur' = cur
        BY <1>1, <3>2, QueueFacts DEF workerVars
      <4>2. cur[v] \in Tasks /\ stage[cur[v]] = HandStage(pc[v])
        BY <4>1, WorkerOwner
      <4>3. cur[v] # cur[w]
        BY <3>2, WorkerOwner
      <4> QED
        BY <1>1, <4>1, <4>2, <4>3
    <3> QED
      BY <3>1, <3>2
  <2>3. \A u \in Threads : pc'[u] \in HoldingPC => stage'[sub'[u]] = SubStage(pc'[u])
    BY <1>1, <1>2, WorkerOwner DEF callVars, SchedInv, StageInv
  <2> QED
    BY <2>1, <2>2, <2>3 DEF StageInv
<1>7. UniqueInv'
  BY <1>1, <1>2 DEF SchedInv, UniqueInv, workerVars, callVars
<1>8. PresentInv'
  <2> SUFFICES ASSUME NEW m \in Tasks
               PROVE  PresentInv!(m)'
    BY DEF PresentInv
  <2>1. CASE m = cur[w]
    BY <1>1, <1>2, <2>1 DEF workerVars
  <2>2. CASE m # cur[w]
    <3>1. stage'[m] = stage[m]
      BY <1>1, <2>2
    <3>2. \A u \in Threads : pc[u] \in HoldingPC => pc'[u] = pc[u]
      BY <1>1, <1>2
    <3> QED
      BY <3>1, <3>2 DEF SchedInv, PresentInv, workerVars, callVars
  <2> QED
    BY <2>1, <2>2
<1> QED
  BY <1>3, <1>4, <1>5, <1>6, <1>7, <1>8 DEF SchedInv

\* A worker activates, executes and settles its task.
LEMMA ExecuteStep ==
  ASSUME SchedInv, NEW w \in Workers,
         Activate(w) \/ Unpend(w) \/ CallbackEnds(w) \/ Deactivate(w)
  PROVE  SchedInv'
<1>0. pc[w] \in HandPC => cur[w] \in Tasks /\ stage[cur[w]] = HandStage(pc[w])
  BY WorkerOwner
<1>1. {"activate", "unpend", "run", "deactivate", "destroy"} \subseteq HandPC \ SubmitPC
  BY DEF HandPC, SubmitPC
<1>2. CASE Activate(w)
  <2>1. stage[cur[w]] = "taken" /\ cur[w] \in Tasks /\ HandStage("unpend") = "active"
    BY <1>0, <1>1, <1>2 DEF Activate, HandStage
  <2>2. /\ Gain("taken", "active", SubmittedStages) = 0 /\ Gain("taken", "active", PendingStages) = 0
        /\ Gain("taken", "active", ActiveStages) = 1 /\ Gain("taken", "active", EndedStages) = 0
        /\ Gain("taken", "active", {"canceled"}) = 0
    BY DEF Gain, SubmittedStages, Stages, PendingStages, ActiveStages, EndedStages
  <2>3. /\ tasks_submitted' = tasks_submitted + 0 /\ tasks_pending' = tasks_pending + 0
        /\ tasks_active' = tasks_active + 1 /\ tasks_completed' = tasks_completed + 0
        /\ tasks_canceled' = tasks_canceled + 0 /\ Stage(cur[w], "active")
    BY <1>2 DEF Activate, SchedInv, TypeOK
  <2>4. CountersMatch'
    BY <2>1, <2>2, <2>3, CountersMove DEF SchedInv
  <2> QED
    BY <1>1, <1>2, <2>1, <2>4, WorkerAdvances DEF Activate
<1>3. CASE Unpend(w)
  <2>1. stage[cur[w]] = "active" /\ cur[w] \in Tasks /\ HandStage("run") = "running"
    BY <1>0, <1>1, <1>3 DEF Unpend, HandStage
  <2>2. /\ Gain("active", "running", SubmittedStages) = 0
        /\ Gain("active", "running", PendingStages) = -1
        /\ Gain("active", "running", ActiveStages) = 0 /\ Gain("active", "running", EndedStages) = 0
        /\ Gain("active", "running", {"canceled"}) = 0
    BY DEF Gain, SubmittedStages, Stages, PendingStages, ActiveStages, EndedStages
  <2>3. /\ tasks_submitted' = tasks_submitted + 0 /\ tasks_pending' = tasks_pending + (-1)
        /\ tasks_active' = tasks_active + 0 /\ tasks_completed' = tasks_completed + 0
        /\ tasks_canceled' = tasks_canceled + 0 /\ Stage(cur[w], "running")
    BY <1>3 DEF Unpend, SchedInv, TypeOK
  <2>4. CountersMatch'
    BY <2>1, <2>2, <2>3, CountersMove DEF SchedInv
  <2> QED
    BY <1>1, <1>3, <2>1, <2>4, WorkerAdvances DEF Unpend
<1>4. CASE CallbackEnds(w)
  <2>1. stage[cur[w]] = "running" /\ cur[w] \in Tasks /\ HandStage("deactivate") = "ran"
    BY <1>0, <1>1, <1>4 DEF CallbackEnds, HandStage
  <2>2. /\ Gain("running", "ran", SubmittedStages) = 0 /\ Gain("running", "ran", PendingStages) = 0
        /\ Gain("running", "ran", ActiveStages) = 0 /\ Gain("running", "ran", EndedStages) = 1
        /\ Gain("running", "ran", {"canceled"}) = 0
    BY DEF Gain, SubmittedStages, Stages, PendingStages, ActiveStages, EndedStages
  <2>3. /\ tasks_submitted' = tasks_submitted + 0 /\ tasks_pending' = tasks_pending + 0
        /\ tasks_active' = tasks_active + 0 /\ tasks_completed' = tasks_completed + 1
        /\ tasks_canceled' = tasks_canceled + 0 /\ Stage(cur[w], "ran")
    BY <1>4 DEF CallbackEnds, SchedInv, TypeOK
  <2>4. CountersMatch'
    BY <2>1, <2>2, <2>3, CountersMove DEF SchedInv
  <2> QED
    BY <1>1, <1>4, <2>1, <2>4, WorkerAdvances DEF CallbackEnds
<1>5. CASE Deactivate(w)
  <2>1. stage[cur[w]] = "ran" /\ cur[w] \in Tasks /\ HandStage("destroy") = "settled"
    BY <1>0, <1>1, <1>5 DEF Deactivate, HandStage
  <2>2. /\ Gain("ran", "settled", SubmittedStages) = 0 /\ Gain("ran", "settled", PendingStages) = 0
        /\ Gain("ran", "settled", ActiveStages) = -1 /\ Gain("ran", "settled", EndedStages) = 0
        /\ Gain("ran", "settled", {"canceled"}) = 0
    BY DEF Gain, SubmittedStages, Stages, PendingStages, ActiveStages, EndedStages
  <2>3. /\ tasks_submitted' = tasks_submitted + 0 /\ tasks_pending' = tasks_pending + 0
        /\ tasks_active' = tasks_active + (-1) /\ tasks_completed' = tasks_completed + 0
        /\ tasks_canceled' = tasks_canceled + 0 /\ Stage(cur[w], "settled")
    BY <1>5 DEF Deactivate, SchedInv, TypeOK
  <2>4. CountersMatch'
    BY <2>1, <2>2, <2>3, CountersMove DEF SchedInv
  <2> QED
    BY <1>1, <1>5, <2>1, <2>4, WorkerAdvances DEF Deactivate
<1> QED
  BY <1>2, <1>3, <1>4, <1>5

\* fq_task_destroy: the worker's hands are empty again.
LEMMA DestroyStep ==
  ASSUME SchedInv, NEW w \in Workers, DestroyTask(w)
  PROVE  SchedInv'
<1>0. pc[w] \in HandPC /\ HandStage(pc[w]) = "settled"
  BY DEF DestroyTask, HandPC, HandStage
<1>1. /\ pc' = [pc EXCEPT ![w] = "top"] /\ stage' = [stage EXCEPT ![cur[w]] = "destroyed"]
      /\ cur' = [cur EXCEPT ![w] = NULL] /\ cur \in [Workers -> Tasks \cup {NULL}]
      /\ pc \in [Threads -> WorkerPC \cup SubmitPC \cup ClientPC] /\ pc[w] = "destroy"
      /\ stage \in [Tasks -> Stages] /\ cur[w] \in Tasks /\ w \in Threads
      /\ stage[cur[w]] = "settled"
  BY <1>0, WorkerOwner, QueueFacts DEF DestroyTask, Goto, Stage, SchedInv, TypeOK
<1>2. /\ "top" \in WorkerPC /\ {"top", "destroy"} \cap SubmitPC = {} /\ HoldingPC \subseteq SubmitPC
      /\ "top" \notin HandPC /\ "destroyed" \in Stages
  BY DEF HandPC, SubmitPC, WorkerPC, HoldingPC, Stages, EndedStages
<1>3. TypeOK'
  BY <1>1, <1>2 DEF DestroyTask, SchedInv, TypeOK, callVars, counters
<1>4. PcInv'
  BY <1>1, <1>2, QueueFacts DEF DestroyTask, SchedInv, PcInv, callVars
<1>5. PopsExclude'
  BY <1>1, <1>2, QuietLocks, QueueFacts DEF DestroyTask, callVars
<1>6. StageInv'
  <2>1. /\ \A r \in Queues : \A j \in DOMAIN queue'[r] : stage'[queue'[r][j]] = "queued"
        /\ \A c \in Clients : \A j \in DOMAIN batch'[c] : stage'[batch'[c][j]] = "batched"
    BY <1>0, <1>1, WorkerOwner DEF DestroyTask, callVars, SchedInv, TypeOK, StageInv
  <2>2. \A v \in Workers : pc'[v] \in HandPC => stage'[cur'[v]] = HandStage(pc'[v])
    <3> SUFFICES ASSUME NEW v \in Workers, pc'[v] \in HandPC
                 PROVE  stage'[cur'[v]] = HandStage(pc'[v])
      OBVIOUS
    <3>1. v # w
      BY <1>1, <1>2
    <3> QED
      BY <1>0, <1>1, <3>1, WorkerOwner, QueueFacts DEF SchedInv, StageInv, TypeOK
  <2>3. \A u \in Threads : pc'[u] \in HoldingPC => stage'[sub'[u]] = SubStage(pc'[u])
    BY <1>0, <1>1, <1>2, WorkerOwner DEF DestroyTask, callVars, SchedInv, StageInv
  <2> QED
    BY <2>1, <2>2, <2>3 DEF StageInv
<1>7. UniqueInv'
  BY <1>1, <1>2 DEF DestroyTask, SchedInv, UniqueInv, callVars
<1>8. PresentInv'
  <2> SUFFICES ASSUME NEW m \in Tasks
               PROVE  PresentInv!(m)'
    BY DEF PresentInv
  <2>1. CASE m = cur[w]
    BY <1>1, <2>1
  <2>2. CASE m # cur[w]
    <3>1. stage'[m] = stage[m]
      BY <1>1, <2>2
    <3>2. \A u \in Threads : pc[u] \in HoldingPC => pc'[u] = pc[u]
      BY <1>1, <1>2
    <3>3. \A v \in Workers : cur[v] = m => cur'[v] = m
      BY <1>1, <2>2
    <3> QED
      BY <3>1, <3>2, <3>3 DEF DestroyTask, SchedInv, PresentInv, callVars
  <2> QED
    BY <2>1, <2>2
<1>9. CountersMatch'
  BY <1>1, SameCounters DEF DestroyTask
<1> QED
  BY <1>3, <1>4, <1>5, <1>6, <1>7, <1>8, <1>9 DEF SchedInv

\* The callback, or a client, calls fq_scheduler_submit.
LEMMA CallStep ==
  ASSUME SchedInv, \/ \E w \in Workers : NestedSubmit(w)
                   \/ \E c \in Clients : ClientSubmit(c)
  PROVE  SchedInv'
<1>1. ASSUME NEW w \in Workers, NestedSubmit(w) PROVE SchedInv'
  <2>1. pc[w] = "run" /\ pc[w] \in HandPC /\ w \in Threads
    BY <1>1, QueueFacts DEF NestedSubmit, HandPC
  <2>2. cur[w] \in Tasks
    BY <2>1, WorkerOwner
  <2>3. PICK k \in Spawns[cur[w]] : Begin(w, k)
    BY <1>1 DEF NestedSubmit
  <2>4. k \in Tasks
    BY <2>2, TaskAssumption
  <2> QED
    BY <2>1, <2>3, <2>4, BeginStep
<1>2. ASSUME NEW c \in Clients, ClientSubmit(c) PROVE SchedInv'
  <2>1. pc[c] = "ready" /\ c \in Threads /\ c \notin Workers
    BY <1>2, QueueFacts DEF ClientSubmit, MayCall
  <2>2. PICK k \in Roots : Begin(c, k)
    BY <1>2 DEF ClientSubmit
  <2> QED
    BY <2>1, <2>2, BeginStep, TaskAssumption
<1> QED
  BY <1>1, <1>2

-----------------------------------------------------------------------------
(* fq_scheduler_cancel_all *)

\* fq_queue_drain puts the oldest task of the queue into the array.
LEMMA CancelTakeStep ==
  ASSUME SchedInv, NEW c \in Clients, CancelTake(c)
  PROVE  SchedInv'
<1>q. PICK q \in Queues : q = victim[c]
  BY DEF SchedInv, TypeOK
<1>k. PICK k : k = Head(queue[q])
  OBVIOUS
<1>l. PICK l \in {"ca_lock", "ca_destroy"} : pc' = [pc EXCEPT ![c] = l]
  BY DEF CancelTake, Goto
<1>0. /\ q \in Queues /\ queue[q] # << >> /\ queue' = [queue EXCEPT ![q] = Tail(@)]
      /\ pop_lock' = [pop_lock EXCEPT ![q] = NULL] /\ Stage(k, "batched") /\ k = Head(queue[q])
      /\ batch' = [batch EXCEPT ![c] = Append(@, k)] /\ pc[c] = "ca_take"
      /\ c \in Threads /\ c \notin Workers /\ pop_lock \in [Queues -> Threads \cup {NULL}]
      /\ pc \in [Threads -> WorkerPC \cup SubmitPC \cup ClientPC]
      /\ batch \in [Clients -> Seq(Tasks)] /\ batch[c] \in Seq(Tasks)
      /\ UNCHANGED <<shutdown_flag, counters, submit_mutex, workerVars, sub, next, victim,
                     owed, freed>>
  BY <1>q, <1>k, QueueFacts DEF CancelTake, Dequeue, SchedInv, TypeOK
<1>1. "batched" \in Stages
  BY DEF Stages, PendingStages
<1>2. k \in Tasks /\ stage[k] = "queued" /\ k # NULL /\ stage \in [Tasks -> Stages]
  BY <1>0, PopTask DEF SchedInv, TypeOK
<1>3. /\ stage' = [stage EXCEPT ![k] = "batched"]
      /\ stage' \in [Tasks -> Stages] /\ queue' \in [Queues -> Seq(Tasks)]
      /\ \A v \in Workers : cur[v] # k
      /\ \A u \in Threads : pc[u] \in HoldingPC => sub[u] # k
      /\ \A d \in Clients : \A j \in DOMAIN batch[d] : batch[d][j] # k
  <2>1. stage' \in [Tasks -> Stages] /\ queue' \in [Queues -> Seq(Tasks)]
    BY <1>0, <1>1, PopFacts
  <2> QED
    BY <1>0, <2>1, PopTask DEF Stage
<1>4. \A r \in Queues : \A j \in DOMAIN queue'[r] : stage'[queue'[r][j]] = "queued"
  BY <1>0, <1>1, PopFacts
<1>5. \A r, p \in Queues : \A i \in DOMAIN queue'[r], j \in DOMAIN queue'[p] :
        queue'[r][i] = queue'[p][j] => r = p /\ i = j
  BY <1>0, <1>1, PopFacts
<1>6. \A m \in Tasks : stage'[m] = "queued" =>
        \E r \in Queues : \E j \in DOMAIN queue'[r] : queue'[r][j] = m
  BY <1>0, <1>1, PopFacts
<1>7. /\ {"ca_take", l} \cap HandPC = {} /\ l \in ClientPC /\ l # "ca_take"
      /\ {"ca_take", l} \cap SubmitPC = {} /\ HoldingPC \subseteq SubmitPC
  BY <1>l DEF HandPC, SubmitPC, HoldingPC, ClientPC
\* The array has one more entry.
<1>8. /\ batch'[c] = Append(batch[c], k) /\ batch'[c] \in Seq(Tasks)
      /\ \A d \in Clients \ {c} : batch'[d] = batch[d]
      /\ DOMAIN batch'[c] = 1 .. Len(batch[c]) + 1 /\ Len(batch[c]) \in Nat
      /\ DOMAIN batch[c] = 1 .. Len(batch[c])
      /\ \A j \in DOMAIN batch'[c] :
           batch'[c][j] = IF j = Len(batch[c]) + 1 THEN k ELSE batch[c][j]
  BY <1>0, <1>2
<1>9. \A d \in Clients : \A j \in DOMAIN batch'[d] :
        \/ j \in DOMAIN batch[d] /\ batch'[d][j] = batch[d][j]
        \/ d = c /\ j = Len(batch[c]) + 1 /\ batch'[d][j] = k
  BY <1>8
<1>10. TypeOK'
  BY <1>l, <1>0, <1>2, <1>3, <1>7, <1>8 DEF SchedInv, TypeOK, counters, workerVars
<1>11. PcInv'
  BY <1>l, <1>0, <1>7, <1>8, QueueFacts DEF SchedInv, PcInv, workerVars
<1>12. PopsExclude'
  BY <1>l, <1>q, <1>0, QueueFacts, NullAssumption
  DEF SchedInv, PopsExclude, Pops, Probed, workerVars
<1>13. StageInv'
  <2>1. \A v \in Workers : pc'[v] \in HandPC => stage'[cur'[v]] = HandStage(pc'[v])
    BY <1>l, <1>0, <1>3, QueueFacts DEF SchedInv, StageInv, workerVars
  <2>2. \A u \in Threads : pc'[u] \in HoldingPC => stage'[sub'[u]] = SubStage(pc'[u])
    BY <1>l, <1>0, <1>3, <1>7 DEF SchedInv, StageInv
  <2>3. \A d \in Clients : \A j \in DOMAIN batch'[d] : stage'[batch'[d][j]] = "batched"
    <3> SUFFICES ASSUME NEW d \in Clients, NEW j \in DOMAIN batch'[d]
                 PROVE  stage'[batch'[d][j]] = "batched"
      OBVIOUS
    <3>1. CASE j \in DOMAIN batch[d] /\ batch'[d][j] = batch[d][j]
      <4>1. batch[d][j] \in Tasks /\ stage[batch[d][j]] = "batched" /\ batch[d][j] # k
        BY <1>0, <1>3, <3>1 DEF SchedInv, StageInv
      <4> QED
        BY <1>2, <1>3, <3>1, <4>1
    <3>2. CASE batch'[d][j] = k
      BY <1>2, <1>3, <3>2
    <3> QED
      BY <1>9, <3>1, <3>2
  <2> QED
    BY <1>4, <2>1, <2>2, <2>3 DEF StageInv
<1>14. UniqueInv'
  <2>1. \A d, e \in Clients : \A i \in DOMAIN batch'[d], j \in DOMAIN batch'[e] :
          batch'[d][i] = batch'[e][j] => d = e /\ i = j
    <3> SUFFICES ASSUME NEW d \in Clients, NEW e \in Clients,
                        NEW i \in DOMAIN batch'[d], NEW j \in DOMAIN batch'[e],
                        batch'[d][i] = batch'[e][j]
                 PROVE  d = e /\ i = j
      OBVIOUS
    <3>0. \A i1 \in DOMAIN batch[d], j1 \in DOMAIN batch[e] :
            batch[d][i1] = batch[e][j1] => d = e /\ i1 = j1
      BY DEF SchedInv, UniqueInv
    <3>1. \A i1 \in DOMAIN batch[d] : batch[d][i1] # k
      BY <1>3
    <3>2. \A j1 \in DOMAIN batch[e] : batch[e][j1] # k
      BY <1>3
    <3> QED
      BY <1>9, <3>0, <3>1, <3>2
  <2>2. \A u, v \in Threads :
          pc'[u] \in HoldingPC /\ pc'[v] \in HoldingPC /\ sub'[u] = sub'[v] => u = v
    BY <1>l, <1>0, <1>7 DEF SchedInv, UniqueInv
  <2> QED
    BY <1>0, <1>5, <2>1, <2>2 DEF SchedInv, UniqueInv, workerVars
<1>15. PresentInv'
  <2> SUFFICES ASSUME NEW m \in Tasks
               PROVE  /\ stage'[m] \in {"taken", "active", "running", "ran", "settled"} =>
                           \E v \in Workers : cur'[v] = m
                      /\ stage'[m] \in {"submitting", "counted"} =>
                           \E u \in Threads : pc'[u] \in HoldingPC /\ sub'[u] = m
                      /\ stage'[m] = "batched" =>
                           \E d \in Clients : \E j \in DOMAIN batch'[d] : batch'[d][j] = m
    BY <1>6 DEF PresentInv
  <2>1. CASE m = k
    <3>1. Len(batch[c]) + 1 \in DOMAIN batch'[c] /\ batch'[c][Len(batch[c]) + 1] = k
      BY <1>8
    <3> QED
      BY <1>2, <1>3, <2>1, <3>1
  <2>2. CASE m # k
    <3>1. stage'[m] = stage[m]
      BY <1>3, <2>2
    <3>2. \A d \in Clients : \A j \in DOMAIN batch[d] :
            j \in DOMAIN batch'[d] /\ batch'[d][j] = batch[d][j]
      BY <1>8
    <3>3. \A u \in Threads : pc[u] \in HoldingPC => pc'[u] = pc[u]
      BY <1>l, <1>0, <1>7
    <3>4. PresentInv!(m) /\ cur' = cur /\ sub' = sub
      BY <1>0 DEF SchedInv, PresentInv, workerVars
    <3>5. stage[m] = "batched" => \E d \in Clients : \E j \in DOMAIN batch'[d] : batch'[d][j] = m
      BY <3>2, <3>4
    <3> QED
      BY <3>1, <3>3, <3>4, <3>5
  <2> QED
    BY <2>1, <2>2
<1>16. CountersMatch'
  BY <1>0, <1>2, SameCounters
<1> QED
  BY <1>10, <1>11, <1>12, <1>13, <1>14, <1>15, <1>16 DEF SchedInv

\* A sequence without duplicates has as many elements as entries.
LEMMA DistinctEntries ==
  ASSUME NEW T, NEW s \in Seq(T), \A i, j \in DOMAIN s : s[i] = s[j] => i = j
  PROVE  LET B == {k \in T : \E i \in DOMAIN s : s[i] = k}
         IN  IsFiniteSet(B) /\ Cardinality(B) = Len(s)
<1> DEFINE B == {k \in T : \E i \in DOMAIN s : s[i] = k}
<1>1. /\ Len(s) \in Nat /\ DOMAIN s = 1 .. Len(s)
      /\ IsFiniteSet(1 .. Len(s)) /\ Cardinality(1 .. Len(s)) = Len(s)
  <2>1. Len(s) \in Nat /\ DOMAIN s = 1 .. Len(s)
    OBVIOUS
  <2> QED
    BY <2>1, FS_Interval
<1>2. s \in Bijection(1 .. Len(s), B)
  <2>1. s \in [1 .. Len(s) -> B]
    BY <1>1
  <2> QED
    BY <1>1, <2>1 DEF Bijection, Injection, Surjection, IsInjective
<1> QED
  BY <1>1, <1>2, FS_Bijection DEF ExistsBijection

\* The tasks of the array are destroyed and counted as canceled.
LEMMA CancelDestroyStep ==
  ASSUME SchedInv, NEW c \in Clients, CancelDestroy(c)
  PROVE  SchedInv'
<1> DEFINE B == {k \in Tasks : \E i \in DOMAIN batch[c] : batch[c][i] = k}
<1>0. /\ c \in Threads /\ c \notin Workers /\ pc[c] = "ca_destroy"
      /\ pc \in [Threads -> WorkerPC \cup SubmitPC \cup ClientPC]
      /\ batch \in [Clients -> Seq(Tasks)] /\ batch[c] \in Seq(Tasks)
      /\ stage \in [Tasks -> Stages] /\ victim \in [Clients -> Queues] /\ victim[c] \in Queues
      /\ batch' = [batch EXCEPT ![c] = << >>]
      /\ UNCHANGED <<shutdown_flag, tasks_submitted, tasks_completed, tasks_pending,
                     tasks_active, queue, pop_lock, submit_mutex, workerVars, sub, next,
                     owed, freed>>
  BY QueueFacts DEF CancelDestroy, SchedInv, TypeOK
<1>1. /\ stage' = [k \in Tasks |-> IF k \in B THEN "canceled" ELSE stage[k]]
      /\ tasks_canceled' = tasks_canceled + Len(batch[c])
  BY DEF CancelDestroy
<1>2. PICK l \in {"ca_lock", "ca_broadcast"} : pc' = [pc EXCEPT ![c] = l]
  BY DEF CancelDestroy, Goto
<1>3. victim' \in [Clients -> Queues]
  <2> DEFINE q == victim[c]
             following == IF q # Global THEN q + 1 ELSE IF batch[c] # << >> THEN Global ELSE 0
  <2>1. following \in Queues
    BY <1>0, WorkerAssumption DEF Queues, Global
  <2>2. victim' = victim \/ victim' = [victim EXCEPT ![c] = following]
    BY DEF CancelDestroy
  <2> QED
    BY <1>0, <2>1, <2>2
<1>4. IsFiniteSet(B) /\ Cardinality(B) = Len(batch[c]) /\ B \subseteq Tasks
  <2>1. \A i, j \in DOMAIN batch[c] : batch[c][i] = batch[c][j] => i = j
    BY DEF SchedInv, UniqueInv
  <2>2. IsFiniteSet(B) /\ Cardinality(B) = Len(batch[c])
    BY <1>0, <2>1, DistinctEntries
  <2> QED
    BY <2>2
<1>5. \A k \in B : stage[k] = "batched"
  BY DEF SchedInv, StageInv
<1>6. \A i \in DOMAIN batch[c] : batch[c][i] \in B
  BY <1>0
<1> HIDE DEF B
<1>7. CountersMatch'
  <2>1. ASSUME NEW S, "batched" \in S <=> "canceled" \in S
        PROVE  InStages(S)' = InStages(S)
    BY <1>1, <1>5, <2>1 DEF InStages
  <2>2. /\ InStages({"canceled"})' = InStages({"canceled"}) \cup B
        /\ InStages({"canceled"}) \cap B = {}
    BY <1>1, <1>4, <1>5 DEF InStages
  <2>3. Cardinality(InStages({"canceled"})') = Cardinality(InStages({"canceled"})) + Cardinality(B)
    <3> DEFINE C == InStages({"canceled"})
    <3>1. IsFiniteSet(C) /\ Cardinality(C) \in Nat /\ Cardinality(B) \in Nat
      BY <1>4, InStagesFinite, FS_CardinalityType
    <3>2. Cardinality(C \cup B) = Cardinality(C) + Cardinality(B) - Cardinality(C \cap B)
      BY <1>4, <3>1, FS_Union
    <3>3. C \cap B = {} /\ InStages({"canceled"})' = C \cup B
      BY <2>2
    <3> HIDE DEF C
    <3>4. Cardinality(C \cup B) = Cardinality(C) + Cardinality(B)
      <4>1. Cardinality(C \cap B) = 0
        BY <3>3, FS_EmptySet
      <4> QED
        BY <3>1, <3>2, <4>1
    <3> QED
      BY <3>3, <3>4 DEF C
  <2>4. /\ InStages(Stages \ {"new", "submitting", "refused"})'
             = InStages(Stages \ {"new", "submitting", "refused"})
        /\ InStages(PendingStages)' = InStages(PendingStages)
        /\ InStages(ActiveStages)' = InStages(ActiveStages)
        /\ InStages(EndedStages)' = InStages(EndedStages)
    BY <2>1 DEF Stages, PendingStages, ActiveStages, EndedStages
  <2> QED
    BY <1>0, <1>1, <1>4, <2>3, <2>4 DEF SchedInv, CountersMatch
<1>8. /\ {"ca_destroy", l} \cap HandPC = {} /\ l \in ClientPC /\ l # "ca_take"
      /\ {"ca_destroy", l} \cap SubmitPC = {} /\ HoldingPC \subseteq SubmitPC
      /\ "canceled" \in Stages
  BY <1>2 DEF HandPC, SubmitPC, HoldingPC, ClientPC, Stages, PendingStages
<1>9. TypeOK'
  <2>1. stage' \in [Tasks -> Stages] /\ batch' \in [Clients -> Seq(Tasks)]
    BY <1>0, <1>1, <1>8
  <2> QED
    BY <1>0, <1>2, <1>3, <1>7, <1>8, <2>1, CountersNat DEF SchedInv, TypeOK, workerVars
<1>10. PcInv'
  <2>1. \A d \in Clients : batch'[d] # << >> => d # c /\ batch'[d] = batch[d]
    BY <1>0
  <2> QED
    BY <1>0, <1>2, <1>8, <2>1, QueueFacts DEF SchedInv, PcInv, workerVars
<1>11. PopsExclude'
  <2>1. \A d \in Clients : d # c => victim'[d] = victim[d]
    BY <1>0 DEF CancelDestroy
  <2> QED
    BY <1>0, <1>2, <1>8, <2>1, QuietLocks, QueueFacts DEF workerVars
<1>12. StageInv'
  <2>1. \A k \in Tasks : stage[k] # "batched" => stage'[k] = stage[k]
    BY <1>1, <1>5
  <2>2. \A r \in Queues : \A j \in DOMAIN queue'[r] : stage'[queue'[r][j]] = "queued"
    <3>1. \A r \in Queues : \A j \in DOMAIN queue[r] : queue[r][j] \in Tasks
      BY DEF SchedInv, TypeOK
    <3> QED
      BY <1>0, <2>1, <3>1 DEF SchedInv, StageInv
  <2>3. \A v \in Workers : pc'[v] \in HandPC => stage'[cur'[v]] = HandStage(pc'[v])
    <3> SUFFICES ASSUME NEW v \in Workers, pc'[v] \in HandPC
                 PROVE  stage'[cur'[v]] = HandStage(pc'[v])
      OBVIOUS
    <3>1. pc[v] \in HandPC /\ pc'[v] = pc[v] /\ HandStage(pc[v]) # "batched"
      BY <1>0, <1>2, QueueFacts DEF HandStage
    <3> QED
      BY <1>0, <2>1, <3>1, WorkerOwner DEF workerVars
  <2>4. \A u \in Threads : pc'[u] \in HoldingPC => stage'[sub'[u]] = SubStage(pc'[u])
    <3> SUFFICES ASSUME NEW u \in Threads, pc'[u] \in HoldingPC
                 PROVE  stage'[sub'[u]] = SubStage(pc'[u])
      OBVIOUS
    <3>1. pc[u] \in HoldingPC /\ pc'[u] = pc[u] /\ SubStage(pc[u]) # "batched"
      BY <1>0, <1>2, <1>8 DEF SubStage
    <3> QED
      BY <1>0, <2>1, <3>1, SubmitOwner
  <2>5. \A d \in Clients : \A j \in DOMAIN batch'[d] : stage'[batch'[d][j]] = "batched"
    <3> SUFFICES ASSUME NEW d \in Clients, NEW j \in DOMAIN batch'[d]
                 PROVE  stage'[batch'[d][j]] = "batched"
      OBVIOUS
    <3>1. d # c /\ batch'[d] = batch[d] /\ batch[d][j] \in Tasks /\ stage[batch[d][j]] = "batched"
      BY <1>0 DEF SchedInv, StageInv
    <3>2. batch[d][j] \notin B
      BY <3>1 DEF B, SchedInv, UniqueInv
    <3> QED
      BY <1>1, <3>1, <3>2
  <2> QED
    BY <2>2, <2>3, <2>4, <2>5 DEF StageInv
<1>13. UniqueInv'
  <2>1. \A d, e \in Clients : \A i \in DOMAIN batch'[d], j \in DOMAIN batch'[e] :
          batch'[d][i] = batch'[e][j] => d = e /\ i = j
    <3>1. \A d \in Clients : \A i \in DOMAIN batch'[d] : i \in DOMAIN batch[d] /\ batch'[d] = batch[d]
      BY <1>0
    <3> QED
      BY <3>1 DEF SchedInv, UniqueInv
  <2>2. \A u, v \in Threads :
          pc'[u] \in HoldingPC /\ pc'[v] \in HoldingPC /\ sub'[u] = sub'[v] => u = v
    BY <1>0, <1>2, <1>8 DEF SchedInv, UniqueInv
  <2> QED
    BY <1>0, <2>1, <2>2 DEF SchedInv, UniqueInv, workerVars
<1>14. PresentInv'
  <2> SUFFICES ASSUME NEW m \in Tasks
               PROVE  PresentInv!(m)'
    BY DEF PresentInv
  <2>1. CASE m \in B
    BY <1>1, <2>1
  <2>2. CASE m \notin B
    <3>1. stage'[m] = stage[m] /\ PresentInv!(m) /\ cur' = cur /\ sub' = sub /\ queue' = queue
      BY <1>0, <1>1, <2>2 DEF SchedInv, PresentInv, workerVars
    <3>2. \A d \in Clients : \A j \in DOMAIN batch[d] :
            batch[d][j] = m => batch'[d] = batch[d]
      BY <1>0, <1>6, <2>2
    <3>3. \A u \in Threads : pc[u] \in HoldingPC => pc'[u] = pc[u]
      BY <1>0, <1>2, <1>8
    <3>4. stage[m] = "batched" => \E d \in Clients : \E j \in DOMAIN batch'[d] : batch'[d][j] = m
      BY <3>1, <3>2
    <3> QED
      BY <3>1, <3>3, <3>4
  <2> QED
    BY <2>1, <2>2
<1> QED
  BY <1>7, <1>9, <1>10, <1>11, <1>12, <1>13, <1>14 DEF SchedInv

-----------------------------------------------------------------------------
(* The invariant *)

\* A scheduler fresh from fq_scheduler_create satisfies the invariant.
LEMMA InitSchedInv == Init => SchedInv
<1> SUFFICES ASSUME Init PROVE SchedInv
  OBVIOUS
<1>1. /\ "top" \in WorkerPC \ HandPC /\ "top" \notin SubmitPC /\ "ready" \in ClientPC
      /\ "ready" \notin SubmitPC /\ HoldingPC \subseteq SubmitPC /\ "new" \in Stages
  BY DEF WorkerPC, HandPC, SubmitPC, ClientPC, HoldingPC, Stages
<1>2. TypeOK
  BY <1>1, QueueFacts DEF Init, TypeOK
<1>3. PcInv
  BY <1>1, QueueFacts, SearchOrderType DEF Init, PcInv
<1>4. PopsExclude
  BY QueueFacts, NullAssumption DEF Init, PopsExclude, Pops
<1>5. StageInv
  BY <1>1, QueueFacts DEF Init, StageInv
<1>6. UniqueInv /\ PresentInv
  BY <1>1, QueueFacts DEF Init, UniqueInv, PresentInv
<1>7. CountersMatch
  <2>1. ASSUME NEW S, "new" \notin S PROVE InStages(S) = {}
    BY <2>1 DEF Init, InStages
  <2>2. /\ InStages(Stages \ {"new", "submitting", "refused"}) = {}
        /\ InStages(PendingStages) = {} /\ InStages(ActiveStages) = {}
        /\ InStages(EndedStages) = {} /\ InStages({"canceled"}) = {}
    BY <2>1 DEF Stages, PendingStages, ActiveStages, EndedStages
  <2> QED
    BY <2>2, FS_EmptySet DEF Init, CountersMatch
<1> QED
  BY <1>2, <1>3, <1>4, <1>5, <1>6, <1>7 DEF SchedInv

\* The invariant is about the variables only.
LEMMA StutterSchedInv == SchedInv /\ UNCHANGED vars => SchedInv'
  BY DEF SchedInv, TypeOK, PcInv, PopsExclude, Pops, Probed, StageInv, UniqueInv, PresentInv,
         CountersMatch, InStages, vars, counters, workerVars, callVars

\* Every step keeps it.
LEMMA NextSchedInv == SchedInv /\ Next => SchedInv'
<1> SUFFICES ASSUME SchedInv, Next PROVE SchedInv'
  OBVIOUS
<1>1. ASSUME NEW t \in Threads, Submit(t) PROVE SchedInv'
  BY <1>1, SubmitStep
<1>2. ASSUME NEW w \in Workers, Worker(w) PROVE SchedInv'
  BY <1>2, SearchStep, TakeTaskStep, ExecuteStep, DestroyStep, IdleStep DEF Worker
<1>3. ASSUME NEW c \in Clients, Client(c) PROVE SchedInv'
  BY <1>3, WaitStep, DrainStep, CancelTakeStep, CancelDestroyStep, StopStep DEF Client
<1>4. ASSUME NEW c \in Clients, WaitIdle(c) \/ CancelAll(c) \/ Shutdown(c) PROVE SchedInv'
  BY <1>4, WaitStep, StopStep
<1>5. CASE Finished
  BY <1>5, StutterSchedInv DEF Finished
<1> QED
  BY <1>1, <1>2, <1>3, <1>4, <1>5, CallStep DEF Next

\* Tasks, queues, counters and locks fit together between any two steps of any threads:
\* submit, worker_main, try_steal, cancel_all, wait_idle and shutdown (scheduler.c:71-450).
THEOREM SchedInvariant == Spec => []SchedInv
<1>1. SchedInv /\ [Next]_vars => SchedInv'
  BY NextSchedInv, StutterSchedInv
<1> QED
  BY <1>1, InitSchedInv, PTL DEF Spec

\* The five atomic counters always say how many tasks there are in the stages that they
\* stand for (scheduler.c:123-131, 311-340, 355-380).
THEOREM CountersTheorem == Spec => []CountersMatch
<1>1. SchedInv => CountersMatch
  BY DEF SchedInv
<1> QED
  BY <1>1, SchedInvariant, PTL

\* Where the pointers to task k are, read off its stage.
LEMMA WherePointersAre ==
  ASSUME SchedInv, NEW k \in Tasks
  PROVE  /\ \A q \in Queues : \A j \in DOMAIN queue[q] : queue[q][j] = k => stage[k] = "queued"
         /\ \A w \in Workers :
              cur[w] = k => stage[k] \in {"taken", "active", "running", "ran", "settled"}
         /\ \A t \in Threads : sub[t] = k /\ pc[t] # "sub_signal" =>
              pc[t] \in HoldingPC /\ stage[k] \in {"submitting", "counted"}
         /\ \A c \in Clients : \A j \in DOMAIN batch[c] : batch[c][j] = k => stage[k] = "batched"
<1>1. \A w \in Workers :
        cur[w] = k => stage[k] \in {"taken", "active", "running", "ran", "settled"}
  <2> SUFFICES ASSUME NEW w \in Workers, cur[w] = k
               PROVE  stage[k] \in {"taken", "active", "running", "ran", "settled"}
    OBVIOUS
  <2>1. pc[w] \in HandPC
    BY NullAssumption DEF SchedInv, PcInv
  <2>2. stage[k] = HandStage(pc[w])
    BY <2>1 DEF SchedInv, StageInv
  <2> QED
    BY <2>2 DEF HandStage
<1>2. \A t \in Threads : sub[t] = k /\ pc[t] # "sub_signal" =>
        pc[t] \in HoldingPC /\ stage[k] \in {"submitting", "counted"}
  <2> SUFFICES ASSUME NEW t \in Threads, sub[t] = k, pc[t] # "sub_signal"
               PROVE  pc[t] \in HoldingPC /\ stage[k] \in {"submitting", "counted"}
    OBVIOUS
  <2>1. pc[t] \in HoldingPC
    BY NullAssumption DEF SchedInv, PcInv, HoldingPC
  <2>2. stage[k] = SubStage(pc[t])
    BY <2>1 DEF SchedInv, StageInv
  <2> QED
    BY <2>1, <2>2 DEF SubStage
<1> QED
  BY <1>1, <1>2 DEF SchedInv, StageInv

\* A task that has an owner has no second one: the owners determine each other's stages.
LEMMA OnePlace == SchedInv => ExactlyOnePlace
<1> SUFFICES ASSUME SchedInv, NEW k \in Tasks
             PROVE  Cardinality(Places(k)) =
                      IF stage[k] \in {"new", "refused", "rejected", "destroyed", "canceled"}
                      THEN 0 ELSE 1
  BY DEF ExactlyOnePlace
<1> DEFINE Q == QueuePlaces(k)
           W == WorkerPlaces(k)
           S == SubmitPlaces(k)
           B == BatchPlaces(k)
<1>1. Places(k) = Q \cup W \cup S \cup B
  BY DEF Places
<1>2. /\ stage[k] # "queued" => Q = {}
      /\ stage[k] \notin {"taken", "active", "running", "ran", "settled"} => W = {}
      /\ stage[k] \notin {"submitting", "counted"} => S = {}
      /\ stage[k] # "batched" => B = {}
  <2>1. stage[k] # "queued" => Q = {}
    BY WherePointersAre DEF QueuePlaces
  <2>2. stage[k] \notin {"taken", "active", "running", "ran", "settled"} => W = {}
    BY WherePointersAre DEF WorkerPlaces
  <2>3. stage[k] \notin {"submitting", "counted"} => S = {}
    BY WherePointersAre DEF SubmitPlaces
  <2>4. stage[k] # "batched" => B = {}
    BY WherePointersAre DEF BatchPlaces
  <2> QED
    BY <2>1, <2>2, <2>3, <2>4
<1>3. stage[k] \in Stages
  BY DEF SchedInv, TypeOK
<1>4. CASE stage[k] = "queued"
  <2>1. PICK q \in Queues : \E j \in DOMAIN queue[q] : queue[q][j] = k
    BY <1>4 DEF SchedInv, PresentInv
  <2>2. PICK j \in DOMAIN queue[q] : queue[q][j] = k
    BY <2>1
  <2>3. \A r \in Queues : \A i \in DOMAIN queue[r] : queue[r][i] = k => r = q /\ i = j
    BY <2>2 DEF SchedInv, UniqueInv
  <2>4. Q = {<<"queue", q, j>>}
    BY <2>2, <2>3 DEF QueuePlaces
  <2> HIDE DEF Q, W, S, B
  <2>5. Places(k) = {<<"queue", q, j>>}
    BY <1>1, <1>2, <1>4, <2>4
  <2> QED
    BY <1>4, <2>5, FS_Singleton
<1>5. CASE stage[k] \in {"taken", "active", "running", "ran", "settled"}
  <2>1. PICK w \in Workers : cur[w] = k
    BY <1>5 DEF SchedInv, PresentInv
  <2>2. \A v \in Workers : cur[v] = k => v = w
    BY <2>1, NullAssumption DEF SchedInv, UniqueInv
  <2>3. W = {<<"worker", w, 0>>}
    BY <2>1, <2>2 DEF WorkerPlaces
  <2> HIDE DEF Q, W, S, B
  <2>4. Places(k) = {<<"worker", w, 0>>}
    BY <1>1, <1>2, <1>5, <2>3
  <2> QED
    BY <1>5, <2>4, FS_Singleton
<1>6. CASE stage[k] \in {"submitting", "counted"}
  <2>1. PICK t \in Threads : pc[t] \in HoldingPC /\ sub[t] = k
    BY <1>6 DEF SchedInv, PresentInv
  <2>2. pc[t] # "sub_signal"
    BY <2>1 DEF HoldingPC
  <2>3. \A u \in Threads : sub[u] = k /\ pc[u] # "sub_signal" => u = t
    BY <2>1, WherePointersAre DEF SchedInv, UniqueInv
  <2>4. S = {<<"submitter", t, 0>>}
    BY <2>1, <2>2, <2>3 DEF SubmitPlaces
  <2> HIDE DEF Q, W, S, B
  <2>5. Places(k) = {<<"submitter", t, 0>>}
    BY <1>1, <1>2, <1>6, <2>4
  <2> QED
    BY <1>6, <2>5, FS_Singleton
<1>7. CASE stage[k] = "batched"
  <2>1. PICK c \in Clients : \E j \in DOMAIN batch[c] : batch[c][j] = k
    BY <1>7 DEF SchedInv, PresentInv
  <2>2. PICK j \in DOMAIN batch[c] : batch[c][j] = k
    BY <2>1
  <2>3. \A d \in Clients : \A i \in DOMAIN batch[d] : batch[d][i] = k => d = c /\ i = j
    BY <2>2 DEF SchedInv, UniqueInv
  <2>4. B = {<<"batch", c, j>>}
    BY <2>2, <2>3 DEF BatchPlaces
  <2> HIDE DEF Q, W, S, B
  <2>5. Places(k) = {<<"batch", c, j>>}
    BY <1>1, <1>2, <1>7, <2>4
  <2> QED
    BY <1>7, <2>5, FS_Singleton
<1>8. CASE stage[k] \in {"new", "refused", "rejected", "destroyed", "canceled"}
  <2> HIDE DEF Q, W, S, B
  <2>1. Places(k) = {}
    BY <1>1, <1>2, <1>8
  <2> QED
    BY <1>8, <2>1, FS_EmptySet
<1> HIDE DEF Q, W, S, B
<1> QED
  BY <1>3, <1>4, <1>5, <1>6, <1>7, <1>8 DEF Stages, PendingStages, ActiveStages, EndedStages

\* A task is in exactly one pair of hands from its submission until it is destroyed: it
\* runs at most once and nobody uses it after fq_task_destroy (scheduler.c:71, 311, 344).
THEOREM OnePlaceTheorem == Spec => []ExactlyOnePlace
  BY SchedInvariant, OnePlace, PTL
=============================================================================
