-------------------------- MODULE ThreadPool_proofs --------------------------
(***************************************************************************)
(* Proofs about ThreadPool for every number of workers, producers and      *)
(* tasks and every limit of the queue.                                     *)
(*                                                                         *)
(* The type invariant is not inductive: that Pop finds a task needs what   *)
(* the predicate saw to be still true, which needs the mutex.  LockInv is  *)
(* the smallest strengthening that carries them all.                       *)
(***************************************************************************)
EXTENDS ThreadPool, FiniteSetTheorems, SequenceTheorems, TLAPS

(* A worker that is about to block holds the mutex since it saw that there *)
(* was nothing to do, so there still is nothing to do.                     *)
BlockJustified == \A w \in Workers : wpc[w] = "block" => ~stop /\ tasks = <<>>

LockInv ==
  TypeOK /\ MutualExclusion /\ QueueBound /\ PopFindsTask /\ BlockJustified

-----------------------------------------------------------------------------
(* The initial state satisfies the locking invariant.                      *)
LEMMA InitLockInv == Init => LockInv
<1> SUFFICES ASSUME Init PROVE LockInv
  OBVIOUS
<1> USE DEF Init
<1>1. TypeOK
  <2>1. tasks \in Seq(Tasks)
    OBVIOUS
  <2>2. /\ wtask \in [Workers -> Tasks \cup {NoTask}]
        /\ ptask \in [Producers -> Tasks \cup {NoTask}]
    OBVIOUS
  <2>3. /\ \A w \in Workers : wpc[w] = "run" <=> wtask[w] # NoTask
        /\ \A p \in Producers : ppc[p] \in {"lock", "check", "push"} <=> ptask[p] # NoTask
    OBVIOUS
  <2> QED
    BY <2>1, <2>2, <2>3 DEF TypeOK, Threads, WorkerPC, ProducerPC, OwnerPC
<1>2. MutualExclusion
  BY ThreadAssumption DEF MutualExclusion, InScope, Threads
<1>3. QueueBound /\ PopFindsTask /\ BlockJustified
  BY TaskAssumption DEF QueueBound, PopFindsTask, BlockJustified
<1> QED
  BY <1>1, <1>2, <1>3 DEF LockInv

(* Every step keeps the type invariant; Pop is the one that needs more     *)
(* than the types, that the queue it takes from is not empty.              *)
LEMMA NextTypeOK == LockInv /\ [Next]_vars => TypeOK'
<1> SUFFICES ASSUME LockInv, [Next]_vars PROVE TypeOK'
  OBVIOUS
<1> USE ThreadAssumption, TaskAssumption
    DEF LockInv, TypeOK, Threads, WorkerPC, ProducerPC, OwnerPC, Acquire, Release
<1>1. ASSUME NEW w \in Workers, WorkerLock(w) PROVE TypeOK'
  BY <1>1 DEF WorkerLock
<1>2. ASSUME NEW w \in Workers, PredicateFalse(w) PROVE TypeOK'
  BY <1>2 DEF PredicateFalse
<1>3. ASSUME NEW w \in Workers, Block(w) PROVE TypeOK'
  BY <1>3 DEF Block
<1>4. ASSUME NEW w \in Workers, SpuriousWakeup(w) PROVE TypeOK'
  BY <1>4 DEF SpuriousWakeup
<1>5. ASSUME NEW w \in Workers, WorkerExit(w) PROVE TypeOK'
  BY <1>5 DEF WorkerExit
<1>6. ASSUME NEW w \in Workers, WorkerProceed(w) PROVE TypeOK'
  BY <1>6 DEF WorkerProceed
<1>7. ASSUME NEW w \in Workers, Pop(w) PROVE TypeOK'
  <2>1. tasks # <<>>
    BY <1>7 DEF Pop, PopFindsTask
  <2>2. Head(tasks) \in Tasks /\ Tail(tasks) \in Seq(Tasks)
    BY <2>1, HeadTailProperties
  <2> QED
    BY <1>7, <2>2 DEF Pop
<1>8. ASSUME NEW w \in Workers, FinishTask(w) PROVE TypeOK'
  BY <1>8 DEF FinishTask
<1>9. ASSUME NEW w \in Workers, Spawn(w) PROVE TypeOK'
  BY <1>9 DEF Spawn
<1>10. ASSUME NEW p \in Producers, NEW t \in Tasks, EnqueueCall(p, t) PROVE TypeOK'
  BY <1>10 DEF EnqueueCall
<1>11. ASSUME NEW p \in Producers, EnqueueLock(p) PROVE TypeOK'
  BY <1>11 DEF EnqueueLock
<1>12. ASSUME NEW p \in Producers, EnqueueReject(p) PROVE TypeOK'
  BY <1>12 DEF EnqueueReject
<1>13. ASSUME NEW p \in Producers, EnqueueRoom(p) PROVE TypeOK'
  BY <1>13 DEF EnqueueRoom
<1>14. ASSUME NEW p \in Producers, EnqueuePush(p) PROVE TypeOK'
  <2>1. ptask[p] \in Tasks /\ Append(tasks, ptask[p]) \in Seq(Tasks)
    BY <1>14, AppendProperties DEF EnqueuePush
  <2> QED
    BY <1>14, <2>1 DEF EnqueuePush
<1>15. ASSUME NEW p \in Producers, EnqueueNotify(p) PROVE TypeOK'
  BY <1>15 DEF EnqueueNotify, NotifyOneSleeper, Sleepers
<1>16. CASE BeginDestroy
  BY <1>16 DEF BeginDestroy
<1>17. CASE DestroyStep
  BY <1>17 DEF DestroyStep, DestroyLock, SetStop, NotifyAll, JoinWorkers,
               NotifyAllSleepers, Sleepers
<1>18. CASE UNCHANGED vars
  BY <1>18 DEF vars
<1> QED
  BY <1>1, <1>2, <1>3, <1>4, <1>5, <1>6, <1>7, <1>8, <1>9, <1>10, <1>11, <1>12,
     <1>13, <1>14, <1>15, <1>16, <1>17, <1>18
     DEF Next, WorkerStep, EnqueueStep, Destroyed

(* Every step keeps mutual exclusion: the scope is entered by taking the   *)
(* mutex and left by releasing it.                                         *)
LEMMA NextMutualExclusion == LockInv /\ [Next]_vars => MutualExclusion'
<1> SUFFICES ASSUME LockInv, [Next]_vars PROVE MutualExclusion'
  OBVIOUS
<1> USE ThreadAssumption
    DEF LockInv, TypeOK, Threads, Acquire, Release, MutualExclusion, InScope
<1>1. ASSUME NEW w \in Workers, WorkerStep(w) \/ SpuriousWakeup(w) \/ Spawn(w)
      PROVE  MutualExclusion'
  BY <1>1 DEF WorkerStep, WorkerLock, PredicateFalse, Block, SpuriousWakeup, WorkerExit,
              WorkerProceed, Pop, FinishTask, Spawn
<1>2. ASSUME NEW p \in Producers, EnqueueStep(p) \/ \E t \in Tasks : EnqueueCall(p, t)
      PROVE  MutualExclusion'
  BY <1>2 DEF EnqueueStep, EnqueueCall, EnqueueLock, EnqueueReject, EnqueueRoom,
              EnqueuePush, EnqueueNotify, NotifyOneSleeper, Sleepers
<1>3. CASE BeginDestroy \/ DestroyStep
  BY <1>3 DEF BeginDestroy, DestroyStep, DestroyLock, SetStop, NotifyAll, JoinWorkers,
              NotifyAllSleepers, Sleepers
<1>4. CASE UNCHANGED vars
  BY <1>4 DEF vars
<1> QED
  BY <1>1, <1>2, <1>3, <1>4 DEF Next, Destroyed

(* Every step keeps what a thread knows while it holds the mutex: room in  *)
(* the queue for the producer that is going to push, a task for the worker *)
(* that is going to pop, nothing to do for the worker that is going to     *)
(* block.  A step of another thread that could make it false needs the     *)
(* mutex too.                                                              *)
LEMMA NextScopeFacts ==
  LockInv /\ [Next]_vars => (QueueBound /\ PopFindsTask /\ BlockJustified)'
<1> SUFFICES ASSUME LockInv, [Next]_vars
             PROVE  (QueueBound /\ PopFindsTask /\ BlockJustified)'
  OBVIOUS
<1> DEFINE Facts == QueueBound /\ PopFindsTask /\ BlockJustified
<1>a. /\ tasks \in Seq(Tasks) /\ Len(tasks) \in Nat /\ MaxQueueSize \in Nat
      /\ wpc \in [Workers -> WorkerPC] /\ ppc \in [Producers -> ProducerPC]
  BY TaskAssumption, LenProperties DEF LockInv, TypeOK
<1>m. /\ \A w \in Workers : wpc[w] \in {"test", "block", "pop"} => mutex = w
      /\ \A p \in Producers : ppc[p] \in {"check", "push"} => mutex = p
      /\ opc = "set_stop" => mutex = Owner
  BY DEF LockInv, MutualExclusion, InScope, Threads
<1>b. \A v, w \in Workers :
         wpc[v] \in {"test", "block", "pop"} /\ wpc[w] \in {"test", "block", "pop"} => v = w
  BY <1>m
<1>c. \A w \in Workers, p \in Producers :
         ~(wpc[w] \in {"test", "block", "pop"} /\ ppc[p] \in {"check", "push"})
  BY <1>m, ThreadAssumption
<1>d. \A p, q \in Producers :
         ppc[p] \in {"check", "push"} /\ ppc[q] \in {"check", "push"} => p = q
  BY <1>m
<1>e. \A w \in Workers : ~(opc = "set_stop" /\ wpc[w] \in {"test", "block", "pop"})
  BY <1>m, ThreadAssumption
<1> USE <1>a DEF LockInv, QueueBound, PopFindsTask, BlockJustified, WorkerPC, ProducerPC
<1>1. ASSUME NEW w \in Workers, WorkerLock(w) \/ PredicateFalse(w) \/ Block(w)
             \/ SpuriousWakeup(w) \/ WorkerExit(w) \/ WorkerProceed(w) \/ FinishTask(w)
             \/ Spawn(w)
      PROVE  Facts'
  BY <1>1 DEF WorkerLock, PredicateFalse, Block, SpuriousWakeup, WorkerExit,
              WorkerProceed, FinishTask, Spawn
<1>2. ASSUME NEW w \in Workers, Pop(w) PROVE Facts'
  <2>1. /\ tasks # <<>> /\ tasks' = Tail(tasks)
        /\ wpc' = [wpc EXCEPT ![w] = "run"] /\ UNCHANGED <<stop, ppc>>
    BY <1>2 DEF Pop
  <2>2. Len(tasks') = Len(tasks) - 1 /\ Len(tasks') \in Nat
    BY <2>1, HeadTailProperties, LenProperties
  <2>3. \A v \in Workers : wpc'[v] \notin {"block", "pop"}
    BY <1>2, <2>1, <1>b DEF Pop
  <2> QED
    BY <2>1, <2>2, <2>3
<1>3. ASSUME NEW p \in Producers, NEW t \in Tasks, EnqueueCall(p, t) PROVE Facts'
  BY <1>3 DEF EnqueueCall
<1>4. ASSUME NEW p \in Producers, EnqueueLock(p) \/ EnqueueReject(p) \/ EnqueueRoom(p)
      PROVE  Facts'
  BY <1>4 DEF EnqueueLock, EnqueueReject, EnqueueRoom
<1>5. ASSUME NEW p \in Producers, EnqueuePush(p) PROVE Facts'
  <2>1. /\ ptask[p] \in Tasks /\ tasks' = Append(tasks, ptask[p]) /\ ppc[p] = "push"
        /\ ppc' = [ppc EXCEPT ![p] = "notify"] /\ UNCHANGED <<wpc, stop>>
    BY <1>5 DEF EnqueuePush, TypeOK
  <2>2. Len(tasks') = Len(tasks) + 1
    BY <2>1, AppendProperties
  <2>3. \A q \in Producers : ppc'[q] # "push"
    BY <2>1, <1>d
  <2>4. \A w \in Workers : wpc'[w] \notin {"block", "pop"}
    BY <2>1, <1>c
  <2> QED
    BY <2>1, <2>2, <2>3, <2>4
<1>6. ASSUME NEW p \in Producers, EnqueueNotify(p) PROVE Facts'
  BY <1>6 DEF EnqueueNotify, NotifyOneSleeper, Sleepers
<1>7. CASE BeginDestroy \/ DestroyStep
  <2>1. CASE SetStop
    BY <2>1, <1>e DEF SetStop
  <2>2. CASE BeginDestroy \/ DestroyLock \/ NotifyAll \/ JoinWorkers
    BY <2>2 DEF BeginDestroy, DestroyLock, NotifyAll, JoinWorkers,
                NotifyAllSleepers, Sleepers
  <2> QED
    BY <1>7, <2>1, <2>2 DEF DestroyStep
<1>8. CASE UNCHANGED vars
  BY <1>8 DEF vars
<1> QED
  BY <1>1, <1>2, <1>3, <1>4, <1>5, <1>6, <1>7, <1>8
     DEF Next, WorkerStep, EnqueueStep, Destroyed

(* The locking invariant holds in every reachable state.                   *)
THEOREM LockInvHolds == Spec => []LockInv
<1>1. LockInv /\ [Next]_vars => LockInv'
  BY NextTypeOK, NextMutualExclusion, NextScopeFacts DEF LockInv
<1> QED
  BY InitLockInv, <1>1, PTL DEF Spec

(* The type invariant, for every pool.                                     *)
THEOREM TypeCorrect == Spec => []TypeOK
<1>1. LockInv => TypeOK
  BY DEF LockInv
<1> QED
  BY LockInvHolds, <1>1, PTL

(* The queue and the stop flag are only touched by the holder of           *)
(* queueMutex.                                                             *)
THEOREM MutexProtects == Spec => []MutualExclusion
<1>1. LockInv => MutualExclusion
  BY DEF LockInv
<1> QED
  BY LockInvHolds, <1>1, PTL

(* The queue never holds more than maxQueueSize tasks.                     *)
THEOREM QueueIsBounded == Spec => []QueueBound
<1>1. LockInv => QueueBound
  BY DEF LockInv
<1> QED
  BY LockInvHolds, <1>1, PTL

(* No worker takes a task from an empty queue.                             *)
THEOREM PopIsSafe == Spec => []PopFindsTask
<1>1. LockInv => PopFindsTask
  BY DEF LockInv
<1> QED
  BY LockInvHolds, <1>1, PTL

-----------------------------------------------------------------------------
(* No wakeup is lost, stop reaches every sleeper, and the destructor       *)
(* drains the queue.  The three need each other's help: a worker that is   *)
(* about to block would miss notify_all() if stop were set already, which  *)
(* BlockJustified excludes; and nobody enqueues once the destructor has    *)
(* begun, which StopPhase adds.                                            *)

(* stop is set by the destructor, which runs when no call of enqueue() is  *)
(* under way.                                                              *)
StopPhase ==
  /\ stop <=> opc \in {"notify_all", "join", "destroyed"}
  /\ opc \notin {"construct", "open"} => \A p \in Producers : ppc[p] = "idle"

WakeupInv == LockInv /\ StopPhase /\ StopReachesSleepers /\ NoLostWakeup

-----------------------------------------------------------------------------
(* Every step keeps the order of the destructor's steps.                   *)
LEMMA NextStopPhase == LockInv /\ StopPhase /\ [Next]_vars => StopPhase'
<1> SUFFICES ASSUME LockInv, StopPhase, [Next]_vars PROVE StopPhase'
  OBVIOUS
<1> USE ThreadAssumption DEF LockInv, TypeOK, StopPhase, OwnerPC
<1>1. ASSUME NEW w \in Workers, WorkerStep(w) \/ SpuriousWakeup(w) \/ Spawn(w)
      PROVE  StopPhase'
  BY <1>1 DEF WorkerStep, WorkerLock, PredicateFalse, Block, SpuriousWakeup, WorkerExit,
              WorkerProceed, Pop, FinishTask, Spawn
<1>2. ASSUME NEW p \in Producers, EnqueueStep(p) \/ \E t \in Tasks : EnqueueCall(p, t)
      PROVE  StopPhase'
  BY <1>2 DEF EnqueueStep, EnqueueCall, EnqueueLock, EnqueueReject, EnqueueRoom,
              EnqueuePush, EnqueueNotify
<1>3. CASE BeginDestroy \/ DestroyStep
  BY <1>3 DEF BeginDestroy, DestroyStep, DestroyLock, SetStop, NotifyAll, JoinWorkers
<1>4. CASE UNCHANGED vars
  BY <1>4 DEF vars
<1> QED
  BY <1>1, <1>2, <1>3, <1>4 DEF Next, Destroyed

(* No step lets a worker sleep through stop: a worker that is about to     *)
(* block saw stop unset and holds the mutex since.                         *)
LEMMA NextStopReaches ==
  LockInv /\ StopPhase /\ StopReachesSleepers /\ [Next]_vars => StopReachesSleepers'
<1> SUFFICES ASSUME LockInv, StopPhase, StopReachesSleepers, [Next]_vars
             PROVE  StopReachesSleepers'
  OBVIOUS
<1> USE ThreadAssumption DEF LockInv, TypeOK, StopPhase, StopReachesSleepers, Asleep
<1>1. ASSUME NEW w \in Workers, WorkerStep(w) \/ SpuriousWakeup(w) \/ Spawn(w)
      PROVE  StopReachesSleepers'
  BY <1>1 DEF WorkerStep, WorkerLock, PredicateFalse, Block, SpuriousWakeup, WorkerExit,
              WorkerProceed, Pop, FinishTask, Spawn
<1>2. ASSUME NEW p \in Producers, EnqueueStep(p) \/ \E t \in Tasks : EnqueueCall(p, t)
      PROVE  StopReachesSleepers'
  <2>1. CASE EnqueueNotify(p)
    BY <2>1 DEF EnqueueNotify, NotifyOneSleeper, Sleepers
  <2>2. CASE ~EnqueueNotify(p)
    BY <1>2, <2>2 DEF EnqueueStep, EnqueueCall, EnqueueLock, EnqueueReject, EnqueueRoom,
                      EnqueuePush
  <2> QED
    BY <2>1, <2>2
<1>3. CASE BeginDestroy \/ DestroyStep
  <2>1. CASE NotifyAll
    <3>1. \A w \in Workers : wpc'[w] \notin {"block", "wait"}
      BY <2>1 DEF NotifyAll, NotifyAllSleepers, Sleepers, BlockJustified
    <3> QED
      BY <3>1
  <2>2. CASE SetStop
    BY <2>2 DEF SetStop
  <2>3. CASE BeginDestroy \/ DestroyLock \/ JoinWorkers
    BY <2>3 DEF BeginDestroy, DestroyLock, JoinWorkers
  <2> QED
    BY <1>3, <2>1, <2>2, <2>3 DEF DestroyStep
<1>4. CASE UNCHANGED vars
  BY <1>4 DEF vars
<1> QED
  BY <1>1, <1>2, <1>3, <1>4 DEF Next, Destroyed

-----------------------------------------------------------------------------
(* Adding one element to a finite set of threads, or taking one away,      *)
(* changes its size by one.                                                *)
LEMMA CountedThreads ==
  ASSUME LockInv
  PROVE  /\ IsFiniteSet(Notifiers) /\ IsFiniteSet(Awake)
         /\ Cardinality(Notifiers) \in Nat /\ Cardinality(Awake) \in Nat
  BY ThreadAssumption, FS_Subset, FS_CardinalityType DEF Notifiers, Awake

(* Every step keeps the promise: enqueue() adds a task and a notification  *)
(* to come, the notification becomes a worker on its way, and that worker  *)
(* takes one task.                                                         *)
LEMMA NextNoLostWakeup ==
  LockInv /\ LockInv' /\ StopPhase /\ NoLostWakeup /\ [Next]_vars => NoLostWakeup'
<1> SUFFICES ASSUME LockInv, LockInv', StopPhase, NoLostWakeup, [Next]_vars
             PROVE  NoLostWakeup'
  OBVIOUS
<1> DEFINE owed == Cardinality(Notifiers)
           coming == Cardinality(Awake)
<1>t. /\ wpc \in [Workers -> WorkerPC] /\ ppc \in [Producers -> ProducerPC]
      /\ tasks \in Seq(Tasks) /\ Len(tasks) \in Nat
  BY LenProperties DEF LockInv, TypeOK
<1>c. /\ IsFiniteSet(Notifiers) /\ IsFiniteSet(Awake)
      /\ owed \in Nat /\ coming \in Nat
  BY CountedThreads
<1>c1. /\ IsFiniteSet(Notifiers') /\ IsFiniteSet(Awake')
       /\ owed' \in Nat /\ coming' \in Nat
  BY ThreadAssumption, FS_Subset, FS_CardinalityType DEF Notifiers, Awake
<1>0. ASSUME Asleep' = {} \/ Len(tasks') = 0 PROVE NoLostWakeup'
  BY <1>0, <1>c1 DEF NoLostWakeup
<1>s. ASSUME Asleep' \subseteq Asleep, Len(tasks') = Len(tasks), owed' = owed,
             coming' >= coming
      PROVE  NoLostWakeup'
  BY <1>s, <1>c, <1>c1, <1>t DEF NoLostWakeup
<1>1. ASSUME NEW w \in Workers,
             wpc'[w] \in {"lock", "test", "pop"}, wpc' = [wpc EXCEPT ![w] = wpc'[w]],
             UNCHANGED <<tasks, ppc>>
      PROVE  NoLostWakeup'
  <2>1. Awake \subseteq Awake' /\ Asleep' \subseteq Asleep
    BY <1>1, <1>t DEF Awake, Asleep
  <2>2. coming' >= coming
    BY <2>1, <1>c, <1>c1, FS_Subset
  <2> QED
    BY <1>1, <1>s, <2>1, <2>2 DEF Notifiers
<1>2. ASSUME NEW w \in Workers, WorkerLock(w) \/ SpuriousWakeup(w) \/ WorkerProceed(w)
             \/ FinishTask(w) \/ Spawn(w)
      PROVE  NoLostWakeup'
  BY <1>1, <1>2, <1>t DEF WorkerLock, SpuriousWakeup, WorkerProceed, FinishTask, Spawn
<1>3. ASSUME NEW w \in Workers, PredicateFalse(w) \/ WorkerExit(w) PROVE NoLostWakeup'
  BY <1>3, <1>0 DEF PredicateFalse, WorkerExit
<1>4. ASSUME NEW w \in Workers, Block(w) PROVE NoLostWakeup'
  BY <1>4, <1>0 DEF Block, LockInv, BlockJustified
<1>5. ASSUME NEW w \in Workers, Pop(w) PROVE NoLostWakeup'
  <2>1. tasks # <<>> /\ Len(tasks') = Len(tasks) - 1
    BY <1>5, <1>t, HeadTailProperties DEF Pop, LockInv, PopFindsTask
  <2>2. w \in Awake /\ Awake' = Awake \ {w} /\ Asleep' = Asleep /\ Notifiers' = Notifiers
    BY <1>5, <1>t DEF Pop, Awake, Asleep, Notifiers
  <2>3. coming' = coming - 1
    BY <2>2, <1>c, FS_RemoveElement
  <2> QED
    BY <2>1, <2>2, <2>3, <1>c, <1>t DEF NoLostWakeup
<1>6. ASSUME NEW p \in Producers, NEW t \in Tasks, EnqueueCall(p, t) PROVE NoLostWakeup'
  <2>1. Notifiers' = Notifiers /\ Awake' = Awake /\ Asleep' = Asleep
    BY <1>6, <1>t DEF EnqueueCall, Notifiers, Awake, Asleep
  <2> QED
    BY <1>6, <2>1 DEF EnqueueCall, NoLostWakeup
<1>7. ASSUME NEW p \in Producers, EnqueueLock(p) \/ EnqueueReject(p) \/ EnqueueRoom(p)
      PROVE  NoLostWakeup'
  <2>1. Notifiers' = Notifiers /\ Awake' = Awake /\ Asleep' = Asleep /\ tasks' = tasks
    BY <1>7, <1>t DEF EnqueueLock, EnqueueReject, EnqueueRoom, Notifiers, Awake, Asleep
  <2> QED
    BY <2>1 DEF NoLostWakeup
<1>8. ASSUME NEW p \in Producers, EnqueuePush(p) PROVE NoLostWakeup'
  <2>1. Len(tasks') = Len(tasks) + 1
    BY <1>8, <1>t, AppendProperties DEF EnqueuePush, LockInv, TypeOK
  <2>2. /\ p \notin Notifiers /\ Notifiers' = Notifiers \cup {p}
        /\ Awake' = Awake /\ Asleep' = Asleep
    BY <1>8, <1>t DEF EnqueuePush, Notifiers, Awake, Asleep
  <2>3. owed' = owed + 1
    BY <2>2, <1>c, FS_AddElement
  <2> QED
    BY <2>1, <2>2, <2>3, <1>c, <1>t DEF NoLostWakeup
<1>9. ASSUME NEW p \in Producers, EnqueueNotify(p) PROVE NoLostWakeup'
  <2>1. p \in Notifiers /\ Notifiers' = Notifiers \ {p} /\ tasks' = tasks
    BY <1>9, <1>t DEF EnqueueNotify, Notifiers
  <2>2. owed' = owed - 1
    BY <2>1, <1>c, FS_RemoveElement
  <2>3. CASE Sleepers = {}
    <3>1. \A w \in Workers : wpc'[w] = wpc[w] /\ wpc[w] # "wait"
      BY <1>9, <2>3 DEF EnqueueNotify, NotifyOneSleeper, Sleepers
    <3>2. Asleep' = {} \/ tasks = <<>>
      BY <3>1 DEF Asleep, LockInv, BlockJustified
    <3> QED
      BY <3>2, <2>1, <1>0
  <2>4. CASE Sleepers # {}
    <3>1. PICK w \in Sleepers : wpc' = [wpc EXCEPT ![w] = "lock"]
      BY <1>9, <2>4 DEF EnqueueNotify, NotifyOneSleeper
    <3>2. w \notin Awake /\ Awake' = Awake \cup {w} /\ Asleep' \subseteq Asleep
      BY <3>1, <1>t DEF Awake, Asleep, Sleepers
    <3>3. coming' = coming + 1
      BY <3>2, <1>c, FS_AddElement
    <3> QED
      BY <3>2, <3>3, <2>1, <2>2, <1>c, <1>t DEF NoLostWakeup
  <2> QED
    BY <2>3, <2>4
<1>10. CASE NotifyAll
  <2>1. \A w \in Workers : wpc'[w] \notin {"wait", "block"}
    BY <1>10, <1>t DEF NotifyAll, NotifyAllSleepers, Sleepers, LockInv, BlockJustified,
                       StopPhase
  <2> QED
    BY <2>1, <1>0 DEF Asleep
<1>11. CASE BeginDestroy \/ DestroyLock \/ SetStop \/ JoinWorkers \/ UNCHANGED vars
  BY <1>11 DEF BeginDestroy, DestroyLock, SetStop, JoinWorkers, vars, NoLostWakeup,
               Notifiers, Awake, Asleep
<1> QED
  BY <1>2, <1>3, <1>4, <1>5, <1>6, <1>7, <1>8, <1>9, <1>10, <1>11
     DEF Next, WorkerStep, EnqueueStep, DestroyStep, Destroyed
(* The initial state satisfies the invariant of the wakeups.               *)
LEMMA InitWakeup == Init => WakeupInv
<1> SUFFICES ASSUME Init PROVE WakeupInv
  OBVIOUS
<1>1. StopPhase /\ Asleep = {}
  BY DEF Init, StopPhase, Asleep
<1> QED
  BY <1>1, InitLockInv DEF WakeupInv, StopReachesSleepers, NoLostWakeup

(* The invariant of the wakeups holds in every reachable state.            *)
THEOREM WakeupInvHolds == Spec => []WakeupInv
<1>1. WakeupInv /\ [Next]_vars => WakeupInv'
  BY NextTypeOK, NextMutualExclusion, NextScopeFacts, NextStopPhase, NextStopReaches,
     NextNoLostWakeup DEF WakeupInv, LockInv
<1> QED
  BY InitWakeup, <1>1, PTL DEF Spec

(* While a worker sleeps, every queued task has a notification to come or  *)
(* a worker on its way, for any number of threads.                         *)
THEOREM WakeupsAreNotLost == Spec => []NoLostWakeup
<1>1. WakeupInv => NoLostWakeup
  BY DEF WakeupInv
<1> QED
  BY WakeupInvHolds, <1>1, PTL

(* Nobody sleeps through the destructor's notify_all().                    *)
THEOREM StopIsNoticed == Spec => []StopReachesSleepers
<1>1. WakeupInv => StopReachesSleepers
  BY DEF WakeupInv
<1> QED
  BY WakeupInvHolds, <1>1, PTL

-----------------------------------------------------------------------------
(* The destructor drains: what it promises is inductive once stop and the  *)
(* end of all calls of enqueue() are known to come before the joins.       *)
DrainInv == WakeupInv /\ DestructorDrains

(* Every step keeps the drain: a worker ends only when there is nothing    *)
(* left, and then nobody can enqueue any more.                             *)
LEMMA NextDrains == DrainInv /\ [Next]_vars => DestructorDrains'
<1> SUFFICES ASSUME DrainInv, [Next]_vars PROVE DestructorDrains'
  OBVIOUS
<1> DEFINE Ended == (\E w \in Workers : wpc[w] = "exited") => stop /\ tasks = <<>>
           Drained == opc = "destroyed" =>
                        Accepted = finished /\ \A w \in Workers : wpc[w] = "exited"
<1>t. /\ wpc \in [Workers -> WorkerPC] /\ ppc \in [Producers -> ProducerPC]
      /\ tasks \in Seq(Tasks) /\ StopPhase /\ Ended /\ Drained /\ PopFindsTask
      /\ Workers # {}
  BY ThreadAssumption DEF DrainInv, WakeupInv, LockInv, TypeOK, DestructorDrains
<1>1. Ended'
  <2>1. ASSUME NEW w \in Workers, WorkerStep(w) \/ SpuriousWakeup(w) \/ Spawn(w)
        PROVE  Ended'
    BY <2>1, <1>t DEF WorkerStep, WorkerLock, PredicateFalse, Block, SpuriousWakeup,
                WorkerExit, WorkerProceed, Pop, FinishTask, Spawn, PopFindsTask
  <2>2. ASSUME NEW p \in Producers, EnqueueStep(p) \/ \E t \in Tasks : EnqueueCall(p, t)
        PROVE  Ended'
    BY <2>2, <1>t DEF EnqueueStep, EnqueueCall, EnqueueLock, EnqueueReject, EnqueueRoom,
                EnqueuePush, EnqueueNotify, NotifyOneSleeper, Sleepers, StopPhase
  <2>3. CASE BeginDestroy \/ DestroyStep
    BY <2>3, <1>t DEF BeginDestroy, DestroyStep, DestroyLock, SetStop, NotifyAll,
                JoinWorkers, NotifyAllSleepers, Sleepers
  <2>4. CASE UNCHANGED vars
    BY <2>4, <1>t DEF vars
  <2> QED
    BY <2>1, <2>2, <2>3, <2>4 DEF Next, Destroyed
<1>2. Drained'
  <2>1. CASE opc = "destroyed"
    <3>1. /\ \A w \in Workers : wpc[w] = "exited"
          /\ \A p \in Producers : ppc[p] = "idle"
      BY <2>1, <1>t DEF StopPhase
    <3>2. UNCHANGED vars
      BY <2>1, <3>1 DEF Next, WorkerStep, WorkerLock, PredicateFalse, Block,
           SpuriousWakeup, WorkerExit, WorkerProceed, Pop, FinishTask, Spawn,
           EnqueueStep, EnqueueCall, EnqueueLock, EnqueueReject, EnqueueRoom,
           EnqueuePush, EnqueueNotify, BeginDestroy, DestroyStep, DestroyLock, SetStop,
           NotifyAll, JoinWorkers, Destroyed
    <3> QED
      BY <3>2, <1>t DEF vars, Accepted, Queued, Running
  <2>2. CASE JoinWorkers
    <3>1. (\A w \in Workers : wpc[w] = "exited") /\ tasks = <<>>
      BY <2>2, <1>t DEF JoinWorkers
    <3>2. Queued = {} /\ Running = {}
      BY <3>1 DEF Queued, Running, Range
    <3> QED
      BY <2>2, <3>1, <3>2 DEF JoinWorkers, Accepted, Queued, Running
  <2>3. CASE opc # "destroyed" /\ ~JoinWorkers
    <3>1. opc' # "destroyed"
      BY <2>3 DEF Next, WorkerStep, WorkerLock, PredicateFalse, Block,
           SpuriousWakeup, WorkerExit, WorkerProceed, Pop, FinishTask, Spawn,
           EnqueueStep, EnqueueCall, EnqueueLock, EnqueueReject, EnqueueRoom,
           EnqueuePush, EnqueueNotify, BeginDestroy, DestroyStep, DestroyLock, SetStop,
           NotifyAll, Destroyed, vars
    <3> QED
      BY <3>1
  <2> QED
    BY <2>1, <2>2, <2>3
<1> QED
  BY <1>1, <1>2 DEF DestructorDrains

(* When the destructor has returned, every accepted task has been run and  *)
(* every worker has ended.                                                 *)
THEOREM DestructorIsComplete == Spec => []DestructorDrains
<1>1. Init => DestructorDrains
  BY DEF Init, DestructorDrains
<1>2. WakeupInv /\ DestructorDrains /\ [Next]_vars => DestructorDrains'
  BY NextDrains DEF DrainInv
<1> QED
  BY WakeupInvHolds, <1>1, <1>2, PTL DEF Spec

-----------------------------------------------------------------------------
(* The threaded pool implements the abstract one: every task is in one     *)
(* place only, what was accepted is never dropped, and every step of a     *)
(* thread is a step of TaskPool or none.                                   *)
(*                                                                         *)
(* The abstract pool starts the oldest task when fewer tasks run than      *)
(* there are workers, and refuses a task it does not know when the queue   *)
(* is full.  That the worker's pop and the producer's refusal are such     *)
(* steps needs the locking invariant (the queue is what the thread saw)    *)
(* and ExactlyOnce (the sets of the abstract pool are disjoint).           *)

(* Appending a task puts it in the queue, once if it was not there.        *)
LEMMA AppendPlaces ==
  ASSUME NEW s \in Seq(Tasks), NEW t \in Tasks
  PROVE  /\ Range(Append(s, t)) = Range(s) \cup {t}
         /\ IsInjective(s) /\ t \notin Range(s) => IsInjective(Append(s, t))
<1> DEFINE r == Append(s, t)
<1>1. /\ Len(s) \in Nat /\ DOMAIN s = 1..Len(s) /\ DOMAIN r = 1..(Len(s) + 1)
      /\ \A i \in 1..Len(s) : r[i] = s[i]
      /\ r[Len(s) + 1] = t
  BY AppendProperties, LenProperties
<1> HIDE DEF r
<1>2. Range(r) = Range(s) \cup {t}
  <2>1. \A i \in DOMAIN r : r[i] \in Range(s) \cup {t}
    BY <1>1 DEF Range
  <2>2. \A x \in Range(s) : \E i \in DOMAIN r : x = r[i]
    BY <1>1 DEF Range
  <2>3. t \in Range(r)
    BY <1>1 DEF Range
  <2> QED
    BY <2>1, <2>2, <2>3 DEF Range
<1>3. ASSUME IsInjective(s), t \notin Range(s) PROVE IsInjective(r)
  BY <1>1, <1>3 DEF IsInjective, Range
<1> QED
  BY <1>2, <1>3 DEF r

(* Taking the head of a queue without repetition takes that task out.      *)
LEMMA TailPlaces ==
  ASSUME NEW s \in Seq(Tasks), s # <<>>
  PROVE  /\ Range(s) = Range(Tail(s)) \cup {Head(s)}
         /\ IsInjective(s) => IsInjective(Tail(s)) /\ Head(s) \notin Range(Tail(s))
<1> DEFINE r == Tail(s)
<1>1. /\ Len(s) \in Nat \ {0} /\ DOMAIN s = 1..Len(s) /\ DOMAIN r = 1..(Len(s) - 1)
      /\ \A i \in 1..(Len(s) - 1) : r[i] = s[i + 1]
      /\ Head(s) = s[1]
  BY HeadTailProperties, LenProperties, EmptySeq
<1> HIDE DEF r
<1>2. Range(s) = Range(r) \cup {Head(s)}
  <2>1. \A i \in DOMAIN s : s[i] = Head(s) \/ \E j \in DOMAIN r : s[i] = r[j]
    <3> TAKE i \in DOMAIN s
    <3>1. i = 1 \/ (i - 1 \in 1..(Len(s) - 1) /\ s[i] = r[i - 1])
      BY <1>1
    <3> QED
      BY <1>1, <3>1
  <2>2. \A j \in DOMAIN r : \E i \in DOMAIN s : r[j] = s[i]
    <3> TAKE j \in DOMAIN r
    <3>1. j + 1 \in DOMAIN s /\ r[j] = s[j + 1]
      BY <1>1
    <3> QED
      BY <3>1
  <2>3. Head(s) \in Range(s)
    BY <1>1 DEF Range
  <2> QED
    BY <2>1, <2>2, <2>3 DEF Range
<1>3. ASSUME IsInjective(s) PROVE IsInjective(r) /\ Head(s) \notin Range(r)
  <2>1. \A a, b \in DOMAIN r : r[a] = r[b] => a = b
    <3> SUFFICES ASSUME NEW a \in DOMAIN r, NEW b \in DOMAIN r, r[a] = r[b]
                 PROVE  a = b
      OBVIOUS
    <3>1. a + 1 \in DOMAIN s /\ b + 1 \in DOMAIN s /\ s[a + 1] = s[b + 1]
      BY <1>1
    <3>2. a + 1 = b + 1
      BY <1>3, <3>1 DEF IsInjective
    <3> QED
      BY <1>1, <3>2
  <2>2. \A j \in DOMAIN r : r[j] # Head(s)
    <3> SUFFICES ASSUME NEW j \in DOMAIN r, r[j] = Head(s) PROVE FALSE
      OBVIOUS
    <3>1. j + 1 \in DOMAIN s /\ 1 \in DOMAIN s /\ s[j + 1] = s[1]
      BY <1>1
    <3>2. j + 1 = 1
      BY <1>3, <3>1 DEF IsInjective
    <3> QED
      BY <1>1, <3>2
  <2> QED
    BY <2>1, <2>2 DEF IsInjective, Range
<1> QED
  BY <1>2, <1>3 DEF r

-----------------------------------------------------------------------------
(* Where the tasks are: the steps seen as moves of one task between the    *)
(* queue, the workers, the calls of enqueue() and the outcomes.            *)

OnceInv == WakeupInv /\ ExactlyOnce

(* A worker or a producer holds a task exactly where its counter says.     *)
LEMMA Holders ==
  ASSUME OnceInv
  PROVE  /\ tasks \in Seq(Tasks) /\ finished \subseteq Tasks /\ rejected \subseteq Tasks
         /\ wpc \in [Workers -> WorkerPC] /\ wtask \in [Workers -> Tasks \cup {NoTask}]
         /\ ppc \in [Producers -> ProducerPC]
         /\ ptask \in [Producers -> Tasks \cup {NoTask}]
         /\ \A w \in Workers : wpc[w] = "run" <=> wtask[w] # NoTask
         /\ \A p \in Producers : ppc[p] \in {"lock", "check", "push"} <=> ptask[p] # NoTask
         /\ NoTask \notin Tasks
         /\ Running \subseteq Tasks /\ Offered \subseteq Tasks
         /\ Running = {wtask[w] : w \in {v \in Workers : wtask[v] # NoTask}}
         /\ Offered = {ptask[p] : p \in {q \in Producers : ptask[q] # NoTask}}
<1> USE DEF OnceInv, WakeupInv, LockInv, TypeOK
<1>1. /\ \A w \in Workers : wpc[w] = "run" <=> wtask[w] # NoTask
      /\ \A p \in Producers : ppc[p] \in {"lock", "check", "push"} <=> ptask[p] # NoTask
  OBVIOUS
<1>2. /\ {v \in Workers : wpc[v] = "run"} = {v \in Workers : wtask[v] # NoTask}
      /\ {q \in Producers : ppc[q] \in {"lock", "check", "push"}}
           = {q \in Producers : ptask[q] # NoTask}
  BY <1>1
<1>3. /\ Running = {wtask[w] : w \in {v \in Workers : wtask[v] # NoTask}}
      /\ Offered = {ptask[p] : p \in {q \in Producers : ptask[q] # NoTask}}
  BY <1>2 DEF Running, Offered
<1> QED
  BY <1>1, <1>3, TaskAssumption

(* A worker takes the oldest task: it leaves the queue and starts to run.  *)
LEMMA PopMoves ==
  ASSUME OnceInv, NEW w \in Workers, Pop(w)
  PROVE  /\ tasks # <<>> /\ Head(tasks) \in Tasks
         /\ Queued = Queued' \cup {Head(tasks)} /\ Head(tasks) \notin Queued'
         /\ Running' = Running \cup {Head(tasks)}
         /\ IsInjective(tasks')
<1>1. tasks # <<>> /\ wtask[w] = NoTask
  BY Holders DEF Pop, OnceInv, WakeupInv, LockInv, PopFindsTask
<1>2. /\ Head(tasks) \in Tasks
      /\ wtask' = [wtask EXCEPT ![w] = Head(tasks)] /\ wpc' = [wpc EXCEPT ![w] = "run"]
      /\ tasks' = Tail(tasks)
  BY <1>1, Holders, HeadTailProperties DEF Pop
<1>3. Running' = Running \cup {Head(tasks)}
  BY <1>1, <1>2, Holders DEF Running
<1> QED
  BY <1>1, <1>2, <1>3, Holders, TailPlaces DEF Queued, OnceInv, ExactlyOnce

(* A task that returns leaves the running ones and is finished.            *)
LEMMA FinishMoves ==
  ASSUME OnceInv, NEW w \in Workers, FinishTask(w)
  PROVE  /\ wtask[w] \in Running /\ wtask[w] \in Tasks
         /\ Running' = Running \ {wtask[w]}
         /\ finished' = finished \cup {wtask[w]}
<1>1. wtask[w] \in Running /\ wtask[w] \in Tasks
  BY Holders DEF FinishTask, Running
<1>2. \A v \in Workers : wtask[v] = wtask[w] => v = w
  BY <1>1, Holders DEF OnceInv, ExactlyOnce
<1>3. Running' = Running \ {wtask[w]}
  BY <1>1, <1>2, Holders DEF FinishTask, Running
<1> QED
  BY <1>1, <1>3 DEF FinishTask

(* A call of enqueue() that is over has no task any more.                  *)
LEMMA OfferEnds ==
  ASSUME OnceInv, NEW p \in Producers, ptask[p] # NoTask,
         ptask' = [ptask EXCEPT ![p] = NoTask],
         ppc' = [ppc EXCEPT ![p] = ppc'[p]], ppc'[p] \in {"idle", "notify"}
  PROVE  Offered' = Offered \ {ptask[p]} /\ ptask[p] \in Offered /\ ptask[p] \in Tasks
<1>1. \A q \in Producers : ptask[q] = ptask[p] => q = p
  BY Holders DEF OnceInv, ExactlyOnce
<1> QED
  BY <1>1, Holders DEF Offered

(* The steps that move no task at all.                                     *)
Idle ==
  \/ \E w \in Workers : \/ WorkerLock(w) \/ PredicateFalse(w) \/ Block(w)
                         \/ WorkerExit(w) \/ WorkerProceed(w) \/ SpuriousWakeup(w)
                         \/ Spawn(w)
  \/ \E p \in Producers : EnqueueLock(p) \/ EnqueueRoom(p) \/ EnqueueNotify(p)
  \/ BeginDestroy \/ DestroyStep \/ UNCHANGED vars

(* Those steps leave every task where it is.                               *)
LEMMA IdleMovesNothing ==
  ASSUME OnceInv, Idle
  PROVE  /\ UNCHANGED <<tasks, wtask, ptask, finished, rejected>>
         /\ Running' = Running /\ Offered' = Offered
<1>1. UNCHANGED <<tasks, wtask, ptask, finished, rejected>>
  BY DEF Idle, WorkerLock, PredicateFalse, Block, WorkerExit, WorkerProceed,
         SpuriousWakeup, Spawn, EnqueueLock, EnqueueRoom, EnqueueNotify, BeginDestroy,
         DestroyStep, DestroyLock, SetStop, NotifyAll, JoinWorkers, vars
<1>2. \A w \in Workers : wpc'[w] = "run" <=> wpc[w] = "run"
  BY Holders DEF Idle, WorkerLock, PredicateFalse, Block, WorkerExit, WorkerProceed,
         SpuriousWakeup, Spawn, EnqueueLock, EnqueueRoom, EnqueueNotify,
         NotifyOneSleeper, BeginDestroy, DestroyStep, DestroyLock, SetStop, NotifyAll,
         NotifyAllSleepers, Sleepers, JoinWorkers, vars
<1>3. \A p \in Producers :
        ppc'[p] \in {"lock", "check", "push"} <=> ppc[p] \in {"lock", "check", "push"}
  BY Holders DEF Idle, WorkerLock, PredicateFalse, Block, WorkerExit, WorkerProceed,
         SpuriousWakeup, Spawn, EnqueueLock, EnqueueRoom, EnqueueNotify, BeginDestroy,
         DestroyStep, DestroyLock, SetStop, NotifyAll, JoinWorkers, vars
<1> QED
  BY <1>1, <1>2, <1>3 DEF Running, Offered

(* Every step is one of the moves.                                         *)
LEMMA StepMoves ==
  ASSUME [Next]_vars
  PROVE  \/ Idle
         \/ \E w \in Workers : Pop(w) \/ FinishTask(w)
         \/ \E p \in Producers : \/ EnqueueReject(p) \/ EnqueuePush(p)
                                \/ \E t \in Tasks : EnqueueCall(p, t)
  BY DEF Next, WorkerStep, EnqueueStep, Destroyed, Idle

(* Every step keeps every task in one place only.                          *)
LEMMA NextExactlyOnce ==
  ASSUME OnceInv, [Next]_vars
  PROVE  ExactlyOnce' /\ Accepted \subseteq Accepted' /\ rejected \subseteq rejected'
<1> DEFINE Goal == ExactlyOnce' /\ Accepted \subseteq Accepted' /\ rejected \subseteq rejected'
<1>e. ExactlyOnce
  BY DEF OnceInv
<1>1. CASE Idle
  BY <1>1, <1>e, IdleMovesNothing DEF ExactlyOnce, Accepted, Queued
<1>2. ASSUME NEW w \in Workers, Pop(w) PROVE Goal
  <2>1. /\ wtask' = [wtask EXCEPT ![w] = Head(tasks)]
        /\ UNCHANGED <<ppc, ptask, finished, rejected>>
    BY <1>2 DEF Pop
  <2>2. Head(tasks) \in Queued /\ Head(tasks) \notin Running
    BY <1>2, <1>e, PopMoves DEF ExactlyOnce
  <2>3. \A v \in Workers : wtask[v] # Head(tasks)
    BY <1>2, <2>2, PopMoves, Holders DEF Running
  <2>4. \A u, v \in Workers : wtask'[u] = wtask'[v] /\ wtask'[u] # NoTask => u = v
    BY <2>1, <2>3, <1>e, Holders DEF ExactlyOnce
  <2>5. Offered' = Offered /\ Accepted' = Accepted
    BY <1>2, <2>1, PopMoves DEF Offered, Accepted
  <2> QED
    BY <1>2, <1>e, <2>1, <2>2, <2>4, <2>5, PopMoves DEF ExactlyOnce
<1>3. ASSUME NEW w \in Workers, FinishTask(w) PROVE Goal
  <2>1. /\ wtask' = [wtask EXCEPT ![w] = NoTask]
        /\ UNCHANGED <<tasks, ppc, ptask, rejected>>
    BY <1>3 DEF FinishTask
  <2>2. Offered' = Offered /\ Queued' = Queued /\ Accepted' = Accepted
    BY <1>3, <2>1, FinishMoves DEF Offered, Accepted, Queued
  <2>3. \A u, v \in Workers : wtask'[u] = wtask'[v] /\ wtask'[u] # NoTask => u = v
    BY <2>1, <1>e, Holders DEF ExactlyOnce
  <2> QED
    BY <1>3, <1>e, <2>1, <2>2, <2>3, FinishMoves DEF ExactlyOnce
<1>4. ASSUME NEW p \in Producers, NEW t \in Tasks, EnqueueCall(p, t) PROVE Goal
  <2>1. /\ ptask' = [ptask EXCEPT ![p] = t] /\ ppc' = [ppc EXCEPT ![p] = "lock"]
        /\ UNCHANGED <<tasks, wpc, wtask, finished, rejected>>
        /\ ppc[p] = "idle" /\ t \notin Accepted \cup Offered \cup rejected
    BY <1>4 DEF EnqueueCall, Fresh
  <2>2. Queued' = Queued /\ Running' = Running /\ Accepted' = Accepted
    BY <2>1 DEF Queued, Running, Accepted
  <2>3. Offered' = Offered \cup {t}
    BY <2>1, Holders DEF Offered
  <2>4. \A q \in Producers : ptask[q] # t
    BY <2>1, Holders
  <2>5. \A q, r \in Producers : ptask'[q] = ptask'[r] /\ ptask'[q] # NoTask => q = r
    BY <2>1, <2>4, <1>e, Holders DEF ExactlyOnce
  <2> QED
    BY <1>e, <2>1, <2>2, <2>3, <2>5 DEF ExactlyOnce
<1>5. ASSUME NEW p \in Producers, EnqueueReject(p) PROVE Goal
  <2>1. /\ ptask' = [ptask EXCEPT ![p] = NoTask] /\ ppc' = [ppc EXCEPT ![p] = "idle"]
        /\ rejected' = rejected \cup {ptask[p]} /\ ptask[p] # NoTask
        /\ UNCHANGED <<tasks, wpc, wtask, finished>>
    BY <1>5, Holders DEF EnqueueReject
  <2>2. Offered' = Offered \ {ptask[p]} /\ ptask[p] \in Offered
    BY <2>1, OfferEnds, Holders
  <2>3. Queued' = Queued /\ Running' = Running /\ Accepted' = Accepted
    BY <2>1 DEF Queued, Running, Accepted
  <2>4. \A q, r \in Producers : ptask'[q] = ptask'[r] /\ ptask'[q] # NoTask => q = r
    BY <2>1, <1>e, Holders DEF ExactlyOnce
  <2> QED
    BY <1>e, <2>1, <2>2, <2>3, <2>4 DEF ExactlyOnce
<1>6. ASSUME NEW p \in Producers, EnqueuePush(p) PROVE Goal
  <2>1. /\ ptask' = [ptask EXCEPT ![p] = NoTask] /\ ppc' = [ppc EXCEPT ![p] = "notify"]
        /\ tasks' = Append(tasks, ptask[p]) /\ ptask[p] # NoTask
        /\ UNCHANGED <<wpc, wtask, finished, rejected>>
    BY <1>6, Holders DEF EnqueuePush
  <2>2. Offered' = Offered \ {ptask[p]} /\ ptask[p] \in Offered /\ ptask[p] \in Tasks
    BY <2>1, OfferEnds, Holders
  <2>3. ptask[p] \notin Accepted /\ ptask[p] \notin rejected
    BY <2>2, <1>e DEF ExactlyOnce
  <2>4. Queued' = Queued \cup {ptask[p]} /\ IsInjective(tasks')
    BY <2>1, <2>2, <2>3, <1>e, Holders, AppendPlaces DEF Queued, Accepted, ExactlyOnce
  <2>5. Running' = Running /\ Accepted' = Accepted \cup {ptask[p]}
    BY <2>1, <2>4 DEF Running, Accepted
  <2>6. \A q, r \in Producers : ptask'[q] = ptask'[r] /\ ptask'[q] # NoTask => q = r
    BY <2>1, <1>e, Holders DEF ExactlyOnce
  <2> QED
    BY <1>e, <2>1, <2>2, <2>3, <2>4, <2>5, <2>6 DEF ExactlyOnce, Accepted
<1> QED
  BY <1>1, <1>2, <1>3, <1>4, <1>5, <1>6, StepMoves

(* Initially there is no task anywhere.                                    *)
LEMMA InitExactlyOnce == Init => ExactlyOnce
<1> SUFFICES ASSUME Init PROVE ExactlyOnce
  OBVIOUS
<1>1. Queued = {} /\ Running = {} /\ Offered = {} /\ IsInjective(tasks)
  BY DEF Init, Queued, Running, Offered, Range, IsInjective
<1> QED
  BY <1>1 DEF Init, ExactlyOnce, Accepted

(* Every task is in one place only: it is run once, by one worker, and     *)
(* never both accepted and refused.                                        *)
THEOREM TasksRunOnce == Spec => []ExactlyOnce
<1>1. WakeupInv /\ ExactlyOnce /\ [Next]_vars => ExactlyOnce'
  BY NextExactlyOnce DEF OnceInv
<1> QED
  BY WakeupInvHolds, InitExactlyOnce, <1>1, PTL DEF Spec

(* No step drops an accepted task or takes a refusal back.                 *)
THEOREM AcceptedIsKept == Spec => AcceptedStays
<1>1. WakeupInv /\ ExactlyOnce /\ [Next]_vars
        => [Accepted \subseteq Accepted' /\ rejected \subseteq rejected']_vars
  BY NextExactlyOnce DEF OnceInv
<1> QED
  BY WakeupInvHolds, TasksRunOnce, <1>1, PTL DEF Spec, AcceptedStays

-----------------------------------------------------------------------------
(* The refinement.                                                         *)

(* The workers that run a task are fewer than the workers when one of them *)
(* is about to take one.                                                   *)
LEMMA RoomToRun ==
  ASSUME OnceInv, NEW w \in Workers, wpc[w] # "run"
  PROVE  Cardinality(Running) < Cardinality(Workers)
<1> DEFINE busy == {v \in Workers : wtask[v] # NoTask}
           holds == [v \in busy |-> wtask[v]]
<1>1. busy \subseteq Workers \ {w}
  BY Holders
<1>2. /\ IsFiniteSet(Workers \ {w}) /\ Cardinality(Workers) \in Nat
      /\ Cardinality(Workers \ {w}) = Cardinality(Workers) - 1
  BY ThreadAssumption, FS_RemoveElement, FS_CardinalityType
<1>3. /\ IsFiniteSet(busy) /\ Cardinality(busy) <= Cardinality(Workers \ {w})
      /\ Cardinality(busy) \in Nat
  BY <1>1, <1>2, FS_Subset, FS_CardinalityType
<1>4. Running = {wtask[v] : v \in busy}
  BY Holders
<1>5. holds \in Surjection(busy, Running)
  BY <1>4 DEF Surjection
<1>6. Cardinality(Running) <= Cardinality(busy) /\ Cardinality(Running) \in Nat
  BY <1>3, <1>5, FS_Surjection, FS_CardinalityType
<1> QED
  BY <1>2, <1>3, <1>6

(* When the destructor has joined every worker nothing is queued or runs.  *)
LEMMA DrainedAtJoin ==
  ASSUME DestructorDrains, JoinWorkers
  PROVE  tasks = <<>> /\ Running = {}
  BY ThreadAssumption DEF DestructorDrains, JoinWorkers, Running

(* The abstract pool's instances of the library's operators are those.     *)
LEMMA SameOperators ==
  /\ \A S : Abstract!Cardinality(S) = Cardinality(S)
  /\ \A f : Abstract!Range(f) = Range(f)
<1>1. ASSUME NEW S PROVE Abstract!Cardinality(S) = Cardinality(S)
  BY DEF Abstract!Cardinality, Cardinality
<1>2. ASSUME NEW f PROVE Abstract!Range(f) = Range(f)
  BY DEF Abstract!Range, Range
<1> QED
  BY <1>1, <1>2

(* The initial states are initial states of the abstract pool.             *)
LEMMA InitAbstract == Init => Abstract!Init
<1> SUFFICES ASSUME Init PROVE Abstract!Init
  OBVIOUS
<1>1. Running = {}
  BY DEF Init, Running
<1> QED
  BY <1>1 DEF Init, Abstract!Init, Phase

(* Every step of the threads is a step of the abstract pool or none.       *)
LEMMA StepAbstract ==
  ASSUME OnceInv, DestructorDrains, [Next]_vars
  PROVE  [Abstract!Next]_(Abstract!vars)
<1> DEFINE Goal == Abstract!Next \/ UNCHANGED <<tasks, Running, finished, rejected, Phase>>
<1>p. StopPhase /\ opc \in OwnerPC /\ ExactlyOnce
  BY DEF OnceInv, WakeupInv, LockInv, TypeOK
<1>1. ASSUME Idle PROVE Goal
  <2>1. UNCHANGED <<tasks, Running, finished, rejected>>
    BY <1>1, IdleMovesNothing
  <2>2. CASE SetStop
    <3>1. Phase = "open" /\ Phase' = "closing"
      BY <2>2 DEF SetStop, Phase
    <3>2. Abstract!Shutdown
      BY <2>1, <3>1 DEF Abstract!Shutdown
    <3> QED
      BY <3>2 DEF Abstract!Next
  <2>3. CASE JoinWorkers
    <3>1. Phase = "closing" /\ Phase' = "closed"
      BY <2>3 DEF JoinWorkers, Phase
    <3>2. tasks = <<>> /\ Running = {}
      BY <2>3, DrainedAtJoin
    <3>3. Abstract!Close
      BY <2>1, <3>1, <3>2 DEF Abstract!Close
    <3> QED
      BY <3>3 DEF Abstract!Next
  <2>4. CASE ~SetStop /\ ~JoinWorkers
    <3>1. Phase' = Phase
      BY <1>1, <2>4 DEF Idle, WorkerLock, PredicateFalse, Block, WorkerExit, WorkerProceed,
         SpuriousWakeup, Spawn, EnqueueLock, EnqueueRoom, EnqueueNotify, BeginDestroy,
         DestroyStep, DestroyLock, NotifyAll, vars, Phase
    <3> QED
      BY <2>1, <3>1
  <2> QED
    BY <2>2, <2>3, <2>4
<1>2. ASSUME NEW w \in Workers, Pop(w) PROVE Goal
  <2>1. Cardinality(Running) < Cardinality(Workers)
    BY <1>2, RoomToRun DEF Pop
  <2>2. /\ tasks' = Tail(tasks)
        /\ UNCHANGED <<finished, rejected>> /\ Phase' = Phase
    BY <1>2 DEF Pop, Phase
  <2>3. Abstract!Start
    BY <1>2, <2>1, <2>2, PopMoves, SameOperators DEF Abstract!Start
  <2> QED
    BY <2>3 DEF Abstract!Next
<1>3. ASSUME NEW w \in Workers, FinishTask(w) PROVE Goal
  <2>1. UNCHANGED <<tasks, rejected>> /\ Phase' = Phase
    BY <1>3 DEF FinishTask, Phase
  <2>2. wtask[w] \in Tasks /\ Abstract!Finish(wtask[w])
    BY <1>3, <2>1, FinishMoves DEF Abstract!Finish
  <2> QED
    BY <2>2 DEF Abstract!Next
<1>4. ASSUME NEW p \in Producers, NEW t \in Tasks, EnqueueCall(p, t) PROVE Goal
  BY <1>4 DEF EnqueueCall, Running, Phase
<1>5. ASSUME NEW p \in Producers, EnqueueReject(p) PROVE Goal
  <2>1. /\ rejected' = rejected \cup {ptask[p]} /\ ptask[p] \in Offered /\ ptask[p] \in Tasks
        /\ UNCHANGED <<tasks, finished>> /\ Running' = Running /\ Phase' = Phase
    BY <1>5, Holders DEF EnqueueReject, Running, Phase, Offered
  <2>2. Len(tasks) = MaxQueueSize
    BY <1>5, Holders, LenProperties, TaskAssumption
       DEF EnqueueReject, OnceInv, WakeupInv, LockInv, QueueBound
  <2>3. Phase = "open"
    BY <1>5, <1>p DEF EnqueueReject, StopPhase, Phase
  <2>4. ptask[p] \notin Range(tasks) \cup Running \cup finished \cup rejected
    BY <2>1, <1>p DEF ExactlyOnce, Accepted, Queued
  <2>5. Abstract!Refuse(ptask[p])
    BY <2>1, <2>2, <2>3, <2>4, SameOperators DEF Abstract!Refuse, Abstract!Unknown
  <2> QED
    BY <2>1, <2>5 DEF Abstract!Next
<1>6. ASSUME NEW p \in Producers, EnqueuePush(p) PROVE Goal
  <2>1. /\ tasks' = Append(tasks, ptask[p]) /\ ptask[p] \in Offered /\ ptask[p] \in Tasks
        /\ UNCHANGED <<finished, rejected>> /\ Running' = Running /\ Phase' = Phase
    BY <1>6, Holders DEF EnqueuePush, Running, Phase, Offered
  <2>2. Len(tasks) < MaxQueueSize
    BY <1>6 DEF EnqueuePush, OnceInv, WakeupInv, LockInv, QueueBound
  <2>3. Phase = "open"
    BY <1>6, <1>p DEF EnqueuePush, StopPhase, Phase
  <2>4. ptask[p] \notin Range(tasks) \cup Running \cup finished \cup rejected
    BY <2>1, <1>p DEF ExactlyOnce, Accepted, Queued
  <2>5. Abstract!Accept(ptask[p])
    BY <2>1, <2>2, <2>3, <2>4, SameOperators DEF Abstract!Accept, Abstract!Unknown
  <2> QED
    BY <2>1, <2>5 DEF Abstract!Next
<1> QED
  BY <1>1, <1>2, <1>3, <1>4, <1>5, <1>6, StepMoves DEF Abstract!vars

(* The threaded pool implements the abstract bounded FIFO pool.            *)
THEOREM PoolRefines == Spec => ImplementsTaskPool
<1>1. WakeupInv /\ ExactlyOnce /\ DestructorDrains /\ [Next]_vars
        => [Abstract!Next]_(Abstract!vars)
  BY StepAbstract DEF OnceInv
<1> QED
  BY WakeupInvHolds, TasksRunOnce, DestructorIsComplete, InitAbstract, <1>1, PTL
     DEF Spec, ImplementsTaskPool, Abstract!Spec
=============================================================================
