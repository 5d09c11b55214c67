------------------------------ MODULE ThreadPool ------------------------------
(***************************************************************************)
(* The class ThreadPool of src/Version1/src/Server.cpp (Version_2 holds    *)
(* the same file): a bounded FIFO queue of tasks under one mutex, one      *)
(* condition variable, worker threads that drain the queue, enqueue(),     *)
(* which refuses when the queue is full, and a destructor that stops the   *)
(* pool and joins the workers.                                             *)
(*                                                                         *)
(* A step is what a thread does between two points at which another thread *)
(* can observe it: taking the mutex, evaluating a condition under it,      *)
(* changing the queue or the stop flag, blocking on the condition          *)
(* variable, notifying, joining.  A thread blocked in condition.wait() is  *)
(* at "wait"; notifying it, or a spurious wakeup, sends it back to "lock", *)
(* where it takes the mutex again before it tests the predicate again.     *)
(*                                                                         *)
(* The Owner is the thread that runs the constructor and the destructor,   *)
(* the Producers are the threads that call enqueue().  C++ lets them call  *)
(* it only between the two, which is the guard on opc of EnqueueCall and   *)
(* the guard on ppc of BeginDestroy.                                       *)
(***************************************************************************)
EXTENDS Naturals, Sequences, FiniteSets, Functions

CONSTANTS
  Workers,       \* the threads of the vector workers
  Producers,     \* the threads that call enqueue()
  Owner,         \* the thread that constructs and destroys the pool
  Tasks,         \* the function objects handed to enqueue(), each once
  MaxQueueSize,  \* the limit on the length of the queue
  Nobody,        \* the holder of the mutex when it is free
  NoTask         \* the value of a local variable that holds no task

ASSUME ThreadAssumption ==
  /\ IsFiniteSet(Workers) /\ Workers # {}
  /\ IsFiniteSet(Producers)
  /\ Workers \cap Producers = {}
  /\ Owner \notin Workers \cup Producers
  /\ Nobody \notin Workers \cup Producers \cup {Owner}

ASSUME TaskAssumption == NoTask \notin Tasks /\ MaxQueueSize \in Nat

VARIABLES
  tasks,      \* the queue of accepted tasks, oldest first
  stop,       \* the stop flag
  mutex,      \* the thread that holds queueMutex, or Nobody
  wpc,        \* where each worker is in its loop
  wtask,      \* the local variable task of each worker
  ppc,        \* where each producer is in enqueue()
  ptask,      \* the parameter task of each producer's call
  opc,        \* where the owner is between construction and destruction
  finished,   \* history: the tasks that have been run
  rejected    \* history: the tasks whose enqueue() returned false

vars == <<tasks, stop, mutex, wpc, wtask, ppc, ptask, opc, finished, rejected>>

WorkerPC   == {"unborn", "lock", "test", "block", "wait", "pop", "run", "exited"}
ProducerPC == {"idle", "lock", "check", "push", "notify"}
OwnerPC    == {"construct", "open", "lock", "set_stop", "notify_all", "join",
               "destroyed"}

Threads == Workers \cup Producers \cup {Owner}

Queued  == Range(tasks)
Running == {wtask[w] : w \in {v \in Workers : wpc[v] = "run"}}
Offered == {ptask[p] : p \in {q \in Producers : ppc[q] \in {"lock", "check", "push"}}}

Accepted == Queued \cup Running \cup finished

\* A task no call has submitted yet: tasks stand for distinct function objects.
Fresh(t) == t \notin Accepted \cup Offered \cup rejected

Init ==
  /\ tasks = <<>>
  /\ stop = FALSE
  /\ mutex = Nobody
  /\ wpc = [w \in Workers |-> "unborn"]
  /\ wtask = [w \in Workers |-> NoTask]
  /\ ppc = [p \in Producers |-> "idle"]
  /\ ptask = [p \in Producers |-> NoTask]
  /\ opc = "construct"
  /\ finished = {}
  /\ rejected = {}

-----------------------------------------------------------------------------
(* The mutex and the condition variable of the C++ library.                *)

Acquire(th) == mutex = Nobody /\ mutex' = th
Release(th) == mutex = th /\ mutex' = Nobody

Sleepers == {w \in Workers : wpc[w] = "wait"}

NotifyOneSleeper ==
  IF Sleepers = {}
  THEN wpc' = wpc
  ELSE \E w \in Sleepers : wpc' = [wpc EXCEPT ![w] = "lock"]

NotifyAllSleepers ==
  wpc' = [w \in Workers |-> IF w \in Sleepers THEN "lock" ELSE wpc[w]]

-----------------------------------------------------------------------------
(* The worker's loop.                                                      *)

WorkerLock(w) ==
  /\ wpc[w] = "lock"
  /\ Acquire(w)
  /\ wpc' = [wpc EXCEPT ![w] = "test"]
  /\ UNCHANGED <<tasks, stop, wtask, ppc, ptask, opc, finished, rejected>>

\* The predicate of condition.wait() is false: the worker is going to block.
PredicateFalse(w) ==
  /\ wpc[w] = "test"
  /\ ~stop /\ tasks = <<>>
  /\ wpc' = [wpc EXCEPT ![w] = "block"]
  /\ UNCHANGED <<tasks, stop, mutex, wtask, ppc, ptask, opc, finished, rejected>>

\* Releasing the mutex and going to sleep is one atomic step of wait().
Block(w) ==
  /\ wpc[w] = "block"
  /\ Release(w)
  /\ wpc' = [wpc EXCEPT ![w] = "wait"]
  /\ UNCHANGED <<tasks, stop, wtask, ppc, ptask, opc, finished, rejected>>

SpuriousWakeup(w) ==
  /\ wpc[w] = "wait"
  /\ wpc' = [wpc EXCEPT ![w] = "lock"]
  /\ UNCHANGED <<tasks, stop, mutex, wtask, ppc, ptask, opc, finished, rejected>>

\* Fault: a stopped worker ends without looking at the queue.
WorkerExitsAtOnce(w) ==
  /\ wpc[w] = "test"
  /\ stop
  /\ Release(w)
  /\ wpc' = [wpc EXCEPT ![w] = "exited"]
  /\ UNCHANGED <<tasks, stop, wtask, ppc, ptask, opc, finished, rejected>>

\* wait() returned and the pool is stopped with nothing left: the thread ends.
WorkerExit(w) ==
  /\ wpc[w] = "test"
  /\ stop /\ tasks = <<>>
  /\ Release(w)
  /\ wpc' = [wpc EXCEPT ![w] = "exited"]
  /\ UNCHANGED <<tasks, stop, wtask, ppc, ptask, opc, finished, rejected>>

\* Fault: the predicate is not evaluated again after a wakeup.
ProceedUnchecked(w) ==
  /\ wpc[w] = "test"
  /\ wpc' = [wpc EXCEPT ![w] = "pop"]
  /\ UNCHANGED <<tasks, stop, mutex, wtask, ppc, ptask, opc, finished, rejected>>

WorkerProceed(w) ==
  /\ wpc[w] = "test"
  /\ tasks # <<>>
  /\ wpc' = [wpc EXCEPT ![w] = "pop"]
  /\ UNCHANGED <<tasks, stop, mutex, wtask, ppc, ptask, opc, finished, rejected>>

\* Fault: front() without pop().
PopKeepsFront(w) ==
  /\ wpc[w] = "pop"
  /\ wtask' = [wtask EXCEPT ![w] = Head(tasks)]
  /\ Release(w)
  /\ wpc' = [wpc EXCEPT ![w] = "run"]
  /\ UNCHANGED <<tasks, stop, ppc, ptask, opc, finished, rejected>>

\* Fault: the youngest task is taken.
PopBack(w) ==
  /\ wpc[w] = "pop"
  /\ wtask' = [wtask EXCEPT ![w] = tasks[Len(tasks)]]
  /\ tasks' = SubSeq(tasks, 1, Len(tasks) - 1)
  /\ Release(w)
  /\ wpc' = [wpc EXCEPT ![w] = "run"]
  /\ UNCHANGED <<stop, ppc, ptask, opc, finished, rejected>>

\* The oldest task moves into the local variable and the scope ends.
Pop(w) ==
  /\ wpc[w] = "pop"
  /\ wtask' = [wtask EXCEPT ![w] = Head(tasks)]
  /\ tasks' = Tail(tasks)
  /\ Release(w)
  /\ wpc' = [wpc EXCEPT ![w] = "run"]
  /\ UNCHANGED <<stop, ppc, ptask, opc, finished, rejected>>

\* Fault: the local variable outlives the turn of the loop.
FinishKeepsTask(w) ==
  /\ wpc[w] = "run"
  /\ finished' = finished \cup {wtask[w]}
  /\ wpc' = [wpc EXCEPT ![w] = "lock"]
  /\ UNCHANGED <<tasks, stop, mutex, wtask, ppc, ptask, opc, rejected>>

\* Fault: the worker sleeps before it looks at the queue again.
FinishThenSleep(w) ==
  /\ wpc[w] = "run"
  /\ finished' = finished \cup {wtask[w]}
  /\ wtask' = [wtask EXCEPT ![w] = NoTask]
  /\ wpc' = [wpc EXCEPT ![w] = "wait"]
  /\ UNCHANGED <<tasks, stop, mutex, ppc, ptask, opc, rejected>>

\* task() returns and the local variable goes out of scope.
FinishTask(w) ==
  /\ wpc[w] = "run"
  /\ finished' = finished \cup {wtask[w]}
  /\ wtask' = [wtask EXCEPT ![w] = NoTask]
  /\ wpc' = [wpc EXCEPT ![w] = "lock"]
  /\ UNCHANGED <<tasks, stop, mutex, ppc, ptask, opc, rejected>>

WorkerStep(w) ==
  \/ WorkerLock(w) \/ PredicateFalse(w) \/ Block(w)
  \/ WorkerExit(w) \/ WorkerProceed(w) \/ Pop(w) \/ FinishTask(w)

-----------------------------------------------------------------------------
(* enqueue().                                                              *)

EnqueueCall(p, t) ==
  /\ opc = "open"
  /\ ppc[p] = "idle"
  /\ Fresh(t)
  /\ ppc' = [ppc EXCEPT ![p] = "lock"]
  /\ ptask' = [ptask EXCEPT ![p] = t]
  /\ UNCHANGED <<tasks, stop, mutex, wpc, wtask, opc, finished, rejected>>

EnqueueLock(p) ==
  /\ ppc[p] = "lock"
  /\ Acquire(p)
  /\ ppc' = [ppc EXCEPT ![p] = "check"]
  /\ UNCHANGED <<tasks, stop, wpc, wtask, ptask, opc, finished, rejected>>

\* The queue is full: the scope and the call end, and the result is false.
EnqueueReject(p) ==
  /\ ppc[p] = "check"
  /\ Len(tasks) >= MaxQueueSize
  /\ Release(p)
  /\ ppc' = [ppc EXCEPT ![p] = "idle"]
  /\ rejected' = rejected \cup {ptask[p]}
  /\ ptask' = [ptask EXCEPT ![p] = NoTask]
  /\ UNCHANGED <<tasks, stop, wpc, wtask, opc, finished>>

EnqueueRoom(p) ==
  /\ ppc[p] = "check"
  /\ Len(tasks) < MaxQueueSize
  /\ ppc' = [ppc EXCEPT ![p] = "push"]
  /\ UNCHANGED <<tasks, stop, mutex, wpc, wtask, ptask, opc, finished, rejected>>

\* The task is moved to the back of the queue and the scope of the lock ends.
EnqueuePush(p) ==
  /\ ppc[p] = "push"
  /\ tasks' = Append(tasks, ptask[p])
  /\ ptask' = [ptask EXCEPT ![p] = NoTask]
  /\ Release(p)
  /\ ppc' = [ppc EXCEPT ![p] = "notify"]
  /\ UNCHANGED <<stop, wpc, wtask, opc, finished, rejected>>

\* Fault: notify only when the queue was empty before the push.
NotifyFirstOnly(p) ==
  /\ ppc[p] = "notify"
  /\ IF Len(tasks) = 1 THEN NotifyOneSleeper ELSE wpc' = wpc
  /\ ppc' = [ppc EXCEPT ![p] = "idle"]
  /\ UNCHANGED <<tasks, stop, mutex, wtask, ptask, opc, finished, rejected>>

\* notify_one() without the mutex, and the call returns true.
EnqueueNotify(p) ==
  /\ ppc[p] = "notify"
  /\ NotifyOneSleeper
  /\ ppc' = [ppc EXCEPT ![p] = "idle"]
  /\ UNCHANGED <<tasks, stop, mutex, wtask, ptask, opc, finished, rejected>>

EnqueueStep(p) ==
  \/ EnqueueLock(p) \/ EnqueueReject(p) \/ EnqueueRoom(p)
  \/ EnqueuePush(p) \/ EnqueueNotify(p)

-----------------------------------------------------------------------------
(* The constructor and the destructor.                                     *)

\* One turn of the constructor's loop; its last one ends the constructor.
Spawn(w) ==
  /\ opc = "construct"
  /\ wpc[w] = "unborn"
  /\ wpc' = [wpc EXCEPT ![w] = "lock"]
  /\ opc' = IF \A v \in Workers \ {w} : wpc[v] # "unborn"
            THEN "open" ELSE "construct"
  /\ UNCHANGED <<tasks, stop, mutex, wtask, ppc, ptask, finished, rejected>>

BeginDestroy ==
  /\ opc = "open"
  /\ \A p \in Producers : ppc[p] = "idle"
  /\ opc' = "lock"
  /\ UNCHANGED <<tasks, stop, mutex, wpc, wtask, ppc, ptask, finished, rejected>>

DestroyLock ==
  /\ opc = "lock"
  /\ Acquire(Owner)
  /\ opc' = "set_stop"
  /\ UNCHANGED <<tasks, stop, wpc, wtask, ppc, ptask, finished, rejected>>

SetStop ==
  /\ opc = "set_stop"
  /\ stop' = TRUE
  /\ Release(Owner)
  /\ opc' = "notify_all"
  /\ UNCHANGED <<tasks, wpc, wtask, ppc, ptask, finished, rejected>>

\* Fault: notify_one() in the destructor.
NotifyJustOne ==
  /\ opc = "notify_all"
  /\ NotifyOneSleeper
  /\ opc' = "join"
  /\ UNCHANGED <<tasks, stop, mutex, wtask, ppc, ptask, finished, rejected>>

NotifyAll ==
  /\ opc = "notify_all"
  /\ NotifyAllSleepers
  /\ opc' = "join"
  /\ UNCHANGED <<tasks, stop, mutex, wtask, ppc, ptask, finished, rejected>>

\* The loop of join() calls returns when every worker has ended.
JoinWorkers ==
  /\ opc = "join"
  /\ \A w \in Workers : wpc[w] = "exited"
  /\ opc' = "destroyed"
  /\ UNCHANGED <<tasks, stop, mutex, wpc, wtask, ppc, ptask, finished, rejected>>

DestroyStep == DestroyLock \/ SetStop \/ NotifyAll \/ JoinWorkers

\* The pool is gone: nothing is left to happen, which is no deadlock.
Destroyed == opc = "destroyed" /\ UNCHANGED vars

-----------------------------------------------------------------------------
Next ==
  \/ \E w \in Workers : WorkerStep(w) \/ SpuriousWakeup(w) \/ Spawn(w)
  \/ \E p \in Producers : EnqueueStep(p) \/ \E t \in Tasks : EnqueueCall(p, t)
  \/ BeginDestroy \/ DestroyStep
  \/ Destroyed

Spec == Init /\ [][Next]_vars

(* A thread that can run does run.  The mutex is the system's: a thread     *)
(* that finds it free again and again gets it in the end (SF).  FinishTask  *)
(* is fair when the tasks terminate.  Nobody is obliged to call enqueue(),  *)
(* to destroy the pool, or to wake a thread spuriously.                     *)
Fairness ==
  /\ \A w \in Workers : SF_vars(WorkerLock(w)) /\ WF_vars(WorkerStep(w)) /\ WF_vars(Spawn(w))
  /\ \A p \in Producers : SF_vars(EnqueueLock(p)) /\ WF_vars(EnqueueStep(p))
  /\ SF_vars(DestroyLock) /\ WF_vars(DestroyStep)

FairSpec == Spec /\ Fairness

-----------------------------------------------------------------------------
(* Properties.                                                             *)

(* The type invariant: every variable stays in its range; a worker's local *)
(* variable holds a task exactly while the worker runs one.                *)
TypeOK ==
  /\ tasks \in Seq(Tasks)
  /\ stop \in BOOLEAN
  /\ mutex \in Threads \cup {Nobody}
  /\ wpc \in [Workers -> WorkerPC]
  /\ wtask \in [Workers -> Tasks \cup {NoTask}]
  /\ \A w \in Workers : wpc[w] = "run" <=> wtask[w] # NoTask
  /\ ppc \in [Producers -> ProducerPC]
  /\ ptask \in [Producers -> Tasks \cup {NoTask}]
  /\ \A p \in Producers : ppc[p] \in {"lock", "check", "push"} <=> ptask[p] # NoTask
  /\ opc \in OwnerPC
  /\ finished \subseteq Tasks
  /\ rejected \subseteq Tasks

\* The thread is between a lock of queueMutex and the end of that scope.
InScope(th) ==
  \/ th \in Workers /\ wpc[th] \in {"test", "block", "pop"}
  \/ th \in Producers /\ ppc[th] \in {"check", "push"}
  \/ th = Owner /\ opc = "set_stop"

(* Mutual exclusion: the thread that reads or writes the queue or the stop *)
(* flag is the holder of queueMutex, so there is one at a time.            *)
MutualExclusion == \A th \in Threads : InScope(th) <=> mutex = th

(* The queue never exceeds maxQueueSize although the test of its size and  *)
(* the push are two steps and several threads call enqueue().              *)
QueueBound ==
  /\ Len(tasks) <= MaxQueueSize
  /\ \A p \in Producers : ppc[p] = "push" => Len(tasks) < MaxQueueSize

(* front() and pop() are never called on an empty queue: what the          *)
(* predicate saw still holds when the worker pops.                         *)
PopFindsTask == \A w \in Workers : wpc[w] = "pop" => tasks # <<>>

\* Producers that owe a notification, and workers that are on their way to
\* the predicate without having one.
Notifiers == {p \in Producers : ppc[p] = "notify"}
Awake     == {w \in Workers : wpc[w] \in {"lock", "test", "pop"}}
Asleep    == {w \in Workers : wpc[w] \in {"block", "wait"}}

(* No lost wakeup: while a worker sleeps, each queued task has a           *)
(* notification still to come or a worker on its way to the queue.  It is  *)
(* stronger than "somebody will look": with k tasks queued and an idle     *)
(* worker, at least k threads are committed to them.                       *)
NoLostWakeup ==
  Asleep # {} => Len(tasks) <= Cardinality(Notifiers) + Cardinality(Awake)

(* Once stop is set no worker can sleep through it: the only sleepers are  *)
(* those the destructor's notify_all() has still to wake.                  *)
StopReachesSleepers == stop /\ Asleep # {} => opc = "notify_all"

(* Exactly once: a task is in one place only, the queue, one position of   *)
(* it, one worker, one call of enqueue(), or one of the outcomes.          *)
ExactlyOnce ==
  /\ IsInjective(tasks)
  /\ \A v, w \in Workers : wtask[v] = wtask[w] /\ wtask[v] # NoTask => v = w
  /\ \A p, q \in Producers : ptask[p] = ptask[q] /\ ptask[p] # NoTask => p = q
  /\ Queued \cap (Running \cup finished) = {}
  /\ Running \cap finished = {}
  /\ (Offered \cup rejected) \cap Accepted = {}
  /\ Offered \cap rejected = {}

(* The destructor drains: a worker ends only when the pool is stopped and  *)
(* its queue is empty for good, and when the destructor has returned every *)
(* accepted task has been run and every worker has ended.                  *)
DestructorDrains ==
  /\ (\E w \in Workers : wpc[w] = "exited") => stop /\ tasks = <<>>
  /\ opc = "destroyed" => Accepted = finished /\ \A w \in Workers : wpc[w] = "exited"

(* What enqueue() accepted is never dropped and what it refused is never   *)
(* run, in any step of any thread.                                         *)
AcceptedStays == [][Accepted \subseteq Accepted' /\ rejected \subseteq rejected']_vars

(* A destructor that has begun returns, when tasks terminate.              *)
DestructorReturns == opc = "lock" ~> opc = "destroyed"

-----------------------------------------------------------------------------
(* What the pool promises: it implements the abstract pool.                *)

Phase == CASE opc \in {"construct", "open", "lock", "set_stop"} -> "open"
           [] opc \in {"notify_all", "join"}                    -> "closing"
           [] opc = "destroyed"                                 -> "closed"

Abstract == INSTANCE TaskPool WITH
              Capacity <- MaxQueueSize, Parallelism <- Cardinality(Workers),
              queue <- tasks, running <- Running, done <- finished,
              refused <- rejected, phase <- Phase

(* Every step of the threaded pool is a step of the abstract bounded FIFO  *)
(* pool or none: tasks start in the order they were accepted, enqueue()    *)
(* refuses only at a moment at which the queue is full.                    *)
ImplementsTaskPool == Abstract!Spec

(* The fair threaded pool also keeps the abstract pool's promise that it   *)
(* starts, finishes and closes.                                            *)
ImplementsFairTaskPool == Abstract!FairSpec
=============================================================================
