\* Two producers race for the last slot of a queue of two tasks, three workers
\* race for its tasks, and a destructor for everybody: every property of the
\* pool.  No symmetry, which liveness does not permit.
SPECIFICATION FairSpec
CONSTANTS
  w1 = w1  w2 = w2  w3 = w3  p1 = p1  p2 = p2
  t1 = t1  t2 = t2  t3 = t3
  Workers <- MCWorkers
  Producers <- MCProducers
  Tasks <- MCTasks
  MaxQueueSize = 2
  Owner = owner
  Nobody = nobody
  NoTask = no_task
INVARIANTS
  TypeOK
  PopFindsTask
  NoLostWakeup
  StopReachesSleepers
  ExactlyOnce
  DestructorDrains
PROPERTIES
  ImplementsTaskPool
  DestructorReturns
  ImplementsFairTaskPool
