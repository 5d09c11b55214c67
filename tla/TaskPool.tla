------------------------------- MODULE TaskPool -------------------------------
(***************************************************************************)
(* What a bounded pool of tasks promises to its users, without threads,    *)
(* locks or notifications: a task is accepted at the back of a queue of at *)
(* most Capacity tasks, or refused when the queue is full; tasks start in  *)
(* the order they were accepted, at most Parallelism at a time; a pool     *)
(* that is shutting down accepts nothing more, and closes when everything  *)
(* it accepted is done.                                                    *)
(***************************************************************************)
EXTENDS Naturals, Sequences, FiniteSets, Functions

CONSTANTS
  Tasks,        \* the tasks that may be submitted, each at most once
  Capacity,     \* how many tasks may be queued
  Parallelism   \* how many tasks may run at the same time

VARIABLES
  queue,      \* the accepted tasks that have not started, oldest first
  running,    \* the tasks that have started and not finished
  done,       \* the tasks that have finished
  refused,    \* the tasks that were refused
  phase       \* "open", "closing" or "closed"

vars == <<queue, running, done, refused, phase>>

Init ==
  /\ queue = <<>>
  /\ running = {}
  /\ done = {}
  /\ refused = {}
  /\ phase = "open"

Unknown(t) == t \notin Range(queue) \cup running \cup done \cup refused

Accept(t) ==
  /\ phase = "open"
  /\ Unknown(t)
  /\ Len(queue) < Capacity
  /\ queue' = Append(queue, t)
  /\ UNCHANGED <<running, done, refused, phase>>

Refuse(t) ==
  /\ phase = "open"
  /\ Unknown(t)
  /\ Len(queue) = Capacity
  /\ refused' = refused \cup {t}
  /\ UNCHANGED <<queue, running, done, phase>>

Start ==
  /\ queue # <<>>
  /\ Cardinality(running) < Parallelism
  /\ running' = running \cup {Head(queue)}
  /\ queue' = Tail(queue)
  /\ UNCHANGED <<done, refused, phase>>

Finish(t) ==
  /\ t \in running
  /\ running' = running \ {t}
  /\ done' = done \cup {t}
  /\ UNCHANGED <<queue, refused, phase>>

Shutdown ==
  /\ phase = "open"
  /\ phase' = "closing"
  /\ UNCHANGED <<queue, running, done, refused>>

Close ==
  /\ phase = "closing"
  /\ queue = <<>> /\ running = {}
  /\ phase' = "closed"
  /\ UNCHANGED <<queue, running, done, refused>>

Next ==
  \/ \E t \in Tasks : Accept(t) \/ Refuse(t) \/ Finish(t)
  \/ Start \/ Shutdown \/ Close

Spec == Init /\ [][Next]_vars

\* Tasks start while there is room to run them, they finish, and a shutdown
\* completes.
FairSpec == /\ Spec
            /\ WF_vars(Start) /\ WF_vars(Close)
            /\ \A t \in Tasks : WF_vars(Finish(t))
=============================================================================
