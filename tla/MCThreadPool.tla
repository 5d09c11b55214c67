----------------------------- MODULE MCThreadPool -----------------------------
(* The instance of ThreadPool that TLC checks.                             *)
EXTENDS ThreadPool

CONSTANTS w1, w2, w3, p1, p2, t1, t2, t3

MCWorkers   == {w1, w2, w3}
MCProducers == {p1, p2}
MCTasks     == {t1, t2, t3}
=============================================================================
