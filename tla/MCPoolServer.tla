----------------------------- MODULE MCPoolServer -----------------------------
(* The instance of PoolServer that TLC checks.                             *)
EXTENDS PoolServer, TLC

CONSTANTS k1, k2, k3, x

MCClients == {k1, k2, k3}
MCFailed == {x}

\* Clients are told apart by nothing but their name.
Symmetry == Permutations(Clients)
=============================================================================
