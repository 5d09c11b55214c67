----------------------------- MODULE MCServerApp ------------------------------
(* The instance of ServerApp that TLC checks.                              *)
EXTENDS ServerApp

CONSTANTS f1, f2, f3

MCFds == {f1, f2, f3}
=============================================================================
