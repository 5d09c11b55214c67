--------------------------- MODULE MCClientPrograms ---------------------------
(* The instance of ClientPrograms that TLC checks.                         *)
EXTENDS ClientPrograms

CONSTANTS f1, f2

MCFds == {f1, f2}
=============================================================================
