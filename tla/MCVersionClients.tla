--------------------------- MODULE MCVersionClients ---------------------------
(* The instance of VersionClients that TLC checks.                         *)
EXTENDS VersionClients

CONSTANTS k1, k2, x

MCClients == {k1, k2}
MCFailed == {x}
=============================================================================
