------------------------------ MODULE MCSockets -------------------------------
(* The instance of Sockets that TLC checks.                                *)
EXTENDS Sockets, TLC

CONSTANTS c1, c2, c3, s1, s2, f1, f2, f3, f4

MCConns == {c1, c2, c3}
MCServers == {s1, s2}
MCFds == {f1, f2, f3, f4}
MCPorts == {9090, 9091}

\* Objects and descriptors are interchangeable; the ports are numbers.
Symmetry == Permutations(Conns) \cup Permutations(Servers) \cup Permutations(Fds)
=============================================================================
