------------------------------- MODULE MCFraming -------------------------------
(* The instances of Framing that TLC checks.                               *)
EXTENDS Framing

Packet(t, cells) == [tag |-> t, payload |-> cells]

\* With Valid = 3: a packet without payload, one whose payload looks like that
\* packet, and one with a wrong magic number whose payload looks like a header
\* that announces more cells than there are.
AllPackets == {Packet(3, <<>>), Packet(3, <<3, 0>>), Packet(1, <<3, 2>>)}
=============================================================================
