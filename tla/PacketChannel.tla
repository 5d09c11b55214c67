----------------------------- MODULE PacketChannel -----------------------------
(***************************************************************************)
(* What PacketIO promises to the two ends of a connection, in one          *)
(* direction and without bytes: packets are received whole, once and in    *)
(* the order they were sent; when the connection breaks, some of the last  *)
(* packets that were on their way are lost and no later one arrives.       *)
(***************************************************************************)
EXTENDS Naturals, Sequences

CONSTANT Packets

VARIABLES
  transit,   \* the packets that are on their way, oldest first
  got,       \* the packets that were received
  open       \* may more packets be sent?

vars == <<transit, got, open>>

Init == transit = <<>> /\ got = <<>> /\ open = TRUE

Put(p) ==
  /\ open
  /\ transit' = Append(transit, p)
  /\ UNCHANGED <<got, open>>

Get ==
  /\ transit # <<>>
  /\ got' = Append(got, Head(transit))
  /\ transit' = Tail(transit)
  /\ UNCHANGED open

Close ==
  /\ open
  /\ open' = FALSE
  /\ UNCHANGED <<transit, got>>

Break ==
  /\ \E n \in 0..Len(transit) : transit' = SubSeq(transit, 1, n)
  /\ open' = FALSE
  /\ UNCHANGED got

Next == Get \/ Close \/ Break \/ \E p \in Packets : Put(p)

Spec == Init /\ [][Next]_vars

\* A packet on its way arrives, unless the connection breaks.
FairSpec == Spec /\ WF_vars(Get)
=============================================================================
