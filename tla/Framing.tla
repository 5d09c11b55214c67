-------------------------------- MODULE Framing --------------------------------
(***************************************************************************)
(* One direction of a PacketForge connection: PacketIO over Transport over *)
(* a TCP byte stream (src/protocol/packet_io.cpp, src/network/             *)
(* transport.cpp).  The sender's Transport::send hands its packet to the   *)
(* kernel in as many pieces as the kernel likes; the receiver's            *)
(* PacketIO::receive reads a header, then as many bytes as the header      *)
(* announces, in as many pieces as arrive.                                 *)
(*                                                                         *)
(* A cell stands for some bytes of a packet: one for the part of the       *)
(* header that is validated (magic number, version), one for the length,   *)
(* one for each unit of payload.  A cell of a payload may look like one of *)
(* a header.  PacketIO::send refuses to send a packet that is not valid;   *)
(* peers that write raw bytes (apps/packetforge_malformed_packet_client    *)
(* .cpp) do send them, so Packets may have some.                           *)
(***************************************************************************)
EXTENDS Naturals, Sequences, SequencesExt

CONSTANTS
  Packets,   \* what a sender may send: records [tag, payload]
  Valid,     \* the tag of a header with the right magic number and version
  MaxSent,   \* bound: how many packets reach the stream
  Capacity   \* how many cells the socket's buffers hold

ASSUME PacketAssumption ==
  Packets \subseteq [tag : Nat, payload : Seq(Nat)]
ASSUME CapacityAssumption == Valid \in Nat /\ MaxSent \in Nat /\ Capacity \in Nat \ {0}

VARIABLES
  link,        \* "open"; "ended": the sender closed; "reset"; "dead": reset,
               \* and the receiver's recv() has reported it
  current,     \* the packet of the send() in progress, or that was cut short
  unsent,      \* its cells from data.data() + totalSent on
  stream,      \* the cells the kernel holds for the receiver
  sent,        \* history: the packets that were handed to the kernel whole
  connected,   \* connected_ of the receiver's Connection
  receiving,   \* is the receiver inside PacketIO::receive?
  buffer,      \* the cells that call has read: header, then payload
  received,    \* history: the packets its calls read whole
  result       \* the ErrorCode of the last call that returned

sender == <<current, unsent, sent>>
receiver == <<connected, receiving, buffer, received, result>>
vars == <<link, stream, sender, receiver>>

HeaderSize == 2

\* Encoder::encode, in cells.
Encode(p) == <<p.tag, Len(p.payload)>> \o p.payload

\* Decoder::decode, in cells: what is in the header and behind it.
Decode(data) ==
  [tag |-> data[1], payload |-> SubSeq(data, HeaderSize + 1, Len(data))]

\* What PacketIO::receive answers when it has read p.
Answer(p) == IF p.tag = Valid THEN "Success" ELSE "ProtocolError"

Lost == link \in {"reset", "dead"}

Init ==
  /\ link = "open"
  /\ current = <<>> /\ unsent = <<>> /\ stream = <<>> /\ sent = <<>>
  /\ connected = TRUE
  /\ receiving = FALSE
  /\ buffer = <<>> /\ received = <<>>
  /\ result = "none"

-----------------------------------------------------------------------------
(* The sender.                                                             *)

\* PacketIO::send encodes p and calls Transport::send, which needs its own
\* Connection to be connected; nothing of p is in the kernel yet.  A call on a
\* connection that is already lost moves no byte and is left out.
Send(p) ==
  /\ link = "open"
  /\ unsent = <<>>
  /\ Len(sent) < MaxSent
  /\ current' = <<p>>
  /\ unsent' = Encode(p)
  /\ UNCHANGED <<link, stream, sent, receiver>>

\* Fault: after a short send() the loop starts at data.data() again.
SendsFromStart(n) ==
  /\ link = "open"
  /\ n \in 1..Len(unsent)
  /\ Len(stream) + n <= Capacity
  /\ stream' = stream \o SubSeq(Encode(Head(current)), 1, n)
  /\ unsent' = SubSeq(unsent, n + 1, Len(unsent))
  /\ IF n = Len(unsent)
     THEN sent' = sent \o current /\ current' = <<>>
     ELSE UNCHANGED <<sent, current>>
  /\ UNCHANGED <<link, receiver>>

\* send(2) takes n cells, not always all of them, and Transport::send goes on
\* from there.
KernelTakes(n) ==
  /\ link = "open"
  /\ n \in 1..Len(unsent)
  /\ Len(stream) + n <= Capacity
  /\ stream' = stream \o SubSeq(unsent, 1, n)
  /\ unsent' = SubSeq(unsent, n + 1, Len(unsent))
  /\ IF n = Len(unsent)
     THEN sent' = sent \o current /\ current' = <<>>
     ELSE UNCHANGED <<sent, current>>
  /\ UNCHANGED <<link, receiver>>

\* Until the loss of the connection is reported to the sender, the kernel
\* takes cells that go nowhere.
KernelDiscards(n) ==
  /\ Lost
  /\ n \in 1..Len(unsent)
  /\ unsent' = SubSeq(unsent, n + 1, Len(unsent))
  /\ UNCHANGED <<link, current, stream, sent, receiver>>

\* send(2) fails: Transport::send gives the rest of the packet up.
SendFails ==
  /\ Lost
  /\ unsent # <<>>
  /\ unsent' = <<>>
  /\ UNCHANGED <<link, current, stream, sent, receiver>>

\* The sender disconnects, or its process ends, maybe in the middle of a
\* packet; what the kernel has taken is still delivered.
SenderEnds ==
  /\ link = "open"
  /\ link' = "ended"
  /\ unsent' = <<>>
  /\ UNCHANGED <<current, stream, sent, receiver>>

\* The connection is reset: what the receiver's kernel holds can still be read,
\* the rest of what was sent never arrives.
Reset ==
  /\ link \in {"open", "ended"}
  /\ link' = "reset"
  /\ \E n \in 0..Len(stream) : stream' = SubSeq(stream, 1, n)
  /\ UNCHANGED <<sender, receiver>>

-----------------------------------------------------------------------------
(* The receiver.                                                           *)

\* PacketIO::receive calls Transport::receive on a connected Connection.
Receive ==
  /\ ~receiving /\ connected
  /\ receiving' = TRUE
  /\ UNCHANGED <<link, stream, sender, connected, buffer, received, result>>

\* It returns without having read anything.
ReceiveUnconnected ==
  /\ ~receiving /\ ~connected
  /\ result' = "ConnectionFailed"
  /\ UNCHANGED <<link, stream, sender, connected, receiving, buffer, received>>

\* Fault: a header with a wrong magic number is rejected at once, and its
\* payload is left in the stream.
RejectsEarly(data) ==
  /\ Len(data) >= HeaderSize
  /\ data[1] = Valid => Len(data) = HeaderSize + data[2]

Whole(data) ==
  /\ Len(data) >= HeaderSize
  /\ Len(data) = HeaderSize + data[2]

\* What recv(2) is asked for at most: the rest of the header, and, once that
\* is there, the rest of the payload.
Wanted ==
  IF Len(buffer) < HeaderSize THEN HeaderSize - Len(buffer)
                              ELSE HeaderSize + buffer[2] - Len(buffer)

Read(n) ==
  /\ receiving
  /\ n \in 1..Wanted /\ n <= Len(stream)
  /\ stream' = SubSeq(stream, n + 1, Len(stream))

\* The call returns the error code r.
Return(r) ==
  /\ receiving' = FALSE
  /\ buffer' = <<>>
  /\ result' = r

\* recv(2) returns n cells, and the packet is not complete.
RecvSome(n) ==
  /\ Read(n)
  /\ buffer' = buffer \o SubSeq(stream, 1, n)
  /\ ~Whole(buffer')
  /\ UNCHANGED <<link, sender, connected, receiving, received, result>>

\* recv(2) returns the last n cells of a packet, which is decoded.
RecvLast(n) ==
  LET data == buffer \o SubSeq(stream, 1, n) IN
  /\ Read(n)
  /\ Whole(data)
  /\ received' = Append(received, Decode(data))
  /\ Return(Answer(Decode(data)))
  /\ UNCHANGED <<link, sender, connected>>

\* Fault: 0 is taken for "nothing yet", and recv() is called again.
RetriesOnClose ==
  /\ receiving
  /\ stream = <<>> /\ link \in {"ended", "dead"}
  /\ UNCHANGED vars

\* recv(2) returns 0: the peer has closed, or a reset was reported before.
\* The receiver disconnects before it returns.
RecvClosed ==
  /\ receiving
  /\ stream = <<>> /\ link \in {"ended", "dead"}
  /\ connected' = FALSE
  /\ Return("ConnectionClosed")
  /\ UNCHANGED <<link, stream, sender, received>>

\* Fault: a recv() that a signal interrupted is given up like one that failed.
GivesUpOnSignal ==
  /\ receiving
  /\ link' = IF link = "reset" THEN "dead" ELSE link
  /\ Return("SocketError")
  /\ UNCHANGED <<stream, sender, connected, received>>

\* recv(2) fails: the Connection stays connected.
RecvFails ==
  /\ receiving
  /\ stream = <<>> /\ link = "reset"
  /\ link' = "dead"
  /\ Return("SocketError")
  /\ UNCHANGED <<stream, sender, connected, received>>

\* Connection::disconnect, between two calls; the peer is told by a reset if
\* it is still there to be told.
Disconnect ==
  /\ ~receiving /\ connected
  /\ connected' = FALSE
  /\ link' = "dead"
  /\ stream' = <<>>
  /\ UNCHANGED <<sender, receiving, buffer, received, result>>

-----------------------------------------------------------------------------
SendSome == \E n \in 1..Len(unsent) : KernelTakes(n) \/ KernelDiscards(n)
RecvBytes == \E n \in 1..Len(stream) : RecvSome(n) \/ RecvLast(n)

Next ==
  \/ \E p \in Packets : Send(p)
  \/ SendSome \/ SendFails \/ SenderEnds \/ Reset
  \/ Receive \/ ReceiveUnconnected
  \/ RecvBytes \/ RecvClosed \/ RecvFails
  \/ Disconnect

Spec == Init /\ [][Next]_vars

\* A send() in progress goes on as long as there is room; the receiver's
\* application keeps calling receive(), and the calls go on.
Fairness ==
  /\ WF_vars(SendSome \/ SendFails)
  /\ WF_vars(Receive)
  /\ WF_vars(RecvBytes \/ RecvClosed \/ RecvFails)

FairSpec == Spec /\ Fairness

-----------------------------------------------------------------------------
(* Properties.                                                             *)

Bytes(packets) == FlattenSeq([i \in DOMAIN packets |-> Encode(packets[i])])

\* The packets the receiver has not read whole, the one being sent included.
Undelivered == SubSeq(sent, Len(received) + 1, Len(sent)) \o current

\* What a receive() has read so far, what the kernel holds and what the
\* sender still has to hand over are, in this order, the encodings of the
\* packets that were not delivered: however the cells were cut, nothing is
\* lost, repeated or left over from a packet that was rejected, and the next
\* header is looked for where a header is.  When the sender has stopped or the
\* connection is lost it is a beginning of them.
InSync ==
  /\ IsPrefix(buffer \o stream, Bytes(Undelivered))
  /\ link = "open" => buffer \o stream \o unsent = Bytes(Undelivered)

\* After a call that failed in the middle of the stream, no later call returns
\* a packet: it would start to read at a place that is not a header.
NothingAfterFailure ==
  [][(result \in {"SocketError", "ConnectionClosed", "ConnectionFailed"})
       => (result' \notin {"Success", "ProtocolError"})]_vars

\* A receive() that has read a part of a packet returns: with the packet, or
\* with the error that kept the rest from coming.
ReceiveReturns == (buffer # <<>>) ~> ~receiving

\* The packets whose last cell has arrived, or will.
Arriving ==
  LET rest == SubSeq(sent, Len(received) + 1, Len(sent))
  IN  SubSeq(rest, 1, Max({n \in 0..Len(rest) :
                             Len(Bytes(SubSeq(rest, 1, n))) <= Len(buffer \o stream)}))

\* The byte stream with PacketIO at both ends is a channel of packets, which
\* also delivers in the end what it has taken, up to the first packet that a
\* reset has cut.
Channel == INSTANCE PacketChannel WITH
  transit <- Arriving,
  got <- received,
  open <- link = "open"

ImplementsChannel == Channel!FairSpec

=============================================================================
