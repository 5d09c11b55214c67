-------------------------------- MODULE Codec --------------------------------
(***************************************************************************)
(* The wire format of PacketForge: the class Packet, Endian, the Encoder,  *)
(* the Decoder, and the framing of PacketIO::receive on top of it, byte by *)
(* byte.  A packet is built by the setters on one host, encoded, carried   *)
(* as bytes, and read on another host, whose byte order may differ; what   *)
(* arrives may also be something that no Encoder has written.              *)
(*                                                                         *)
(* Bytes are the numbers below Radix: 256 in the code.  A smaller radix    *)
(* keeps the layout (one, two and four byte fields, an overflow of the     *)
(* four byte length) and makes every value of every field checkable.       *)
(***************************************************************************)
EXTENDS Naturals, Sequences

CONSTANTS
  Radix,        \* the number of values of a byte
  MAGIC,        \* Packet::MagicNumber
  VERSION,      \* Packet::VERSION
  SequenceIds,  \* the values given to setSequenceId()
  Payloads,     \* the values given to setPayload()
  MaxChanges    \* bound: how far the bytes are from those of an Encoder

Byte == 0..(Radix - 1)

\* How many values two, three and four bytes have.
Radix2 == Radix * Radix
Radix3 == Radix2 * Radix
Radix4 == Radix2 * Radix2

ASSUME CodecAssumption ==
  /\ Radix \in Nat \ {0, 1}
  /\ MAGIC \in 0..(Radix4 - 1)
  /\ VERSION \in Byte
  /\ SequenceIds \subseteq 0..(Radix4 - 1)
  /\ \A p \in Payloads : p \in Seq(Byte)
  /\ MaxChanges \in Nat

VARIABLES
  stage,    \* "building", "encoded", "thrown" or "read"
  packet,   \* the packet that the sender builds
  sender,   \* the byte order of the host that encodes
  bytes,    \* what is on its way
  changes,  \* history: how often the bytes were changed
  decoded,  \* what Decoder::decode() made of it
  received  \* what PacketIO::receive() made of it

vars == <<stage, packet, sender, bytes, changes, decoded, received>>

HEADER_SIZE == 16

Hosts == {"Little", "Big"}

-----------------------------------------------------------------------------
(* Endian.                                                                 *)

\* The value is made of its bytes in the reverse order; the shifts drop what
\* leaves the 16 or 32 bits.
Swap16(v) == ((v \div Radix) + v * Radix) % Radix2

Swap32(v) == (v % Radix) * Radix3
             + ((v \div Radix) % Radix) * Radix2
             + ((v \div Radix2) % Radix) * Radix
             + ((v \div Radix3) % Radix)

\* Fault: the conversion is left out on the way out and on the way in.
NoConversion(host, v) == v

HostToNetwork16(host, v) == IF host = "Little" THEN Swap16(v) ELSE v
HostToNetwork32(host, v) == IF host = "Little" THEN Swap32(v) ELSE v

NetworkToHost16(host, v) == HostToNetwork16(host, v)
NetworkToHost32(host, v) == HostToNetwork32(host, v)

-----------------------------------------------------------------------------
(* Memory: where the host keeps the bytes of a value.                      *)

\* The weight of the i-th of n bytes.
Weight(host, n, i) ==
  <<1, Radix, Radix2, Radix3>>[IF host = "Little" THEN i ELSE n + 1 - i]

\* appendValue(): the n bytes of a value, in the order of their addresses.
Image(host, n, v) == [i \in 1..n |-> (v \div Weight(host, n, i)) % Radix]

\* memcpy() of n bytes at an offset into a value.
Load2(host, data, offset) ==
  data[offset + 1] * Weight(host, 2, 1) + data[offset + 2] * Weight(host, 2, 2)

Load4(host, data, offset) ==
  data[offset + 1] * Weight(host, 4, 1) + data[offset + 2] * Weight(host, 4, 2)
  + data[offset + 3] * Weight(host, 4, 3) + data[offset + 4] * Weight(host, 4, 4)

ReadUint16(host, data, offset) == NetworkToHost16(host, Load2(host, data, offset))
ReadUint32(host, data, offset) == NetworkToHost32(host, Load4(host, data, offset))

-----------------------------------------------------------------------------
(* Packet.                                                                 *)

\* The constructor; no setter changes the magic number.
NewPacket == [magic |-> MAGIC, version |-> VERSION, flags |-> 0, opcode |-> 0,
              sequenceId |-> 0, payload |-> <<>>]

PayloadLength(p) == Len(p.payload) % Radix4

IsValid(p) == p.magic = MAGIC /\ p.version = VERSION /\ Len(p.payload) < Radix4

-----------------------------------------------------------------------------
(* Encoder and Decoder.                                                    *)

Encode(host, p) ==
  Image(host, 4, HostToNetwork32(host, p.magic))
  \o <<p.version, p.flags>>
  \o Image(host, 2, HostToNetwork16(host, p.opcode))
  \o Image(host, 4, HostToNetwork32(host, p.sequenceId))
  \o Image(host, 4, HostToNetwork32(host, PayloadLength(p)))
  \o p.payload

\* A decoded packet, or a protocol error and no packet.
Fails(error) == [error |-> error, packet |-> NewPacket]

\* Fault: what follows the packet is ignored.
DecodePrefix(host, data) ==
  IF Len(data) < HEADER_SIZE \/ ReadUint32(host, data, 0) # MAGIC
    THEN Fails("InvalidPacket")
  ELSE IF data[5] # VERSION THEN Fails("UnsupportedVersion")
  ELSE IF Len(data) < HEADER_SIZE + ReadUint32(host, data, 12) THEN Fails("InvalidPayload")
  ELSE [error |-> "none",
        packet |-> [NewPacket EXCEPT
                      !.flags = data[6],
                      !.opcode = ReadUint16(host, data, 6),
                      !.sequenceId = ReadUint32(host, data, 8),
                      !.payload = SubSeq(data, HEADER_SIZE + 1, Len(data))]]

\* The first of the checks that fails names the error.
Decode(host, data) ==
  IF Len(data) < HEADER_SIZE \/ ReadUint32(host, data, 0) # MAGIC
    THEN Fails("InvalidPacket")
  ELSE IF data[5] # VERSION THEN Fails("UnsupportedVersion")
  ELSE IF Len(data) # HEADER_SIZE + ReadUint32(host, data, 12) THEN Fails("InvalidPayload")
  ELSE [error |-> "none",
        packet |-> [NewPacket EXCEPT
                      !.flags = data[6],
                      !.opcode = ReadUint16(host, data, 6),
                      !.sequenceId = ReadUint32(host, data, 8),
                      !.payload = SubSeq(data, HEADER_SIZE + 1, Len(data))]]

\* Fault: the announced length is used as it lies in memory.
ReceiveUnconverted(host, stream) ==
  IF Len(stream) < HEADER_SIZE THEN Fails("ConnectionClosed")
  ELSE LET size == HEADER_SIZE + Load4(host, stream, 12)
       IN  IF Len(stream) < size THEN Fails("ConnectionClosed")
           ELSE Decode(host, SubSeq(stream, 1, size))

\* PacketIO::receive: the header, then as many bytes as it announces; when the
\* stream ends before that, the transport reports it and nothing is decoded.
ReceivePacket(host, stream) ==
  IF Len(stream) < HEADER_SIZE THEN Fails("ConnectionClosed")
  ELSE LET size == HEADER_SIZE + ReadUint32(host, stream, 12)
       IN  IF Len(stream) < size THEN Fails("ConnectionClosed")
           ELSE Decode(host, SubSeq(stream, 1, size))

-----------------------------------------------------------------------------
Nothing == Fails("none")

Init ==
  /\ stage = "building" /\ packet = NewPacket /\ sender \in Hosts
  /\ bytes = <<>> /\ changes = 0
  /\ decoded = Nothing /\ received = Nothing

\* The sender's program calls a setter.
Set ==
  /\ stage = "building"
  /\ \/ \E v \in Byte : packet' = [packet EXCEPT !.version = v]
     \/ \E f \in Byte : packet' = [packet EXCEPT !.flags = f]
     \/ \E o \in 0..(Radix2 - 1) : packet' = [packet EXCEPT !.opcode = o]
     \/ \E s \in SequenceIds : packet' = [packet EXCEPT !.sequenceId = s]
     \/ \E d \in Payloads : packet' = [packet EXCEPT !.payload = d]
  /\ UNCHANGED <<stage, sender, bytes, changes, decoded, received>>

\* Encoder::encode() of a valid packet.
EncodePacket ==
  /\ stage = "building" /\ IsValid(packet)
  /\ bytes' = Encode(sender, packet)
  /\ stage' = "encoded"
  /\ UNCHANGED <<packet, sender, changes, decoded, received>>

\* Encoder::encode() throws.
EncodeThrows ==
  /\ stage = "building" /\ ~IsValid(packet)
  /\ stage' = "thrown"
  /\ UNCHANGED <<packet, sender, bytes, changes, decoded, received>>

\* A field has another value: another magic number, another length.
ByteDiffers ==
  \E i \in 1..Len(bytes), b \in Byte : bytes' = [bytes EXCEPT ![i] = b] /\ bytes' # bytes

\* The packet ends early.
EndsEarly == \E n \in 0..(Len(bytes) - 1) : bytes' = SubSeq(bytes, 1, n)

\* Something follows the packet.
MoreFollows == \E b \in Byte : bytes' = Append(bytes, b)

\* The peer is a program of its own, which writes what it likes.
OtherBytes ==
  /\ stage = "encoded" /\ changes < MaxChanges
  /\ ByteDiffers \/ EndsEarly \/ MoreFollows
  /\ changes' = changes + 1
  /\ UNCHANGED <<stage, packet, sender, decoded, received>>

\* The bytes are read on either kind of host, as one packet and as a stream.
ReadBytes ==
  /\ stage = "encoded"
  /\ \E host \in Hosts :
       /\ decoded' = Decode(host, bytes)
       /\ received' = ReceivePacket(host, bytes)
  /\ stage' = "read"
  /\ UNCHANGED <<packet, sender, bytes, changes>>

Done == stage \in {"thrown", "read"} /\ UNCHANGED vars

Next == Set \/ EncodePacket \/ EncodeThrows \/ OtherBytes \/ ReadBytes \/ Done

Spec == Init /\ [][Next]_vars

-----------------------------------------------------------------------------
(* Properties.                                                             *)

(* Whatever the byte orders of the two hosts, and whatever the packet, what *)
(* the Encoder wrote is read as that packet by both readers: the two       *)
(* conversions of every field meet, and no length is cut to fit its field. *)
RoundTrip ==
  stage = "read" /\ changes = 0 =>
    /\ decoded = [error |-> "none", packet |-> packet]
    /\ received = decoded

(* The Decoder takes nothing but encodings: bytes it accepts, from whatever *)
(* peer, are those the Encoder of either kind of host would write for the   *)
(* packet it returns, so that two different messages are never read alike.  *)
AcceptedIsEncoding ==
  stage = "read" /\ decoded.error = "none" =>
    /\ IsValid(decoded.packet)
    /\ \A host \in Hosts : bytes = Encode(host, decoded.packet)

(* PacketIO reads the length with the conversion of the Decoder: the packet *)
(* it cuts out of the stream is never refused for its size (its callers    *)
(* have no answer for InvalidPayload), and the bytes that follow it do not *)
(* change what is received.                                                *)
FramingAgrees ==
  stage = "read" =>
    /\ received.error # "InvalidPayload"
    /\ decoded.error \notin {"InvalidPayload", "none"} /\ received.error # "ConnectionClosed"
         => received = decoded
    /\ decoded.error = "none" => received = decoded
=============================================================================
