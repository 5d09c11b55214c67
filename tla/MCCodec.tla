-------------------------------- MODULE MCCodec --------------------------------
(* The instance of Codec that TLC checks: bytes of one bit, so that every  *)
(* value of flags, version and opcode occurs, and a length field that      *)
(* counts to 15.  The magic number, 1101, is not its own mirror image.     *)
EXTENDS Codec

MCSequenceIds == {0, 2, 13}

\* The last one is one byte longer than the length field can say.
MCPayloads == {<<>>, <<0>>, <<1, 0>>, [i \in 1..15 |-> 1], [i \in 1..16 |-> 0]}
=============================================================================
