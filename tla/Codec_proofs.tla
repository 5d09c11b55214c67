----------------------------- MODULE Codec_proofs -----------------------------
(***************************************************************************)
(* Proofs about Codec, for bytes of any radix, any magic number, version,  *)
(* sequence ids and payloads, and any bytes a peer may write.              *)
(*                                                                         *)
(* A number is taken apart into its digits (Of2, Of4); on the digits, the  *)
(* conversion of Endian and the byte order of the host cancel out, so that *)
(* both kinds of host write and read the most significant byte first.      *)
(***************************************************************************)
EXTENDS Codec, SequenceTheorems, TLAPS

-----------------------------------------------------------------------------
(* Digits.                                                                 *)

(* Division with a remainder undoes itself.                                *)
LEMMA Division ==
  ASSUME NEW r \in Nat \ {0}, NEW a \in 0..(r - 1), NEW b \in Nat
  PROVE  (a + r * b) % r = a /\ (a + r * b) \div r = b
  OBVIOUS

(* Every number is a quotient and a remainder.                             *)
LEMMA Remainder ==
  ASSUME NEW r \in Nat \ {0}, NEW v \in Nat
  PROVE  v % r \in 0..(r - 1) /\ v \div r \in Nat /\ v = (v % r) + r * (v \div r)
  OBVIOUS

(* The product of two numbers is not less than that of two smaller ones.   *)
LEMMA Larger ==
  ASSUME NEW r \in Nat, NEW b \in Nat, NEW c \in Nat, b <= c
  PROVE  r * b <= r * c
<1>1. c - b \in Nat /\ c = b + (c - b)
  OBVIOUS
<1>2. r * c = r * b + r * (c - b)
  BY <1>1
<1>3. r * (c - b) \in Nat
  BY <1>1
<1>4. r * b \in Nat /\ r * c \in Nat
  OBVIOUS
<1> QED
  BY <1>2, <1>3, <1>4

(* A number with a high part and a low part is below the product.          *)
LEMMA Below ==
  ASSUME NEW r \in Nat \ {0}, NEW s \in Nat \ {0}, NEW a \in 0..(r - 1), NEW b \in 0..(s - 1)
  PROVE  a + r * b \in 0..(r * s - 1)
<1>1. b + 1 <= s /\ b + 1 \in Nat /\ r \in Nat /\ s \in Nat /\ b \in Nat
  OBVIOUS
<1>2. r * (b + 1) <= r * s
  BY <1>1, Larger
<1>3. r * (b + 1) = r * b + r
  BY <1>1
<1>4. r * b \in Nat /\ r * s \in Nat
  BY <1>1
<1> QED
  BY <1>2, <1>3, <1>4

(* The high part of such a number, the other way round.                    *)
LEMMA High ==
  ASSUME NEW r \in Nat \ {0}, NEW s \in Nat \ {0}, NEW v \in 0..(r * s - 1)
  PROVE  v \div r \in 0..(s - 1)
<1>1. v \in Nat /\ r \in Nat /\ s \in Nat
  OBVIOUS
<1>2. v % r \in 0..(r - 1) /\ v \div r \in Nat /\ v = (v % r) + r * (v \div r)
  BY <1>1, Remainder
<1>3. CASE v \div r >= s
  <2>1. r * s <= r * (v \div r)
    BY <1>1, <1>2, <1>3, Larger
  <2> QED
    BY <1>2, <2>1
<1> QED
  BY <1>2, <1>3

(* The sizes of the fields.                                                *)
LEMMA Sizes ==
  /\ Radix \in Nat \ {0} /\ Radix2 \in Nat \ {0} /\ Radix3 \in Nat \ {0} /\ Radix4 \in Nat \ {0}
  /\ Radix2 = Radix * Radix /\ Radix3 = Radix2 * Radix /\ Radix4 = Radix2 * Radix2
  /\ Radix4 = Radix3 * Radix
<1>1. Radix \in Nat \ {0}
  BY CodecAssumption
<1>2. \A r, s \in Nat \ {0} : r * s \in Nat \ {0}
  <2> SUFFICES ASSUME NEW r \in Nat \ {0}, NEW s \in Nat \ {0} PROVE r * s \in Nat \ {0}
    OBVIOUS
  <2>1. r * 1 <= r * s
    BY Larger
  <2> QED
    BY <2>1
<1>3. Radix2 \in Nat \ {0}
  BY <1>1, <1>2 DEF Radix2
<1>4. Radix3 \in Nat \ {0} /\ Radix4 \in Nat \ {0}
  BY <1>1, <1>2, <1>3 DEF Radix3, Radix4
<1>5. Radix2 * (Radix * Radix) = (Radix2 * Radix) * Radix
  BY <1>1, <1>3
<1> QED
  BY <1>1, <1>3, <1>4, <1>5 DEF Radix2, Radix3, Radix4

\* The numbers with these digits, the least significant one first.
Of2(a, b) == a + Radix * b
Of4(a, b, c, d) == Of2(a, b) + Radix2 * Of2(c, d)

(* Two digits make a number of two bytes, which has these digits.          *)
LEMMA Of2Digits ==
  ASSUME NEW a \in Byte, NEW b \in Byte
  PROVE  /\ Of2(a, b) \in 0..(Radix2 - 1)
         /\ Of2(a, b) % Radix = a /\ Of2(a, b) \div Radix = b
         /\ (Of2(a, b) \div Radix) % Radix = b
<1>1. Of2(a, b) \in 0..(Radix2 - 1)
  BY Sizes, Below DEF Of2, Byte
<1>2. Of2(a, b) % Radix = a /\ Of2(a, b) \div Radix = b
  BY Sizes, Division DEF Of2, Byte
<1>3. (b + Radix * 0) % Radix = b
  BY Sizes, Division DEF Byte
<1>4. b % Radix = b
  <2>1. b + Radix * 0 = b
    BY Sizes DEF Byte
  <2> QED
    BY <1>3, <2>1
<1> QED
  BY <1>1, <1>2, <1>4

(* Four digits make a number of four bytes, which has these digits.        *)
LEMMA Of4Digits ==
  ASSUME NEW a \in Byte, NEW b \in Byte, NEW c \in Byte, NEW d \in Byte, NEW v, v = Of4(a, b, c, d)
  PROVE  /\ v \in 0..(Radix4 - 1)
         /\ v % Radix = a
         /\ (v \div Radix) % Radix = b
         /\ (v \div Radix2) % Radix = c
         /\ (v \div Radix3) % Radix = d
<1> DEFINE l == Of2(a, b)
           h == Of2(c, d)
<1>1. /\ l \in 0..(Radix2 - 1) /\ h \in 0..(Radix2 - 1)
      /\ h % Radix = c /\ (h \div Radix) % Radix = d
      /\ l = a + Radix * b /\ h = c + Radix * d
  BY Of2Digits DEF Of2
<1>2. a \in Nat /\ b \in Nat /\ c \in Nat /\ d \in Nat /\ d % Radix = d
  BY Sizes, Of2Digits DEF Byte
<1> HIDE DEF l, h
<1>3. v = l + Radix2 * h
  BY DEF Of4, l, h
<1>4. v \in 0..(Radix4 - 1)
  BY <1>1, <1>3, Sizes, Below
<1>5. v \div Radix2 = h
  BY <1>1, <1>3, Sizes, Division
<1>6. /\ b + Radix * h \in Nat
      /\ v = a + Radix * (b + Radix * h)
  <2>1. h \in Nat /\ Radix \in Nat /\ Radix2 = Radix * Radix
    BY <1>1, Sizes
  <2> QED
    BY <1>1, <1>2, <1>3, <2>1
<1>7. v % Radix = a /\ v \div Radix = b + Radix * h
  BY <1>6, Sizes, Division DEF Byte
<1>8. (v \div Radix) % Radix = b
  <2>1. h \in Nat
    BY <1>1, Sizes
  <2>2. (b + Radix * h) % Radix = b
    BY <2>1, Sizes, Division DEF Byte
  <2> QED
    BY <1>7, <2>2
<1>9. /\ l + Radix2 * c \in 0..(Radix3 - 1)
      /\ v = (l + Radix2 * c) + Radix3 * d
  <2>1. l + Radix2 * c \in 0..(Radix3 - 1)
    BY <1>1, Sizes, Below DEF Byte
  <2>2. Radix2 * (c + Radix * d) = Radix2 * c + (Radix2 * Radix) * d
    BY <1>2, Sizes
  <2>3. v = l + (Radix2 * c + Radix3 * d)
    BY <1>1, <1>3, <2>2, Sizes
  <2>4. l \in Nat /\ Radix2 * c \in Nat /\ Radix3 * d \in Nat
    BY <1>1, <1>2, Sizes
  <2> QED
    BY <2>1, <2>3, <2>4
<1>10. v \div Radix3 = d
  BY <1>2, <1>9, Sizes, Division
<1> QED
  BY <1>1, <1>2, <1>4, <1>5, <1>7, <1>8, <1>10

(* Every number of two bytes has two digits.                               *)
LEMMA IsOf2 ==
  ASSUME NEW v \in 0..(Radix2 - 1)
  PROVE  \E a, b \in Byte : v = Of2(a, b)
<1>1. v \in Nat
  BY Sizes
<1>2. v \div Radix \in Byte
  BY Sizes, High DEF Byte
<1>3. v % Radix \in Byte /\ v = (v % Radix) + Radix * (v \div Radix)
  BY <1>1, Sizes, Remainder DEF Byte
<1> QED
  BY <1>2, <1>3 DEF Of2

(* Every number of four bytes has four digits.                             *)
LEMMA IsOf4 ==
  ASSUME NEW v \in 0..(Radix4 - 1)
  PROVE  \E a, b, c, d \in Byte : v = Of4(a, b, c, d)
<1>1. v \in Nat
  BY Sizes
<1>2. v \div Radix2 \in 0..(Radix2 - 1)
  BY Sizes, High
<1>3. v % Radix2 \in 0..(Radix2 - 1) /\ v = (v % Radix2) + Radix2 * (v \div Radix2)
  BY <1>1, Sizes, Remainder
<1>4. PICK a, b \in Byte : v % Radix2 = Of2(a, b)
  BY <1>3, IsOf2
<1>5. PICK c, d \in Byte : v \div Radix2 = Of2(c, d)
  BY <1>2, IsOf2
<1>6. v = Of4(a, b, c, d)
  BY <1>3, <1>4, <1>5 DEF Of4
<1> QED
  BY <1>6

-----------------------------------------------------------------------------
(* Bytes on their way.                                                     *)

(* The conversion turns the digits round.                                  *)
LEMMA SwapDigits ==
  /\ \A a, b \in Byte : Swap16(Of2(a, b)) = Of2(b, a)
  /\ \A a, b, c, d \in Byte : Swap32(Of4(a, b, c, d)) = Of4(d, c, b, a)
<1>1. ASSUME NEW a \in Byte, NEW b \in Byte PROVE Swap16(Of2(a, b)) = Of2(b, a)
  <2>1. Of2(a, b) \div Radix = b /\ Of2(b, a) \in 0..(Radix2 - 1)
    BY Of2Digits
  <2>2. a \in Nat /\ b \in Nat /\ Radix \in Nat /\ Radix2 = Radix * Radix
    BY Sizes DEF Byte
  <2>3. b + Of2(a, b) * Radix = Of2(b, a) + Radix2 * b
    BY <2>2 DEF Of2
  <2>4. (Of2(b, a) + Radix2 * b) % Radix2 = Of2(b, a)
    BY <2>1, <2>2, Sizes, Division
  <2> QED
    BY <2>1, <2>3, <2>4 DEF Swap16
<1>2. ASSUME NEW a \in Byte, NEW b \in Byte, NEW c \in Byte, NEW d \in Byte
      PROVE  Swap32(Of4(a, b, c, d)) = Of4(d, c, b, a)
  <2>1. Swap32(Of4(a, b, c, d)) = a * Radix3 + b * Radix2 + c * Radix + d
    BY Of4Digits DEF Swap32
  <2>2. /\ a \in Nat /\ b \in Nat /\ c \in Nat /\ d \in Nat /\ Radix \in Nat
        /\ Radix2 \in Nat /\ Radix3 = Radix2 * Radix
    BY Sizes DEF Byte
  <2>3. Of4(d, c, b, a) = (d + Radix * c) + (Radix2 * b + (Radix2 * Radix) * a)
    BY <2>2 DEF Of4, Of2
  <2> QED
    BY <2>1, <2>2, <2>3
<1> QED
  BY <1>1, <1>2

\* The bytes of a number, the most significant one first.
Wire2(v) == <<(v \div Radix) % Radix, v % Radix>>
Wire4(v) == <<(v \div Radix3) % Radix, (v \div Radix2) % Radix, (v \div Radix) % Radix, v % Radix>>

(* Both kinds of host write that.                                          *)
LEMMA WritesWire ==
  ASSUME NEW host \in Hosts
  PROVE  /\ \A v \in 0..(Radix2 - 1) : Image(host, 2, HostToNetwork16(host, v)) = Wire2(v)
         /\ \A v \in 0..(Radix4 - 1) : Image(host, 4, HostToNetwork32(host, v)) = Wire4(v)
<1>0. /\ 1..2 = {1, 2} /\ 1..4 = {1, 2, 3, 4}
      /\ \A v \in Nat : v \div 1 = v
  OBVIOUS
<1>1. ASSUME NEW v \in 0..(Radix2 - 1) PROVE Image(host, 2, HostToNetwork16(host, v)) = Wire2(v)
  <2>1. PICK a, b \in Byte : v = Of2(a, b)
    BY IsOf2
  <2>2. Wire2(v) = <<b, a>>
    BY <2>1, Of2Digits DEF Wire2
  <2>3. CASE host = "Little"
    <3>1. HostToNetwork16(host, v) = Of2(b, a) /\ Of2(b, a) \in Nat
      BY <2>1, <2>3, SwapDigits, Of2Digits, Sizes DEF HostToNetwork16
    <3>2. Weight(host, 2, 1) = 1 /\ Weight(host, 2, 2) = Radix
      BY <2>3 DEF Weight
    <3>3. Image(host, 2, Of2(b, a)) = <<b, a>>
      BY <1>0, <3>1, <3>2, Of2Digits DEF Image
    <3> QED
      BY <2>2, <3>1, <3>3
  <2>4. CASE host = "Big"
    <3>1. HostToNetwork16(host, v) = Of2(a, b) /\ Of2(a, b) \in Nat
      BY <2>1, <2>4, Of2Digits, Sizes DEF HostToNetwork16
    <3>2. Weight(host, 2, 1) = Radix /\ Weight(host, 2, 2) = 1
      BY <2>4 DEF Weight
    <3>3. Image(host, 2, Of2(a, b)) = <<b, a>>
      BY <1>0, <3>1, <3>2, Of2Digits DEF Image
    <3> QED
      BY <2>2, <3>1, <3>3
  <2> QED
    BY <2>3, <2>4 DEF Hosts
<1>2. ASSUME NEW v \in 0..(Radix4 - 1) PROVE Image(host, 4, HostToNetwork32(host, v)) = Wire4(v)
  <2>1. PICK a, b, c, d \in Byte : v = Of4(a, b, c, d)
    BY IsOf4
  <2>2. Wire4(v) = <<d, c, b, a>>
    BY <2>1, Of4Digits DEF Wire4
  <2>3. CASE host = "Little"
    <3>1. HostToNetwork32(host, v) = Of4(d, c, b, a) /\ Of4(d, c, b, a) \in Nat
      BY <2>1, <2>3, SwapDigits, Of4Digits, Sizes DEF HostToNetwork32
    <3>2. /\ Weight(host, 4, 1) = 1 /\ Weight(host, 4, 2) = Radix
          /\ Weight(host, 4, 3) = Radix2 /\ Weight(host, 4, 4) = Radix3
      BY <2>3 DEF Weight
    <3>3. Image(host, 4, Of4(d, c, b, a)) = <<d, c, b, a>>
      BY <1>0, <3>1, <3>2, Of4Digits DEF Image
    <3> QED
      BY <2>2, <3>1, <3>3
  <2>4. CASE host = "Big"
    <3>1. HostToNetwork32(host, v) = Of4(a, b, c, d) /\ Of4(a, b, c, d) \in Nat
      BY <2>1, <2>4, Of4Digits, Sizes DEF HostToNetwork32
    <3>2. /\ Weight(host, 4, 1) = Radix3 /\ Weight(host, 4, 2) = Radix2
          /\ Weight(host, 4, 3) = Radix /\ Weight(host, 4, 4) = 1
      BY <2>4 DEF Weight
    <3>3. Image(host, 4, Of4(a, b, c, d)) = <<d, c, b, a>>
      BY <1>0, <3>1, <3>2, Of4Digits DEF Image
    <3> QED
      BY <2>2, <3>1, <3>3
  <2> QED
    BY <2>3, <2>4 DEF Hosts
<1> QED
  BY <1>1, <1>2

(* Both kinds of host read, from bytes, the number that these bytes are.   *)
LEMMA ReadsWire ==
  ASSUME NEW host \in Hosts, NEW data \in Seq(Byte), NEW offset \in Nat
  PROVE  /\ offset + 2 <= Len(data) =>
              ReadUint16(host, data, offset) = Of2(data[offset + 2], data[offset + 1])
         /\ offset + 4 <= Len(data) =>
              ReadUint32(host, data, offset) = Of4(data[offset + 4], data[offset + 3],
                                                   data[offset + 2], data[offset + 1])
<1>1. Len(data) \in Nat /\ \A i \in 1..Len(data) : data[i] \in Byte
  BY ElementOfSeq, LenProperties
<1>2. /\ Byte \subseteq Nat /\ Radix \in Nat /\ Radix2 \in Nat /\ Radix3 = Radix2 * Radix
  BY Sizes DEF Byte
<1>3. ASSUME offset + 2 <= Len(data)
      PROVE  ReadUint16(host, data, offset) = Of2(data[offset + 2], data[offset + 1])
  <2> DEFINE a == data[offset + 1]
             b == data[offset + 2]
  <2>1. a \in Byte /\ b \in Byte
    BY <1>1, <1>3
  <2> HIDE DEF a, b
  <2>2. CASE host = "Little"
    <3>1. Weight(host, 2, 1) = 1 /\ Weight(host, 2, 2) = Radix
      BY <2>2 DEF Weight
    <3>2. Load2(host, data, offset) = Of2(a, b)
      <4>1. Load2(host, data, offset) = a * 1 + b * Radix
        BY <3>1 DEF Load2, a, b
      <4> QED
        BY <1>2, <2>1, <4>1 DEF Of2
    <3>3. ReadUint16(host, data, offset) = Of2(b, a)
      BY <2>1, <2>2, <3>2, SwapDigits DEF ReadUint16, NetworkToHost16, HostToNetwork16
    <3> QED
      BY <3>3 DEF a, b
  <2>3. CASE host = "Big"
    <3>1. Weight(host, 2, 1) = Radix /\ Weight(host, 2, 2) = 1
      BY <2>3 DEF Weight
    <3>2. Load2(host, data, offset) = Of2(b, a)
      <4>1. Load2(host, data, offset) = a * Radix + b * 1
        BY <3>1 DEF Load2, a, b
      <4> QED
        BY <1>2, <2>1, <4>1 DEF Of2
    <3>3. ReadUint16(host, data, offset) = Of2(b, a)
      BY <2>3, <3>2 DEF ReadUint16, NetworkToHost16, HostToNetwork16
    <3> QED
      BY <3>3 DEF a, b
  <2> QED
    BY <2>2, <2>3 DEF Hosts
<1>4. ASSUME offset + 4 <= Len(data)
      PROVE  ReadUint32(host, data, offset) = Of4(data[offset + 4], data[offset + 3],
                                                  data[offset + 2], data[offset + 1])
  <2> DEFINE a == data[offset + 1]
             b == data[offset + 2]
             c == data[offset + 3]
             d == data[offset + 4]
  <2>1. a \in Byte /\ b \in Byte /\ c \in Byte /\ d \in Byte
    BY <1>1, <1>4
  <2> HIDE DEF a, b, c, d
  <2>2. /\ Of4(a, b, c, d) = a + b * Radix + c * Radix2 + d * Radix3
        /\ Of4(d, c, b, a) = a * Radix3 + b * Radix2 + c * Radix + d
    BY <1>2, <2>1 DEF Of4, Of2
  <2>3. CASE host = "Little"
    <3>1. /\ Weight(host, 4, 1) = 1 /\ Weight(host, 4, 2) = Radix
          /\ Weight(host, 4, 3) = Radix2 /\ Weight(host, 4, 4) = Radix3
      BY <2>3 DEF Weight
    <3>2. Load4(host, data, offset) = Of4(a, b, c, d)
      <4>1. Load4(host, data, offset) = a * 1 + b * Radix + c * Radix2 + d * Radix3
        BY <3>1 DEF Load4, a, b, c, d
      <4> QED
        BY <1>2, <2>1, <2>2, <4>1
    <3>3. ReadUint32(host, data, offset) = Of4(d, c, b, a)
      BY <2>1, <2>3, <3>2, SwapDigits DEF ReadUint32, NetworkToHost32, HostToNetwork32
    <3> QED
      BY <3>3 DEF a, b, c, d
  <2>4. CASE host = "Big"
    <3>1. /\ Weight(host, 4, 1) = Radix3 /\ Weight(host, 4, 2) = Radix2
          /\ Weight(host, 4, 3) = Radix /\ Weight(host, 4, 4) = 1
      BY <2>4 DEF Weight
    <3>2. Load4(host, data, offset) = Of4(d, c, b, a)
      <4>1. Load4(host, data, offset) = a * Radix3 + b * Radix2 + c * Radix + d * 1
        BY <3>1 DEF Load4, a, b, c, d
      <4> QED
        BY <1>2, <2>1, <2>2, <4>1
    <3>3. ReadUint32(host, data, offset) = Of4(d, c, b, a)
      BY <2>4, <3>2 DEF ReadUint32, NetworkToHost32, HostToNetwork32
    <3> QED
      BY <3>3 DEF a, b, c, d
  <2> QED
    BY <2>3, <2>4 DEF Hosts
<1> QED
  BY <1>3, <1>4

(* The bytes of a number are bytes, and make the number again; bytes are   *)
(* those of the number that they make.                                     *)
LEMMA WireAndBack ==
  /\ \A v \in 0..(Radix2 - 1) : /\ Wire2(v) \in Seq(Byte) /\ Len(Wire2(v)) = 2
                                /\ Wire2(v)[1] \in Byte /\ Wire2(v)[2] \in Byte
                                /\ Of2(Wire2(v)[2], Wire2(v)[1]) = v
  /\ \A v \in 0..(Radix4 - 1) : /\ Wire4(v) \in Seq(Byte) /\ Len(Wire4(v)) = 4
                                /\ Of4(Wire4(v)[4], Wire4(v)[3], Wire4(v)[2], Wire4(v)[1]) = v
  /\ \A a, b \in Byte : Wire2(Of2(b, a)) = <<a, b>>
  /\ \A a, b, c, d \in Byte : Wire4(Of4(d, c, b, a)) = <<a, b, c, d>>
<1>1. \A a, b \in Byte : Wire2(Of2(b, a)) = <<a, b>>
  BY Of2Digits DEF Wire2
<1>2. \A a, b, c, d \in Byte : Wire4(Of4(d, c, b, a)) = <<a, b, c, d>>
  BY Of4Digits DEF Wire4
<1>3. ASSUME NEW v \in 0..(Radix2 - 1)
      PROVE  /\ Wire2(v) \in Seq(Byte) /\ Len(Wire2(v)) = 2
             /\ Wire2(v)[1] \in Byte /\ Wire2(v)[2] \in Byte
             /\ Of2(Wire2(v)[2], Wire2(v)[1]) = v
  <2>1. PICK b, a \in Byte : v = Of2(b, a)
    BY IsOf2
  <2>2. Wire2(v) = <<a, b>>
    BY <1>1, <2>1
  <2> QED
    BY <2>1, <2>2
<1>4. ASSUME NEW v \in 0..(Radix4 - 1)
      PROVE  /\ Wire4(v) \in Seq(Byte) /\ Len(Wire4(v)) = 4
             /\ Of4(Wire4(v)[4], Wire4(v)[3], Wire4(v)[2], Wire4(v)[1]) = v
  <2>1. PICK d, c, b, a \in Byte : v = Of4(d, c, b, a)
    BY IsOf4
  <2>2. Wire4(v) = <<a, b, c, d>>
    BY <1>2, <2>1
  <2> QED
    BY <2>1, <2>2
<1> QED
  BY <1>1, <1>2, <1>3, <1>4

-----------------------------------------------------------------------------
(* Encodings.                                                              *)

\* The packets a program can build: every field is as wide as its type.
Fields(p) ==
  /\ p.magic \in 0..(Radix4 - 1)
  /\ p.version \in Byte /\ p.flags \in Byte
  /\ p.opcode \in 0..(Radix2 - 1)
  /\ p.sequenceId \in 0..(Radix4 - 1)
  /\ p.payload \in Seq(Byte)

\* The sixteen bytes of the header.
Header(p) ==
  Wire4(p.magic) \o <<p.version, p.flags>> \o Wire2(p.opcode)
  \o Wire4(p.sequenceId) \o Wire4(PayloadLength(p))

(* The length field is as wide as its type.                                *)
LEMMA LengthField ==
  ASSUME NEW p, Fields(p)
  PROVE  /\ PayloadLength(p) \in 0..(Radix4 - 1)
         /\ Len(p.payload) < Radix4 => PayloadLength(p) = Len(p.payload)
<1>1. Len(p.payload) \in Nat
  BY LenProperties DEF Fields
<1>2. PayloadLength(p) \in 0..(Radix4 - 1)
  BY <1>1, Sizes, Remainder DEF PayloadLength
<1>3. ASSUME Len(p.payload) < Radix4 PROVE PayloadLength(p) = Len(p.payload)
  <2> DEFINE n == Len(p.payload)
  <2>1. n \in 0..(Radix4 - 1)
    BY <1>1, <1>3, Sizes
  <2>2. (n + Radix4 * 0) % Radix4 = n
    BY <2>1, Sizes, Division
  <2>3. \A k \in Nat : k + Radix4 * 0 = k
    BY Sizes
  <2> QED
    BY <1>1, <2>2, <2>3 DEF PayloadLength
<1> QED
  BY <1>2, <1>3

(* Both kinds of host write the same header before the payload.            *)
LEMMA EncodeIs ==
  ASSUME NEW host \in Hosts, NEW p, Fields(p)
  PROVE  Encode(host, p) = Header(p) \o p.payload
  BY WritesWire, LengthField DEF Encode, Header, Fields

(* What is where in a concatenation.                                       *)
LEMMA Joined ==
  ASSUME NEW s \in Seq(Byte), NEW t \in Seq(Byte)
  PROVE  /\ s \o t \in Seq(Byte) /\ Len(s \o t) = Len(s) + Len(t)
         /\ \A i \in 1..Len(s) : (s \o t)[i] = s[i]
         /\ \A i \in 1..Len(t) : (s \o t)[Len(s) + i] = t[i]
<1> DEFINE r == s \o t
<1>0. Len(s) \in Nat /\ Len(t) \in Nat
  BY LenProperties
<1>1. /\ r \in Seq(Byte) /\ Len(r) = Len(s) + Len(t)
      /\ \A i \in 1..Len(s) + Len(t) : r[i] = IF i <= Len(s) THEN s[i] ELSE t[i - Len(s)]
  BY ConcatProperties
<1> HIDE DEF r
<1>2. ASSUME NEW i \in 1..Len(t) PROVE r[Len(s) + i] = t[i]
  <2>1. Len(s) + i \in 1..Len(s) + Len(t) /\ ~(Len(s) + i <= Len(s)) /\ (Len(s) + i) - Len(s) = i
    BY <1>0
  <2> QED
    BY <1>1, <2>1
<1> QED
  BY <1>0, <1>1, <1>2 DEF r

(* What is where in a header.                                              *)
LEMMA HeaderIs ==
  ASSUME NEW p, Fields(p)
  PROVE  /\ Header(p) \in Seq(Byte) /\ Len(Header(p)) = 16
         /\ \A i \in 1..4 : /\ Header(p)[i] = Wire4(p.magic)[i]
                            /\ Header(p)[8 + i] = Wire4(p.sequenceId)[i]
                            /\ Header(p)[12 + i] = Wire4(PayloadLength(p))[i]
         /\ Header(p)[5] = p.version /\ Header(p)[6] = p.flags
         /\ Header(p)[7] = Wire2(p.opcode)[1] /\ Header(p)[8] = Wire2(p.opcode)[2]
<1> DEFINE m == Wire4(p.magic)
           o == Wire2(p.opcode)
           s == Wire4(p.sequenceId)
           l == Wire4(PayloadLength(p))
           x == <<p.version, p.flags>>
           h1 == m \o x
           h2 == h1 \o o
           h3 == h2 \o s
           h4 == h3 \o l
<1>1. /\ m \in Seq(Byte) /\ Len(m) = 4 /\ o \in Seq(Byte) /\ Len(o) = 2
      /\ s \in Seq(Byte) /\ Len(s) = 4 /\ l \in Seq(Byte) /\ Len(l) = 4
  BY WireAndBack, LengthField DEF Fields
<1>2. x \in Seq(Byte) /\ Len(x) = 2 /\ x[1] = p.version /\ x[2] = p.flags
  BY DEF Fields
<1>3. Header(p) = h4
  BY DEF Header
<1> HIDE DEF m, o, s, l, x
<1>4. /\ h1 \in Seq(Byte) /\ Len(h1) = 6
      /\ \A i \in 1..4 : h1[i] = m[i]
      /\ \A i \in 1..2 : h1[4 + i] = x[i]
  <2>1. /\ h1 \in Seq(Byte) /\ Len(h1) = Len(m) + Len(x)
        /\ \A i \in 1..Len(m) : h1[i] = m[i]
        /\ \A i \in 1..Len(x) : h1[Len(m) + i] = x[i]
    BY <1>1, <1>2, Joined
  <2> HIDE DEF h1
  <2> QED
    BY <1>1, <1>2, <2>1
<1> HIDE DEF h1
<1>5. /\ h2 \in Seq(Byte) /\ Len(h2) = 8
      /\ \A i \in 1..6 : h2[i] = h1[i]
      /\ \A i \in 1..2 : h2[6 + i] = o[i]
  <2>1. /\ h2 \in Seq(Byte) /\ Len(h2) = Len(h1) + Len(o)
        /\ \A i \in 1..Len(h1) : h2[i] = h1[i]
        /\ \A i \in 1..Len(o) : h2[Len(h1) + i] = o[i]
    BY <1>1, <1>4, Joined
  <2> HIDE DEF h2
  <2> QED
    BY <1>1, <1>4, <2>1
<1> HIDE DEF h2
<1>6. /\ h3 \in Seq(Byte) /\ Len(h3) = 12
      /\ \A i \in 1..8 : h3[i] = h2[i]
      /\ \A i \in 1..4 : h3[8 + i] = s[i]
  <2>1. /\ h3 \in Seq(Byte) /\ Len(h3) = Len(h2) + Len(s)
        /\ \A i \in 1..Len(h2) : h3[i] = h2[i]
        /\ \A i \in 1..Len(s) : h3[Len(h2) + i] = s[i]
    BY <1>1, <1>5, Joined
  <2> HIDE DEF h3
  <2> QED
    BY <1>1, <1>5, <2>1
<1> HIDE DEF h3
<1>7. /\ h4 \in Seq(Byte) /\ Len(h4) = 16
      /\ \A i \in 1..12 : h4[i] = h3[i]
      /\ \A i \in 1..4 : h4[12 + i] = l[i]
  <2>1. /\ h4 \in Seq(Byte) /\ Len(h4) = Len(h3) + Len(l)
        /\ \A i \in 1..Len(h3) : h4[i] = h3[i]
        /\ \A i \in 1..Len(l) : h4[Len(h3) + i] = l[i]
    BY <1>1, <1>6, Joined
  <2> HIDE DEF h4
  <2> QED
    BY <1>1, <1>6, <2>1
<1> HIDE DEF h4
<1>8. \A i \in 1..4 : h4[i] = m[i] /\ h4[8 + i] = s[i] /\ h4[12 + i] = l[i]
  BY <1>4, <1>5, <1>6, <1>7
<1>9. h4[5] = x[1] /\ h4[6] = x[2] /\ h4[7] = o[1] /\ h4[8] = o[2]
  <2>1. h1[4 + 1] = x[1] /\ h1[4 + 2] = x[2] /\ h2[6 + 1] = o[1] /\ h2[6 + 2] = o[2]
    BY <1>4, <1>5
  <2> QED
    BY <1>5, <1>6, <1>7, <2>1
<1> QED
  BY <1>2, <1>3, <1>7, <1>8, <1>9 DEF m, s, l, o

(* What is where in an encoding.                                           *)
LEMMA EncodingIs ==
  ASSUME NEW host \in Hosts, NEW p, Fields(p)
  PROVE  /\ Encode(host, p) \in Seq(Byte) /\ Len(Encode(host, p)) = 16 + Len(p.payload)
         /\ \A i \in 1..16 : Encode(host, p)[i] = Header(p)[i]
         /\ \A i \in 1..Len(p.payload) : Encode(host, p)[16 + i] = p.payload[i]
<1> DEFINE h == Header(p)
           q == p.payload
           data == h \o q
<1>1. h \in Seq(Byte) /\ Len(h) = 16 /\ q \in Seq(Byte)
  BY HeaderIs DEF Fields
<1>2. Encode(host, p) = data
  BY EncodeIs
<1> HIDE DEF h, q
<1>3. /\ data \in Seq(Byte) /\ Len(data) = Len(h) + Len(q)
      /\ \A i \in 1..Len(h) : data[i] = h[i]
      /\ \A i \in 1..Len(q) : data[Len(h) + i] = q[i]
  BY <1>1, Joined
<1> HIDE DEF data
<1>4. /\ data \in Seq(Byte) /\ Len(data) = 16 + Len(q)
      /\ \A i \in 1..16 : data[i] = h[i]
      /\ \A i \in 1..Len(q) : data[16 + i] = q[i]
  BY <1>1, <1>3
<1> QED
  BY <1>2, <1>4 DEF h, q

(* What the readers of the Decoder find in the sixteen bytes.              *)
LEMMA ReadsAll ==
  ASSUME NEW host \in Hosts, NEW data \in Seq(Byte), Len(data) >= 16
  PROVE  /\ ReadUint32(host, data, 0) = Of4(data[4], data[3], data[2], data[1])
         /\ ReadUint16(host, data, 6) = Of2(data[8], data[7])
         /\ ReadUint32(host, data, 8) = Of4(data[12], data[11], data[10], data[9])
         /\ ReadUint32(host, data, 12) = Of4(data[16], data[15], data[14], data[13])
<1>0. Len(data) \in Nat
  BY LenProperties
<1>1. ReadUint32(host, data, 0) = Of4(data[4], data[3], data[2], data[1])
  <2>1. 0 + 4 <= Len(data) /\ 0 + 1 = 1 /\ 0 + 2 = 2 /\ 0 + 3 = 3 /\ 0 + 4 = 4 /\ 0 \in Nat
    BY <1>0
  <2>2. ReadUint32(host, data, 0) = Of4(data[0 + 4], data[0 + 3], data[0 + 2], data[0 + 1])
    BY <2>1, ReadsWire, Zenon
  <2> QED
    BY <2>1, <2>2
<1>2. ReadUint16(host, data, 6) = Of2(data[8], data[7])
  <2>1. 6 + 2 <= Len(data) /\ 6 + 1 = 7 /\ 6 + 2 = 8 /\ 6 \in Nat
    BY <1>0
  <2>2. ReadUint16(host, data, 6) = Of2(data[6 + 2], data[6 + 1])
    BY <2>1, ReadsWire, Zenon
  <2> QED
    BY <2>1, <2>2
<1>3. ReadUint32(host, data, 8) = Of4(data[12], data[11], data[10], data[9])
  BY <1>0, ReadsWire
<1>4. ReadUint32(host, data, 12) = Of4(data[16], data[15], data[14], data[13])
  BY <1>0, ReadsWire
<1> QED
  BY <1>1, <1>2, <1>3, <1>4

(* What the four readers find in bytes that begin with the header of a     *)
(* packet.                                                                 *)
LEMMA ReadsHeader ==
  ASSUME NEW host \in Hosts, NEW p, Fields(p), NEW data \in Seq(Byte), Len(data) >= 16,
         \A i \in 1..16 : data[i] = Header(p)[i]
  PROVE  /\ ReadUint32(host, data, 0) = p.magic
         /\ data[5] = p.version /\ data[6] = p.flags
         /\ ReadUint16(host, data, 6) = p.opcode
         /\ ReadUint32(host, data, 8) = p.sequenceId
         /\ ReadUint32(host, data, 12) = PayloadLength(p)
<1> DEFINE h == Header(p)
<1>0. /\ Len(data) \in Nat
      /\ data[1] = h[1] /\ data[2] = h[2] /\ data[3] = h[3] /\ data[4] = h[4]
      /\ data[5] = h[5] /\ data[6] = h[6] /\ data[7] = h[7] /\ data[8] = h[8]
      /\ data[9] = h[8 + 1] /\ data[10] = h[8 + 2] /\ data[11] = h[8 + 3] /\ data[12] = h[8 + 4]
      /\ data[13] = h[12 + 1] /\ data[14] = h[12 + 2] /\ data[15] = h[12 + 3]
      /\ data[16] = h[12 + 4]
  BY LenProperties
<1>1. /\ \A i \in 1..4 : /\ h[i] = Wire4(p.magic)[i]
                         /\ h[8 + i] = Wire4(p.sequenceId)[i]
                         /\ h[12 + i] = Wire4(PayloadLength(p))[i]
      /\ h[5] = p.version /\ h[6] = p.flags
      /\ h[7] = Wire2(p.opcode)[1] /\ h[8] = Wire2(p.opcode)[2]
  BY HeaderIs
<1> HIDE DEF h
<1>2. ReadUint32(host, data, 0) = p.magic
  <2>1. ReadUint32(host, data, 0) = Of4(data[4], data[3], data[2], data[1])
    BY ReadsAll
  <2>2. Of4(Wire4(p.magic)[4], Wire4(p.magic)[3], Wire4(p.magic)[2], Wire4(p.magic)[1]) = p.magic
    BY WireAndBack DEF Fields
  <2> QED
    BY <1>0, <1>1, <2>1, <2>2
<1>3. ReadUint16(host, data, 6) = p.opcode
  <2>1. ReadUint16(host, data, 6) = Of2(data[8], data[7])
    BY ReadsAll
  <2>2. Of2(Wire2(p.opcode)[2], Wire2(p.opcode)[1]) = p.opcode
    BY WireAndBack DEF Fields
  <2> QED
    BY <1>0, <1>1, <2>1, <2>2
<1>4. ReadUint32(host, data, 8) = p.sequenceId
  <2> DEFINE w == Wire4(p.sequenceId)
  <2>1. ReadUint32(host, data, 8) = Of4(data[12], data[11], data[10], data[9])
    BY ReadsAll
  <2>2. Of4(w[4], w[3], w[2], w[1]) = p.sequenceId
    BY WireAndBack DEF Fields
  <2>3. data[9] = w[1] /\ data[10] = w[2] /\ data[11] = w[3] /\ data[12] = w[4]
    BY <1>0, <1>1
  <2> QED
    BY <2>1, <2>2, <2>3
<1>5. ReadUint32(host, data, 12) = PayloadLength(p)
  <2> DEFINE w == Wire4(PayloadLength(p))
  <2>1. ReadUint32(host, data, 12) = Of4(data[16], data[15], data[14], data[13])
    BY ReadsAll
  <2>2. Of4(w[4], w[3], w[2], w[1]) = PayloadLength(p)
    BY WireAndBack, LengthField
  <2>3. data[13] = w[1] /\ data[14] = w[2] /\ data[15] = w[3] /\ data[16] = w[4]
    BY <1>0, <1>1
  <2> QED
    BY <2>1, <2>2, <2>3
<1> QED
  BY <1>0, <1>1, <1>2, <1>3, <1>4, <1>5

\* The type of a packet.
PacketType ==
  [magic : 0..(Radix4 - 1), version : Byte, flags : Byte, opcode : 0..(Radix2 - 1),
   sequenceId : 0..(Radix4 - 1), payload : Seq(Byte)]

(* What is left of a sequence after the header.                            *)
LEMMA TailIs ==
  ASSUME NEW data \in Seq(Byte), NEW n \in Nat, Len(data) = 16 + n
  PROVE  LET t == SubSeq(data, HEADER_SIZE + 1, Len(data))
         IN  t \in Seq(Byte) /\ Len(t) = n /\ \A i \in 1..n : t[i] = data[16 + i]
<1> DEFINE t == SubSeq(data, 17, Len(data))
<1>1. Len(data) \in Nat
  BY LenProperties
<1>2. \A i \in 17..Len(data) : data[i] \in Byte
  BY <1>1, ElementOfSeq
<1>3. /\ t \in Seq(Byte) /\ Len(t) = IF 17 <= Len(data) THEN Len(data) - 17 + 1 ELSE 0
      /\ \A i \in 1..(Len(data) - 17 + 1) : t[i] = data[17 + i - 1]
  BY <1>1, <1>2, SubSeqProperties
<1> HIDE DEF t
<1>4. Len(t) = n
  BY <1>1, <1>3
<1>5. \A i \in 1..n : t[i] = data[16 + i]
  <2> SUFFICES ASSUME NEW i \in 1..n PROVE t[i] = data[16 + i]
    OBVIOUS
  <2>1. 17 + i - 1 = 16 + i /\ i \in 1..(Len(data) - 17 + 1)
    BY <1>1
  <2> QED
    BY <1>3, <2>1
<1> QED
  BY <1>3, <1>4, <1>5 DEF t, HEADER_SIZE

(* What is left of a sequence after its first elements.                    *)
LEMMA RestIs ==
  ASSUME NEW data \in Seq(Byte), NEW rest \in Seq(Byte), Len(data) = 16 + Len(rest),
         \A i \in 1..Len(rest) : data[16 + i] = rest[i]
  PROVE  SubSeq(data, HEADER_SIZE + 1, Len(data)) = rest
<1> DEFINE t == SubSeq(data, HEADER_SIZE + 1, Len(data))
<1>1. Len(rest) \in Nat
  BY LenProperties
<1>2. t \in Seq(Byte) /\ Len(t) = Len(rest) /\ \A i \in 1..Len(rest) : t[i] = data[16 + i]
  BY <1>1, TailIs
<1> HIDE DEF t
<1>3. t = rest
  BY <1>2, SeqEqual
<1> QED
  BY <1>3 DEF t

(* The first elements of a sequence.                                        *)
LEMMA HeadIs ==
  ASSUME NEW data \in Seq(Byte), NEW n \in Nat, n <= Len(data)
  PROVE  LET c == SubSeq(data, 1, n)
         IN  c \in Seq(Byte) /\ Len(c) = n /\ \A i \in 1..n : c[i] = data[i]
<1> DEFINE c == SubSeq(data, 1, n)
<1>1. Len(data) \in Nat
  BY LenProperties
<1>2. \A i \in 1..n : data[i] \in Byte
  BY <1>1, ElementOfSeq
<1>3. /\ c \in Seq(Byte) /\ Len(c) = IF 1 <= n THEN n - 1 + 1 ELSE 0
      /\ \A i \in 1..(n - 1 + 1) : c[i] = data[1 + i - 1]
  BY <1>2, SubSeqProperties
<1> HIDE DEF c
<1>4. Len(c) = n
  BY <1>3
<1>5. \A i \in 1..n : c[i] = data[i]
  <2> SUFFICES ASSUME NEW i \in 1..n PROVE c[i] = data[i]
    OBVIOUS
  <2>1. 1 + i - 1 = i /\ i \in 1..(n - 1 + 1)
    OBVIOUS
  <2> QED
    BY <1>3, <2>1
<1> QED
  BY <1>3, <1>4, <1>5 DEF c

(* The whole of a sequence.                                                *)
LEMMA WholeIs ==
  ASSUME NEW data \in Seq(Byte)
  PROVE  SubSeq(data, 1, Len(data)) = data
  BY SubSeqFull

(* The packet that the Decoder makes out of the fields it has read.         *)
LEMMA SetFields ==
  ASSUME NEW f, NEW o, NEW s, NEW q
  PROVE  [NewPacket EXCEPT !.flags = f, !.opcode = o, !.sequenceId = s, !.payload = q]
         = [magic |-> MAGIC, version |-> VERSION, flags |-> f, opcode |-> o,
            sequenceId |-> s, payload |-> q]
<1> DEFINE p1 == [NewPacket EXCEPT !.flags = f]
           p2 == [p1 EXCEPT !.opcode = o]
           p3 == [p2 EXCEPT !.sequenceId = s]
           p4 == [p3 EXCEPT !.payload = q]
<1>0. [NewPacket EXCEPT !.flags = f, !.opcode = o, !.sequenceId = s, !.payload = q] = p4
  OBVIOUS
<1> HIDE DEF p4
<1>1. p1 = [magic |-> MAGIC, version |-> VERSION, flags |-> f, opcode |-> 0,
            sequenceId |-> 0, payload |-> <<>>]
  BY DEF NewPacket
<1> HIDE DEF p1
<1>2. p2 = [magic |-> MAGIC, version |-> VERSION, flags |-> f, opcode |-> o,
            sequenceId |-> 0, payload |-> <<>>]
  BY <1>1
<1> HIDE DEF p2
<1>3. p3 = [magic |-> MAGIC, version |-> VERSION, flags |-> f, opcode |-> o,
            sequenceId |-> s, payload |-> <<>>]
  BY <1>2
<1> HIDE DEF p3
<1>4. p4 = [magic |-> MAGIC, version |-> VERSION, flags |-> f, opcode |-> o,
            sequenceId |-> s, payload |-> q]
  BY <1>3 DEF p4
<1> QED
  BY <1>0, <1>4

(* The Decoder reads an encoding as the packet, on both kinds of host, and *)
(* so does PacketIO.                                                       *)
LEMMA DecodesEncoding ==
  ASSUME NEW host \in Hosts, NEW reader \in Hosts, NEW p \in PacketType, IsValid(p)
  PROVE  /\ Decode(reader, Encode(host, p)) = [error |-> "none", packet |-> p]
         /\ ReceivePacket(reader, Encode(host, p)) = Decode(reader, Encode(host, p))
<1> DEFINE data == Encode(host, p)
<1>1. Fields(p) /\ p.payload \in Seq(Byte)
  BY DEF Fields, PacketType
<1>2. /\ data \in Seq(Byte) /\ Len(data) = 16 + Len(p.payload)
      /\ \A i \in 1..16 : data[i] = Header(p)[i]
      /\ \A i \in 1..Len(p.payload) : data[16 + i] = p.payload[i]
  BY <1>1, EncodingIs
<1> HIDE DEF data
<1>3. Len(p.payload) \in Nat
  BY <1>1, LenProperties
<1>4. Len(data) >= 16
  BY <1>2, <1>3
<1>5. /\ ReadUint32(reader, data, 0) = p.magic
      /\ data[5] = p.version /\ data[6] = p.flags
      /\ ReadUint16(reader, data, 6) = p.opcode
      /\ ReadUint32(reader, data, 8) = p.sequenceId
      /\ ReadUint32(reader, data, 12) = PayloadLength(p)
  BY <1>1, <1>2, <1>4, ReadsHeader
<1>6. PayloadLength(p) = Len(p.payload) /\ p.magic = MAGIC /\ p.version = VERSION
  BY <1>1, LengthField DEF IsValid
<1>7. SubSeq(data, HEADER_SIZE + 1, Len(data)) = p.payload
  BY <1>1, <1>2, RestIs
<1>8. p = [NewPacket EXCEPT !.flags = p.flags, !.opcode = p.opcode,
                            !.sequenceId = p.sequenceId, !.payload = p.payload]
  <2>1. p = [magic |-> MAGIC, version |-> VERSION, flags |-> p.flags, opcode |-> p.opcode,
             sequenceId |-> p.sequenceId, payload |-> p.payload]
    BY <1>6 DEF PacketType
  <2> DEFINE r == [NewPacket EXCEPT !.flags = p.flags, !.opcode = p.opcode,
                                    !.sequenceId = p.sequenceId, !.payload = p.payload]
  <2>2. r = [magic |-> MAGIC, version |-> VERSION, flags |-> p.flags, opcode |-> p.opcode,
             sequenceId |-> p.sequenceId, payload |-> p.payload]
    BY SetFields, Zenon
  <2> HIDE DEF r
  <2>3. p = r
    BY <2>1, <2>2
  <2> QED
    BY <2>3 DEF r
<1>9. Len(data) = HEADER_SIZE + ReadUint32(reader, data, 12) /\ ~(Len(data) < HEADER_SIZE)
  <2> DEFINE n == Len(p.payload)
             l == Len(data)
             r == ReadUint32(reader, data, 12)
  <2>1. n \in Nat /\ l = 16 + n /\ r = n
    BY <1>2, <1>3, <1>5, <1>6
  <2> HIDE DEF n, l, r
  <2>2. l = HEADER_SIZE + r /\ ~(l < HEADER_SIZE)
    BY <2>1 DEF HEADER_SIZE
  <2> QED
    BY <2>2 DEF l, r
<1>10. Decode(reader, data) = [error |-> "none", packet |-> p]
  <2>1. /\ ~(Len(data) < HEADER_SIZE \/ ReadUint32(reader, data, 0) # MAGIC)
        /\ ~(data[5] # VERSION)
        /\ ~(Len(data) # HEADER_SIZE + ReadUint32(reader, data, 12))
    BY <1>5, <1>6, <1>9
  <2>2. Decode(reader, data)
        = [error |-> "none",
           packet |-> [NewPacket EXCEPT !.flags = data[6],
                         !.opcode = ReadUint16(reader, data, 6),
                         !.sequenceId = ReadUint32(reader, data, 8),
                         !.payload = SubSeq(data, HEADER_SIZE + 1, Len(data))]]
    BY <2>1 DEF Decode
  <2> QED
    BY <1>5, <1>7, <1>8, <2>2
<1>11. ReceivePacket(reader, data) = Decode(reader, SubSeq(data, 1, Len(data)))
  <2>1. Len(data) \in Nat
    BY <1>2, <1>3
  <2> QED
    BY <1>9, <2>1 DEF ReceivePacket
<1>12. SubSeq(data, 1, Len(data)) = data
  BY <1>2, WholeIs
<1> QED
  BY <1>10, <1>11, <1>12 DEF data
(* What the Decoder accepts is what the Encoder of either kind of host     *)
(* writes for the packet that it returns.                                  *)
LEMMA AcceptedBytes ==
  ASSUME NEW reader \in Hosts, NEW data \in Seq(Byte), NEW q,
         Decode(reader, data).error = "none", q = Decode(reader, data).packet
  PROVE  q \in PacketType /\ IsValid(q) /\ \A host \in Hosts : data = Encode(host, q)
<1> DEFINE n == ReadUint32(reader, data, 12)
           m == ReadUint32(reader, data, 0)
           o == ReadUint16(reader, data, 6)
           s == ReadUint32(reader, data, 8)
           f == data[6]
           l == Len(data)
           t == SubSeq(data, HEADER_SIZE + 1, l)
           r == [NewPacket EXCEPT !.flags = f, !.opcode = o, !.sequenceId = s, !.payload = t]
<1>1. \A error : error # "none" => Fails(error).error # "none"
  BY DEF Fails
<1>2. ~(l < HEADER_SIZE \/ m # MAGIC)
  BY <1>1 DEF Decode
<1>3. ~(data[5] # VERSION)
  BY <1>1, <1>2 DEF Decode
<1>4. ~(l # HEADER_SIZE + n)
  BY <1>1, <1>2, <1>3 DEF Decode
<1>5. Decode(reader, data) = [error |-> "none", packet |-> r]
  BY <1>2, <1>3, <1>4 DEF Decode
<1>6. q = r
  <2> HIDE DEF r
  <2> QED
    BY <1>5
<1>7. l \in Nat /\ \A i \in 1..l : data[i] \in Byte
  BY ElementOfSeq, LenProperties
<1> HIDE DEF l, n, m, o, s, f, t
<1>8. r = [magic |-> MAGIC, version |-> VERSION, flags |-> f, opcode |-> o,
           sequenceId |-> s, payload |-> t]
  BY SetFields, Zenon
<1> HIDE DEF r
<1>9. l >= 16
  BY <1>2, <1>7 DEF HEADER_SIZE
<1>10. /\ data[1] \in Byte /\ data[2] \in Byte /\ data[3] \in Byte /\ data[4] \in Byte
       /\ data[5] \in Byte /\ data[6] \in Byte /\ data[7] \in Byte /\ data[8] \in Byte
       /\ data[9] \in Byte /\ data[10] \in Byte /\ data[11] \in Byte /\ data[12] \in Byte
       /\ data[13] \in Byte /\ data[14] \in Byte /\ data[15] \in Byte /\ data[16] \in Byte
  BY <1>7, <1>9
<1>11. /\ m = Of4(data[4], data[3], data[2], data[1])
       /\ o = Of2(data[8], data[7])
       /\ s = Of4(data[12], data[11], data[10], data[9])
       /\ n = Of4(data[16], data[15], data[14], data[13])
  BY <1>7, <1>9, ReadsAll DEF l, m, n, o, s
<1>12. /\ m \in 0..(Radix4 - 1) /\ s \in 0..(Radix4 - 1) /\ n \in 0..(Radix4 - 1)
       /\ o \in 0..(Radix2 - 1)
  <2>1. /\ \A a, b \in Byte : Of2(a, b) \in 0..(Radix2 - 1)
        /\ \A a, b, c, d \in Byte : Of4(a, b, c, d) \in 0..(Radix4 - 1)
    BY Of2Digits, Of4Digits
  <2> QED
    BY <1>10, <1>11, <2>1
<1>13. l = 16 + n /\ n \in Nat /\ n < Radix4
  BY <1>4, <1>12, Sizes DEF HEADER_SIZE
<1>14. t \in Seq(Byte) /\ Len(t) = n /\ \A i \in 1..n : t[i] = data[16 + i]
  BY <1>13, TailIs DEF l, t
<1>15. q \in PacketType /\ Fields(q) /\ IsValid(q)
  <2>1. f \in Byte /\ VERSION \in Byte /\ MAGIC \in 0..(Radix4 - 1)
    BY <1>10, CodecAssumption DEF f
  <2>2. q \in PacketType
    BY <1>6, <1>8, <1>12, <1>14, <2>1 DEF PacketType
  <2>3. q.magic = MAGIC /\ q.version = VERSION /\ q.payload = t
    BY <1>6, <1>8
  <2>4. IsValid(q)
    BY <1>13, <1>14, <2>3 DEF IsValid
  <2> QED
    BY <2>2, <2>4 DEF Fields, PacketType
<1>16. PayloadLength(q) = n /\ q.payload = t
  BY <1>6, <1>8, <1>13, <1>14, <1>15, LengthField
<1>17. \A i \in 1..16 : Header(q)[i] = data[i]
  <2>1. /\ Wire4(q.magic) = <<data[1], data[2], data[3], data[4]>>
        /\ Wire2(q.opcode) = <<data[7], data[8]>>
        /\ Wire4(q.sequenceId) = <<data[9], data[10], data[11], data[12]>>
        /\ Wire4(PayloadLength(q)) = <<data[13], data[14], data[15], data[16]>>
    <3>1. q.magic = m /\ q.opcode = o /\ q.sequenceId = s /\ PayloadLength(q) = n
      BY <1>2, <1>6, <1>8, <1>16
    <3>2. /\ Wire4(m) = <<data[1], data[2], data[3], data[4]>>
          /\ Wire4(s) = <<data[9], data[10], data[11], data[12]>>
          /\ Wire4(n) = <<data[13], data[14], data[15], data[16]>>
      <4>1. ASSUME NEW a \in Byte, NEW b \in Byte, NEW c \in Byte, NEW d \in Byte
            PROVE  Wire4(Of4(d, c, b, a)) = <<a, b, c, d>>
        BY WireAndBack
      <4>2. Wire4(Of4(data[4], data[3], data[2], data[1])) = <<data[1], data[2], data[3], data[4]>>
        <5>1. data[1] \in Byte /\ data[2] \in Byte /\ data[3] \in Byte /\ data[4] \in Byte
          BY <1>10
        <5> QED
          BY <4>1, <5>1
      <4>3. Wire4(Of4(data[12], data[11], data[10], data[9]))
            = <<data[9], data[10], data[11], data[12]>>
        <5>1. data[9] \in Byte /\ data[10] \in Byte /\ data[11] \in Byte /\ data[12] \in Byte
          BY <1>10
        <5> QED
          BY <4>1, <5>1
      <4>4. Wire4(Of4(data[16], data[15], data[14], data[13]))
            = <<data[13], data[14], data[15], data[16]>>
        <5>1. data[13] \in Byte /\ data[14] \in Byte /\ data[15] \in Byte /\ data[16] \in Byte
          BY <1>10
        <5> QED
          BY <4>1, <5>1
      <4> QED
        BY <1>11, <4>2, <4>3, <4>4
    <3>3. Wire2(o) = <<data[7], data[8]>>
      <4>1. \A a, b \in Byte : Wire2(Of2(b, a)) = <<a, b>>
        BY WireAndBack
      <4> QED
        BY <1>10, <1>11, <4>1
    <3> QED
      BY <3>1, <3>2, <3>3
  <2> DEFINE h == Header(q)
  <2>2. /\ h[5] = q.version /\ h[6] = q.flags
        /\ h[7] = Wire2(q.opcode)[1] /\ h[8] = Wire2(q.opcode)[2]
    BY <1>15, HeaderIs
  <2>3. \A i \in 1..4 : /\ h[i] = Wire4(q.magic)[i]
                        /\ h[8 + i] = Wire4(q.sequenceId)[i]
                        /\ h[12 + i] = Wire4(PayloadLength(q))[i]
    BY <1>15, HeaderIs
  <2>4. q.version = data[5] /\ q.flags = data[6]
    BY <1>3, <1>6, <1>8 DEF f
  <2> HIDE DEF h
  <2>5. /\ h[1] = data[1] /\ h[2] = data[2] /\ h[3] = data[3] /\ h[4] = data[4]
        /\ h[5] = data[5] /\ h[6] = data[6] /\ h[7] = data[7] /\ h[8] = data[8]
    BY <2>1, <2>2, <2>3, <2>4
  <2>6. /\ h[9] = data[9] /\ h[10] = data[10] /\ h[11] = data[11] /\ h[12] = data[12]
        /\ h[13] = data[13] /\ h[14] = data[14] /\ h[15] = data[15] /\ h[16] = data[16]
    <3>1. /\ h[8 + 1] = data[9] /\ h[8 + 2] = data[10] /\ h[8 + 3] = data[11] /\ h[8 + 4] = data[12]
          /\ h[12 + 1] = data[13] /\ h[12 + 2] = data[14]
          /\ h[12 + 3] = data[15] /\ h[12 + 4] = data[16]
      BY <2>1, <2>3
    <3> QED
      BY <3>1
  <2>7. \A i \in 1..16 : \/ i = 1 \/ i = 2 \/ i = 3 \/ i = 4 \/ i = 5 \/ i = 6 \/ i = 7 \/ i = 8
                         \/ i = 9 \/ i = 10 \/ i = 11 \/ i = 12 \/ i = 13 \/ i = 14 \/ i = 15
                         \/ i = 16
    OBVIOUS
  <2>8. \A i \in 1..16 : h[i] = data[i]
    BY <2>5, <2>6, <2>7
  <2> QED
    BY <2>8 DEF h
<1>18. ASSUME NEW host \in Hosts PROVE data = Encode(host, q)
  <2> DEFINE e == Encode(host, q)
  <2>1. /\ e \in Seq(Byte) /\ Len(e) = 16 + Len(q.payload)
        /\ \A i \in 1..16 : e[i] = Header(q)[i]
        /\ \A i \in 1..Len(q.payload) : e[16 + i] = q.payload[i]
    BY <1>15, EncodingIs
  <2> HIDE DEF e
  <2>2. Len(data) = Len(e)
    BY <1>13, <1>14, <1>16, <2>1 DEF l
  <2>3. \A i \in 1..Len(data) : data[i] = e[i]
    <3> SUFFICES ASSUME NEW i \in 1..l PROVE data[i] = e[i]
      BY DEF l
    <3>1. CASE i <= 16
      <4>1. i \in 1..16
        BY <1>7, <3>1
      <4> QED
        BY <1>17, <2>1, <4>1
    <3>2. CASE i > 16
      <4>1. i - 16 \in 1..n /\ 16 + (i - 16) = i
        BY <1>7, <1>13, <3>2
      <4>2. e[16 + (i - 16)] = t[i - 16] /\ t[i - 16] = data[16 + (i - 16)]
        BY <1>14, <1>16, <2>1, <4>1
      <4> QED
        BY <4>1, <4>2
    <3> QED
      BY <1>7, <3>1, <3>2
  <2>4. data = e
    BY <2>1, <2>2, <2>3, SeqEqual
  <2> QED
    BY <2>4 DEF e
<1> QED
  BY <1>15, <1>18
(* PacketIO, which cuts the packet out of the stream, and the Decoder agree *)
(* on its length.                                                          *)
LEMMA CutsThePacket ==
  ASSUME NEW host \in Hosts, NEW data \in Seq(Byte),
         NEW d, d = Decode(host, data), NEW r, r = ReceivePacket(host, data)
  PROVE  /\ r.error # "InvalidPayload"
         /\ d.error \notin {"InvalidPayload", "none"} /\ r.error # "ConnectionClosed" => r = d
         /\ d.error = "none" => r = d
<1> DEFINE n == ReadUint32(host, data, 12)
           l == Len(data)
           size == HEADER_SIZE + n
           cut == SubSeq(data, 1, size)
<1>1. \A error : Fails(error).error = error
  BY DEF Fails
<1>2. l \in Nat /\ \A i \in 1..l : data[i] \in Byte
  BY ElementOfSeq, LenProperties
<1>3. CASE l < HEADER_SIZE
  <2>1. r = Fails("ConnectionClosed") /\ d = Fails("InvalidPacket")
    BY <1>3 DEF ReceivePacket, Decode
  <2> QED
    BY <1>1, <2>1
<1>4. CASE ~(l < HEADER_SIZE) /\ l < size
  <2>1. r = Fails("ConnectionClosed")
    BY <1>4 DEF ReceivePacket
  <2>2. d.error # "none"
    <3>1. l # size
      <4> HIDE DEF l, size
      <4> QED
        BY <1>2, <1>4
    <3>2. d \in {Fails("InvalidPacket"), Fails("UnsupportedVersion"), Fails("InvalidPayload")}
      BY <1>4, <3>1 DEF Decode
    <3> QED
      BY <1>1, <3>2
  <2> QED
    BY <1>1, <2>1, <2>2
<1>5. CASE ~(l < HEADER_SIZE) /\ ~(l < size)
  <2>1. r = Decode(host, cut)
    BY <1>5 DEF ReceivePacket
  <2>2. l >= 16
    <3> HIDE DEF l
    <3> QED
      BY <1>2, <1>5 DEF HEADER_SIZE
  <2>3. n \in Nat
    <3>1. data[13] \in Byte /\ data[14] \in Byte /\ data[15] \in Byte /\ data[16] \in Byte
      BY <1>2, <2>2
    <3>2. n = Of4(data[16], data[15], data[14], data[13])
      BY <2>2, ReadsAll
    <3> HIDE DEF n
    <3>3. n \in 0..(Radix4 - 1)
      <4>1. \A a, b, c, e \in Byte : Of4(a, b, c, e) \in 0..(Radix4 - 1)
        BY Of4Digits
      <4> QED
        BY <3>1, <3>2, <4>1
    <3> QED
      BY <3>3, Sizes
  <2> HIDE DEF n
  <2>4. size = 16 + n /\ size \in Nat /\ size <= l /\ 1 \in 1..(l + 1)
    <3>1. size = 16 + n
      BY DEF HEADER_SIZE
    <3> HIDE DEF size, l
    <3> QED
      BY <1>2, <1>5, <2>3, <3>1
  <2> HIDE DEF size
  <2>5. cut \in Seq(Byte) /\ Len(cut) = size /\ \A i \in 1..size : cut[i] = data[i]
    BY <1>2, <2>3, <2>4, HeadIs
  <2> HIDE DEF cut
  <2>6. /\ ReadUint32(host, cut, 0) = ReadUint32(host, data, 0)
        /\ ReadUint32(host, cut, 12) = n
        /\ cut[5] = data[5]
    <3>1. Len(cut) >= 16 /\ \A i \in 1..16 : cut[i] = data[i]
      BY <2>3, <2>4, <2>5
    <3>2. /\ cut[1] = data[1] /\ cut[2] = data[2] /\ cut[3] = data[3] /\ cut[4] = data[4]
          /\ cut[5] = data[5] /\ cut[13] = data[13] /\ cut[14] = data[14]
          /\ cut[15] = data[15] /\ cut[16] = data[16]
      BY <3>1
    <3>3. /\ ReadUint32(host, cut, 0) = Of4(cut[4], cut[3], cut[2], cut[1])
          /\ ReadUint32(host, cut, 12) = Of4(cut[16], cut[15], cut[14], cut[13])
      BY <2>5, <3>1, ReadsAll
    <3>4. /\ ReadUint32(host, data, 0) = Of4(data[4], data[3], data[2], data[1])
          /\ ReadUint32(host, data, 12) = Of4(data[16], data[15], data[14], data[13])
      BY <2>2, ReadsAll
    <3> QED
      BY <3>2, <3>3, <3>4 DEF n
  <2>7. ~(Len(cut) < HEADER_SIZE) /\ Len(cut) = HEADER_SIZE + ReadUint32(host, cut, 12)
    <3>1. 16 + n >= 16
      BY <2>3
    <3> QED
      BY <2>3, <2>4, <2>5, <2>6 DEF HEADER_SIZE
  <2>8. CASE ReadUint32(host, data, 0) # MAGIC
    <3>1. r = Fails("InvalidPacket") /\ d = Fails("InvalidPacket")
      BY <2>1, <2>6, <2>8 DEF Decode
    <3> QED
      BY <1>1, <3>1
  <2>9. CASE ReadUint32(host, data, 0) = MAGIC /\ data[5] # VERSION
    <3>1. r = Fails("UnsupportedVersion") /\ d = Fails("UnsupportedVersion")
      BY <1>5, <2>1, <2>6, <2>7, <2>9 DEF Decode
    <3> QED
      BY <1>1, <3>1
  <2>10. CASE ReadUint32(host, data, 0) = MAGIC /\ data[5] = VERSION
    <3>1. r.error = "none"
      BY <2>1, <2>6, <2>7, <2>10 DEF Decode
    <3>2. d.error \in {"InvalidPayload", "none"}
      BY <1>1, <1>5, <2>10 DEF Decode
    <3>3. ASSUME d.error = "none" PROVE r = d
      <4>1. l = size
        BY <1>1, <1>5, <2>10, <3>3 DEF Decode, n, size
      <4>2. cut = data
        BY <2>5, <4>1, WholeIs DEF cut
      <4> QED
        BY <2>1, <4>2
    <3> QED
      BY <3>1, <3>2, <3>3
  <2> QED
    BY <2>8, <2>9, <2>10
<1> QED
  BY <1>3, <1>4, <1>5
-----------------------------------------------------------------------------
(* The invariant.  The encoding is on its way as long as nothing has        *)
(* changed it; whoever writes something else still writes bytes.            *)
CodecInv ==
  /\ stage \in {"building", "encoded", "thrown", "read"}
  /\ packet \in PacketType /\ packet.magic = MAGIC
  /\ sender \in Hosts /\ bytes \in Seq(Byte) /\ changes \in Nat
  /\ stage = "encoded" /\ changes = 0 => IsValid(packet) /\ bytes = Encode(sender, packet)
  /\ RoundTrip /\ AcceptedIsEncoding /\ FramingAgrees

LEMMA CodecInit == Init => CodecInv
<1> SUFFICES ASSUME Init PROVE CodecInv
  OBVIOUS
<1>1. stage = "building" /\ packet = NewPacket /\ sender \in Hosts /\ bytes = <<>> /\ changes = 0
  BY DEF Init
<1>2. RoundTrip /\ AcceptedIsEncoding /\ FramingAgrees
  BY <1>1 DEF RoundTrip, AcceptedIsEncoding, FramingAgrees
<1>3. packet \in PacketType /\ packet.magic = MAGIC
  <2>1. 0 \in Byte /\ 0 \in 0..(Radix2 - 1) /\ 0 \in 0..(Radix4 - 1) /\ <<>> \in Seq(Byte)
    BY Sizes DEF Byte
  <2> QED
    BY <1>1, <2>1, CodecAssumption DEF NewPacket, PacketType
<1> QED
  BY <1>1, <1>2, <1>3 DEF CodecInv

(* A setter keeps the fields within their types and the magic number as it *)
(* is.                                                                     *)
LEMMA SetKeeps ==
  CodecInv /\ Set => packet' \in PacketType /\ packet'.magic = MAGIC
<1> SUFFICES ASSUME CodecInv, Set PROVE packet' \in PacketType /\ packet'.magic = MAGIC
  OBVIOUS
<1>1. packet \in PacketType /\ packet.magic = MAGIC
  BY DEF CodecInv
<1>2. ASSUME NEW v \in Byte, packet' = [packet EXCEPT !.version = v]
      PROVE  packet' \in PacketType /\ packet'.magic = MAGIC
  BY <1>1, <1>2 DEF PacketType
<1>3. ASSUME NEW f \in Byte, packet' = [packet EXCEPT !.flags = f]
      PROVE  packet' \in PacketType /\ packet'.magic = MAGIC
  BY <1>1, <1>3 DEF PacketType
<1>4. ASSUME NEW o \in 0..(Radix2 - 1), packet' = [packet EXCEPT !.opcode = o]
      PROVE  packet' \in PacketType /\ packet'.magic = MAGIC
  BY <1>1, <1>4 DEF PacketType
<1>5. ASSUME NEW s \in SequenceIds, packet' = [packet EXCEPT !.sequenceId = s]
      PROVE  packet' \in PacketType /\ packet'.magic = MAGIC
  <2>1. s \in 0..(Radix4 - 1)
    BY CodecAssumption
  <2> QED
    BY <1>1, <1>5, <2>1 DEF PacketType
<1>6. ASSUME NEW d \in Payloads, packet' = [packet EXCEPT !.payload = d]
      PROVE  packet' \in PacketType /\ packet'.magic = MAGIC
  <2>1. d \in Seq(Byte)
    BY CodecAssumption
  <2> QED
    BY <1>1, <1>6, <2>1 DEF PacketType
<1> QED
  BY <1>2, <1>3, <1>4, <1>5, <1>6 DEF Set

(* What a peer writes instead of an encoding are bytes as well.            *)
LEMMA OtherBytesAreBytes ==
  CodecInv /\ OtherBytes => bytes' \in Seq(Byte)
<1> SUFFICES ASSUME CodecInv, OtherBytes PROVE bytes' \in Seq(Byte)
  OBVIOUS
<1>1. bytes \in Seq(Byte) /\ Len(bytes) \in Nat
  BY LenProperties DEF CodecInv
<1>2. CASE ByteDiffers
  <2>1. PICK i \in 1..Len(bytes), b \in Byte : bytes' = [bytes EXCEPT ![i] = b]
    BY <1>2 DEF ByteDiffers
  <2> QED
    BY <1>1, <2>1, ExceptSeq
<1>3. CASE EndsEarly
  <2>1. PICK n \in 0..(Len(bytes) - 1) : bytes' = SubSeq(bytes, 1, n)
    BY <1>3 DEF EndsEarly
  <2>2. n \in Nat /\ n <= Len(bytes)
    BY <1>1
  <2> QED
    BY <1>1, <2>1, <2>2, HeadIs
<1>4. CASE MoreFollows
  BY <1>1, <1>4 DEF MoreFollows
<1> QED
  BY <1>2, <1>3, <1>4 DEF OtherBytes

LEMMA CodecNext == CodecInv /\ [Next]_vars => CodecInv'
<1> SUFFICES ASSUME CodecInv, [Next]_vars PROVE CodecInv'
  OBVIOUS
<1> USE DEF CodecInv
<1>1. CASE Set
  <2>1. stage' = "building" /\ sender' = sender /\ bytes' = bytes /\ changes' = changes
    BY <1>1 DEF Set
  <2>2. packet' \in PacketType /\ packet'.magic = MAGIC
    BY <1>1, SetKeeps
  <2>3. RoundTrip' /\ AcceptedIsEncoding' /\ FramingAgrees'
    BY <2>1 DEF RoundTrip, AcceptedIsEncoding, FramingAgrees
  <2> QED
    BY <2>1, <2>2, <2>3
<1>2. CASE EncodePacket
  <2>1. /\ stage' = "encoded" /\ IsValid(packet) /\ bytes' = Encode(sender, packet)
        /\ packet' = packet /\ sender' = sender /\ changes' = changes
    BY <1>2 DEF EncodePacket
  <2>2. bytes' \in Seq(Byte)
    <3>1. Fields(packet)
      BY DEF Fields, PacketType
    <3> QED
      BY <2>1, <3>1, EncodingIs
  <2>3. RoundTrip' /\ AcceptedIsEncoding' /\ FramingAgrees'
    BY <2>1 DEF RoundTrip, AcceptedIsEncoding, FramingAgrees
  <2> QED
    BY <2>1, <2>2, <2>3
<1>3. CASE EncodeThrows
  <2>1. /\ stage' = "thrown" /\ packet' = packet /\ sender' = sender
        /\ bytes' = bytes /\ changes' = changes
    BY <1>3 DEF EncodeThrows
  <2>2. RoundTrip' /\ AcceptedIsEncoding' /\ FramingAgrees'
    BY <2>1 DEF RoundTrip, AcceptedIsEncoding, FramingAgrees
  <2> QED
    BY <2>1, <2>2
<1>4. CASE OtherBytes
  <2>1. /\ stage' = "encoded" /\ packet' = packet /\ sender' = sender
        /\ changes' = changes + 1
    BY <1>4 DEF OtherBytes
  <2>2. bytes' \in Seq(Byte)
    BY <1>4, OtherBytesAreBytes
  <2>3. RoundTrip' /\ AcceptedIsEncoding' /\ FramingAgrees'
    BY <2>1 DEF RoundTrip, AcceptedIsEncoding, FramingAgrees
  <2>4. changes' \in Nat /\ changes' # 0
    BY <2>1
  <2> QED
    BY <2>1, <2>2, <2>3, <2>4
<1>5. CASE ReadBytes
  <2>1. /\ stage = "encoded" /\ stage' = "read" /\ packet' = packet /\ sender' = sender
        /\ bytes' = bytes /\ changes' = changes
    BY <1>5 DEF ReadBytes
  <2>2. PICK host \in Hosts : /\ decoded' = Decode(host, bytes)
                             /\ received' = ReceivePacket(host, bytes)
    BY <1>5 DEF ReadBytes
  <2>3. RoundTrip'
    <3> SUFFICES ASSUME changes = 0
                 PROVE  decoded' = [error |-> "none", packet |-> packet] /\ received' = decoded'
      BY <2>1 DEF RoundTrip
    <3>1. IsValid(packet) /\ bytes = Encode(sender, packet)
      BY <2>1
    <3> QED
      BY <2>2, <3>1, DecodesEncoding
  <2>4. AcceptedIsEncoding'
    <3> SUFFICES ASSUME decoded'.error = "none"
                 PROVE  /\ IsValid(decoded'.packet)
                        /\ \A h \in Hosts : bytes = Encode(h, decoded'.packet)
      BY <2>1 DEF AcceptedIsEncoding
    <3> QED
      BY <2>2, AcceptedBytes
  <2>5. FramingAgrees'
    BY <2>1, <2>2, CutsThePacket DEF FramingAgrees
  <2> QED
    BY <2>1, <2>3, <2>4, <2>5
<1>6. CASE Done \/ UNCHANGED vars
  BY <1>6 DEF Done, vars, RoundTrip, AcceptedIsEncoding, FramingAgrees, IsValid
<1> QED
  BY <1>1, <1>2, <1>3, <1>4, <1>5, <1>6 DEF Next

(* The invariant holds throughout every behaviour.                         *)
THEOREM CodecInvariant == Spec => []CodecInv
<1> QED
  BY CodecInit, CodecNext, PTL DEF Spec

(* RoundTrip, for bytes of any radix and any packet: what the Encoder of   *)
(* one host wrote, the Decoder and PacketIO of the other read as the packet *)
(* that was built.                                                         *)
THEOREM RoundTripHolds == Spec => []RoundTrip
<1>1. CodecInv => RoundTrip
  BY DEF CodecInv
<1> QED
  BY <1>1, CodecInvariant, PTL

(* AcceptedIsEncoding, for any bytes of a peer: the Decoder accepts nothing *)
(* that an Encoder would not have written for the packet it returns.       *)
THEOREM AcceptedBytesAreEncodings == Spec => []AcceptedIsEncoding
<1>1. CodecInv => AcceptedIsEncoding
  BY DEF CodecInv
<1> QED
  BY <1>1, CodecInvariant, PTL

(* FramingAgrees, for any bytes of a peer: the packet that PacketIO cuts   *)
(* out of the stream is never refused by the Decoder for its size.         *)
THEOREM FramingAgreesWithDecoder == Spec => []FramingAgrees
<1>1. CodecInv => FramingAgrees
  BY DEF CodecInv
<1> QED
  BY <1>1, CodecInvariant, PTL
===============================================================================
