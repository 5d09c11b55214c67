---------------------------- MODULE Framing_proofs ----------------------------
(***************************************************************************)
(* Proofs about Framing, for any packets, any number of them and buffers   *)
(* of any size: the receiver stays in step with the sender, and no packet  *)
(* comes after a call that failed.                                         *)
(*                                                                         *)
(* The stream is the concatenation of encodings, which the library defines *)
(* by a recursive function.  What it is for every sequence follows by      *)
(* induction; the induction principle is stated about a set, and proved    *)
(* from the fact that every nonempty set of numbers has a least element.   *)
(***************************************************************************)
EXTENDS Framing, SequenceTheorems, WellFoundedInduction, TLAPS

-----------------------------------------------------------------------------
(* A set that has 0, and with each number its successor, has all numbers.  *)
LEMMA Induction ==
  ASSUME NEW S, 0 \in S, \A n \in Nat : n \in S => n + 1 \in S
  PROVE  Nat \subseteq S
<1> SUFFICES ASSUME ~(Nat \subseteq S) PROVE FALSE
  OBVIOUS
<1> DEFINE T == Nat \ S
           R == OpToRel(<, Nat)
<1>1. T \subseteq Nat /\ T # {}
  OBVIOUS
<1>2. IsWellFoundedOn(R, Nat)
  BY NatLessThanWellFounded
<1>3. \A x, y \in Nat : x < y => <<x, y>> \in R
  BY DEF OpToRel
<1> HIDE DEF R, T
<1>4. PICK x \in T : \A y \in T : ~(<<y, x>> \in R)
  BY <1>1, <1>2, WFMin
<1>5. \A y \in T : ~(y < x)
  BY <1>1, <1>3, <1>4
<1>6. x \in Nat /\ x \notin S /\ x # 0
  BY <1>1 DEF T
<1>7. x - 1 \in Nat /\ x - 1 < x /\ (x - 1) + 1 = x
  BY <1>6
<1>8. x - 1 \in T
  BY <1>6, <1>7 DEF T
<1> QED
  BY <1>5, <1>7, <1>8

-----------------------------------------------------------------------------
(* FlattenSeq.                                                             *)

\* g is the function that FlattenSeq defines by recursion, up to n.
Flattens(g, seqs, n) ==
  g = [i \in 1..n |-> IF i = 1 THEN seqs[i] ELSE g[i - 1] \o seqs[i]]

(* There is such a function.                                               *)
LEMMA FlattenExists == \A seqs : \A n \in Nat : \E g : Flattens(g, seqs, n)
<1> TAKE seqs
<1> DEFINE S == {n \in Nat : \E g : Flattens(g, seqs, n)}
<1>1. 0 \in S
  <2>1. Flattens([i \in 1..0 |-> 0], seqs, 0)
    BY DEF Flattens
  <2> QED
    BY <2>1
<1>2. ASSUME NEW n \in Nat, n \in S PROVE n + 1 \in S
  <2>1. PICK g : Flattens(g, seqs, n)
    BY <1>2
  <2> DEFINE last == IF n = 0 THEN seqs[1] ELSE g[n] \o seqs[n + 1]
             h == [i \in 1..(n + 1) |-> IF i = n + 1 THEN last ELSE g[i]]
  <2>2. \A i \in 1..n : g[i] = IF i = 1 THEN seqs[i] ELSE g[i - 1] \o seqs[i]
    BY <2>1 DEF Flattens
  <2>3. \A i \in 1..n : h[i] = g[i]
    OBVIOUS
  <2>4. h[n + 1] = last
    OBVIOUS
  <2>5. ASSUME NEW i \in 1..(n + 1)
        PROVE  h[i] = IF i = 1 THEN seqs[i] ELSE h[i - 1] \o seqs[i]
    <3>1. CASE i = n + 1 /\ n = 0
      BY <3>1, <2>4
    <3>2. CASE i = n + 1 /\ n # 0
      <4>1. n \in 1..n /\ i - 1 = n /\ i # 1
        BY <3>2
      <4> HIDE DEF h
      <4>2. h[i - 1] = g[n] /\ h[i] = g[n] \o seqs[n + 1]
        BY <4>1, <3>2, <2>3, <2>4
      <4> QED
        BY <3>2, <4>1, <4>2
    <3>3. CASE i \in 1..n /\ i = 1
      <4> HIDE DEF h
      <4> QED
        BY <3>3, <2>2, <2>3
    <3>4. CASE i \in 1..n /\ i # 1
      <4>1. i - 1 \in 1..n
        BY <3>4
      <4> HIDE DEF h
      <4>2. h[i - 1] = g[i - 1] /\ h[i] = g[i] /\ g[i] = g[i - 1] \o seqs[i]
        BY <4>1, <3>4, <2>2, <2>3
      <4> QED
        BY <3>4, <4>2
    <3> QED
      BY <3>1, <3>2, <3>3, <3>4
  <2>6. Flattens(h, seqs, n + 1)
    <3>1. h = [i \in 1..(n + 1) |-> h[i]]
      OBVIOUS
    <3> HIDE DEF h
    <3> QED
      BY <2>5, <3>1 DEF Flattens
  <2> QED
    BY <2>6
<1>3. Nat \subseteq S
  <2> HIDE DEF S
  <2> QED
    BY <1>1, <1>2, Induction
<1> QED
  BY <1>3

(* There is only one.                                                      *)
LEMMA FlattenUnique ==
  ASSUME NEW seqs, NEW n \in Nat, NEW f, NEW g, Flattens(f, seqs, n), Flattens(g, seqs, n)
  PROVE  f = g
<1> DEFINE S == {m \in Nat : m \in 1..n => f[m] = g[m]}
<1>1. \A i \in 1..n : /\ f[i] = IF i = 1 THEN seqs[i] ELSE f[i - 1] \o seqs[i]
                      /\ g[i] = IF i = 1 THEN seqs[i] ELSE g[i - 1] \o seqs[i]
  BY DEF Flattens
<1>2. 0 \in S
  OBVIOUS
<1>3. ASSUME NEW m \in Nat, m \in S PROVE m + 1 \in S
  <2> SUFFICES ASSUME m + 1 \in 1..n PROVE f[m + 1] = g[m + 1]
    OBVIOUS
  <2>1. CASE m = 0
    BY <1>1, <2>1
  <2>2. CASE m # 0
    <3>1. m \in 1..n /\ (m + 1) - 1 = m /\ m + 1 # 1
      BY <2>2
    <3>2. f[m] = g[m]
      BY <1>3, <3>1
    <3> QED
      BY <1>1, <3>1, <3>2
  <2> QED
    BY <2>1, <2>2
<1>4. Nat \subseteq S
  <2> HIDE DEF S
  <2> QED
    BY <1>2, <1>3, Induction
<1>5. \A i \in 1..n : f[i] = g[i]
  BY <1>4
<1>6. f = [i \in 1..n |-> f[i]] /\ g = [i \in 1..n |-> g[i]]
  BY DEF Flattens
<1> QED
  BY <1>5, <1>6

(* So it is the one that FlattenSeq takes the last value of.               *)
LEMMA FlattenSeqIs ==
  ASSUME NEW S, NEW seqs \in Seq(S), Len(seqs) # 0, NEW g, Flattens(g, seqs, Len(seqs))
  PROVE  FlattenSeq(seqs) = g[Len(seqs)]
<1> DEFINE f == CHOOSE h : h = [i \in 1..Len(seqs) |->
                                  IF i = 1 THEN seqs[i] ELSE h[i - 1] \o seqs[i]]
<1>1. FlattenSeq(seqs) = f[Len(seqs)]
  BY DEF FlattenSeq
<1>2. Flattens(f, seqs, Len(seqs))
  BY DEF Flattens
<1>3. f = g
  <2> HIDE DEF f
  <2> QED
    BY <1>2, FlattenUnique, LenProperties
<1> QED
  BY <1>1, <1>3

(* Flattening one sequence more appends it.                                *)
LEMMA FlattenAppend ==
  ASSUME NEW S, NEW s \in Seq(Seq(S)), NEW x \in Seq(S)
  PROVE  FlattenSeq(Append(s, x)) = FlattenSeq(s) \o x
<1> DEFINE t == Append(s, x)
           n == Len(s)
<1>1. /\ n \in Nat /\ t \in Seq(Seq(S)) /\ Len(t) = n + 1 /\ t[n + 1] = x
      /\ \A i \in 1..n : t[i] = s[i]
  BY AppendProperties, LenProperties
<1>2. PICK g : Flattens(g, t, n + 1)
  <2>1. n + 1 \in Nat
    BY <1>1
  <2> HIDE DEF n, t
  <2> QED
    BY <2>1, FlattenExists
<1> HIDE DEF t
<1>3. \A i \in 1..(n + 1) : g[i] = IF i = 1 THEN t[i] ELSE g[i - 1] \o t[i]
  BY <1>2 DEF Flattens
<1>4. FlattenSeq(t) = g[n + 1]
  BY <1>1, <1>2, FlattenSeqIs
<1>5. CASE n = 0
  <2>1. s = <<>> /\ FlattenSeq(s) = <<>>
    BY <1>5, EmptySeq DEF FlattenSeq
  <2>2. g[n + 1] = x
    BY <1>1, <1>3, <1>5
  <2> QED
    BY <1>4, <2>1, <2>2, ConcatEmptySeq DEF t
<1>6. CASE n # 0
  <2> DEFINE h == [i \in 1..n |-> g[i]]
  <2>1. ASSUME NEW i \in 1..n
        PROVE  h[i] = IF i = 1 THEN s[i] ELSE h[i - 1] \o s[i]
    <3>1. i \in 1..(n + 1) /\ t[i] = s[i] /\ h[i] = g[i]
      BY <1>1
    <3>2. CASE i = 1
      BY <1>3, <3>1, <3>2
    <3>3. CASE i # 1
      <4>1. i - 1 \in 1..n
        BY <1>1, <3>3
      <4>2. h[i - 1] = g[i - 1]
        BY <4>1
      <4> QED
        BY <1>3, <3>1, <3>3, <4>2
    <3> QED
      BY <3>2, <3>3
  <2>2. Flattens(h, s, n)
    <3>1. h = [i \in 1..n |-> h[i]]
      OBVIOUS
    <3> HIDE DEF h
    <3> QED
      BY <2>1, <3>1 DEF Flattens
  <2>3. FlattenSeq(s) = h[n] /\ h[n] = g[n]
    BY <1>1, <1>6, <2>2, FlattenSeqIs
  <2>4. g[n + 1] = g[n] \o x
    <3>1. n + 1 \in 1..(n + 1) /\ n + 1 # 1 /\ (n + 1) - 1 = n
      BY <1>1, <1>6
    <3> QED
      BY <1>1, <1>3, <3>1
  <2> QED
    BY <1>4, <2>3, <2>4 DEF t
<1> QED
  BY <1>5, <1>6

-----------------------------------------------------------------------------
(* The encodings of a sequence of packets.                                 *)

\* What a header announces may be anything; Packets is a part of this.
Packet == [tag : Nat, payload : Seq(Nat)]

(* An encoding is a header and the payload, never empty.                   *)
LEMMA EncodingIs ==
  ASSUME NEW p \in Packet
  PROVE  /\ Encode(p) \in Seq(Nat)
         /\ Len(p.payload) \in Nat
         /\ Len(Encode(p)) = HeaderSize + Len(p.payload)
         /\ Encode(p)[1] = p.tag /\ Encode(p)[2] = Len(p.payload)
         /\ \A i \in 1..Len(p.payload) : Encode(p)[HeaderSize + i] = p.payload[i]
<1> DEFINE h == <<p.tag, Len(p.payload)>>
<1>1. p.tag \in Nat /\ p.payload \in Seq(Nat) /\ Len(p.payload) \in Nat
  BY LenProperties DEF Packet
<1>2. h \in Seq(Nat) /\ Len(h) = 2 /\ h[1] = p.tag /\ h[2] = Len(p.payload)
  BY <1>1
<1> DEFINE d == p.payload
           c == h \o d
<1> HIDE DEF h, d, c
<1>3. Encode(p) = c
  BY DEF Encode, h, d, c
<1>4. /\ c \in Seq(Nat)
      /\ Len(c) = Len(h) + Len(d)
      /\ \A i \in 1..Len(h) + Len(d) : c[i] = IF i <= Len(h) THEN h[i] ELSE d[i - Len(h)]
  <2>1. h \in Seq(Nat) /\ d \in Seq(Nat)
    BY <1>1, <1>2 DEF d
  <2> QED
    BY <2>1, ConcatProperties DEF c
<1>5. Len(d) \in Nat /\ Len(h) = 2
  BY <1>1, <1>2 DEF d
<1>6. c[1] = h[1] /\ c[2] = h[2] /\ \A i \in 1..Len(d) : c[2 + i] = d[i]
  BY <1>4, <1>5
<1> QED
  BY <1>1, <1>2, <1>3, <1>4, <1>5, <1>6 DEF HeaderSize, d

(* No packets, no cells.                                                   *)
LEMMA BytesOfNone == Bytes(<<>>) = <<>>
  BY DEF Bytes, FlattenSeq

(* A packet more, its encoding more.                                       *)
LEMMA BytesAppend ==
  ASSUME NEW s \in Seq(Packet), NEW p \in Packet
  PROVE  Bytes(Append(s, p)) = Bytes(s) \o Encode(p)
<1> DEFINE E(r) == [i \in DOMAIN r |-> Encode(r[i])]
           t == Append(s, p)
<1>1. /\ Len(s) \in Nat /\ DOMAIN s = 1..Len(s) /\ \A i \in 1..Len(s) : s[i] \in Packet
      /\ DOMAIN t = 1..Len(s) + 1 /\ t[Len(s) + 1] = p /\ \A i \in 1..Len(s) : t[i] = s[i]
  BY AppendProperties, LenProperties, ElementOfSeq
<1> HIDE DEF t
<1>2. E(s) \in Seq(Seq(Nat)) /\ Len(E(s)) = Len(s) /\ Encode(p) \in Seq(Nat)
  <2>1. E(s) \in [1..Len(s) -> Seq(Nat)]
    BY <1>1, EncodingIs
  <2> QED
    BY <1>1, <2>1, EncodingIs, SeqDef
<1>3. E(t) = Append(E(s), Encode(p))
  <2>1. E(t) = [i \in 1..Len(s) + 1 |-> IF i = Len(s) + 1 THEN Encode(p) ELSE Encode(s[i])]
    BY <1>1
  <2>2. Append(E(s), Encode(p)) =
          [i \in 1..Len(s) + 1 |-> IF i = Len(s) + 1 THEN Encode(p) ELSE Encode(s[i])]
    BY <1>1, <1>2
  <2> QED
    BY <2>1, <2>2
<1> HIDE DEF E
<1>4. FlattenSeq(Append(E(s), Encode(p))) = FlattenSeq(E(s)) \o Encode(p)
  BY <1>2, FlattenAppend
<1> QED
  BY <1>3, <1>4 DEF Bytes, E, t

(* A sequence of packets encodes to a sequence of cells.                   *)
LEMMA BytesAreCells == \A s \in Seq(Packet) : Bytes(s) \in Seq(Nat)
<1> DEFINE S == {n \in Nat : \A s \in Seq(Packet) : Len(s) = n => Bytes(s) \in Seq(Nat)}
<1>1. 0 \in S
  BY BytesOfNone, EmptySeq
<1>2. ASSUME NEW n \in Nat, n \in S PROVE n + 1 \in S
  <2> SUFFICES ASSUME NEW s \in Seq(Packet), Len(s) = n + 1 PROVE Bytes(s) \in Seq(Nat)
    OBVIOUS
  <2>1. s # <<>>
    BY EmptySeq
  <2>2. PICK r \in Seq(Packet), p \in Packet : s = Append(r, p)
    BY <2>1, SequenceEmptyOrAppend
  <2>3. Len(r) = n
    BY <2>2, AppendProperties, LenProperties
  <2>4. Bytes(r) \in Seq(Nat)
    BY <1>2, <2>3
  <2> QED
    BY <2>2, <2>4, BytesAppend, EncodingIs, ConcatProperties
<1>3. Nat \subseteq S
  <2> HIDE DEF S
  <2> QED
    BY <1>1, <1>2, Induction
<1> QED
  BY <1>3, LenProperties

(* The encoding of the first packet comes first.                           *)
LEMMA BytesCons ==
  \A s \in Seq(Packet) : s # <<>> => Bytes(s) = Encode(Head(s)) \o Bytes(Tail(s))
<1> DEFINE P(s) == Bytes(s) = Encode(Head(s)) \o Bytes(Tail(s))
           S == {n \in Nat : \A s \in Seq(Packet) : Len(s) = n + 1 => P(s)}
<1>1. ASSUME NEW n \in Nat, NEW r \in Seq(Packet), NEW p \in Packet, Len(r) = n
      PROVE  /\ n = 0 => P(Append(r, p))
             /\ r # <<>> /\ P(r) => P(Append(r, p))
  <2>1. Bytes(Append(r, p)) = Bytes(r) \o Encode(p)
    BY BytesAppend
  <2>2. CASE r = <<>>
    <3>1. Head(Append(r, p)) = p /\ Tail(Append(r, p)) = <<>>
      BY <2>2, HeadTailAppend
    <3>2. <<>> \o Encode(p) = Encode(p) /\ Encode(p) \o <<>> = Encode(p)
      BY EncodingIs, ConcatEmptySeq
    <3> QED
      BY <2>1, <2>2, <3>1, <3>2, BytesOfNone
  <2>3. CASE r # <<>>
    <3>1. n # 0
      BY <1>1, <2>3, EmptySeq
    <3>2. Head(Append(r, p)) = Head(r) /\ Tail(Append(r, p)) = Append(Tail(r), p)
      BY <2>3, HeadTailAppend
    <3>3. Head(r) \in Packet /\ Tail(r) \in Seq(Packet)
      BY <2>3, HeadTailProperties
    <3>4. Bytes(Append(Tail(r), p)) = Bytes(Tail(r)) \o Encode(p)
      BY <3>3, BytesAppend
    <3>5. (Encode(Head(r)) \o Bytes(Tail(r))) \o Encode(p) =
            Encode(Head(r)) \o (Bytes(Tail(r)) \o Encode(p))
      BY <3>3, EncodingIs, BytesAreCells, ConcatAssociative
    <3> QED
      BY <2>1, <3>1, <3>2, <3>4, <3>5
  <2> QED
    BY <2>2, <2>3
<1>2. ASSUME NEW s \in Seq(Packet), NEW n \in Nat, Len(s) = n + 1
      PROVE  \E r \in Seq(Packet), p \in Packet : s = Append(r, p) /\ Len(r) = n
  <2>1. s # <<>>
    BY <1>2, EmptySeq
  <2>2. PICK r \in Seq(Packet), p \in Packet : s = Append(r, p)
    BY <2>1, SequenceEmptyOrAppend
  <2>3. Len(r) = n
    BY <1>2, <2>2, AppendProperties, LenProperties
  <2> QED
    BY <2>2, <2>3
<1> HIDE DEF P
<1>3. 0 \in S
  <2> SUFFICES ASSUME NEW s \in Seq(Packet), Len(s) = 0 + 1 PROVE P(s)
    OBVIOUS
  <2>1. PICK r \in Seq(Packet), p \in Packet : s = Append(r, p) /\ Len(r) = 0
    BY <1>2
  <2>2. 0 \in Nat /\ 0 = 0
    OBVIOUS
  <2>3. P(Append(r, p))
    BY <1>1, <2>1, <2>2
  <2> QED
    BY <2>1, <2>3
<1>4. ASSUME NEW n \in Nat, n \in S PROVE n + 1 \in S
  <2> SUFFICES ASSUME NEW s \in Seq(Packet), Len(s) = (n + 1) + 1 PROVE P(s)
    OBVIOUS
  <2>1. PICK r \in Seq(Packet), p \in Packet : s = Append(r, p) /\ Len(r) = n + 1
    BY <1>2
  <2>2. P(r) /\ r # <<>>
    BY <1>4, <2>1, EmptySeq
  <2> QED
    BY <1>1, <2>1, <2>2
<1>5. Nat \subseteq S
  <2> HIDE DEF S
  <2> QED
    BY <1>3, <1>4, Induction
<1>6. ASSUME NEW s \in Seq(Packet), s # <<>> PROVE P(s)
  <2>1. Len(s) - 1 \in Nat /\ Len(s) = (Len(s) - 1) + 1
    BY <1>6, EmptySeq
  <2> QED
    BY <1>5, <2>1
<1> QED
  BY <1>6 DEF P

-----------------------------------------------------------------------------
(* Cutting and joining sequences.                                          *)

(* A sequence is its first n elements and the others.                      *)
LEMMA Cut ==
  ASSUME NEW S, NEW s \in Seq(S), NEW n \in 0..Len(s)
  PROVE  /\ SubSeq(s, 1, n) \in Seq(S) /\ Len(SubSeq(s, 1, n)) = n
         /\ SubSeq(s, n + 1, Len(s)) \in Seq(S) /\ Len(SubSeq(s, n + 1, Len(s))) = Len(s) - n
         /\ s = SubSeq(s, 1, n) \o SubSeq(s, n + 1, Len(s))
         /\ \A i \in 1..n : SubSeq(s, 1, n)[i] = s[i]
         /\ \A i \in 1..(Len(s) - n) : SubSeq(s, n + 1, Len(s))[i] = s[n + i]
<1>1. Len(s) \in Nat /\ \A i \in 1..Len(s) : s[i] \in S
  BY LenProperties, ElementOfSeq
<1> DEFINE a == SubSeq(s, 1, n)
           b == SubSeq(s, n + 1, Len(s))
<1>2. a \in Seq(S) /\ Len(a) = n /\ \A i \in 1..n : a[i] = s[i]
  <2>1. \A i \in 1..n : s[i] \in S
    BY <1>1
  <2>2. n \in Nat /\ 1 \in Int /\ n \in Int
    BY <1>1
  <2>3. /\ a \in Seq(S)
        /\ Len(a) = IF 1 <= n THEN n - 1 + 1 ELSE 0
        /\ \A i \in 1..(n - 1 + 1) : a[i] = s[1 + i - 1]
    BY <2>1, <2>2, SubSeqProperties
  <2> HIDE DEF a
  <2> QED
    BY <2>2, <2>3
<1>3. /\ b \in Seq(S) /\ Len(b) = Len(s) - n
      /\ \A i \in 1..(Len(s) - n) : b[i] = s[n + i]
  <2>1. \A i \in (n + 1)..Len(s) : s[i] \in S
    BY <1>1
  <2>2. n \in Nat /\ n <= Len(s) /\ n + 1 \in Int /\ Len(s) \in Int
    BY <1>1
  <2>3. /\ b \in Seq(S)
        /\ Len(b) = IF n + 1 <= Len(s) THEN Len(s) - (n + 1) + 1 ELSE 0
        /\ \A i \in 1..(Len(s) - (n + 1) + 1) : b[i] = s[(n + 1) + i - 1]
    BY <2>1, <2>2, SubSeqProperties
  <2> HIDE DEF b
  <2> QED
    BY <2>2, <2>3, <1>1
<1>4. s = a \o b
  <2> HIDE DEF a, b
  <2>1. /\ a \o b \in Seq(S) /\ Len(a \o b) = Len(a) + Len(b)
        /\ \A i \in 1..Len(a) + Len(b) :
              (a \o b)[i] = IF i <= Len(a) THEN a[i] ELSE b[i - Len(a)]
    BY <1>2, <1>3, ConcatProperties
  <2>2. Len(a) + Len(b) = Len(s)
    BY <1>1, <1>2, <1>3
  <2>3. \A i \in 1..Len(s) : (a \o b)[i] = s[i]
    <3> TAKE i \in 1..Len(s)
    <3>1. CASE i <= n
      <4>1. i \in 1..n
        BY <1>1, <3>1
      <4>2. (a \o b)[i] = IF i <= Len(a) THEN a[i] ELSE b[i - Len(a)]
        BY <2>1, <2>2
      <4>3. a[i] = s[i]
        BY <1>2, <4>1
      <4>4. i <= Len(a)
        BY <1>2, <3>1
      <4> QED
        BY <4>2, <4>3, <4>4
    <3>2. CASE i > n
      <4>1. i - n \in 1..(Len(s) - n) /\ n + (i - n) = i
        BY <1>1, <3>2
      <4>2. (a \o b)[i] = b[i - n] /\ b[i - n] = s[n + (i - n)]
        BY <1>1, <1>2, <1>3, <2>1, <2>2, <3>2, <4>1
      <4> QED
        BY <4>1, <4>2
    <3>3. i <= n \/ i > n
      BY <1>1
    <3> QED
      BY <3>1, <3>2, <3>3
  <2> QED
    BY <2>1, <2>2, <2>3, SeqEqual
<1> QED
  BY <1>2, <1>3, <1>4 DEF a, b

(* What begins a sequence is a prefix of it.                               *)
LEMMA BeginningIsPrefix ==
  ASSUME NEW S, NEW s \in Seq(S), NEW t \in Seq(S)
  PROVE  IsPrefix(s, s \o t)
<1>1. /\ Len(s) \in Nat /\ Len(t) \in Nat
      /\ s \o t \in Seq(S) /\ Len(s \o t) = Len(s) + Len(t)
      /\ \A i \in 1..Len(s) + Len(t) : (s \o t)[i] = IF i <= Len(s) THEN s[i] ELSE t[i - Len(s)]
  BY ConcatProperties, LenProperties
<1> DEFINE c == s \o t
<1>2. Len(s) \in 0..Len(c)
  BY <1>1
<1> HIDE DEF c
<1>3. /\ SubSeq(c, 1, Len(s)) \in Seq(S) /\ Len(SubSeq(c, 1, Len(s))) = Len(s)
      /\ \A i \in 1..Len(s) : SubSeq(c, 1, Len(s))[i] = c[i]
  BY <1>1, <1>2, Cut DEF c
<1>4. SubSeq(c, 1, Len(s)) = s
  BY <1>1, <1>3, SeqEqual DEF c
<1>5. SubSeq(s, 1, Len(s)) = s
  BY SubSeqFull
<1> QED
  BY <1>1, <1>2, <1>4, <1>5 DEF IsPrefix, c

(* Beginnings of equal length of the same sequence are equal.              *)
LEMMA SameBeginning ==
  ASSUME NEW S, NEW a \in Seq(S), NEW b \in Seq(S), NEW c \in Seq(S), NEW d \in Seq(S),
         a \o b = c \o d, Len(a) = Len(c)
  PROVE  a = c /\ b = d
<1>1. /\ Len(a) \in Nat /\ Len(b) \in Nat /\ Len(d) \in Nat
      /\ \A i \in 1..Len(a) + Len(b) : (a \o b)[i] = IF i <= Len(a) THEN a[i] ELSE b[i - Len(a)]
      /\ \A i \in 1..Len(c) + Len(d) : (c \o d)[i] = IF i <= Len(c) THEN c[i] ELSE d[i - Len(c)]
  BY ConcatProperties, LenProperties
<1>2. \A i \in 1..Len(a) : a[i] = c[i]
  BY <1>1
<1>3. a = c
  BY <1>2, SeqEqual
<1>4. b = d
  BY <1>3, ConcatSimplifications
<1> QED
  BY <1>3, <1>4

(* What follows the first k elements of a sequence grows with it.          *)
LEMMA RestOfJoin ==
  ASSUME NEW S, NEW s \in Seq(S), NEW t \in Seq(S), NEW k \in 0..Len(s)
  PROVE  SubSeq(s \o t, k + 1, Len(s \o t)) = SubSeq(s, k + 1, Len(s)) \o t
<1> DEFINE c == s \o t
           a == SubSeq(s, 1, k)
           b == SubSeq(s, k + 1, Len(s))
<1>1. Len(s) \in Nat /\ Len(t) \in Nat /\ c \in Seq(S) /\ Len(c) = Len(s) + Len(t)
  BY ConcatProperties, LenProperties
<1>2. a \in Seq(S) /\ Len(a) = k /\ b \in Seq(S) /\ s = a \o b
  BY Cut
<1>3. k \in 0..Len(c)
  BY <1>1
<1> HIDE DEF c
<1>4. /\ SubSeq(c, 1, k) \in Seq(S) /\ Len(SubSeq(c, 1, k)) = k
      /\ SubSeq(c, k + 1, Len(c)) \in Seq(S)
      /\ c = SubSeq(c, 1, k) \o SubSeq(c, k + 1, Len(c))
  BY <1>1, <1>3, Cut
<1> HIDE DEF a, b
<1>5. c = a \o (b \o t) /\ b \o t \in Seq(S)
  BY <1>2, ConcatAssociative, ConcatProperties DEF c
<1> DEFINE d == SubSeq(c, 1, k)
           e == SubSeq(c, k + 1, Len(c))
           f == b \o t
<1> HIDE DEF d, e, f
<1>6. e = f
  <2>1. d \in Seq(S) /\ e \in Seq(S) /\ f \in Seq(S) /\ a \in Seq(S)
    BY <1>2, <1>4, <1>5 DEF d, e, f
  <2>2. d \o e = a \o f /\ Len(d) = Len(a)
    BY <1>2, <1>4, <1>5 DEF d, e, f
  <2> QED
    BY <2>1, <2>2, SameBeginning
<1> USE DEF e, f
<1> QED
  BY <1>6 DEF c, b

-----------------------------------------------------------------------------
(* The invariant.                                                          *)

TypeOK ==
  /\ link \in {"open", "ended", "reset", "dead"}
  /\ current = <<>> \/ \E p \in Packets : current = <<p>>
  /\ unsent \in Seq(Nat) /\ stream \in Seq(Nat) /\ buffer \in Seq(Nat)
  /\ sent \in Seq(Packets) /\ received \in Seq(Packet)

\* What was received is what was sent first.
InOrder ==
  /\ Len(received) <= Len(sent)
  /\ \A i \in 1..Len(received) : received[i] = sent[i]

\* rest is what is missing of the encodings: a packet that is not handed over
\* whole is never there whole, and while the link is open the sender has the rest.
Missing(rest) ==
  /\ Bytes(Undelivered) = (buffer \o stream) \o rest
  /\ current # <<>> => rest # <<>>
  /\ link = "open" => rest = unsent

SyncInv ==
  /\ TypeOK
  /\ InOrder
  /\ link = "open" => (current = <<>> <=> unsent = <<>>)
  /\ \E rest \in Seq(Nat) : Missing(rest)

(* The packets are of the type that headers and payloads have.             *)
LEMMA PacketsAre ==
  /\ Packets \subseteq Packet
  /\ \A s \in Seq(Packets) : s \in Seq(Packet)
  /\ \A p \in Packets : <<p>> \in Seq(Packets)
<1>1. Packets \subseteq Packet
  BY PacketAssumption DEF Packet
<1>2. \A s \in Seq(Packets) : s \in Seq(Packet)
  BY <1>1, SeqMonotonic
<1>3. \A p \in Packets : <<p>> \in Seq(Packets)
  OBVIOUS
<1> QED
  BY <1>1, <1>2, <1>3

(* What is undelivered is a sequence of packets; there is one if not all   *)
(* that was sent was received, or one is being sent.                       *)
LEMMA UndeliveredIs ==
  ASSUME TypeOK, InOrder
  PROVE  /\ current \in Seq(Packets) /\ Undelivered \in Seq(Packet)
         /\ Len(received) \in 0..Len(sent) /\ Len(sent) \in Nat
         /\ SubSeq(sent, Len(received) + 1, Len(sent)) \in Seq(Packets)
         /\ Len(received) < Len(sent) =>
              /\ Undelivered # <<>> /\ Head(Undelivered) = sent[Len(received) + 1]
              /\ Tail(Undelivered) =
                   SubSeq(sent, Len(received) + 2, Len(sent)) \o current
         /\ Len(received) = Len(sent) => Undelivered = current
<1> DEFINE k == Len(received)
           later == SubSeq(sent, k + 1, Len(sent))
<1>1. current \in Seq(Packets) /\ sent \in Seq(Packets)
  BY EmptySeq, PacketsAre DEF TypeOK
<1>2. k \in 0..Len(sent) /\ Len(sent) \in Nat
  BY LenProperties DEF TypeOK, InOrder
<1>3. /\ later \in Seq(Packets) /\ Len(later) = Len(sent) - k
      /\ \A i \in 1..(Len(sent) - k) : later[i] = sent[k + i]
  BY <1>1, <1>2, Cut
<1>4. Undelivered = later \o current
  BY DEF Undelivered
<1>5. Undelivered \in Seq(Packets)
  <2> HIDE DEF later
  <2> QED
    BY <1>1, <1>3, <1>4, ConcatProperties
<1>6. ASSUME k < Len(sent)
      PROVE  /\ Undelivered # <<>> /\ Head(Undelivered) = sent[k + 1]
             /\ Tail(Undelivered) = SubSeq(sent, k + 2, Len(sent)) \o current
  <2>1. k + 1 \in 1..Len(sent) /\ Len(sent) \in (k + 1)..Len(sent)
    BY <1>2, <1>6
  <2>2. later = <<sent[k + 1]>> \o SubSeq(sent, (k + 1) + 1, Len(sent))
    BY <1>1, <2>1, SubSeqRecursiveFirst
  <2> DEFINE p == sent[k + 1]
             t == SubSeq(sent, k + 2, Len(sent))
  <2>3. p \in Packets /\ k + 1 \in 0..Len(sent) /\ (k + 1) + 1 = k + 2
    BY <1>1, <1>2, <2>1, ElementOfSeq
  <2>4. t \in Seq(Packets)
    BY <1>1, <2>3, Cut
  <2>5. <<p>> \in Seq(Packets)
    BY <2>3, PacketsAre
  <2>6. Undelivered = <<p>> \o (t \o current) /\ t \o current \in Seq(Packets)
    <3>1. later = <<p>> \o t
      BY <2>2, <2>3
    <3> HIDE DEF later, p, t
    <3> QED
      BY <1>1, <1>4, <2>4, <2>5, <3>1, ConcatAssociative, ConcatProperties
  <2> DEFINE r == t \o current
  <2>7. Head(<<p>> \o r) = p /\ Tail(<<p>> \o r) = r /\ <<p>> \o r # <<>>
    <3> HIDE DEF p, r
    <3>1. r \in Seq(Packets)
      BY <2>6 DEF r
    <3> QED
      BY <2>3, <3>1
  <2> QED
    BY <2>6, <2>7
<1>7. ASSUME k = Len(sent) PROVE Undelivered = current
  <2>1. later = <<>>
    BY <1>2, <1>7, SubSeqEmpty
  <2>2. Undelivered = current
    BY <1>1, <1>4, <2>1, ConcatEmptySeq
  <2> QED
    BY <2>2
<1>8. Undelivered \in Seq(Packet)
  BY <1>5, PacketsAre
<1> QED
  BY <1>1, <1>2, <1>3, <1>6, <1>7, <1>8

-----------------------------------------------------------------------------
(* The steps that keep the packets.                                        *)

(* The only sequence without elements is the empty one.                    *)
LEMMA NoCells == \A s \in Seq(Nat) : Len(s) \in Nat /\ (s = <<>> <=> Len(s) = 0)
  BY EmptySeq, LenProperties

(* How cells join.                                                         *)
LEMMA Joining ==
  ASSUME NEW x \in Seq(Nat), NEW y \in Seq(Nat), NEW z \in Seq(Nat)
  PROVE  x \o y \in Seq(Nat) /\ (x \o y) \o z = x \o (y \o z)
<1>1. x \o y \in Seq(Nat)
  BY ConcatProperties
<1>2. (x \o y) \o z = x \o (y \o z)
  BY ConcatAssociative
<1> QED
  BY <1>1, <1>2

(* The invariant holds at first.                                           *)
LEMMA InitSync == Init => SyncInv
<1> SUFFICES ASSUME Init PROVE SyncInv
  OBVIOUS
<1>1. TypeOK
  BY EmptySeq DEF Init, TypeOK
<1>2. InOrder
  BY EmptySeq DEF Init, InOrder
<1>3. Missing(<<>>)
  <2>1. Undelivered = <<>>
    BY <1>1, <1>2, UndeliveredIs DEF Init
  <2>2. (buffer \o stream) \o <<>> = <<>>
    BY EmptySeq, ConcatEmptySeq DEF Init
  <2> QED
    BY <2>1, <2>2, BytesOfNone DEF Init, Missing
<1> QED
  BY <1>1, <1>2, <1>3, EmptySeq DEF Init, SyncInv

(* The receiver loses the last cells that it or its kernel held, maybe     *)
(* none, on a link that is not open.                                       *)
LEMMA Losing ==
  ASSUME SyncInv, TypeOK', UNCHANGED <<sent, current, received>>, link' # "open",
         NEW v \in Seq(Nat), buffer \o stream = (buffer' \o stream') \o v
  PROVE  SyncInv'
<1>1. PICK rest \in Seq(Nat) : Missing(rest)
  BY DEF SyncInv
<1> DEFINE a == buffer' \o stream'
<1>2. a \in Seq(Nat)
  BY ConcatProperties DEF TypeOK
<1>3. Undelivered' = Undelivered
  BY DEF Undelivered
<1>4. Bytes(Undelivered) = a \o (v \o rest) /\ v \o rest \in Seq(Nat)
  <2>1. Bytes(Undelivered) = (a \o v) \o rest
    BY <1>1 DEF Missing
  <2> HIDE DEF a
  <2> QED
    BY <1>2, <2>1, Joining
<1>5. current # <<>> => v \o rest # <<>>
  BY <1>1, ConcatSimplifications DEF Missing
<1>6. Missing(v \o rest)'
  BY <1>3, <1>4, <1>5 DEF Missing
<1>7. InOrder'
  BY DEF SyncInv, InOrder
<1> QED
  BY <1>4, <1>6, <1>7 DEF SyncInv

(* The cells that the receiver and its kernel hold stay the same.          *)
LEMMA Holding ==
  ASSUME SyncInv, TypeOK', UNCHANGED <<sent, current, received>>,
         link' = "open" => link = "open" /\ unsent' = unsent,
         buffer' \o stream' = buffer \o stream
  PROVE  SyncInv'
<1>1. PICK rest \in Seq(Nat) : Missing(rest)
  BY DEF SyncInv
<1>2. Undelivered' = Undelivered
  BY DEF Undelivered
<1>3. Missing(rest)'
  BY <1>1, <1>2 DEF Missing
<1>4. InOrder'
  BY DEF SyncInv, InOrder
<1> QED
  BY <1>3, <1>4 DEF SyncInv

(* Send() puts a packet into the sender's hands.                           *)
LEMMA SyncSend ==
  ASSUME SyncInv, NEW p \in Packets, Send(p)
  PROVE  SyncInv'
<1>1. PICK rest \in Seq(Nat) : Missing(rest)
  BY DEF SyncInv
<1>2. link = "open" /\ unsent = <<>> /\ current = <<>> /\ rest = <<>>
  BY <1>1 DEF Send, SyncInv, Missing
<1>3. p \in Packet /\ Encode(p) \in Seq(Nat) /\ Encode(p) # <<>> /\ <<p>> # <<>>
  <2>1. p \in Packet
    BY PacketsAre
  <2>2. Encode(p) \in Seq(Nat) /\ Len(Encode(p)) # 0
    BY <2>1, EncodingIs DEF HeaderSize
  <2> QED
    BY <2>1, <2>2, EmptySeq
<1>4. TypeOK /\ InOrder
  BY DEF SyncInv
<1>5. TypeOK' /\ InOrder'
  BY <1>3, <1>4 DEF Send, receiver, TypeOK, InOrder
<1>6. Undelivered' = Append(Undelivered, p)
  <2> DEFINE later == SubSeq(sent, Len(received) + 1, Len(sent))
  <2>1. Undelivered = later \o <<>> /\ Undelivered' = later \o <<p>>
    BY <1>2 DEF Undelivered, Send, receiver
  <2>2. later \in Seq(Packets)
    BY <1>4, UndeliveredIs
  <2> HIDE DEF later
  <2> QED
    BY <2>1, <2>2, ConcatEmptySeq, AppendIsConcat
<1>7. Bytes(Undelivered') = (buffer \o stream) \o Encode(p)
  <2>1. Undelivered \in Seq(Packet)
    BY <1>4, UndeliveredIs
  <2>2. Bytes(Append(Undelivered, p)) = Bytes(Undelivered) \o Encode(p)
    BY <1>3, <2>1, BytesAppend
  <2>3. Bytes(Undelivered) = (buffer \o stream) \o <<>>
    BY <1>1, <1>2 DEF Missing
  <2>4. buffer \o stream \in Seq(Nat)
    BY <1>4, ConcatProperties DEF TypeOK
  <2>5. (buffer \o stream) \o <<>> = buffer \o stream
    BY <2>4, ConcatEmptySeq
  <2> QED
    BY <1>6, <2>2, <2>3, <2>5
<1>8. Missing(Encode(p))'
  BY <1>3, <1>7 DEF Missing, Send, receiver
<1> QED
  BY <1>3, <1>5, <1>8 DEF SyncInv, Send

(* The kernel takes some of the cells that are left, or the last of them.  *)
LEMMA SyncTakes ==
  ASSUME SyncInv, NEW n \in 1..Len(unsent), KernelTakes(n)
  PROVE  SyncInv'
<1>1. PICK rest \in Seq(Nat) : Missing(rest)
  BY DEF SyncInv
<1>2. TypeOK /\ InOrder
  BY DEF SyncInv
<1>3. link = "open" /\ rest = unsent
  BY <1>1 DEF KernelTakes, Missing
<1>4. Len(unsent) \in Nat /\ n \in 0..Len(unsent) /\ unsent # <<>>
  BY <1>2, LenProperties, EmptySeq DEF TypeOK
<1>5. PICK a \in Seq(Nat), b \in Seq(Nat) :
        /\ unsent = a \o b /\ Len(b) = Len(unsent) - n
        /\ stream' = stream \o a /\ unsent' = b
  <2> DEFINE a == SubSeq(unsent, 1, n)
             b == SubSeq(unsent, n + 1, Len(unsent))
  <2>1. a \in Seq(Nat) /\ b \in Seq(Nat) /\ unsent = a \o b /\ Len(b) = Len(unsent) - n
    BY <1>2, <1>4, Cut DEF TypeOK
  <2>2. stream' = stream \o a /\ unsent' = b
    BY DEF KernelTakes
  <2> HIDE DEF a, b
  <2> QED
    BY <2>1, <2>2
<1>6. UNCHANGED <<link, buffer, received>>
  BY DEF KernelTakes, receiver
<1>7. stream' \in Seq(Nat) /\ (buffer' \o stream') \o unsent' = (buffer \o stream) \o unsent
  <2>1. buffer \in Seq(Nat)
    BY <1>2 DEF TypeOK
  <2>2. stream \in Seq(Nat)
    BY <1>2 DEF TypeOK
  <2>3. buffer \o stream \in Seq(Nat)
    BY <2>1, <2>2, Joining
  <2>4. stream \o a \in Seq(Nat)
    BY <2>2, Joining
  <2>5. buffer \o (stream \o a) = (buffer \o stream) \o a
    BY <2>1, <2>2, Joining
  <2>6. ((buffer \o stream) \o a) \o b = (buffer \o stream) \o (a \o b)
    BY <2>3, Joining
  <2> QED
    BY <1>5, <1>6, <2>4, <2>5, <2>6
<1>8. PICK p \in Packets : current = <<p>>
  BY <1>2, <1>3, <1>4 DEF SyncInv, TypeOK
<1>9. current \in Seq(Packets) /\ sent \in Seq(Packets)
  BY <1>8, PacketsAre, <1>2 DEF TypeOK
<1>10. CASE n = Len(unsent)
  <2>1. sent' = sent \o current /\ current' = <<>>
    BY <1>10 DEF KernelTakes
  <2>2. b = <<>>
    <3>1. b \in Seq(Nat) /\ Len(b) = 0
      BY <1>4, <1>5, <1>10
    <3> QED
      BY <3>1, NoCells
  <2>3. /\ sent' \in Seq(Packets) /\ Len(sent') = Len(sent) + Len(current)
        /\ \A i \in 1..Len(sent) + Len(current) :
              sent'[i] = IF i <= Len(sent) THEN sent[i] ELSE current[i - Len(sent)]
    BY <1>9, <2>1, ConcatProperties
  <2>4. Len(sent) \in Nat /\ Len(current) \in Nat /\ Len(received) \in 0..Len(sent)
    BY <1>2, <1>9, UndeliveredIs, LenProperties
  <2>5. InOrder'
    <3>1. \A i \in 1..Len(sent) : sent'[i] = sent[i]
      BY <2>3, <2>4
    <3> QED
      BY <1>2, <1>6, <2>3, <2>4, <3>1 DEF InOrder
  <2>6. TypeOK'
    BY <1>2, <1>5, <1>6, <1>7, <2>1, <2>3 DEF TypeOK
  <2>7. Undelivered' = Undelivered
    <3>1. SubSeq(sent', Len(received) + 1, Len(sent')) =
            SubSeq(sent, Len(received) + 1, Len(sent)) \o current
      BY <1>9, <2>1, <2>4, RestOfJoin
    <3>2. SubSeq(sent, Len(received) + 1, Len(sent)) \o current \in Seq(Packet)
      BY <1>2, UndeliveredIs DEF Undelivered
    <3>3. Undelivered' = (SubSeq(sent, Len(received) + 1, Len(sent)) \o current) \o <<>>
      BY <1>6, <2>1, <3>1 DEF Undelivered
    <3> QED
      BY <3>2, <3>3, ConcatEmptySeq DEF Undelivered
  <2>8. Missing(b)'
    BY <1>1, <1>3, <1>5, <1>6, <1>7, <2>1, <2>7 DEF Missing
  <2> QED
    BY <1>5, <1>6, <2>1, <2>2, <2>5, <2>6, <2>8 DEF SyncInv
<1>11. CASE n # Len(unsent)
  <2>1. sent' = sent /\ current' = current
    BY <1>11 DEF KernelTakes
  <2>2. b # <<>>
    <3>1. b \in Seq(Nat) /\ Len(b) # 0
      BY <1>4, <1>5, <1>11
    <3> QED
      BY <3>1, NoCells
  <2>3. TypeOK' /\ InOrder'
    BY <1>2, <1>5, <1>6, <1>7, <2>1 DEF TypeOK, InOrder
  <2>4. Undelivered' = Undelivered
    BY <1>6, <2>1 DEF Undelivered
  <2>5. Missing(b)'
    BY <1>1, <1>3, <1>5, <1>6, <1>7, <2>1, <2>2, <2>4 DEF Missing
  <2> QED
    BY <1>5, <1>6, <1>8, <2>1, <2>2, <2>3, <2>5 DEF SyncInv
<1> QED
  BY <1>10, <1>11

-----------------------------------------------------------------------------
(* The receiver.                                                           *)

(* What recv() takes out of the stream comes behind the buffer.            *)
LEMMA ReadingIs ==
  ASSUME TypeOK, NEW n \in 1..Len(stream), Read(n)
  PROVE  \E a \in Seq(Nat), b \in Seq(Nat) :
           /\ a = SubSeq(stream, 1, n) /\ stream' = b
           /\ buffer \o a \in Seq(Nat)
           /\ buffer \o stream = (buffer \o a) \o b
<1> DEFINE a == SubSeq(stream, 1, n)
           b == SubSeq(stream, n + 1, Len(stream))
<1>1. buffer \in Seq(Nat)
  BY DEF TypeOK
<1>2. n \in 0..Len(stream) /\ stream \in Seq(Nat)
  BY LenProperties DEF TypeOK
<1>3. a \in Seq(Nat) /\ b \in Seq(Nat) /\ stream = a \o b
  BY <1>2, Cut
<1>4. stream' = b
  BY DEF Read
<1> HIDE DEF b
<1>5. \E c \in Seq(Nat), d \in Seq(Nat) : c = a /\ stream' = d /\ stream = c \o d
  BY <1>3, <1>4
<1> HIDE DEF a
<1>6. PICK c \in Seq(Nat), d \in Seq(Nat) : c = a /\ stream' = d /\ stream = c \o d
  BY <1>5
<1>7. buffer \o c \in Seq(Nat) /\ (buffer \o c) \o d = buffer \o (c \o d)
  BY <1>1, Joining
<1> QED
  BY <1>6, <1>7 DEF a

(* A part of a packet arrives.                                             *)
LEMMA SyncSome ==
  ASSUME SyncInv, NEW n \in 1..Len(stream), RecvSome(n)
  PROVE  SyncInv'
<1>1. TypeOK
  BY DEF SyncInv
<1>2. Read(n)
  BY DEF RecvSome
<1>3. PICK a \in Seq(Nat), b \in Seq(Nat) :
        /\ a = SubSeq(stream, 1, n) /\ stream' = b
        /\ buffer \o a \in Seq(Nat)
        /\ buffer \o stream = (buffer \o a) \o b
  BY <1>1, <1>2, ReadingIs
<1>4. buffer' = buffer \o a
  BY <1>3 DEF RecvSome
<1>5. UNCHANGED <<link, sender, received>>
  BY DEF RecvSome
<1>6. TypeOK'
  BY <1>1, <1>3, <1>4, <1>5 DEF TypeOK, sender
<1> QED
  BY <1>3, <1>4, <1>5, <1>6, Holding DEF sender

(* Cells that are a whole packet by what their header says, at the         *)
(* beginning of the encodings of packets, are the encoding of the first.   *)
LEMMA WholeIsFirst ==
  ASSUME NEW s \in Seq(Packet), NEW data \in Seq(Nat), NEW more \in Seq(Nat),
         Bytes(s) = data \o more, Whole(data)
  PROVE  s # <<>> /\ Decode(data) = Head(s) /\ Bytes(Tail(s)) = more
<1>1. /\ Len(data) \in Nat /\ Len(more) \in Nat /\ Len(data) >= 2
      /\ Len(data) = 2 + data[2]
      /\ data \o more \in Seq(Nat) /\ Len(data \o more) = Len(data) + Len(more)
      /\ \A i \in 1..Len(data) + Len(more) :
            (data \o more)[i] = IF i <= Len(data) THEN data[i] ELSE more[i - Len(data)]
  BY ConcatProperties, LenProperties DEF Whole, HeaderSize
<1>2. s # <<>>
  BY <1>1, BytesOfNone, EmptySeq
<1> DEFINE p == Head(s)
           e == Encode(p)
           t == Bytes(Tail(s))
<1>3. p \in Packet /\ Tail(s) \in Seq(Packet)
  BY <1>2, HeadTailProperties
<1>4. /\ e \in Seq(Nat) /\ Len(p.payload) \in Nat /\ Len(e) = 2 + Len(p.payload)
      /\ e[1] = p.tag /\ e[2] = Len(p.payload)
      /\ \A i \in 1..Len(p.payload) : e[2 + i] = p.payload[i]
  BY <1>3, EncodingIs DEF HeaderSize
<1>5. t \in Seq(Nat) /\ data \o more = e \o t
  BY <1>2, <1>3, BytesAreCells, BytesCons
<1> HIDE DEF e, t
<1>6. /\ Len(t) \in Nat
      /\ \A i \in 1..Len(e) + Len(t) : (e \o t)[i] = IF i <= Len(e) THEN e[i] ELSE t[i - Len(e)]
  <2>1. e \in Seq(Nat)
    BY <1>4
  <2>2. t \in Seq(Nat)
    BY <1>5
  <2> QED
    BY <2>1, <2>2, ConcatProperties, LenProperties
<1>7. data[2] = e[2]
  <2>1. (data \o more)[2] = data[2]
    BY <1>1
  <2>2. (e \o t)[2] = e[2]
    BY <1>4, <1>6
  <2> QED
    BY <1>5, <2>1, <2>2
<1>8. data = e /\ more = t
  <2>1. Len(data) = Len(e)
    BY <1>1, <1>4, <1>7
  <2> QED
    BY <1>4, <1>5, <2>1, SameBeginning
<1>9. Decode(e) = p
  <2>1. p \in Packet /\ p = [tag |-> p.tag, payload |-> p.payload]
    BY <1>3 DEF Packet
  <2> DEFINE q == p.payload
             r == SubSeq(e, 3, Len(e))
  <2>2. q \in Seq(Nat)
    BY <2>1 DEF Packet
  <2>3. 2 \in 0..Len(e) /\ 2 + 1 = 3
    BY <1>4
  <2>4. r \in Seq(Nat) /\ Len(r) = Len(e) - 2 /\ \A i \in 1..(Len(e) - 2) : r[i] = e[2 + i]
    <3>1. e \in Seq(Nat)
      BY <1>4
    <3>2. /\ SubSeq(e, 2 + 1, Len(e)) \in Seq(Nat)
          /\ Len(SubSeq(e, 2 + 1, Len(e))) = Len(e) - 2
          /\ \A i \in 1..(Len(e) - 2) : SubSeq(e, 2 + 1, Len(e))[i] = e[2 + i]
      BY <2>3, <3>1, Cut
    <3> QED
      BY <2>3, <3>2
  <2>5. r = q
    <3> HIDE DEF r, q
    <3>1. /\ Len(q) \in Nat /\ Len(e) = 2 + Len(q)
          /\ \A i \in 1..Len(q) : e[2 + i] = q[i]
      BY <1>4 DEF q
    <3>2. Len(r) = Len(q) /\ \A i \in 1..Len(r) : r[i] = q[i]
      BY <2>4, <3>1
    <3> QED
      BY <2>2, <2>4, <3>2, SeqEqual
  <2>6. Decode(e) = [tag |-> e[1], payload |-> r]
    BY <2>3 DEF Decode, HeaderSize
  <2>7. e[1] = p.tag
    BY <1>4
  <2> HIDE DEF r
  <2> QED
    BY <2>1, <2>5, <2>6, <2>7 DEF q
<1> QED
  BY <1>2, <1>8, <1>9 DEF t

(* The last cells of a packet arrive: it is the next one that was sent.    *)
LEMMA LastIs ==
  ASSUME SyncInv, NEW n \in 1..Len(stream), RecvLast(n), NEW rest \in Seq(Nat), Missing(rest)
  PROVE  /\ Len(received) < Len(sent)
         /\ received' = Append(received, sent[Len(received) + 1])
         /\ sent[Len(received) + 1] \in Packets
         /\ buffer' = <<>> /\ stream' \in Seq(Nat)
         /\ Bytes(Tail(Undelivered)) = stream' \o rest
         /\ UNCHANGED <<link, current, unsent, sent>>
<1>1. TypeOK /\ InOrder
  BY DEF SyncInv
<1>2. Read(n)
  BY DEF RecvLast
<1>3. PICK a \in Seq(Nat), b \in Seq(Nat) :
        /\ a = SubSeq(stream, 1, n) /\ stream' = b
        /\ buffer \o a \in Seq(Nat)
        /\ buffer \o stream = (buffer \o a) \o b
  BY <1>1, <1>2, ReadingIs
<1> DEFINE data == buffer \o a
<1>4. /\ Whole(data) /\ received' = Append(received, Decode(data))
      /\ buffer' = <<>> /\ UNCHANGED <<link, sender>>
  BY <1>3 DEF RecvLast, Return
<1>5. data \in Seq(Nat)
  BY <1>3
<1>6. Undelivered \in Seq(Packet)
  BY <1>1, UndeliveredIs
<1>7. Bytes(Undelivered) = data \o (b \o rest) /\ b \o rest \in Seq(Nat)
  <2>1. Bytes(Undelivered) = (data \o b) \o rest
    BY <1>3 DEF Missing
  <2>2. b \in Seq(Nat)
    BY <1>3
  <2> HIDE DEF data
  <2>3. (data \o b) \o rest = data \o (b \o rest)
    BY <1>5, <2>2, Joining
  <2>4. b \o rest \in Seq(Nat)
    BY <2>2, Joining
  <2> QED
    BY <2>1, <2>3, <2>4
<1> HIDE DEF data
<1>8. /\ Undelivered # <<>> /\ Decode(data) = Head(Undelivered)
      /\ Bytes(Tail(Undelivered)) = b \o rest
  BY <1>4, <1>5, <1>6, <1>7, WholeIsFirst
<1>9. Len(received) < Len(sent)
  <2> SUFFICES ASSUME ~(Len(received) < Len(sent)) PROVE FALSE
    OBVIOUS
  <2>1. Len(received) = Len(sent)
    BY <1>1, UndeliveredIs
  <2>2. Undelivered = current /\ current # <<>>
    BY <1>1, <1>8, <2>1, UndeliveredIs
  <2>3. PICK p \in Packets : current = <<p>>
    BY <1>1, <2>2 DEF TypeOK
  <2>4. Tail(Undelivered) = <<>>
    BY <2>2, <2>3
  <2>5. b \o rest = <<>>
    BY <1>8, <2>4, BytesOfNone
  <2>6. rest = <<>>
    BY <1>3, <2>5, ConcatSimplifications
  <2> QED
    BY <2>2, <2>6 DEF Missing
<1>10. /\ received' = Append(received, sent[Len(received) + 1])
       /\ sent[Len(received) + 1] \in Packets
  <2>1. Head(Undelivered) = sent[Len(received) + 1]
    BY <1>1, <1>9, UndeliveredIs
  <2>2. sent \in Seq(Packets)
    BY <1>1 DEF TypeOK
  <2>3. Len(received) + 1 \in 1..Len(sent)
    BY <1>1, <1>9, UndeliveredIs
  <2> QED
    BY <1>4, <1>8, <2>1, <2>2, <2>3, ElementOfSeq
<1> QED
  BY <1>3, <1>4, <1>8, <1>9, <1>10 DEF sender

(* So the rest stays in step.                                              *)
LEMMA SyncLast ==
  ASSUME SyncInv, NEW n \in 1..Len(stream), RecvLast(n)
  PROVE  SyncInv'
<1>1. TypeOK /\ InOrder
  BY DEF SyncInv
<1>2. PICK rest \in Seq(Nat) : Missing(rest)
  BY DEF SyncInv
<1> DEFINE k == Len(received)
           p == sent[k + 1]
<1>3. /\ k < Len(sent) /\ received' = Append(received, p) /\ p \in Packets
      /\ buffer' = <<>> /\ stream' \in Seq(Nat)
      /\ Bytes(Tail(Undelivered)) = stream' \o rest
      /\ UNCHANGED <<link, current, unsent, sent>>
  BY <1>2, LastIs
<1>4. /\ Len(received') = k + 1 /\ received'[k + 1] = p
      /\ received' \in Seq(Packet)
      /\ \A i \in 1..k : received'[i] = received[i]
  <2>1. p \in Packet
    BY <1>3, PacketsAre
  <2>2. received \in Seq(Packet)
    BY <1>1 DEF TypeOK
  <2> HIDE DEF p
  <2> QED
    BY <1>3, <2>1, <2>2, AppendProperties
<1>5. k \in Nat /\ Len(sent) \in Nat
  BY <1>1, UndeliveredIs
<1>6. TypeOK'
  <2>1. <<>> \in Seq(Nat)
    BY EmptySeq
  <2> QED
    BY <1>1, <1>3, <1>4, <2>1 DEF TypeOK
<1>7. InOrder'
  <2>1. \A i \in 1..k : received'[i] = sent'[i]
    BY <1>1, <1>3, <1>4 DEF InOrder
  <2>2. received'[k + 1] = sent'[k + 1]
    BY <1>3, <1>4
  <2> HIDE DEF k, p
  <2>3. \A i \in 1..(k + 1) : i \in 1..k \/ i = k + 1
    BY <1>5
  <2>4. \A i \in 1..(k + 1) : received'[i] = sent'[i]
    BY <2>1, <2>2, <2>3
  <2>5. Len(received') <= Len(sent')
    BY <1>3, <1>4, <1>5
  <2> QED
    BY <1>4, <2>4, <2>5 DEF InOrder
<1>8. Undelivered' = Tail(Undelivered)
  <2>1. Tail(Undelivered) = SubSeq(sent, k + 2, Len(sent)) \o current
    BY <1>1, <1>3, UndeliveredIs
  <2>2. Len(received') + 1 = k + 2
    BY <1>4, <1>5
  <2>3. Undelivered' = SubSeq(sent, Len(received') + 1, Len(sent)) \o current
    BY <1>3 DEF Undelivered
  <2> QED
    BY <2>1, <2>2, <2>3
<1>9. Missing(rest)'
  <2>1. buffer' \o stream' = stream'
    BY <1>3, ConcatEmptySeq
  <2> QED
    BY <1>2, <1>3, <1>8, <2>1 DEF Missing
<1> QED
  BY <1>3, <1>6, <1>7, <1>9 DEF SyncInv

(* Every step keeps the receiver in step with the sender.                  *)
LEMMA NextSync == SyncInv /\ [Next]_vars => SyncInv'
<1> SUFFICES ASSUME SyncInv, [Next]_vars PROVE SyncInv'
  OBVIOUS
<1>1. TypeOK
  BY DEF SyncInv
<1>2. ASSUME NEW p \in Packets, Send(p) PROVE SyncInv'
  BY <1>2, SyncSend
<1>3. ASSUME NEW n \in 1..Len(unsent), KernelTakes(n) PROVE SyncInv'
  BY <1>3, SyncTakes
<1>4. ASSUME NEW n \in 1..Len(unsent), KernelDiscards(n) PROVE SyncInv'
  <2>1. unsent' \in Seq(Nat)
    <3>1. n \in 0..Len(unsent) /\ unsent \in Seq(Nat)
      BY <1>1, NoCells DEF TypeOK
    <3> QED
      BY <1>4, <3>1, Cut DEF KernelDiscards
  <2>2. TypeOK'
    BY <1>1, <1>4, <2>1 DEF TypeOK, KernelDiscards, receiver
  <2> QED
    BY <1>4, <2>2, Holding DEF KernelDiscards, receiver, Lost
<1>5. ASSUME SendFails \/ SenderEnds PROVE SyncInv'
  <2>1. TypeOK'
    BY <1>1, <1>5, EmptySeq DEF TypeOK, SendFails, SenderEnds, receiver
  <2> QED
    BY <1>5, <2>1, Holding DEF SendFails, SenderEnds, receiver, Lost
<1>6. ASSUME Reset PROVE SyncInv'
  <2>1. PICK n \in 0..Len(stream) : stream' = SubSeq(stream, 1, n)
    BY <1>6 DEF Reset
  <2>2. stream \in Seq(Nat)
    BY <1>1 DEF TypeOK
  <2>3. PICK a \in Seq(Nat), b \in Seq(Nat) : stream' = a /\ stream = a \o b
    <3> DEFINE c == SubSeq(stream, 1, n)
               d == SubSeq(stream, n + 1, Len(stream))
    <3>1. c \in Seq(Nat) /\ d \in Seq(Nat) /\ stream = c \o d
      BY <2>2, Cut
    <3> HIDE DEF d
    <3> QED
      BY <2>1, <3>1
  <2>4. buffer \in Seq(Nat)
    BY <1>1 DEF TypeOK
  <2>5. buffer \o (a \o b) = (buffer \o a) \o b
    BY <2>4, Joining
  <2>6. TypeOK'
    BY <1>1, <1>6, <2>3 DEF TypeOK, Reset, sender, receiver
  <2> QED
    BY <1>6, <2>3, <2>5, <2>6, Losing DEF Reset, sender, receiver
<1>7. ASSUME Receive \/ ReceiveUnconnected PROVE SyncInv'
  <2>1. TypeOK'
    BY <1>1, <1>7 DEF TypeOK, Receive, ReceiveUnconnected, sender
  <2> QED
    BY <1>7, <2>1, Holding DEF Receive, ReceiveUnconnected, sender
<1>8. ASSUME NEW n \in 1..Len(stream), RecvSome(n) PROVE SyncInv'
  BY <1>8, SyncSome
<1>9. ASSUME NEW n \in 1..Len(stream), RecvLast(n) PROVE SyncInv'
  BY <1>9, SyncLast
<1>10. ASSUME RecvClosed \/ RecvFails PROVE SyncInv'
  <2>1. /\ stream = <<>> /\ stream' = <<>> /\ buffer' = <<>> /\ link' # "open"
        /\ UNCHANGED <<sender, received>> /\ link' \in {"ended", "dead"}
    BY <1>10 DEF RecvClosed, RecvFails, Return
  <2>2. TypeOK'
    BY <1>1, <2>1, EmptySeq DEF TypeOK, sender
  <2>3. <<>> \o buffer = buffer /\ buffer \o <<>> = buffer /\ <<>> \o <<>> = <<>>
    BY <1>1, EmptySeq, ConcatEmptySeq DEF TypeOK
  <2>4. PICK v \in Seq(Nat) : v = buffer
    BY <1>1 DEF TypeOK
  <2> QED
    BY <2>1, <2>2, <2>3, <2>4, Losing DEF sender
<1>11. ASSUME Disconnect PROVE SyncInv'
  <2>1. /\ stream' = <<>> /\ buffer' = buffer /\ link' = "dead"
        /\ UNCHANGED <<sender, received>>
    BY <1>11 DEF Disconnect
  <2>2. TypeOK'
    BY <1>1, <2>1, EmptySeq DEF TypeOK, sender
  <2>3. buffer \o <<>> = buffer
    BY <1>1, ConcatEmptySeq DEF TypeOK
  <2>4. PICK v \in Seq(Nat) : v = stream
    BY <1>1 DEF TypeOK
  <2> QED
    BY <2>1, <2>2, <2>3, <2>4, Losing DEF sender
<1>12. ASSUME UNCHANGED vars PROVE SyncInv'
  <2>1. TypeOK'
    BY <1>1, <1>12 DEF TypeOK, vars, sender, receiver
  <2> QED
    BY <1>12, <2>1, Holding DEF vars, sender, receiver
<1> QED
  BY <1>2, <1>3, <1>4, <1>5, <1>6, <1>7, <1>8, <1>9, <1>10, <1>11, <1>12
     DEF Next, SendSome, RecvBytes

(* The inductive invariant of the stream.                                  *)
THEOREM SyncInvHolds == Spec => []SyncInv
  BY InitSync, NextSync, PTL DEF Spec

(* However the cells are cut on their way, receiver and sender stay in     *)
(* step (the loops of Transport::send and Transport::receive, the header   *)
(* and payload of PacketIO::receive).                                      *)
THEOREM ReceiverStaysInSync == Spec => []InSync
<1>1. SyncInv => InSync
  <2> SUFFICES ASSUME SyncInv PROVE InSync
    OBVIOUS
  <2>1. PICK rest \in Seq(Nat) : Missing(rest)
    BY DEF SyncInv
  <2>2. buffer \o stream \in Seq(Nat)
    <3>1. buffer \in Seq(Nat)
      BY DEF SyncInv, TypeOK
    <3>2. stream \in Seq(Nat)
      BY DEF SyncInv, TypeOK
    <3> QED
      BY <3>1, <3>2, Joining
  <2>3. IsPrefix(buffer \o stream, (buffer \o stream) \o rest)
    BY <2>2, BeginningIsPrefix
  <2> QED
    BY <2>1, <2>3 DEF InSync, Missing
<1> QED
  BY <1>1, SyncInvHolds, PTL

(* What the receiver has is what the sender has sent, from the first       *)
(* packet on and in this order (PacketIO::receive).                        *)
THEOREM PacketsArriveInOrder == Spec => []InOrder
<1>1. SyncInv => InOrder
  BY DEF SyncInv
<1> QED
  BY <1>1, SyncInvHolds, PTL

-----------------------------------------------------------------------------
(* No packet after a failure.                                              *)

\* A call that failed leaves nothing to be read, or a Connection that refuses
\* to be read from.
FailureIsFinal ==
  /\ link = "dead" => stream = <<>>
  /\ result = "SocketError" => link = "dead"
  /\ result \in {"ConnectionClosed", "ConnectionFailed"} => ~connected /\ ~receiving

(* Every step keeps it so.                                                 *)
LEMMA NextFailure == FailureIsFinal /\ [Next]_vars => FailureIsFinal'
<1> SUFFICES ASSUME FailureIsFinal, [Next]_vars PROVE FailureIsFinal'
  OBVIOUS
<1> USE DEF FailureIsFinal, sender, receiver, Lost
<1>1. ASSUME NEW p \in Packets, Send(p) PROVE FailureIsFinal'
  BY <1>1 DEF Send
<1>2. ASSUME NEW n \in 1..Len(unsent), KernelTakes(n) \/ KernelDiscards(n)
      PROVE  FailureIsFinal'
  BY <1>2 DEF KernelTakes, KernelDiscards
<1>3. ASSUME SendFails \/ SenderEnds \/ Reset PROVE FailureIsFinal'
  BY <1>3 DEF SendFails, SenderEnds, Reset
<1>4. ASSUME Receive \/ ReceiveUnconnected PROVE FailureIsFinal'
  BY <1>4 DEF Receive, ReceiveUnconnected
<1>5. ASSUME NEW n \in 1..Len(stream), RecvSome(n) PROVE FailureIsFinal'
  <2>1. stream # <<>>
    BY EmptySeq
  <2> QED
    BY <1>5, <2>1 DEF RecvSome, Read
<1>6. ASSUME NEW n \in 1..Len(stream), RecvLast(n) PROVE FailureIsFinal'
  <2>1. stream # <<>>
    BY EmptySeq
  <2> QED
    BY <1>6, <2>1 DEF RecvLast, Read, Return, Answer
<1>7. ASSUME RecvClosed \/ RecvFails \/ Disconnect PROVE FailureIsFinal'
  BY <1>7 DEF RecvClosed, RecvFails, Disconnect, Return
<1>8. ASSUME UNCHANGED vars PROVE FailureIsFinal'
  BY <1>8 DEF vars
<1> QED
  BY <1>1, <1>2, <1>3, <1>4, <1>5, <1>6, <1>7, <1>8 DEF Next, SendSome, RecvBytes

(* After a receive() that failed no later one returns a packet             *)
(* (Transport::receive 189-232).                                           *)
THEOREM NoPacketAfterFailure == Spec => NothingAfterFailure
<1>1. Init => FailureIsFinal
  BY DEF Init, FailureIsFinal
<1>2. FailureIsFinal /\ [Next]_vars =>
        [(result \in {"SocketError", "ConnectionClosed", "ConnectionFailed"})
          => (result' \notin {"Success", "ProtocolError"})]_vars
  <2> DEFINE failed == result \in {"SocketError", "ConnectionClosed", "ConnectionFailed"}
             packet == result \in {"Success", "ProtocolError"}
  <2> SUFFICES ASSUME FailureIsFinal, Next, failed PROVE ~packet'
    OBVIOUS
  <2>1. ASSUME NEW n \in 1..Len(stream), RecvLast(n) PROVE FALSE
    <3>1. stream # <<>>
      BY EmptySeq
    <3> QED
      BY <2>1, <3>1 DEF RecvLast, Read, FailureIsFinal
  <2>2. ASSUME RecvClosed \/ RecvFails \/ ReceiveUnconnected PROVE ~packet'
    BY <2>2 DEF RecvClosed, RecvFails, ReceiveUnconnected, Return
  <2>3. ASSUME UNCHANGED result PROVE ~packet'
    BY <2>3
  <2>4. ASSUME \/ \E p \in Packets : Send(p)
               \/ SendSome \/ SendFails \/ SenderEnds \/ Reset \/ Receive \/ Disconnect
               \/ \E n \in 1..Len(stream) : RecvSome(n)
        PROVE  UNCHANGED result
    BY <2>4 DEF Send, SendSome, KernelTakes, KernelDiscards, SendFails, SenderEnds, Reset,
                Receive, Disconnect, RecvSome, receiver
  <2> QED
    BY <2>1, <2>2, <2>3, <2>4 DEF Next, RecvBytes
<1> QED
  BY <1>1, <1>2, NextFailure, PTL DEF Spec, NothingAfterFailure

-----------------------------------------------------------------------------
(* The channel of packets.                                                 *)

(* A nonempty set of numbers up to some number has a largest one.          *)
LEMMA LargestExists ==
  ASSUME NEW N \in Nat, NEW S \in SUBSET (0..N), S # {}
  PROVE  Max(S) \in S /\ \A n \in S : n <= Max(S)
<1> DEFINE T == {m \in Nat : \A R \in SUBSET (0..m) : R # {} =>
                                \E x \in R : \A y \in R : x >= y}
<1>1. 0 \in T
  <2> SUFFICES ASSUME NEW R \in SUBSET (0..0), R # {}
               PROVE  \E x \in R : \A y \in R : x >= y
    OBVIOUS
  <2>1. \A y \in R : y = 0
    OBVIOUS
  <2>2. 0 \in R
    BY <2>1
  <2> QED
    BY <2>1, <2>2
<1>2. ASSUME NEW m \in Nat, m \in T PROVE m + 1 \in T
  <2> SUFFICES ASSUME NEW R \in SUBSET (0..(m + 1)), R # {}
               PROVE  \E x \in R : \A y \in R : x >= y
    OBVIOUS
  <2>1. CASE m + 1 \in R
    BY <2>1
  <2>2. CASE m + 1 \notin R
    <3>1. R \in SUBSET (0..m)
      BY <2>2
    <3> QED
      BY <1>2, <3>1
  <2> QED
    BY <2>1, <2>2
<1>3. Nat \subseteq T
  <2> HIDE DEF T
  <2> QED
    BY <1>1, <1>2, Induction
<1>4. \E x \in S : \A y \in S : x >= y
  BY <1>3
<1>5. Max(S) \in S /\ \A y \in S : Max(S) >= y
  BY <1>4 DEF Max
<1> QED
  BY <1>5

\* The numbers of packets, of those that are to come, that are whole in h cells.
Fits(packets, h) == {n \in 0..Len(packets) : Len(Bytes(SubSeq(packets, 1, n))) <= h}

\* The largest of them.
Count(packets, h) == Max(Fits(packets, h))

(* No packet always fits, so that there is a largest number.               *)
LEMMA CountIs ==
  ASSUME NEW s \in Seq(Packet), NEW h \in Nat
  PROVE  /\ Count(s, h) \in Fits(s, h) /\ Count(s, h) \in 0..Len(s)
         /\ \A n \in Fits(s, h) : n <= Count(s, h)
<1>1. Len(s) \in Nat
  BY LenProperties
<1>2. 0 \in Fits(s, h)
  <2>1. SubSeq(s, 1, 0) = <<>>
    BY SubSeqEmpty
  <2>2. Len(Bytes(SubSeq(s, 1, 0))) = 0
    BY <2>1, BytesOfNone, EmptySeq
  <2> QED
    BY <1>1, <2>2 DEF Fits
<1>3. Fits(s, h) \in SUBSET (0..Len(s))
  BY DEF Fits
<1> QED
  BY <1>1, <1>2, <1>3, LargestExists DEF Count

(* A packet fits only with those before it.                                *)
LEMMA BeginningFits ==
  ASSUME NEW s \in Seq(Packet), NEW n \in 0..Len(s)
  PROVE  SubSeq(s, 1, n) \in Seq(Packet) /\ Len(Bytes(SubSeq(s, 1, n))) \in Nat
  BY Cut, BytesAreCells, LenProperties

(* All packets fit in as many cells as they have.                          *)
LEMMA AllFit ==
  ASSUME NEW s \in Seq(Packet), NEW h \in Nat, Len(Bytes(s)) <= h
  PROVE  Count(s, h) = Len(s) /\ SubSeq(s, 1, Count(s, h)) = s
<1>1. Len(s) \in Nat /\ SubSeq(s, 1, Len(s)) = s
  BY LenProperties, SubSeqFull
<1>2. Len(s) \in Fits(s, h)
  <2>1. Len(s) \in 0..Len(s)
    BY <1>1
  <2>2. Len(Bytes(SubSeq(s, 1, Len(s)))) <= h
    BY <1>1
  <2> QED
    BY <2>1, <2>2 DEF Fits
<1>3. Len(s) <= Count(s, h) /\ Count(s, h) \in 0..Len(s)
  BY <1>2, CountIs
<1>4. Count(s, h) = Len(s)
  BY <1>1, <1>3
<1> QED
  BY <1>1, <1>4

(* Fewer cells hold fewer packets.                                         *)
LEMMA FewerFit ==
  ASSUME NEW s \in Seq(Packet), NEW h \in Nat, NEW g \in Nat, g <= h
  PROVE  Count(s, g) <= Count(s, h)
<1>1. Count(s, g) \in Fits(s, g)
  BY CountIs
<1>2. Count(s, g) \in Fits(s, h)
  <2>1. Count(s, g) \in 0..Len(s)
    BY CountIs
  <2>2. Len(Bytes(SubSeq(s, 1, Count(s, g)))) \in Nat
    BY <2>1, BeginningFits
  <2>3. Len(Bytes(SubSeq(s, 1, Count(s, g)))) <= g
    BY <1>1 DEF Fits
  <2> QED
    BY <2>1, <2>2, <2>3 DEF Fits
<1> QED
  BY <1>2, CountIs

(* The rest of a beginning is a beginning of the rest.                     *)
LEMMA RestOfBeginning ==
  ASSUME NEW s \in Seq(Packet), s # <<>>, NEW n \in 0..(Len(s) - 1)
  PROVE  SubSeq(s, 2, n + 1) = SubSeq(Tail(s), 1, n)
<1> DEFINE t == Tail(s)
           a == SubSeq(s, 2, n + 1)
           b == SubSeq(t, 1, n)
<1>1. /\ Len(s) \in Nat /\ t \in Seq(Packet) /\ Len(t) = Len(s) - 1
      /\ \A i \in 1..Len(t) : t[i] = s[i + 1]
  BY LenProperties, HeadTailProperties
<1>2. n \in Nat /\ n \in 0..Len(t)
  BY <1>1
<1>3. \A i \in 2..(n + 1) : s[i] \in Packet
  BY <1>1, <1>2, ElementOfSeq
<1>4. /\ a \in Seq(Packet) /\ Len(a) = (IF 2 <= n + 1 THEN (n + 1) - 2 + 1 ELSE 0)
      /\ \A i \in 1..((n + 1) - 2 + 1) : a[i] = s[2 + i - 1]
  <2>1. 2 \in Int /\ n + 1 \in Int
    BY <1>2
  <2> QED
    BY <1>3, <2>1, SubSeqProperties
<1>5. b \in Seq(Packet) /\ Len(b) = n /\ \A i \in 1..n : b[i] = t[i]
  BY <1>1, <1>2, Cut
<1> HIDE DEF a, b
<1>6. Len(a) = n /\ \A i \in 1..n : a[i] = s[i + 1]
  BY <1>2, <1>4
<1>7. \A i \in 1..n : t[i] = s[i + 1]
  BY <1>1, <1>2
<1>8. \A i \in 1..n : a[i] = b[i]
  BY <1>5, <1>6, <1>7
<1>9. a = b
  BY <1>4, <1>5, <1>6, <1>8, SeqEqual
<1> QED
  BY <1>9 DEF a, b

(* Without the first packet, one less fits in as many cells less as it has.*)
LEMMA OneLessFits ==
  ASSUME NEW s \in Seq(Packet), s # <<>>, NEW h \in Nat, NEW g \in Nat,
         h = Len(Encode(Head(s))) + g
  PROVE  Count(s, h) = Count(Tail(s), g) + 1
<1> DEFINE t == Tail(s)
           e == Encode(Head(s))
<1>1. /\ Len(s) \in Nat /\ Len(s) # 0 /\ Head(s) \in Packet
      /\ t \in Seq(Packet) /\ Len(t) = Len(s) - 1
  BY LenProperties, EmptySeq, HeadTailProperties
<1>2. ASSUME NEW n \in 0..Len(t)
      PROVE  /\ Len(Bytes(SubSeq(t, 1, n))) \in Nat
             /\ Len(Bytes(SubSeq(s, 1, n + 1))) = Len(e) + Len(Bytes(SubSeq(t, 1, n)))
  <2>1. n + 1 \in 1..Len(s) /\ 1 \in 1..Len(s) /\ n \in Nat
    BY <1>1
  <2> DEFINE c == SubSeq(s, 1, n + 1)
  <2>2. c = <<s[1]>> \o SubSeq(s, 2, n + 1)
    BY <2>1, SubSeqRecursiveFirst
  <2>3. Head(c) = s[1] /\ Tail(c) = SubSeq(s, 2, n + 1)
    BY <2>1, HeadTailOfSubSeq
  <2>4. SubSeq(s, 2, n + 1) = SubSeq(t, 1, n)
    <3>1. n \in 0..(Len(s) - 1)
      BY <1>1
    <3> QED
      BY <3>1, RestOfBeginning
  <2>5. s[1] = Head(s)
    OBVIOUS
  <2>6. c \in Seq(Packet) /\ c # <<>>
    <3>1. n + 1 \in 0..Len(s)
      BY <1>1, <2>1
    <3>2. c \in Seq(Packet) /\ Len(c) = n + 1
      BY <3>1, Cut
    <3> QED
      BY <2>1, <3>2, EmptySeq
  <2>7. Bytes(c) = e \o Bytes(SubSeq(t, 1, n))
    BY <2>3, <2>4, <2>5, <2>6, BytesCons
  <2>8. e \in Seq(Nat) /\ Bytes(SubSeq(t, 1, n)) \in Seq(Nat)
    BY <1>1, BeginningFits, BytesAreCells, EncodingIs
  <2> DEFINE d == Bytes(SubSeq(t, 1, n))
  <2> HIDE DEF d, e, c
  <2>9. Len(e \o d) = Len(e) + Len(d) /\ Len(d) \in Nat
    BY <2>8, ConcatProperties, LenProperties DEF d
  <2> QED
    BY <2>7, <2>9 DEF d, c
<1>3. Len(e) \in Nat
  BY <1>1, EncodingIs, LenProperties
<1> DEFINE C == Count(s, h)
           D == Count(t, g)
<1>4. D \in 0..Len(t) /\ D \in Fits(t, g) /\ \A n \in Fits(t, g) : n <= D
  BY <1>1, CountIs
<1>5. C \in 0..Len(s) /\ C \in Fits(s, h) /\ \A n \in Fits(s, h) : n <= C
  BY CountIs
<1> HIDE DEF C, D, e, t
<1>6. D + 1 \in Fits(s, h)
  <2>1. Len(Bytes(SubSeq(t, 1, D))) <= g
    BY <1>4 DEF Fits
  <2>2. Len(Bytes(SubSeq(s, 1, D + 1))) <= h
    BY <1>2, <1>3, <1>4, <2>1 DEF e
  <2>3. D + 1 \in 0..Len(s)
    BY <1>1, <1>4
  <2> QED
    BY <2>2, <2>3 DEF Fits
<1>7. C - 1 \in Fits(t, g)
  <2>1. C \in Nat /\ C >= 1
    BY <1>1, <1>4, <1>5, <1>6
  <2>2. C - 1 \in 0..Len(t) /\ (C - 1) + 1 = C
    BY <1>1, <1>5, <2>1
  <2>3. Len(Bytes(SubSeq(s, 1, C))) <= h
    BY <1>5 DEF Fits
  <2>4. Len(Bytes(SubSeq(t, 1, C - 1))) <= g
    BY <1>2, <1>3, <2>2, <2>3 DEF e
  <2> QED
    BY <2>2, <2>4 DEF Fits
<1>8. C = D + 1
  <2>1. C - 1 <= D /\ D + 1 <= C
    BY <1>4, <1>5, <1>6, <1>7
  <2>2. C \in Int /\ D \in Int
    BY <1>1, <1>4, <1>5
  <2> QED
    BY <2>1, <2>2
<1> QED
  BY <1>8 DEF C, D, t

\* The packets that were sent whole and not received, and what is there of them.
Later == SubSeq(sent, Len(received) + 1, Len(sent))
Held == Len(buffer \o stream)

\* Of the packet being sent no more is left than it had.
Remainder ==
  link = "open" => \A p \in Packets : current = <<p>> => Len(unsent) <= Len(Encode(p))

ChannelInv == SyncInv /\ Remainder

(* The invariant for the channel holds at first.                           *)
LEMMA InitChannel == Init => ChannelInv
  BY InitSync DEF Init, ChannelInv, Remainder

(* Every step keeps it.                                                    *)
LEMMA NextChannel == ChannelInv /\ [Next]_vars => ChannelInv'
<1> SUFFICES ASSUME ChannelInv, [Next]_vars PROVE Remainder'
  BY NextSync DEF ChannelInv
<1>1. ASSUME NEW p \in Packets, Send(p) PROVE Remainder'
  <2>1. current' = <<p>> /\ unsent' = Encode(p)
    BY <1>1 DEF Send
  <2>2. \A q \in Packets : current' = <<q>> => q = p
    BY <2>1
  <2>3. Len(unsent') <= Len(Encode(p))
    <3>1. Len(Encode(p)) \in Nat
      BY PacketsAre, EncodingIs, NoCells
    <3> QED
      BY <2>1, <3>1
  <2> QED
    BY <2>2, <2>3 DEF Remainder
<1>2. ASSUME NEW n \in 1..Len(unsent), KernelTakes(n) PROVE Remainder'
  <2>1. CASE n = Len(unsent)
    <3>1. current' = <<>>
      BY <1>2, <2>1 DEF KernelTakes
    <3>2. \A p \in Packets : current' # <<p>>
      BY <3>1
    <3> QED
      BY <3>2 DEF Remainder
  <2>2. CASE n # Len(unsent)
    <3>1. UNCHANGED <<link, current>> /\ unsent' = SubSeq(unsent, n + 1, Len(unsent))
      BY <1>2, <2>2 DEF KernelTakes
    <3>2. unsent \in Seq(Nat) /\ Len(unsent) \in Nat /\ n \in 0..Len(unsent)
      BY NoCells DEF ChannelInv, SyncInv, TypeOK
    <3>3. Len(unsent') = Len(unsent) - n
      BY <3>1, <3>2, Cut
    <3> SUFFICES ASSUME link = "open", NEW p \in Packets, current = <<p>>
                 PROVE  Len(unsent') <= Len(Encode(p))
      BY <3>1 DEF Remainder
    <3>4. Len(unsent) <= Len(Encode(p)) /\ Len(Encode(p)) \in Nat
      BY PacketsAre, EncodingIs, NoCells DEF ChannelInv, Remainder
    <3> QED
      BY <3>2, <3>3, <3>4
  <2> QED
    BY <2>1, <2>2
<1>3. ASSUME link' = "open" => UNCHANGED <<link, current, unsent>> PROVE Remainder'
  BY <1>3 DEF ChannelInv, Remainder
<1>4. ASSUME NEW n \in 1..Len(unsent), KernelDiscards(n) PROVE Remainder'
  BY <1>3, <1>4 DEF KernelDiscards, Lost
<1>5. ASSUME SendFails \/ SenderEnds \/ Reset PROVE Remainder'
  BY <1>3, <1>5 DEF SendFails, SenderEnds, Reset, Lost
<1>6. ASSUME \/ Receive \/ ReceiveUnconnected \/ RecvClosed \/ RecvFails \/ Disconnect
             \/ \E n \in 1..Len(stream) : RecvSome(n) \/ RecvLast(n)
      PROVE  Remainder'
  BY <1>3, <1>6 DEF Receive, ReceiveUnconnected, RecvClosed, RecvFails, Disconnect, RecvSome,
                    RecvLast, sender
<1>7. ASSUME UNCHANGED vars PROVE Remainder'
  BY <1>3, <1>7 DEF vars, sender
<1> QED
  BY <1>1, <1>2, <1>4, <1>5, <1>6, <1>7 DEF Next, SendSome, RecvBytes

(* What the channel carries, by the number of packets that are there.      *)
LEMMA ArrivingIs ==
  /\ Arriving = SubSeq(Later, 1, Count(Later, Held))
  /\ Arriving' = SubSeq(Later', 1, Count(Later', Held'))
<1>1. Arriving = SubSeq(Later, 1, Count(Later, Held))
  BY DEF Arriving, Count, Fits, Later, Held
<1>2. Arriving' = SubSeq(Later', 1, Count(Later', Held'))
  BY DEF Arriving, Count, Fits, Later, Held
<1> QED
  BY <1>1, <1>2

(* The packets to come are packets.                                        *)
LEMMA LaterIs ==
  ASSUME SyncInv
  PROVE  /\ Later \in Seq(Packets) /\ Later \in Seq(Packet) /\ current \in Seq(Packets)
         /\ Undelivered = Later \o current
         /\ buffer \o stream \in Seq(Nat) /\ Held \in Nat
<1>1. TypeOK /\ InOrder
  BY DEF SyncInv
<1>2. Later \in Seq(Packets) /\ Later \in Seq(Packet) /\ current \in Seq(Packets)
  BY <1>1, UndeliveredIs, PacketsAre DEF Later
<1>3. buffer \o stream \in Seq(Nat)
  <2>1. buffer \in Seq(Nat)
    BY <1>1 DEF TypeOK
  <2>2. stream \in Seq(Nat)
    BY <1>1 DEF TypeOK
  <2> QED
    BY <2>1, <2>2, Joining
<1>4. Held \in Nat
  BY <1>3, NoCells DEF Held
<1> QED
  BY <1>2, <1>3, <1>4 DEF Later, Undelivered

(* While the link is open, all of them are on their way.                   *)
LEMMA OpenArriving ==
  ASSUME ChannelInv, link = "open"
  PROVE  Arriving = Later
<1>1. PICK rest \in Seq(Nat) : Missing(rest)
  BY DEF ChannelInv, SyncInv
<1>2. rest = unsent /\ unsent \in Seq(Nat)
  BY <1>1 DEF Missing
<1>3. /\ Later \in Seq(Packet) /\ Undelivered = Later \o current
      /\ buffer \o stream \in Seq(Nat) /\ Held \in Nat
  BY LaterIs DEF ChannelInv
<1> DEFINE c == Bytes(Later)
           b == buffer \o stream
<1>4. c \in Seq(Nat)
  BY <1>3, BytesAreCells
<1>5. Len(b \o unsent) = Held + Len(unsent) /\ Len(unsent) \in Nat
  BY <1>2, <1>3, ConcatProperties, NoCells DEF Held
<1>6. CASE current = <<>>
  <2>1. Undelivered = Later
    BY <1>3, <1>6, ConcatEmptySeq
  <2>2. c = b \o unsent
    BY <1>1, <1>2, <2>1 DEF Missing
  <2>3. Len(unsent) = 0
    BY <1>6, <1>2, NoCells DEF ChannelInv, SyncInv
  <2> QED
    BY <1>3, <1>5, <2>2, <2>3, AllFit, ArrivingIs
<1>7. ASSUME NEW p \in Packets, current = <<p>> PROVE Arriving = Later
  <2>1. p \in Packet /\ Encode(p) \in Seq(Nat) /\ Len(Encode(p)) \in Nat
    BY PacketsAre, EncodingIs, NoCells
  <2>2. Undelivered = Append(Later, p)
    BY <1>3, <1>7, <2>1, AppendIsConcat
  <2>3. Bytes(Undelivered) = c \o Encode(p)
    BY <1>3, <2>1, <2>2, BytesAppend
  <2>4. Len(c \o Encode(p)) = Len(c) + Len(Encode(p)) /\ Len(c) \in Nat
    <3> HIDE DEF c
    <3> QED
      BY <1>4, <2>1, ConcatProperties, NoCells
  <2>5. Len(c) + Len(Encode(p)) = Held + Len(unsent)
    BY <1>1, <1>2, <1>5, <2>3, <2>4 DEF Missing
  <2>6. Len(unsent) <= Len(Encode(p))
    BY <1>7 DEF ChannelInv, Remainder
  <2>7. Len(c) <= Held
    BY <1>3, <1>5, <2>1, <2>4, <2>5, <2>6
  <2> QED
    BY <1>3, <2>7, AllFit, ArrivingIs
<1> QED
  BY <1>6, <1>7 DEF ChannelInv, SyncInv, TypeOK

(* The same, to be used in a state that a step leads to.                   *)
LEMMA HeldIs == SyncInv => Held \in Nat
  BY LaterIs
LEMMA OpenIsArriving == ChannelInv /\ link = "open" => Arriving = Later
  BY OpenArriving

(* A beginning of a beginning is a beginning.                              *)
LEMMA BeginningTwice ==
  ASSUME NEW s \in Seq(Packet), NEW m \in 0..Len(s), NEW n \in 0..m
  PROVE  /\ Len(SubSeq(s, 1, m)) = m
         /\ SubSeq(SubSeq(s, 1, m), 1, n) = SubSeq(s, 1, n)
<1> DEFINE a == SubSeq(s, 1, m)
           b == SubSeq(a, 1, n)
           c == SubSeq(s, 1, n)
<1>1. Len(s) \in Nat /\ m \in Nat /\ n \in 0..Len(s)
  BY LenProperties
<1>2. a \in Seq(Packet) /\ Len(a) = m /\ \A i \in 1..m : a[i] = s[i]
  BY Cut
<1>3. c \in Seq(Packet) /\ Len(c) = n /\ \A i \in 1..n : c[i] = s[i]
  BY <1>1, Cut
<1>4. b \in Seq(Packet) /\ Len(b) = n /\ \A i \in 1..n : b[i] = a[i]
  <2> HIDE DEF a
  <2>1. n \in 0..Len(a)
    BY <1>2
  <2> QED
    BY <1>2, <2>1, Cut
<1> HIDE DEF a, b, c
<1>5. \A i \in 1..n : b[i] = c[i]
  BY <1>1, <1>2, <1>3, <1>4
<1>6. b = c
  BY <1>3, <1>4, <1>5, SeqEqual
<1> QED
  BY <1>2, <1>6 DEF a, b, c

(* When cells are lost, some of the last packets on their way are.         *)
LEMMA Breaking ==
  ASSUME SyncInv, UNCHANGED <<sent, received>>, Held' \in Nat, Held' <= Held
  PROVE  \E n \in 0..Len(Arriving) : Arriving' = SubSeq(Arriving, 1, n)
<1>1. PICK s \in Seq(Packet) : s = Later /\ Later' = s
  BY LaterIs DEF Later
<1>2. PICK h \in Nat, g \in Nat : h = Held /\ g = Held' /\ g <= h
  BY LaterIs
<1> DEFINE m == Count(s, h)
           n == Count(s, g)
<1>3. Arriving = SubSeq(s, 1, m) /\ Arriving' = SubSeq(s, 1, n)
  BY <1>1, <1>2, ArrivingIs
<1>4. m \in 0..Len(s) /\ n \in 0..Len(s) /\ n <= m
  BY <1>2, CountIs, FewerFit
<1> HIDE DEF m, n
<1>5. n \in 0..m
  BY <1>4, NoCells
<1>6. Len(SubSeq(s, 1, m)) = m /\ SubSeq(SubSeq(s, 1, m), 1, n) = SubSeq(s, 1, n)
  BY <1>4, <1>5, BeginningTwice
<1> QED
  BY <1>3, <1>5, <1>6

(* When no cell is, the same packets are on their way.                     *)
LEMMA Keeping ==
  ASSUME UNCHANGED <<sent, received>>, Held' = Held
  PROVE  Arriving' = Arriving
<1>1. Later' = Later
  BY DEF Later
<1> QED
  BY <1>1, ArrivingIs

(* The sender's last cells put the packet on its way; others do not.       *)
LEMMA TakesPuts ==
  ASSUME ChannelInv, ChannelInv', NEW n \in 1..Len(unsent), KernelTakes(n)
  PROVE  \/ \E p \in Packets : Channel!Put(p)
         \/ UNCHANGED <<Arriving, received, link>>
<1>1. link = "open" /\ link' = "open" /\ received' = received
  BY DEF KernelTakes, receiver
<1>2. Arriving = Later
  BY <1>1, OpenArriving
<1>3. Arriving' = Later'
  <2>1. (ChannelInv /\ link = "open" => Arriving = Later)'
    BY OpenIsArriving, PTL
  <2> QED
    BY <1>1, <2>1
<1>4. CASE n # Len(unsent)
  <2>1. sent' = sent
    BY <1>4 DEF KernelTakes
  <2>2. Later' = Later
    BY <1>1, <2>1 DEF Later
  <2> QED
    BY <1>1, <1>2, <1>3, <2>2
<1>5. CASE n = Len(unsent)
  <2>1. sent' = sent \o current
    BY <1>5 DEF KernelTakes
  <2>2. unsent # <<>>
    BY EmptySeq
  <2>3. PICK p \in Packets : current = <<p>>
    BY <1>1, <2>2 DEF ChannelInv, SyncInv, TypeOK
  <2>4. TypeOK /\ InOrder
    BY DEF ChannelInv, SyncInv
  <2>5. /\ Len(received) \in 0..Len(sent) /\ sent \in Seq(Packets)
        /\ current \in Seq(Packets)
    BY <2>4, UndeliveredIs DEF TypeOK
  <2>6. Later' = Later \o current
    <3>1. SubSeq(sent \o current, Len(received) + 1, Len(sent \o current)) =
            SubSeq(sent, Len(received) + 1, Len(sent)) \o current
      BY <2>5, RestOfJoin
    <3> QED
      BY <1>1, <2>1, <3>1 DEF Later
  <2>7. Later \in Seq(Packets)
    BY LaterIs DEF ChannelInv
  <2>8. Later' = Append(Later, p)
    BY <2>3, <2>6, <2>7, AppendIsConcat
  <2> QED
    BY <1>1, <1>2, <1>3, <2>8 DEF Channel!Put
<1> QED
  BY <1>4, <1>5

(* The receiver's last cells get the first packet that is on its way.      *)
LEMMA LastGets ==
  ASSUME SyncInv, SyncInv', NEW n \in 1..Len(stream), RecvLast(n)
  PROVE  Channel!Get
<1>1. PICK rest \in Seq(Nat) : Missing(rest)
  BY DEF SyncInv
<1> DEFINE k == Len(received)
           p == sent[k + 1]
<1>2. /\ k < Len(sent) /\ received' = Append(received, p) /\ p \in Packets
      /\ buffer' = <<>> /\ stream' \in Seq(Nat)
      /\ Bytes(Tail(Undelivered)) = stream' \o rest
      /\ UNCHANGED <<link, current, unsent, sent>>
  BY <1>1, LastIs
<1>3. TypeOK /\ InOrder
  BY DEF SyncInv
<1>4. /\ k \in Nat /\ Len(sent) \in Nat /\ k + 1 \in 1..Len(sent) /\ Len(sent) \in (k + 1)..Len(sent)
      /\ sent \in Seq(Packets) /\ received \in Seq(Packet)
  BY <1>2, <1>3, UndeliveredIs DEF TypeOK
<1>5. Later # <<>> /\ Head(Later) = p /\ Later' = Tail(Later)
  <2>1. Head(Later) = p /\ Tail(Later) = SubSeq(sent, (k + 1) + 1, Len(sent))
    BY <1>4, HeadTailOfSubSeq DEF Later
  <2>2. Len(Later) = Len(sent) - k
    <3>1. k \in 0..Len(sent)
      BY <1>4
    <3> QED
      BY <1>4, <3>1, Cut DEF Later
  <2>3. Len(received') = k + 1
    <3> HIDE DEF p
    <3>1. p \in Packet
      BY <1>2, PacketsAre
    <3> QED
      BY <1>2, <1>4, <3>1, AppendProperties
  <2>4. Later' = SubSeq(sent, (k + 1) + 1, Len(sent))
    BY <1>2, <2>3 DEF Later
  <2>5. Len(Later) # 0
    BY <1>2, <1>4, <2>2
  <2> QED
    BY <2>1, <2>4, <2>5, EmptySeq
<1> DEFINE e == Encode(p)
<1>6. Held = Len(e) + Held'
  <2>1. Undelivered # <<>> /\ Head(Undelivered) = p /\ Undelivered \in Seq(Packet)
    BY <1>2, <1>3, UndeliveredIs
  <2>2. Bytes(Undelivered) = e \o (stream' \o rest)
    BY <1>2, <2>1, BytesCons
  <2>3. e \in Seq(Nat)
    BY <1>2, PacketsAre, EncodingIs
  <2> HIDE DEF e, p
  <2>4. PICK t \in Seq(Nat) : t = stream'
    BY <1>2
  <2>5. Len(t \o rest) = Len(t) + Len(rest) /\ t \o rest \in Seq(Nat)
    BY ConcatProperties
  <2>6. Len(e \o (t \o rest)) = Len(e) + Len(t \o rest)
    BY <2>3, <2>5, ConcatProperties
  <2>7. PICK b \in Seq(Nat) : b = buffer \o stream
    BY LaterIs
  <2>8. Len(b \o rest) = Len(b) + Len(rest)
    BY ConcatProperties
  <2>9. b \o rest = e \o (t \o rest)
    BY <1>1, <2>2, <2>4, <2>7 DEF Missing
  <2>10. Len(b) + Len(rest) = Len(e) + (Len(t) + Len(rest))
    BY <2>5, <2>6, <2>8, <2>9
  <2>11. Len(b) \in Nat /\ Len(t) \in Nat /\ Len(e) \in Nat /\ Len(rest) \in Nat
    BY <2>3, NoCells
  <2>12. Len(b) = Len(e) + Len(t)
    BY <2>10, <2>11
  <2>13. Held = Len(b) /\ Held' = Len(t)
    <3>1. <<>> \o t = t
      BY ConcatEmptySeq
    <3>2. Held' = Len(buffer' \o stream')
      BY DEF Held
    <3> QED
      BY <1>2, <2>4, <2>7, <3>1, <3>2 DEF Held
  <2> QED
    BY <2>12, <2>13
<1>7. PICK s \in Seq(Packet), h \in Nat, g \in Nat :
        /\ s = Later /\ Tail(s) = Later' /\ h = Held /\ g = Held'
  <2>1. Held' \in Nat
    <3>1. (SyncInv => Held \in Nat)'
      BY HeldIs, PTL
    <3> QED
      BY <3>1
  <2> QED
    BY <1>5, <2>1, LaterIs
<1> DEFINE c == Count(Tail(s), g)
<1>8. s # <<>> /\ h = Len(Encode(Head(s))) + g
  BY <1>5, <1>6, <1>7
<1>9. Count(s, h) = c + 1
  BY <1>8, OneLessFits
<1>10. /\ Len(s) \in Nat /\ Len(s) # 0 /\ Tail(s) \in Seq(Packet) /\ Len(Tail(s)) = Len(s) - 1
       /\ c \in 0..Len(Tail(s))
  BY <1>8, NoCells, LenProperties, EmptySeq, HeadTailProperties, CountIs
<1> HIDE DEF c, p
<1>11. c + 1 \in 1..Len(s) /\ 1 \in 1..Len(s) /\ c \in 0..(Len(s) - 1) /\ c \in Nat
  BY <1>10
<1>12. Arriving = SubSeq(s, 1, c + 1) /\ Arriving' = SubSeq(Tail(s), 1, c)
  BY <1>7, <1>9, ArrivingIs DEF c
<1>13. Head(Arriving) = s[1] /\ Tail(Arriving) = SubSeq(s, 2, c + 1)
  BY <1>11, <1>12, HeadTailOfSubSeq
<1>14. SubSeq(s, 2, c + 1) = SubSeq(Tail(s), 1, c)
  BY <1>8, <1>11, RestOfBeginning
<1>15. Arriving # <<>>
  <2>1. c + 1 \in 0..Len(s)
    BY <1>11
  <2>2. Len(Arriving) = c + 1
    BY <1>12, <2>1, Cut
  <2> QED
    BY <1>11, <2>2, EmptySeq
<1>16. s[1] = p
  BY <1>5, <1>7
<1> QED
  BY <1>2, <1>12, <1>13, <1>14, <1>15, <1>16 DEF Channel!Get

(* A step of the two ends is one of the channel, or none.                  *)
LEMMA StepOfChannel ==
  ASSUME ChannelInv, ChannelInv', [Next]_vars
  PROVE  [Channel!Next]_(Channel!vars)
<1>1. SyncInv /\ SyncInv' /\ TypeOK
  BY DEF ChannelInv, SyncInv
<1>2. Held \in Nat /\ Held' \in Nat
  <2>1. (SyncInv => Held \in Nat)'
    BY HeldIs, PTL
  <2> QED
    BY <1>1, <2>1, HeldIs
<1>3. ASSUME UNCHANGED <<Arriving, received, link>> PROVE UNCHANGED Channel!vars
  BY <1>3 DEF Channel!vars
<1>4. ASSUME UNCHANGED <<link, sent, received>>, Held' = Held PROVE UNCHANGED Channel!vars
  BY <1>3, <1>4, Keeping
<1>5. ASSUME UNCHANGED <<sent, received>>, Held' <= Held, link' # "open"
      PROVE  Channel!Break
  BY <1>1, <1>2, <1>5, Breaking DEF Channel!Break
<1>6. ASSUME NEW p \in Packets, Send(p) PROVE UNCHANGED Channel!vars
  BY <1>4, <1>6 DEF Send, receiver, Held
<1>7. ASSUME NEW n \in 1..Len(unsent), KernelTakes(n) PROVE [Channel!Next]_(Channel!vars)
  BY <1>3, <1>7, TakesPuts DEF Channel!Next
<1>8. ASSUME NEW n \in 1..Len(unsent), KernelDiscards(n) PROVE UNCHANGED Channel!vars
  BY <1>4, <1>8 DEF KernelDiscards, receiver, Held
<1>9. ASSUME SendFails PROVE UNCHANGED Channel!vars
  BY <1>4, <1>9 DEF SendFails, receiver, Held
<1>10. ASSUME SenderEnds PROVE Channel!Close
  <2>1. UNCHANGED <<sent, received>> /\ Held' = Held /\ link = "open" /\ link' = "ended"
    BY <1>10 DEF SenderEnds, receiver, Held
  <2> QED
    BY <2>1, Keeping DEF Channel!Close
<1>11. ASSUME Reset PROVE Channel!Break
  <2>1. PICK n \in 0..Len(stream) : stream' = SubSeq(stream, 1, n)
    BY <1>11 DEF Reset
  <2>2. PICK x \in Seq(Nat), y \in Seq(Nat) : x = buffer /\ y = stream
    BY <1>1 DEF TypeOK
  <2>3. n \in 0..Len(y) /\ Len(y) \in Nat /\ Len(x) \in Nat
    BY <2>2, NoCells
  <2>4. PICK z \in Seq(Nat) : z = stream' /\ Len(z) = n
    BY <2>1, <2>2, <2>3, Cut
  <2>5. Len(x \o z) = Len(x) + Len(z) /\ Len(x \o y) = Len(x) + Len(y)
    BY ConcatProperties
  <2>6. UNCHANGED <<buffer, sent, received>> /\ link' = "reset"
    BY <1>11 DEF Reset, sender, receiver
  <2>7. Held = Len(x \o y) /\ Held' = Len(x \o z)
    BY <2>2, <2>4, <2>6 DEF Held
  <2>8. Held' <= Held
    BY <2>3, <2>4, <2>5, <2>7
  <2> QED
    BY <1>5, <2>6, <2>8
<1>12. ASSUME Receive \/ ReceiveUnconnected PROVE UNCHANGED Channel!vars
  BY <1>4, <1>12 DEF Receive, ReceiveUnconnected, sender, Held
<1>13. ASSUME NEW n \in 1..Len(stream), RecvSome(n) PROVE UNCHANGED Channel!vars
  <2>1. Read(n)
    BY <1>13 DEF RecvSome
  <2>2. PICK a \in Seq(Nat), b \in Seq(Nat) :
          /\ a = SubSeq(stream, 1, n) /\ stream' = b
          /\ buffer \o stream = (buffer \o a) \o b
    BY <1>1, <2>1, ReadingIs
  <2>3. buffer' = buffer \o a /\ UNCHANGED <<link, sent, received>>
    BY <1>13, <2>2 DEF RecvSome, sender
  <2>4. Held' = Held
    BY <2>2, <2>3 DEF Held
  <2> QED
    BY <1>4, <2>3, <2>4
<1>14. ASSUME NEW n \in 1..Len(stream), RecvLast(n) PROVE Channel!Get
  BY <1>1, <1>14, LastGets
<1>15. ASSUME RecvClosed \/ RecvFails PROVE Channel!Break
  <2>1. buffer' = <<>> /\ stream' = <<>> /\ UNCHANGED <<sent, received>> /\ link' # "open"
    BY <1>15 DEF RecvClosed, RecvFails, Return, sender
  <2>2. Held' = 0
    BY <2>1, ConcatEmptySeq, EmptySeq DEF Held
  <2>3. Held' <= Held
    BY <1>2, <2>2
  <2> QED
    BY <1>5, <2>1, <2>3
<1>16. ASSUME Disconnect PROVE Channel!Break
  <2>1. stream' = <<>> /\ UNCHANGED <<buffer, sent, received>> /\ link' # "open"
    BY <1>16 DEF Disconnect, sender
  <2>2. PICK x \in Seq(Nat), y \in Seq(Nat) : x = buffer /\ y = stream
    BY <1>1 DEF TypeOK
  <2>3. Len(x \o y) = Len(x) + Len(y) /\ x \o <<>> = x
    BY ConcatProperties, ConcatEmptySeq
  <2>4. Held = Len(x \o y) /\ Held' = Len(x)
    BY <2>1, <2>2, <2>3 DEF Held
  <2>5. Held' <= Held
    BY <2>3, <2>4, NoCells
  <2> QED
    BY <1>5, <2>1, <2>5
<1>17. ASSUME UNCHANGED vars PROVE UNCHANGED Channel!vars
  BY <1>4, <1>17 DEF vars, sender, receiver, Held
<1> QED
  BY <1>6, <1>7, <1>8, <1>9, <1>10, <1>11, <1>12, <1>13, <1>14, <1>15, <1>16, <1>17
     DEF Next, SendSome, RecvBytes, Channel!Next

(* The byte stream with the loops of Transport and PacketIO at its ends is *)
(* a channel of packets.                                                   *)
THEOREM ChannelRefines == Spec => Channel!Spec
<1>1. Init => Channel!Init
  <2> SUFFICES ASSUME Init PROVE Channel!Init
    OBVIOUS
  <2>1. Arriving = Later
    BY InitChannel, OpenArriving DEF Init
  <2>2. Later = <<>>
    BY EmptySeq, SubSeqEmpty DEF Init, Later
  <2> QED
    BY <2>1, <2>2 DEF Init, Channel!Init
<1>2. ChannelInv /\ ChannelInv' /\ [Next]_vars => [Channel!Next]_(Channel!vars)
  BY StepOfChannel
<1> QED
  BY <1>1, <1>2, InitChannel, NextChannel, PTL DEF Spec, Channel!Spec
=============================================================================
