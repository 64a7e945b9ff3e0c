----------------------------- MODULE CodecProofs -----------------------------
(***************************************************************************)
(* That the parsers read what is written, for every content: the length    *)
(* fields of TLVs, trees of TLVs, the KDF-DO, the PW status bytes and the  *)
(* algorithm attributes; that an RSA key is imported as it is announced;   *)
(* and that itersalt hashes exactly as many octets as it should.           *)
(*                                                                         *)
(* The recursive functions of the model are unfolded by induction over     *)
(* the length of the input.  The library's theorems on induction take an   *)
(* operator, which no prover here instantiates; Induction takes the set of *)
(* the numbers that have the property.                                     *)
(***************************************************************************)
EXTENDS CodecProps, SequenceTheorems, WellFoundedInduction, TLAPS

-----------------------------------------------------------------------------
(* Induction, and sequences.                                               *)

\* A set of numbers has a least one.
LEMMA NatLeast ==
  ASSUME NEW T, T \subseteq Nat, T # {}
  PROVE  \E x \in T : \A y \in T : x <= y
<1> DEFINE R == OpToRel(<, Nat)
<1>1. PICK x \in T : \A y \in T : ~ (<<y, x>> \in R)
  BY WFMin, NatLessThanWellFounded, Zenon
<1>2. ASSUME NEW y \in T
      PROVE  x <= y
  <2>1. x \in Nat /\ y \in Nat
    OBVIOUS
  <2>2. y < x => <<y, x>> \in R
    BY <2>1 DEF OpToRel
  <2>3. ~(y < x)
    BY <1>1, <2>2, Zenon
  <2>. QED
    BY <2>1, <2>3, SMT
<1>. QED
  BY <1>2

\* Numbers that are in a set as soon as all smaller ones are
LEMMA Induction ==
  ASSUME NEW S, \A n \in Nat : (\A m \in Nat : m < n => m \in S) => n \in S
  PROVE  \A n \in Nat : n \in S
<1> DEFINE T == {n \in Nat : n \notin S}
<1>1. SUFFICES ASSUME T # {} PROVE FALSE
  OBVIOUS
<1>2. PICK x \in T : \A y \in T : x <= y
  BY <1>1, NatLeast
<1>3. \A m \in Nat : m < x => m \in S
  BY <1>2
<1>. QED
  BY <1>2, <1>3

\* A function on 1..n is a sequence of length n.
LEMMA FcnIsSeq ==
  ASSUME NEW S, NEW n \in Nat, NEW f \in [1..n -> S]
  PROVE  f \in Seq(S) /\ Len(f) = n
<1>1. f \in Seq(S)
  BY SeqDef
<1>. QED
  BY <1>1, LenProperties

\* A sequence is its first element before the others.
LEMMA HeadOf ==
  ASSUME NEW T, NEW L \in Seq(T), L # <<>>
  PROVE  /\ L[1] \in T /\ Tail(L) \in Seq(T) /\ L = <<L[1]>> \o Tail(L)
         /\ Len(Tail(L)) \in Nat /\ Len(L) = Len(Tail(L)) + 1
         /\ \A i \in 1..Len(Tail(L)) : i + 1 \in 1..Len(L) /\ Tail(L)[i] = L[i + 1]
<1>1. Len(L) \in Nat /\ Len(L) # 0 /\ 1 \in 1..Len(L) /\ Len(L) \in 1..Len(L)
  BY LenProperties, EmptySeq
<1>2. /\ Tail(L) \in Seq(T) /\ Len(Tail(L)) = Len(L) - 1
      /\ \A i \in 1..Len(Tail(L)) : Tail(L)[i] = L[i + 1]
  BY HeadTailProperties
<1>3. L = <<L[1]>> \o Tail(L)
  <2>1. SubSeq(L, 1, Len(L)) = <<L[1]>> \o SubSeq(L, 1 + 1, Len(L))
    BY <1>1, SubSeqRecursiveFirst
  <2>. QED
    BY <2>1, SubSeqFull, TailIsSubSeq
<1>4. Len(Tail(L)) \in Nat /\ Len(L) = Len(Tail(L)) + 1
  BY <1>1, <1>2
<1>5. \A i \in 1..Len(Tail(L)) : i + 1 \in 1..Len(L)
  BY <1>1, <1>4
<1>. QED
  BY <1>1, <1>2, <1>3, <1>4, <1>5, ElementOfSeq

\* Octets are numbers.
LEMMA ByteSeq ==
  ASSUME NEW s \in Seq(Byte)
  PROVE  /\ Len(s) \in Nat
         /\ \A i \in 1..Len(s) : s[i] \in Byte /\ s[i] \in 0..255 /\ s[i] \in Nat
<1>1. Len(s) \in Nat /\ \A i \in 1..Len(s) : s[i] \in Byte
  BY LenProperties
<1>2. \A b \in Byte : b \in 0..255 /\ b \in Nat
  BY DEF Byte
<1>. QED
  BY <1>1, <1>2

\* A part of octets
LEMMA SubBytes ==
  ASSUME NEW s \in Seq(Byte), NEW m \in Nat \ {0}, NEW n \in Nat, n <= Len(s)
  PROVE  /\ SubSeq(s, m, n) \in Seq(Byte)
         /\ Len(SubSeq(s, m, n)) = IF m <= n THEN n - m + 1 ELSE 0
         /\ \A i \in 1..n - m + 1 : SubSeq(s, m, n)[i] = s[m + i - 1]
<1>1. \A i \in m..n : s[i] \in Byte
  BY ByteSeq
<1>. QED
  BY <1>1, SubSeqProperties

\* Octets one behind the other
LEMMA JoinedBytes ==
  ASSUME NEW s \in Seq(Byte), NEW t \in Seq(Byte)
  PROVE  /\ s \o t \in Seq(Byte)
         /\ Len(s \o t) = Len(s) + Len(t)
         /\ \A i \in 1..Len(s) : (s \o t)[i] = s[i]
         /\ \A i \in 1..Len(t) : (s \o t)[Len(s) + i] = t[i]
<1>1. Len(s) \in Nat /\ Len(t) \in Nat
  BY LenProperties
<1>2. /\ s \o t \in Seq(Byte)
      /\ Len(s \o t) = Len(s) + Len(t)
      /\ \A i \in 1..Len(s) + Len(t) : (s \o t)[i] = IF i <= Len(s) THEN s[i] ELSE t[i - Len(s)]
  BY ConcatProperties
<1>3. ASSUME NEW i \in 1..Len(s) PROVE (s \o t)[i] = s[i]
  BY <1>1, <1>2
<1>4. ASSUME NEW i \in 1..Len(t) PROVE (s \o t)[Len(s) + i] = t[i]
  BY <1>1, <1>2
<1>. QED
  BY <1>2, <1>3, <1>4

\* ... can be parted again.
LEMMA Parts ==
  ASSUME NEW a \in Seq(Byte), NEW b \in Seq(Byte)
  PROVE  Take(a \o b, Len(a)) = a /\ Drop(a \o b, Len(a)) = b
<1>1. Len(a) \in Nat /\ Len(b) \in Nat
  BY LenProperties
<1>2. /\ a \o b \in Seq(Byte)
      /\ Len(a \o b) = Len(a) + Len(b)
      /\ \A i \in 1..Len(a) : (a \o b)[i] = a[i]
      /\ \A i \in 1..Len(b) : (a \o b)[Len(a) + i] = b[i]
  BY JoinedBytes
<1>3. PICK c : c = a \o b
  OBVIOUS
<1>4. /\ c \in Seq(Byte)
      /\ Len(c) = Len(a) + Len(b)
      /\ \A i \in 1..Len(a) : c[i] = a[i]
      /\ \A i \in 1..Len(b) : c[Len(a) + i] = b[i]
  BY <1>2, <1>3
<1>5. Take(c, Len(a)) = a
  <2>1. /\ SubSeq(c, 1, Len(a)) \in Seq(Byte)
        /\ Len(SubSeq(c, 1, Len(a))) = Len(a)
        /\ \A i \in 1..Len(a) - 1 + 1 : SubSeq(c, 1, Len(a))[i] = c[1 + i - 1]
    BY <1>1, <1>4, SubBytes
  <2>2. \A i \in 1..Len(a) : SubSeq(c, 1, Len(a))[i] = a[i]
    BY <1>1, <1>4, <2>1
  <2>. QED
    BY <2>1, <2>2, SeqEqual DEF Take
<1>6. Drop(c, Len(a)) = b
  <2>1. /\ SubSeq(c, Len(a) + 1, Len(c)) \in Seq(Byte)
        /\ Len(SubSeq(c, Len(a) + 1, Len(c))) = Len(b)
        /\ \A i \in 1..Len(c) - (Len(a) + 1) + 1 : SubSeq(c, Len(a) + 1, Len(c))[i] = c[Len(a) + 1 + i - 1]
    BY <1>1, <1>4, SubBytes
  <2>2. \A i \in 1..Len(b) : SubSeq(c, Len(a) + 1, Len(c))[i] = b[i]
    BY <1>1, <1>4, <2>1
  <2>. QED
    BY <2>1, <2>2, SeqEqual DEF Drop
<1>. QED
  BY <1>3, <1>5, <1>6

\* It does not matter which are joined first.
LEMMA Regroup ==
  ASSUME NEW a \in Seq(Byte), NEW b \in Seq(Byte), NEW c \in Seq(Byte)
  PROVE  (a \o b) \o c = a \o (b \o c)
BY SMTT(60), ConcatAssociative

\* Short sequences of octets: one,
LEMMA One ==
  ASSUME NEW x \in Byte
  PROVE  <<x>> \in Seq(Byte) /\ Len(<<x>>) = 1 /\ <<x>>[1] = x
OBVIOUS

\* two
LEMMA Two ==
  ASSUME NEW x \in Byte, NEW y \in Byte
  PROVE  <<x, y>> \in Seq(Byte) /\ Len(<<x, y>>) = 2 /\ <<x, y>>[1] = x /\ <<x, y>>[2] = y
OBVIOUS

\* and three.
LEMMA Three ==
  ASSUME NEW x \in Byte, NEW y \in Byte, NEW z \in Byte
  PROVE  /\ <<x, y, z>> \in Seq(Byte) /\ Len(<<x, y, z>>) = 3
         /\ <<x, y, z>>[1] = x /\ <<x, y, z>>[2] = y /\ <<x, y, z>>[3] = z
OBVIOUS

\* FlattenSeq is the last of the sums that it is defined by.
LEMMA FlattenUnfold ==
  ASSUME NEW S, NEW q \in Seq(Seq(S)), q # <<>>
  PROVE  \E f : /\ f = [i \in 1..Len(q) |-> IF i = 1 THEN q[i] ELSE f[i-1] \o q[i]]
                /\ FlattenSeq(q) = f[Len(q)]
<1>1. Len(q) \in Nat /\ Len(q) # 0
  BY LenProperties, EmptySeq
<1> DEFINE Sum(n, f) == f = [i \in 1..n |-> IF i = 1 THEN q[i] ELSE f[i-1] \o q[i]]
           T == {n \in Nat : \E f : Sum(n, f)}
<1>2. ASSUME NEW n \in Nat, \A m \in Nat : m < n => m \in T
      PROVE  n \in T
  <2>1. CASE n = 0
    <3> DEFINE f == [i \in 1..0 |-> q[i]]
    <3>1. Sum(0, f)
      OBVIOUS
    <3>. QED
      BY <3>1, <2>1
  <2>2. CASE n # 0
    <3>1. n - 1 \in T
      <4> HIDE DEF T
      <4>. QED
        BY <1>2, <2>2
    <3>2. PICK g : Sum(n - 1, g)
      BY <3>1
    <3> DEFINE h == [i \in 1..n |-> IF i < n THEN g[i] ELSE IF i = 1 THEN q[i] ELSE g[i-1] \o q[i]]
    <3>3. ASSUME NEW i \in 1..n
          PROVE  h[i] = IF i = 1 THEN q[i] ELSE h[i-1] \o q[i]
      <4>1. \A j \in 1..n - 1 : g[j] = IF j = 1 THEN q[j] ELSE g[j-1] \o q[j]
        BY <3>2
      <4>2. i # 1 => i - 1 \in 1..n /\ i - 1 < n
        BY <2>2
      <4>3. i # 1 => h[i-1] = g[i-1]
        BY <4>2
      <4>4. CASE i < n
        BY <4>1, <4>3, <4>4
      <4>5. CASE ~(i < n)
        BY <4>3, <4>5
      <4>. QED
        BY <4>4, <4>5
    <3>4. Sum(n, h)
      BY <3>3
    <3>. QED
      BY <3>4
  <2>. QED
    BY <2>1, <2>2
<1>3. \A n \in Nat : n \in T
  <2> HIDE DEF T
  <2>. QED
    BY <1>2, Induction
<1>4. \E f : Sum(Len(q), f)
  BY <1>1, <1>3
<1> DEFINE flatten == CHOOSE f : Sum(Len(q), f)
<1>5. Sum(Len(q), flatten)
  BY Zenon, <1>4
<1>6. FlattenSeq(q) = flatten[Len(q)]
  BY <1>1 DEF FlattenSeq
<1>. QED
  BY Zenon, <1>5, <1>6

\* It has the elements of its parts.
LEMMA FlattenTyped ==
  ASSUME NEW S, NEW q \in Seq(Seq(S))
  PROVE  FlattenSeq(q) \in Seq(S)
<1>1. CASE q = <<>>
  BY <1>1 DEF FlattenSeq
<1>2. CASE q # <<>>
  <2>1. Len(q) \in Nat /\ Len(q) # 0 /\ \A i \in 1..Len(q) : q[i] \in Seq(S)
    BY <1>2, LenProperties, EmptySeq, ElementOfSeq
  <2>2. PICK f : /\ f = [i \in 1..Len(q) |-> IF i = 1 THEN q[i] ELSE f[i-1] \o q[i]]
                 /\ FlattenSeq(q) = f[Len(q)]
    BY <1>2, FlattenUnfold
  <2> DEFINE T == {n \in Nat : n \in 1..Len(q) => f[n] \in Seq(S)}
  <2>3. ASSUME NEW n \in Nat, \A m \in Nat : m < n => m \in T
        PROVE  n \in T
    <3> SUFFICES ASSUME n \in 1..Len(q) PROVE f[n] \in Seq(S)
      OBVIOUS
    <3>1. f[n] = IF n = 1 THEN q[n] ELSE f[n-1] \o q[n]
      BY <2>2
    <3>2. CASE n = 1
      BY <2>1, <3>1, <3>2
    <3>3. CASE n # 1
      <4>1. f[n-1] \in Seq(S) /\ q[n] \in Seq(S)
        BY <2>1, <2>3, <3>3
      <4>. QED
        BY <3>1, <3>3, <4>1, ConcatProperties
    <3>. QED
      BY <3>2, <3>3
  <2>4. \A n \in Nat : n \in T
    <3> HIDE DEF T
    <3>. QED
      BY <2>3, Induction
  <2>5. f[Len(q)] \in Seq(S)
    BY <2>1, <2>4
  <2>. QED
    BY <2>2, <2>5
<1>. QED
  BY <1>1, <1>2

\* Concatenation that is associative
Associates(S) == \A s, t, u \in Seq(S) : (s \o t) \o u = s \o (t \o u)

\* ... as it is for every kind of elements
LEMMA Associative ==
  ASSUME NEW S
  PROVE  Associates(S)
BY SMTT(60), ConcatAssociative DEF Associates

\* r is q with one element more in front of it.
Behind(r, q) == Len(r) = Len(q) + 1 /\ \A i \in 1..Len(q) : r[i + 1] = q[i]

\* One part more in front is one part more in front of what FlattenSeq returns.
LEMMA FlattenHead ==
  ASSUME NEW S, NEW q \in Seq(Seq(S)), NEW r \in Seq(Seq(S)), Behind(r, q)
  PROVE  FlattenSeq(r) = r[1] \o FlattenSeq(q)
<1>1. Len(q) \in Nat /\ \A i \in 1..Len(q) : q[i] \in Seq(S)
  BY LenProperties, ElementOfSeq
<1>2. Len(r) = Len(q) + 1
  BY DEF Behind
<1>3. PICK x \in Seq(S) : x = r[1]
  BY <1>1, <1>2, ElementOfSeq, 1 \in 1..Len(r)
<1>4. r # <<>>
  BY <1>1, <1>2, EmptySeq
<1>5. PICK g : /\ g = [i \in 1..Len(r) |-> IF i = 1 THEN r[i] ELSE g[i-1] \o r[i]]
               /\ FlattenSeq(r) = g[Len(r)]
  BY <1>4, FlattenUnfold
<1>6. CASE q = <<>>
  <2>1. Len(q) = 0 /\ FlattenSeq(q) = <<>>
    BY <1>6 DEF FlattenSeq
  <2>2. FlattenSeq(r) = x
    BY SMTT(60), <1>3, <1>5, <1>2, <2>1
  <2>. QED
    BY <1>3, <2>1, <2>2, ConcatEmptySeq
<1>7. CASE q # <<>>
  <2>1. Len(q) # 0
    BY <1>7, EmptySeq
  <2>2. PICK f : /\ f = [i \in 1..Len(q) |-> IF i = 1 THEN q[i] ELSE f[i-1] \o q[i]]
                 /\ FlattenSeq(q) = f[Len(q)]
    BY <1>7, FlattenUnfold
  <2> DEFINE T == {n \in Nat : n \in 1..Len(q) => f[n] \in Seq(S) /\ g[n + 1] = x \o f[n]}
  <2>3. ASSUME NEW n \in Nat, \A m \in Nat : m < n => m \in T
        PROVE  n \in T
    <3> SUFFICES ASSUME n \in 1..Len(q) PROVE f[n] \in Seq(S) /\ g[n + 1] = x \o f[n]
      OBVIOUS
    <3>1. f[n] = IF n = 1 THEN q[n] ELSE f[n-1] \o q[n]
      BY <2>2
    <3>2. g[n + 1] = g[n] \o q[n] /\ g[1] = x
      <4>1. 1 \in 1..Len(r) /\ n + 1 \in 1..Len(r) /\ n + 1 # 1 /\ (n + 1) - 1 = n
        BY SMTT(60), <1>1, <1>2
      <4>2. r[n + 1] = q[n]
        BY DEF Behind
      <4>. QED
        BY <1>3, <1>5, <4>1, <4>2
    <3>3. CASE n = 1
      BY <1>1, <3>1, <3>2, <3>3
    <3>4. CASE n # 1
      <4>1. n - 1 \in Nat /\ n - 1 < n /\ n - 1 \in 1..Len(q) /\ (n - 1) + 1 = n
        BY <3>4
      <4>2. n - 1 \in T
        BY <2>3, <4>1
      <4>3. f[n-1] \in Seq(S) /\ g[n] = x \o f[n-1]
        BY <4>1, <4>2
      <4>4. q[n] \in Seq(S)
        BY <1>1
      <4>5. (x \o f[n-1]) \o q[n] = x \o (f[n-1] \o q[n])
        <5>1. Associates(S)
          BY Associative
        <5>. QED
          BY <4>3, <4>4, <5>1 DEF Associates
      <4>6. f[n-1] \o q[n] \in Seq(S)
        BY Zenon, <4>3, <4>4, ConcatProperties
      <4>. QED
        BY <3>1, <3>2, <3>4, <4>3, <4>5, <4>6
    <3>. QED
      BY <3>3, <3>4
  <2>4. \A n \in Nat : n \in T
    <3> HIDE DEF T
    <3>. QED
      BY <2>3, Induction
  <2>5. g[Len(q) + 1] = x \o f[Len(q)]
    BY <1>1, <2>1, <2>4
  <2>. QED
    BY <1>3, <1>5, <1>2, <2>2, <2>5
<1>. QED
  BY <1>6, <1>7

-----------------------------------------------------------------------------
(* The length field.                                                       *)

\* The high octet of a length and the low one
LEMMA HighLow ==
  ASSUME NEW n \in Nat
  PROVE  n = 256 * (n \div 256) + (n % 256)
BY SMT

\* The low octet is one,
LEMMA LowOctet ==
  ASSUME NEW n \in Nat
  PROVE  n % 256 \in Byte
BY SMT DEF Byte

\* and so is the high one below 2^16.
LEMMA HighOctet ==
  ASSUME NEW n \in Nat, n < 65536
  PROVE  n \div 256 \in Byte
<1>1. n = 256 * (n \div 256) + (n % 256) /\ n \div 256 \in Nat
  BY SMT, HighLow
<1>. QED
  BY SMT, <1>1, LowOctet DEF Byte

\* A number of a range from zero is a natural number within its bound,
LEMMA UpTo ==
  ASSUME NEW k \in Nat, NEW n \in 0..k
  PROVE  n \in Nat /\ n <= k
BY SMT

\* and the numbers of sixteen bits are such a range.
LEMMA U16Range == \E k \in Nat : U16 = 0..k /\ k < 65536
<1>1. PICK k \in Nat : k = 256 * 256 - 1
  OBVIOUS
<1>2. U16 = 0..k
  BY SMT, <1>1 DEF U16
<1>3. k < 65536
  BY <1>1
<1>. QED
  BY <1>2, <1>3

\* So the high octet of one is an octet.
LEMMA Words ==
  ASSUME NEW n \in U16
  PROVE  n \in Nat /\ n \div 256 \in Byte
<1>1. PICK k \in Nat : U16 = 0..k /\ k < 65536
  BY U16Range
<1>2. n \in 0..k
  BY <1>1
<1>3. n \in Nat /\ n <= k
  BY <1>2, UpTo
<1>4. n < 65536
  BY <1>1, <1>3
<1>. QED
  BY <1>3, <1>4, HighOctet

\* The first octet of a field says how long it is.
LEMMA FieldOf ==
  ASSUME NEW n \in Nat
  PROVE  /\ n > 255 => EncodeLength(n) = <<130, n \div 256, n % 256>>
         /\ n > 127 /\ n <= 255 => EncodeLength(n) = <<129, n>>
         /\ n <= 127 => EncodeLength(n) = <<n>>
BY DEF EncodeLength

\* A field stays in front of what follows it.
LEMMA InFront ==
  ASSUME NEW s \in Seq(Byte), NEW t \in Seq(Byte)
  PROVE  /\ Len(s \o t) >= Len(s)
         /\ \A i \in 1..Len(s) : (s \o t)[i] = s[i]
BY ConcatProperties

\* What serialize writes for a length (tlv.rs:50, length.rs:31-37) the parser
\* `length` reads again, to the last octet of the field and no further, whatever the
\* value that follows, for every length that is not cut to sixteen bits and at each of
\* the borders between the forms.
THEOREM EveryLengthIsRead ==
  ASSUME NEW n \in Nat, n < 65536, NEW value \in Seq(Byte)
  PROVE  /\ EncodeLength(n) \in Seq(Byte)
         /\ ParseLength(EncodeLength(n) \o value)
                = [octets |-> Len(EncodeLength(n)), value |-> n]
<1> DEFINE field == EncodeLength(n)
           in == field \o value
<1>1. CASE n > 255
  <2>1. field = <<130, n \div 256, n % 256>>
    BY <1>1, FieldOf
  <2>2. field \in Seq(Byte) /\ Len(field) = 3
    BY <1>1, <2>1, HighLow DEF Byte
  <2>3. Len(in) >= 3 /\ in[1] = 130 /\ in[2] = n \div 256 /\ in[3] = n % 256
    BY <2>1, <2>2, InFront
  <2>. QED
    BY <2>1, <2>2, <2>3, HighLow DEF ParseLength
<1>2. CASE n > 127 /\ n <= 255
  <2>1. field = <<129, n>>
    BY <1>2, FieldOf
  <2>2. field \in Seq(Byte) /\ Len(field) = 2
    BY <1>2, <2>1 DEF Byte
  <2>3. Len(in) >= 2 /\ in[1] = 129 /\ in[2] = n
    BY <2>1, <2>2, InFront
  <2>. QED
    BY <1>2, <2>1, <2>2, <2>3 DEF ParseLength
<1>3. CASE n <= 127
  <2>1. field = <<n>>
    BY <1>3, FieldOf
  <2>2. field \in Seq(Byte) /\ Len(field) = 1
    BY <1>3, <2>1 DEF Byte
  <2>3. Len(in) >= 1 /\ in[1] = n
    BY <2>1, <2>2, InFront
  <2>. QED
    BY <1>3, <2>1, <2>2, <2>3 DEF ParseLength
<1>. QED
  BY <1>1, <1>2, <1>3

\* A length that is not cut to sixteen bits
Short(n) == n \in Nat /\ n < 65536

\* ... is read from its field.
LEMMA FieldRead ==
  ASSUME NEW n, Short(n), NEW value \in Seq(Byte)
  PROVE  /\ EncodeLength(n) \in Seq(Byte)
         /\ ParseLength(EncodeLength(n) \o value) = [octets |-> Len(EncodeLength(n)), value |-> n]
         /\ Len(EncodeLength(n)) \in Nat /\ Len(EncodeLength(n)) # 0
<1>1. n \in Nat /\ n < 65536
  BY SMT DEF Short
<1>2. Len(EncodeLength(n)) \in Nat /\ Len(EncodeLength(n)) # 0
  BY SMT DEF EncodeLength
<1>. QED
  BY SMT, <1>1, <1>2, EveryLengthIsRead

\* A number of sixteen bits is such a length, and is left as it is by a cast to them.
LEMMA ShortWord ==
  ASSUME NEW n \in U16
  PROVE  n \in Nat /\ Short(n) /\ n % 65536 = n
<1>1. PICK k \in Nat : U16 = 0..k /\ k < 65536
  BY U16Range
<1>2. n \in Nat /\ n <= k
  BY <1>1, UpTo
<1>3. n < 65536
  BY <1>1, <1>2
<1>4. n % 65536 = n
  BY SMT, <1>2, <1>3
<1>. QED
  BY <1>2, <1>3, <1>4 DEF Short

-----------------------------------------------------------------------------
(* The head of a TLV.                                                      *)

\* Min is the least element.
LEMMA LeastOf ==
  ASSUME NEW T, T \subseteq Nat, T # {}
  PROVE  Min(T) \in T /\ \A y \in T : Min(T) <= y
BY NatLeast DEF Min

\* A tag is not longer than the input.
LEMMA TagOctetsType ==
  ASSUME NEW in \in Seq(Byte)
  PROVE  TagOctets(in) \in 0..Len(in)
<1> DEFINE last == {i \in 2..Len(in) : in[i] < 128}
<1>1. Len(in) \in Nat /\ (in # <<>> => Len(in) # 0)
  BY LenProperties, EmptySeq
<1>2. last # {} => Min(last) \in 1..Len(in)
  <2>1. last \subseteq Nat /\ last \subseteq 1..Len(in)
    BY <1>1
  <2> HIDE DEF last
  <2>. QED
    BY <2>1, LeastOf
<1>. QED
  BY <1>1, <1>2 DEF TagOctets

\* Nor is a length less than 0.
LEMMA LengthType ==
  ASSUME NEW in \in Seq(Byte)
  PROVE  ParseLength(in).octets \in Nat /\ ParseLength(in).value \in Nat
<1>1. \A i \in 1..Len(in) : in[i] \in Nat
  BY ByteSeq
<1>2. Len(in) \in Nat
  BY LenProperties
<1>. QED
  BY <1>1, <1>2 DEF ParseLength

\* What is cut off the input is shorter than the input: the parsers come to an end.
LEMMA SplitShorter ==
  ASSUME NEW in \in Seq(Byte), NEW part \in Split(in)
  PROVE  /\ part.octets \in Seq(Byte) /\ Len(part.octets) < Len(in)
         /\ part.rest \in Seq(Byte) /\ Len(part.rest) < Len(in)
<1> DEFINE tag    == Take(in, TagOctets(in))
           after  == Drop(in, Len(tag))
           length == ParseLength(after)
           head   == Len(tag) + length.octets
           end    == head + length.value
<1>1. Split(in) = IF tag = <<>> \/ length.octets = 0 \/ end > Len(in) THEN {}
                   ELSE {[tag |-> tag, octets |-> SubSeq(in, head + 1, end), rest |-> Drop(in, end)]}
  BY Zenon DEF Split
<1> HIDE DEF tag, after, length, head, end
<1>2. /\ tag # <<>> /\ length.octets # 0 /\ ~(end > Len(in))
      /\ part = [tag |-> tag, octets |-> SubSeq(in, head + 1, end), rest |-> Drop(in, end)]
  BY <1>1
<1> USE DEF tag, after, length, head, end
<1>3. Len(in) \in Nat
  BY LenProperties
<1>4. tag \in Seq(Byte) /\ Len(tag) \in Nat
  <2>1. TagOctets(in) \in Nat /\ TagOctets(in) <= Len(in)
    BY <1>3, TagOctetsType
  <2>. QED
    BY <2>1, SubBytes, LenProperties DEF Take
<1>5. Len(tag) # 0
  BY <1>2, <1>4, EmptySeq
<1> HIDE DEF tag
<1>6. after \in Seq(Byte)
  BY <1>3, <1>4, SubBytes DEF Drop
<1>7. length.octets \in Nat /\ length.value \in Nat
  BY <1>6, LengthType
<1> HIDE DEF after, length
<1>8. head \in Nat /\ head > 0 /\ end \in Nat /\ end <= Len(in) /\ head <= end /\ end - head < Len(in)
  <2>1. head \in Nat /\ head > 0
    BY <1>4, <1>5, <1>7
  <2>2. end = head + length.value
    OBVIOUS
  <2> HIDE DEF head, end
  <2>. QED
    BY SMTT(60), <2>1, <2>2, <1>2, <1>3, <1>7
<1> HIDE DEF head, end
<1>9. /\ SubSeq(in, head + 1, end) \in Seq(Byte)
      /\ Len(SubSeq(in, head + 1, end)) = IF head + 1 <= end THEN end - (head + 1) + 1 ELSE 0
  BY <1>8, SubBytes
<1>10. /\ SubSeq(in, end + 1, Len(in)) \in Seq(Byte)
      /\ Len(SubSeq(in, end + 1, Len(in))) = IF end + 1 <= Len(in) THEN Len(in) - (end + 1) + 1 ELSE 0
  BY <1>3, <1>8, SubBytes
<1>11. Len(part.octets) < Len(in) /\ part.octets \in Seq(Byte)
  BY <1>2, <1>3, <1>8, <1>9
<1>12. Len(part.rest) < Len(in) /\ part.rest \in Seq(Byte)
  BY <1>2, <1>3, <1>8, <1>10 DEF Drop
<1>. QED
  BY <1>11, <1>12

\* A whole tag is found at the head of whatever follows it.
LEMMA TagStays ==
  ASSUME NEW tag \in Seq(Byte), tag # <<>>, TagOctets(tag) = Len(tag), NEW after \in Seq(Byte)
  PROVE  TagOctets(tag \o after) = Len(tag)
<1> DEFINE in == tag \o after
           last(s) == {i \in 2..Len(s) : s[i] < 128}
<1>1. Len(tag) \in Nat /\ Len(after) \in Nat /\ Len(tag) # 0
  BY LenProperties, EmptySeq
<1>2. in \in Seq(Byte) /\ Len(in) = Len(tag) + Len(after) /\ \A i \in 1..Len(tag) : in[i] = tag[i]
  BY JoinedBytes
<1>3. in # <<>> /\ in[1] = tag[1]
  BY <1>1, <1>2, EmptySeq
<1>4. CASE tag[1] % 32 # 31
  BY <1>3, <1>4 DEF TagOctets
<1>5. CASE tag[1] % 32 = 31
  <2>1. /\ Len(tag) >= 2 /\ tag[2] % 128 # 0 /\ last(tag) # {}
        /\ Len(tag) = Min(last(tag))
    BY <1>1, <1>5 DEF TagOctets
  <2>2. in[2] = tag[2] /\ Len(in) >= 2
    BY <1>1, <1>2, <2>1
  <2> HIDE DEF in
  <2>3. last(tag) \subseteq Nat /\ last(in) \subseteq Nat
    BY <1>1, <1>2
  <2>4. Len(tag) \in last(tag) /\ \A y \in last(tag) : Len(tag) <= y
    <3> HIDE DEF last
    <3>. QED
      BY <2>1, <2>3, LeastOf
  <2>5. Len(tag) \in last(in)
    BY <1>1, <1>2, <2>4
  <2>6. \A y \in last(in) : Len(tag) <= y
    BY SMTT(60), <1>1, <1>2, <2>4
  <2>7. Min(last(in)) = Len(tag)
    <3>1. Min(last(in)) \in last(in) /\ \A y \in last(in) : Min(last(in)) <= y
      <4> HIDE DEF last
      <4>. QED
        BY <2>3, <2>5, LeastOf
    <3>2. Min(last(in)) \in Nat
      BY <2>3, <3>1
    <3>. QED
      BY <1>1, <2>5, <2>6, <3>1, <3>2
  <2>8. TagOctets(in) = IF in = <<>> THEN 0
                         ELSE IF in[1] % 32 # 31 THEN 1
                         ELSE IF Len(in) >= 2 /\ in[2] % 128 # 0 /\ last(in) # {}
                         THEN Min(last(in)) ELSE 0
    BY Zenon DEF TagOctets
  <2> HIDE DEF last
  <2>9. TagOctets(in) = Len(tag)
    BY <1>3, <1>5, <2>1, <2>2, <2>5, <2>7, <2>8
  <2>. QED
    BY <2>9 DEF in
<1>. QED
  BY <1>4, <1>5

\* The head of the input has a tag and a length field of n octets, which says k.
Cut(in, tag, n, k) ==
    IF tag = <<>> \/ n = 0 \/ (Len(tag) + n) + k > Len(in) THEN {}
    ELSE {[tag |-> tag, octets |-> SubSeq(in, (Len(tag) + n) + 1, (Len(tag) + n) + k),
           rest |-> Drop(in, (Len(tag) + n) + k)]}

\* Split cuts where the tag and the length say.
LEMMA SplitCuts ==
  ASSUME NEW in, NEW tag, Take(in, TagOctets(in)) = tag,
         NEW length, ParseLength(Drop(in, Len(tag))) = length
  PROVE  Split(in) = Cut(in, tag, length.octets, length.value)
BY Zenon DEF Split, Cut

\* A tag all of which is there
WholeTag(tag) == tag \in Seq(Byte) /\ tag # <<>> /\ TagOctets(tag) = Len(tag)

\* Split takes apart what was put together.
LEMMA SplitWhole ==
  ASSUME NEW tag, WholeTag(tag), NEW v \in Seq(Byte), Short(Len(v)), NEW rest \in Seq(Byte)
  PROVE  Split(((tag \o EncodeLength(Len(v))) \o v) \o rest) = {[tag |-> tag, octets |-> v, rest |-> rest]}
<1>1. tag \in Seq(Byte) /\ tag # <<>> /\ TagOctets(tag) = Len(tag)
  BY DEF WholeTag
<1>2. PICK f : f = EncodeLength(Len(v))
  OBVIOUS
<1>3. f \in Seq(Byte) /\ Len(f) \in Nat /\ Len(f) # 0
  BY <1>2, FieldRead
<1> DEFINE b == v \o rest
           h == tag \o f
<1>4. /\ b \in Seq(Byte) /\ Len(b) = Len(v) + Len(rest)
      /\ \A i \in 1..Len(v) : b[i] = v[i]
  BY JoinedBytes
<1>5. h \in Seq(Byte) /\ Len(h) = Len(tag) + Len(f)
  BY <1>1, <1>3, JoinedBytes
<1>6. Len(tag) \in Nat /\ Len(v) \in Nat /\ Len(rest) \in Nat
  BY <1>1, ByteSeq
<1>7. h \o v \in Seq(Byte) /\ Len(h \o v) = Len(h) + Len(v)
  BY <1>5, JoinedBytes
<1>8. (h \o v) \o rest = h \o b
  BY <1>5, Regroup
<1> HIDE DEF b
<1>9. h \o b = tag \o (f \o b) /\ f \o b \in Seq(Byte)
  <2>1. (tag \o f) \o b = tag \o (f \o b)
    BY ZenonT(60), <1>1, <1>3, <1>4, Regroup
  <2>2. f \o b \in Seq(Byte)
    BY Zenon, <1>3, <1>4, JoinedBytes
  <2>. QED
    BY <2>1, <2>2
<1> HIDE DEF h
<1>10. PICK in : in = h \o b
  OBVIOUS
<1>11. TagOctets(in) = Len(tag) /\ Take(in, Len(tag)) = tag /\ Drop(in, Len(tag)) = f \o b
  BY <1>1, <1>9, <1>10, TagStays, Parts
<1>12. ParseLength(f \o b) = [octets |-> Len(f), value |-> Len(v)]
  BY <1>2, <1>4, FieldRead
<1>13. /\ in \in Seq(Byte) /\ Len(in) = Len(h) + Len(b)
       /\ \A i \in 1..Len(b) : in[Len(h) + i] = b[i]
  BY <1>4, <1>5, <1>10, JoinedBytes
<1>14. Drop(in, Len(h) + Len(v)) = rest
  <2>1. Drop((h \o v) \o rest, Len(h \o v)) = rest
    BY <1>7, Parts
  <2>. QED
    BY <1>7, <1>8, <1>10, <2>1
<1>15. SubSeq(in, Len(h) + 1, Len(h) + Len(v)) = v
  <2>1. PICK n \in Nat : n = Len(h)
    BY <1>3, <1>5, <1>6
  <2>2. PICK m \in Nat : m = Len(v)
    BY <1>6
  <2>3. n + 1 \in Nat \ {0} /\ n + m \in Nat /\ n + m <= Len(in)
    BY <1>4, <1>6, <1>13, <2>1, <2>2
  <2>4. /\ SubSeq(in, n + 1, n + m) \in Seq(Byte)
        /\ Len(SubSeq(in, n + 1, n + m)) = IF n + 1 <= n + m THEN (n + m) - (n + 1) + 1 ELSE 0
        /\ \A i \in 1..(n + m) - (n + 1) + 1 : SubSeq(in, n + 1, n + m)[i] = in[n + 1 + i - 1]
    BY <1>13, <2>3, SubBytes
  <2>5. ASSUME NEW i \in 1..m
        PROVE  SubSeq(in, n + 1, n + m)[i] = v[i]
    <3>1. n + 1 + i - 1 = n + i /\ i \in 1..(n + m) - (n + 1) + 1 /\ i \in 1..Len(b) /\ i \in 1..Len(v)
      BY <1>4, <1>6, <2>2
    <3>2. in[n + i] = b[i] /\ b[i] = v[i]
      BY <1>4, <1>13, <2>1, <3>1
    <3>. QED
      BY <2>4, <3>1, <3>2
  <2>6. Len(SubSeq(in, n + 1, n + m)) = m
    BY <2>4
  <2>7. SubSeq(in, n + 1, n + m) = v
    BY <2>2, <2>4, <2>5, <2>6, SeqEqual
  <2>. QED
    BY <2>1, <2>2, <2>7
<1>16. Split(in) = Cut(in, tag, Len(f), Len(v))
  <2>1. PICK l : l = ParseLength(Drop(in, Len(tag)))
    OBVIOUS
  <2>2. l.octets = Len(f) /\ l.value = Len(v)
    BY <1>11, <1>12, <2>1
  <2>3. Take(in, TagOctets(in)) = tag
    BY <1>11
  <2>4. Split(in) = Cut(in, tag, l.octets, l.value)
    BY Zenon, <2>1, <2>3, SplitCuts
  <2>. QED
    BY <2>2, <2>4
<1>17. tag # <<>> /\ Len(f) # 0 /\ ~((Len(tag) + Len(f)) + Len(v) > Len(in))
  <2>1. Len(in) = (Len(tag) + Len(f)) + (Len(v) + Len(rest))
    BY <1>4, <1>5, <1>13
  <2>. QED
    BY <1>1, <1>3, <1>6, <2>1
<1>18. Split(in) = {[tag |-> tag, octets |-> v, rest |-> rest]}
  BY Zenon, <1>5, <1>14, <1>15, <1>16, <1>17 DEF Cut
<1>. QED
  BY <1>2, <1>8, <1>10, <1>18 DEF h

-----------------------------------------------------------------------------
(* ListsOf of TLVs.                                                          *)

\* All lists with one of T as head and one of O as tail
ListsOf(T, O) == {<<t>> \o others : t \in T, others \in O}

\* Value::parse of a constructed value, with g for the recursive calls
ListBody(in, g) ==
    IF in = <<>> THEN {<<>>}
    ELSE UNION {ListsOf(TlvOf(part, g), g[part.rest]) : part \in Split(in)}

\* The recursive calls are for shorter inputs only,
LEMMA SameList ==
  ASSUME NEW in \in Seq(Byte), NEW g, NEW h,
         \A s \in Seq(Byte) : Len(s) < Len(in) => g[s] = h[s]
  PROVE  ListBody(in, g) = ListBody(in, h)
<1>1. ASSUME NEW part \in Split(in)
      PROVE  g[part.octets] = h[part.octets] /\ g[part.rest] = h[part.rest]
  BY SplitShorter
<1>2. ASSUME NEW part \in Split(in)
      PROVE  TlvOf(part, g) = TlvOf(part, h)
  BY <1>1 DEF TlvOf
<1>3. ASSUME NEW part \in Split(in)
      PROVE  ListsOf(TlvOf(part, g), g[part.rest]) = ListsOf(TlvOf(part, h), h[part.rest])
  BY Zenon, <1>1, <1>2
<1>4. UNION {ListsOf(TlvOf(part, g), g[part.rest]) : part \in Split(in)}
        = UNION {ListsOf(TlvOf(part, h), h[part.rest]) : part \in Split(in)}
  BY <1>3
<1>. QED
  BY <1>4 DEF ListBody

\* so that ParseList is what its definition says it is.
LEMMA ParseListUnfold ==
  ASSUME NEW in \in Seq(Byte)
  PROVE  ParseList[in] = ListBody(in, ParseList)
<1> DEFINE Upto(n) == {s \in Seq(Byte) : Len(s) <= n}
           IsListing(n, g) == g = [s \in Upto(n) |-> ListBody(s, g)]
<1>1. \A s \in Seq(Byte) : Len(s) \in Nat
  BY LenProperties
<1>2. ASSUME NEW n \in Nat, NEW m \in Nat, NEW g, NEW h, IsListing(n, g), IsListing(m, h), n <= m
      PROVE  \A s \in Upto(n) : g[s] = h[s]
  <2> DEFINE T == {k \in Nat : \A s \in Upto(n) : Len(s) = k => g[s] = h[s]}
  <2>1. ASSUME NEW k \in Nat, \A j \in Nat : j < k => j \in T
        PROVE  k \in T
    <3> SUFFICES ASSUME NEW s \in Upto(n), Len(s) = k
                 PROVE  g[s] = h[s]
      OBVIOUS
    <3>1. \A r \in Seq(Byte) : Len(r) < Len(s) => g[r] = h[r]
      BY <1>1, <2>1
    <3>2. ListBody(s, g) = ListBody(s, h)
      BY <3>1, SameList
    <3>3. s \in Upto(m)
      BY <1>1, <1>2
    <3>4. g[s] = ListBody(s, g) /\ h[s] = ListBody(s, h)
      BY <1>2, <3>3
    <3>. QED
      BY <3>2, <3>4
  <2>2. \A k \in Nat : k \in T
    <3> HIDE DEF T
    <3>. QED
      BY <2>1, Induction
  <2>. QED
    BY <1>1, <2>2
<1>3. \A n \in Nat : \E g : IsListing(n, g)
  <2> DEFINE T == {n \in Nat : \E g : IsListing(n, g)}
  <2>1. ASSUME NEW n \in Nat, \A m \in Nat : m < n => m \in T
        PROVE  n \in T
    <3>1. CASE n = 0
      <4> DEFINE g == [s \in Upto(0) |-> ListBody(s, [r \in {} |-> {}])]
      <4>1. ASSUME NEW s \in Upto(0)
            PROVE  g[s] = ListBody(s, g)
        BY <1>1, SameList
      <4>2. IsListing(0, g)
        BY <4>1
      <4>. QED
        BY <3>1, <4>2
    <3>2. CASE n # 0
      <4>1. n - 1 \in Nat /\ n - 1 < n /\ \A s \in Seq(Byte) : Len(s) < n <=> Len(s) <= n - 1
        BY <1>1, <3>2
      <4>2. n - 1 \in T
        BY <2>1, <4>1
      <4>3. PICK g : IsListing(n - 1, g)
        BY <4>2
      <4> DEFINE h == [s \in Upto(n) |-> ListBody(s, g)]
      <4>4. ASSUME NEW s \in Upto(n)
            PROVE  h[s] = ListBody(s, h)
        <5>1. ASSUME NEW r \in Seq(Byte), Len(r) < Len(s)
              PROVE  g[r] = h[r]
          <6>1. r \in Upto(n) /\ r \in Upto(n - 1)
            BY <1>1, <4>1, <5>1
          <6>2. g[r] = ListBody(r, g)
            BY <4>3, <6>1
          <6>. QED
            BY <6>1, <6>2
        <5>2. ListBody(s, g) = ListBody(s, h)
          BY <5>1, SameList
        <5>. QED
          BY <5>2
      <4>5. IsListing(n, h)
        BY <4>4
      <4>. QED
        BY <4>5
    <3>. QED
      BY <3>1, <3>2
  <2>2. \A n \in Nat : n \in T
    <3> HIDE DEF T
    <3>. QED
      BY <2>1, Induction
  <2>. QED
    BY <2>2
<1> DEFINE Of(n) == CHOOSE g : IsListing(n, g)
           all == [s \in Seq(Byte) |-> Of(Len(s))[s]]
<1>4. ASSUME NEW n \in Nat
      PROVE  IsListing(n, Of(n))
  BY <1>3
<1>5. ASSUME NEW s \in Seq(Byte)
      PROVE  all[s] = ListBody(s, all)
  <2>1. IsListing(Len(s), Of(Len(s)))
    BY <1>1, <1>4
  <2>2. ASSUME NEW r \in Seq(Byte), Len(r) < Len(s)
        PROVE  Of(Len(s))[r] = all[r]
    <3>1. IsListing(Len(r), Of(Len(r)))
      BY <1>1, <1>4
    <3> HIDE DEF IsListing, Of
    <3>2. r \in Upto(Len(r)) /\ Len(r) <= Len(s) /\ Len(r) \in Nat /\ Len(s) \in Nat
      BY <1>1, <2>2
    <3>3. \A q \in Upto(Len(r)) : Of(Len(r))[q] = Of(Len(s))[q]
      BY <1>2, <2>1, <3>1, <3>2
    <3>. QED
      BY <3>2, <3>3
  <2>3. ListBody(s, Of(Len(s))) = ListBody(s, all)
    BY <2>2, SameList
  <2>4. s \in Upto(Len(s))
    BY <1>1
  <2>. QED
    BY <2>1, <2>3, <2>4
<1> DEFINE IsAll(g) == g = [s \in Seq(Byte) |-> ListBody(s, g)]
<1>6. IsAll(all)
  BY <1>5
<1>7. ParseList = CHOOSE g : IsAll(g)
  BY DEF ParseList, ListBody, ListsOf
<1>8. IsAll(ParseList)
  <2> HIDE DEF all
  <2>. QED
    BY Zenon, <1>6, <1>7
<1>. QED
  BY <1>8

\* What a TLV has that can be sent
Sendable(t) == WholeTag(t.tag) /\ t.octets \in Seq(Byte) /\ Short(Len(t.octets))

\* ... as those of AreTlvs have it
LEMMA SentOf ==
  ASSUME NEW T, AreTlvs(T), NEW t \in T
  PROVE  /\ Sendable(t) /\ t.inner \in Seq(T)
         /\ t = IF IsConstructed(t.tag) THEN ConstructedTlv(t.tag, t.inner)
                ELSE SimpleTlv(t.tag, t.octets)
<1>1. t.octets \in Seq(Byte) /\ Len(t.octets) < 65536
  BY SMT DEF AreTlvs
<1>2. Short(Len(t.octets))
  <2>1. Len(t.octets) \in Nat
    BY SMT, <1>1, ByteSeq
  <2>. QED
    BY SMT, <1>1, <2>1 DEF Short
<1>. QED
  BY SMT, <1>1, <1>2 DEF AreTlvs, Sendable, WholeTag

\* What `as u16` leaves of a length
U16Of(n) == n % 65536

\* ... which is all of a short one
LEMMA ShortUncut ==
  ASSUME NEW n, Short(n)
  PROVE  U16Of(n) = n
BY SMT DEF Short, U16Of

\* A TLV is written as its tag, its length and its value.
LEMMA SerializeSent ==
  ASSUME NEW t, Sendable(t)
  PROVE  /\ SerializeTlv(t) = (t.tag \o EncodeLength(Len(t.octets))) \o t.octets
         /\ SerializeTlv(t) \in Seq(Byte)
         /\ Len(SerializeTlv(t)) > Len(t.octets)
<1>1. U16Of(Len(t.octets)) = Len(t.octets)
  BY ShortUncut DEF Sendable
<1>2. SerializeTlv(t) = (t.tag \o EncodeLength(Len(t.octets))) \o t.octets
  <2>1. SerializeTlv(t) = (t.tag \o EncodeLength(U16Of(Len(t.octets)))) \o t.octets
    BY DEF SerializeTlv, U16Of
  <2>. QED
    BY <1>1, <2>1
<1>3. PICK f \in Seq(Byte) : f = EncodeLength(Len(t.octets)) /\ Len(f) \in Nat /\ Len(f) # 0
  BY FieldRead, EmptySeq DEF Sendable
<1>4. t.tag \in Seq(Byte) /\ t.octets \in Seq(Byte)
  BY DEF Sendable, WholeTag
<1>5. t.tag \o f \in Seq(Byte) /\ Len(t.tag \o f) = Len(t.tag) + Len(f)
  BY <1>4, JoinedBytes
<1>6. (t.tag \o f) \o t.octets \in Seq(Byte) /\ Len((t.tag \o f) \o t.octets) = Len(t.tag \o f) + Len(t.octets)
  BY <1>4, <1>5, JoinedBytes
<1>7. Len(t.tag) \in Nat /\ Len(t.octets) \in Nat
  BY <1>4, ByteSeq
<1>8. Len((t.tag \o f) \o t.octets) > Len(t.octets)
  <2>1. PICK x \in Nat : x = Len(t.tag)
    BY <1>7
  <2>2. PICK y \in Nat : y = Len(f) /\ y # 0
    BY <1>3
  <2>3. PICK z \in Nat : z = Len(t.octets)
    BY <1>7
  <2>4. Len((t.tag \o f) \o t.octets) = (x + y) + z
    BY <1>5, <1>6, <2>1, <2>2, <2>3
  <2>5. (x + y) + z > z
    BY <2>2
  <2>. QED
    BY <2>3, <2>4, <2>5
<1>. QED
  BY <1>2, <1>3, <1>6, <1>8

\* TLVs are written one after the other.
LEMMA SerializeHead ==
  ASSUME NEW T, \A t \in T : SerializeTlv(t) \in Seq(Byte), NEW inner \in Seq(T), inner # <<>>
  PROVE  /\ SerializeAll(inner) = SerializeTlv(inner[1]) \o SerializeAll(Tail(inner))
         /\ SerializeAll(Tail(inner)) \in Seq(Byte)
<1> DEFINE r == [i \in DOMAIN inner |-> SerializeTlv(inner[i])]
           others == Tail(inner)
           q == [i \in DOMAIN others |-> SerializeTlv(others[i])]
<1>1. /\ Len(inner) \in Nat /\ DOMAIN inner = 1..Len(inner)
      /\ \A i \in 1..Len(inner) : inner[i] \in T
  BY LenProperties
<1>2. /\ others \in Seq(T) /\ Len(others) = Len(inner) - 1
      /\ \A i \in 1..Len(others) : others[i] = inner[i + 1]
  BY HeadTailProperties
<1>3. Len(others) \in Nat /\ DOMAIN others = 1..Len(others) /\ \A i \in 1..Len(others) : others[i] \in T
  BY <1>2, LenProperties
<1> HIDE DEF others
<1>4. r \in Seq(Seq(Byte)) /\ Len(r) = Len(inner) /\ r[1] = SerializeTlv(inner[1])
  <2>1. r \in [1..Len(inner) -> Seq(Byte)]
    BY <1>1
  <2>2. 1 \in 1..Len(inner)
    BY <1>1, EmptySeq
  <2>. QED
    BY <1>1, <2>1, <2>2, SeqDef
<1>5. q \in Seq(Seq(Byte)) /\ Len(q) = Len(others)
  <2>1. q \in [1..Len(others) -> Seq(Byte)]
    BY <1>3
  <2>. QED
    BY <1>3, <2>1, SeqDef
<1>6. Behind(r, q)
  <2>1. \A i \in 1..Len(q) : r[i + 1] = q[i]
    BY <1>1, <1>2, <1>3, <1>5
  <2>2. Len(r) = Len(q) + 1
    <3>1. Len(r) = Len(inner) /\ Len(q) = Len(others) /\ Len(others) = Len(inner) - 1 /\ Len(inner) \in Nat
      BY Zenon, <1>1, <1>2, <1>4, <1>5
    <3> HIDE DEF r, q
    <3>. QED
      BY SMTT(60), <3>1
  <2> HIDE DEF r, q
  <2>. QED
    BY <2>1, <2>2 DEF Behind
<1>7. SerializeAll(inner) = FlattenSeq(r) /\ SerializeAll(others) = FlattenSeq(q)
  BY DEF SerializeAll
<1> HIDE DEF r, q
<1>8. FlattenSeq(r) = r[1] \o FlattenSeq(q) /\ FlattenSeq(q) \in Seq(Byte)
  BY <1>4, <1>5, <1>6, FlattenHead, FlattenTyped
<1>. QED
  BY <1>4, <1>7, <1>8 DEF others

\* Of no TLVs nothing is written.
LEMMA SerializeNone == SerializeAll(<<>>) = <<>>
<1>1. DOMAIN <<>> = {} /\ [i \in {} |-> SerializeTlv(<<>>[i])] = <<>>
  OBVIOUS
<1>2. SerializeAll(<<>>) = FlattenSeq(<<>>)
  BY <1>1 DEF SerializeAll
<1>. QED
  BY <1>2 DEF FlattenSeq

\* What is written are octets.
LEMMA SerializeType ==
  ASSUME NEW T, AreTlvs(T), NEW inner \in Seq(T)
  PROVE  SerializeAll(inner) \in Seq(Byte)
<1>1. \A t \in T : SerializeTlv(t) \in Seq(Byte)
  BY SentOf, SerializeSent
<1>2. CASE inner = <<>>
  BY <1>2, SerializeNone, EmptySeq
<1>3. CASE inner # <<>>
  <2>1. inner[1] \in T
    BY <1>3, EmptySeq, LenProperties
  <2>. QED
    BY <1>1, <1>3, <2>1, SerializeHead, JoinedBytes
<1>. QED
  BY <1>2, <1>3

\* A part is the TLV it was cut from, if the octets of a constructed one are read.
LEMMA PartIsTlv ==
  ASSUME NEW T, AreTlvs(T), NEW t \in T, NEW part, part.tag = t.tag, part.octets = t.octets,
         \A inner \in Seq(T) : SerializeAll(inner) = t.octets => ParseList[t.octets] = {inner}
  PROVE  TlvOf(part, ParseList) = {t}
<1>1. /\ t.inner \in Seq(T)
      /\ t = IF IsConstructed(t.tag) THEN ConstructedTlv(t.tag, t.inner)
             ELSE SimpleTlv(t.tag, t.octets)
  BY SentOf
<1>2. CASE IsConstructed(t.tag)
  <2>1. t = ConstructedTlv(t.tag, t.inner)
    BY <1>1, <1>2
  <2>2. t.octets = SerializeAll(t.inner)
    BY <2>1 DEF ConstructedTlv
  <2>3. ParseList[t.octets] = {t.inner}
    BY <1>1, <2>2
  <2>4. TlvOf(part, ParseList) = {ConstructedTlv(t.tag, inner) : inner \in {t.inner}}
    BY <1>2, <2>3 DEF TlvOf
  <2>. QED
    BY <2>1, <2>4
<1>3. CASE ~IsConstructed(t.tag)
  BY <1>1, <1>3 DEF TlvOf
<1>. QED
  BY <1>2, <1>3

\* ListsOf of TLVs are read as they were written, by induction over the octets: those
\* of the first TLV, and those of the others, are fewer than all of them.
LEMMA ListRead ==
  ASSUME NEW T, AreTlvs(T)
  PROVE  \A inner \in Seq(T) : ParseList[SerializeAll(inner)] = {inner}
<1> DEFINE S == {n \in Nat : \A inner \in Seq(T) :
                    Len(SerializeAll(inner)) = n => ParseList[SerializeAll(inner)] = {inner}}
<1>1. \A inner \in Seq(T) : SerializeAll(inner) \in Seq(Byte) /\ Len(SerializeAll(inner)) \in Nat
  BY SerializeType, ByteSeq
<1>2. ASSUME NEW n \in Nat, \A m \in Nat : m < n => m \in S
      PROVE  n \in S
  <2> SUFFICES ASSUME NEW inner \in Seq(T), Len(SerializeAll(inner)) = n
               PROVE  ParseList[SerializeAll(inner)] = {inner}
    OBVIOUS
  <2>1. \A l \in Seq(T) : Len(SerializeAll(l)) < n => ParseList[SerializeAll(l)] = {l}
    BY <1>1, <1>2
  <2>2. CASE inner = <<>>
    BY <2>2, SerializeNone, ParseListUnfold, EmptySeq DEF ListBody
  <2>3. CASE inner # <<>>
    <3> DEFINE t == inner[1]
               others == Tail(inner)
               rest == SerializeAll(others)
               in == SerializeAll(inner)
               part == [tag |-> t.tag, octets |-> t.octets, rest |-> rest]
    <3>1. t \in T /\ others \in Seq(T) /\ <<t>> \o others = inner
      <4>1. t \in T /\ others \in Seq(T)
        BY <2>3, EmptySeq, LenProperties, HeadTailProperties
      <4>2. inner = <<inner[1]>> \o SubSeq(inner, 2, Len(inner)) /\ Tail(inner) = SubSeq(inner, 2, Len(inner))
        <5>1. Len(inner) \in Nat /\ Len(inner) # 0
          BY <2>3, EmptySeq, LenProperties
        <5>2. 1 \in 1..Len(inner) /\ Len(inner) \in 1..Len(inner)
          BY <5>1
        <5>3. SubSeq(inner, 1, Len(inner)) = <<inner[1]>> \o SubSeq(inner, 1 + 1, Len(inner))
          BY <5>2, SubSeqRecursiveFirst
        <5>. QED
          BY <2>3, <5>3, SubSeqFull, TailIsSubSeq
      <4>. QED
        BY <4>1, <4>2
    <3> HIDE DEF t, others
    <3>2. /\ Sendable(t) /\ SerializeTlv(t) \in Seq(Byte) /\ Len(SerializeTlv(t)) > Len(t.octets)
          /\ SerializeTlv(t) = (t.tag \o EncodeLength(Len(t.octets))) \o t.octets
      BY <3>1, SentOf, SerializeSent
    <3>3. in = SerializeTlv(t) \o rest /\ rest \in Seq(Byte)
      <4>1. \A u \in T : SerializeTlv(u) \in Seq(Byte)
        BY SentOf, SerializeSent
      <4>. QED
        BY <2>3, <4>1, SerializeHead DEF t, others
    <3> HIDE DEF rest
    <3>4. Len(in) = Len(SerializeTlv(t)) + Len(rest) /\ Len(rest) \in Nat /\ Len(t.octets) \in Nat
      BY <3>2, <3>3, JoinedBytes, ByteSeq DEF Sendable
    <3>5. Len(rest) < n /\ Len(t.octets) < n
      <4>1. Len(in) = n
        OBVIOUS
      <4>2. Len(SerializeTlv(t)) \in Nat
        BY <3>2, ByteSeq
      <4> HIDE DEF in
      <4>3. PICK x \in Nat : x = Len(SerializeTlv(t))
        BY <4>2
      <4>4. PICK y \in Nat : y = Len(rest)
        BY <3>4
      <4>5. PICK z \in Nat : z = Len(t.octets)
        BY <3>4
      <4>6. x > z /\ n = x + y
        BY <3>2, <3>4, <4>1, <4>3, <4>4, <4>5
      <4>. QED
        BY <4>4, <4>5, <4>6
    <3>6. ParseList[rest] = {others}
      BY <2>1, <3>1, <3>5 DEF rest
    <3>7. Split(in) = {part}
      BY <3>2, <3>3, SplitWhole DEF Sendable
    <3>8. part.rest = rest /\ part.tag = t.tag /\ part.octets = t.octets
      OBVIOUS
    <3> HIDE DEF part
    <3>9. TlvOf(part, ParseList) = {t}
      BY SMTT(60), <2>1, <3>1, <3>5, <3>8, PartIsTlv
    <3>10. in # <<>> /\ in \in Seq(Byte)
      BY <1>1, <3>4, <3>5, EmptySeq
    <3>11. ParseList[in] = UNION {ListsOf(TlvOf(p, ParseList), ParseList[p.rest]) : p \in {part}}
      BY <3>7, <3>10, ParseListUnfold DEF ListBody
    <3>12. ParseList[in] = ListsOf({t}, {others})
      BY <3>6, <3>8, <3>9, <3>11
    <3>13. ListsOf({t}, {others}) = {<<t>> \o others}
      BY DEF ListsOf
    <3> HIDE DEF in
    <3>14. ParseList[in] = {inner}
      BY <3>1, <3>12, <3>13
    <3>. QED
      BY <3>14 DEF in
  <2>. QED
    BY <2>2, <2>3
<1>3. \A n \in Nat : n \in S
  <2> HIDE DEF S
  <2>. QED
    BY <1>2, Induction
<1>. QED
  BY <1>1, <1>3

\* So is one TLV, with all that is in it.
LEMMA TreeRead ==
  ASSUME NEW T, AreTlvs(T), NEW t \in T
  PROVE  TreeIsRead(t)
<1> DEFINE in == SerializeTlv(t)
           part == [tag |-> t.tag, octets |-> t.octets, rest |-> <<>>]
<1>1. Sendable(t) /\ in \in Seq(Byte) /\ in = (t.tag \o EncodeLength(Len(t.octets))) \o t.octets
  BY SentOf, SerializeSent
<1>2. in = in \o <<>>
  BY <1>1, ConcatEmptySeq
<1>3. Split(in) = {part}
  BY <1>1, <1>2, SplitWhole, EmptySeq DEF Sendable
<1>4. part.rest = <<>> /\ part.tag = t.tag /\ part.octets = t.octets
  OBVIOUS
<1> HIDE DEF in, part
<1>5. TlvOf(part, ParseList) = {t}
  BY <1>4, ListRead, PartIsTlv
<1>6. TryTlv(in) = UNION {TlvOf(p, ParseList) : p \in {q \in {part} : q.rest = <<>>}}
  BY <1>3 DEF TryTlv
<1>7. {q \in {part} : q.rest = <<>>} = {part}
  BY <1>4
<1>. QED
  BY <1>5, <1>6, <1>7 DEF TreeIsRead, in

-----------------------------------------------------------------------------
(* The KDF-DO.                                                             *)

\* A TLV more in front
LEMMA SerializeOne ==
  ASSUME NEW T, AreTlvs(T), NEW t \in T, NEW L \in Seq(T)
  PROVE  /\ <<t>> \o L \in Seq(T) /\ Len(<<t>> \o L) = Len(L) + 1
         /\ (<<t>> \o L)[1] = t /\ \A i \in 1..Len(L) : (<<t>> \o L)[i + 1] = L[i]
         /\ SerializeAll(<<t>> \o L) = SerializeTlv(t) \o SerializeAll(L)
<1> DEFINE o == <<t>>
           M == o \o L
<1>1. o \in Seq(T) /\ Len(o) = 1 /\ o[1] = t
  OBVIOUS
<1>2. Len(L) \in Nat
  BY LenProperties
<1> HIDE DEF o
<1>3. /\ M \in Seq(T) /\ Len(M) = Len(o) + Len(L)
      /\ \A i \in 1..Len(o) + Len(L) : M[i] = IF i <= Len(o) THEN o[i] ELSE L[i - Len(o)]
  BY <1>1, ConcatProperties
<1> HIDE DEF M
<1>4. M[1] = t /\ Len(M) = Len(L) + 1
  BY <1>1, <1>2, <1>3
<1>5. ASSUME NEW i \in 1..Len(L) PROVE M[i + 1] = L[i]
  <2>1. i + 1 \in 1..1 + Len(L) /\ ~(i + 1 <= 1) /\ (i + 1) - 1 = i
    BY <1>2
  <2>. QED
    BY <1>1, <1>3, <2>1
<1>6. M # <<>>
  BY <1>2, <1>4, EmptySeq
<1>7. Tail(M) = L
  <2>1. /\ Tail(M) \in Seq(T) /\ Len(Tail(M)) = Len(M) - 1
        /\ \A i \in 1..Len(Tail(M)) : Tail(M)[i] = M[i + 1]
    BY <1>3, <1>6, HeadTailProperties
  <2>2. Len(Tail(M)) = Len(L)
    BY <1>2, <1>4, <2>1
  <2>3. \A i \in 1..Len(Tail(M)) : Tail(M)[i] = L[i]
    BY <1>5, <2>1, <2>2
  <2>. QED
    BY <2>1, <2>2, <2>3, SeqEqual
<1>8. \A u \in T : SerializeTlv(u) \in Seq(Byte)
  BY SentOf, SerializeSent
<1>9. SerializeAll(M) = SerializeTlv(M[1]) \o SerializeAll(Tail(M))
  BY <1>3, <1>6, <1>8, SerializeHead
<1>. QED
  BY <1>3, <1>4, <1>5, <1>7, <1>9 DEF M, o

\* A list of one TLV is written as the TLV.
LEMMA SerializeSingle ==
  ASSUME NEW T, AreTlvs(T), NEW t \in T
  PROVE  SerializeAll(<<t>>) = SerializeTlv(t)
<1>1. <<>> \in Seq(T) /\ <<t>> \o <<>> = <<t>>
  BY ConcatEmptySeq
<1>2. SerializeAll(<<t>> \o <<>>) = SerializeTlv(t) \o SerializeAll(<<>>)
  BY <1>1, SerializeOne
<1>3. SerializeTlv(t) \in Seq(Byte)
  BY SentOf, SerializeSent
<1>4. SerializeTlv(t) \o <<>> = SerializeTlv(t)
  BY <1>3, ConcatEmptySeq
<1>. QED
  BY <1>1, <1>2, <1>4, SerializeNone

\* TLVs one after another, some of which are missing
Options(o, T) == \A i \in 1..Len(o) : o[i] = <<>> \/ \E t \in T : o[i] = <<t>>

\* L has the TLVs that are not missing, and no others.
HasThose(L, o) == \A t : (\E i \in 1..Len(L) : L[i] = t) <=> \E i \in 1..Len(o) : o[i] = <<t>>

\* What is written for o is what is written for a list of those TLVs.
IsOneList(o, T) == \E L \in Seq(T) :
    /\ FlattenSeq([i \in 1..Len(o) |-> SerializeAll(o[i])]) = SerializeAll(L)
    /\ HasThose(L, o)

\* Optional TLVs, too, are written one after the other,
LEMMA OptionsHead ==
  ASSUME NEW T, AreTlvs(T), NEW o \in Seq(Seq(T)), o # <<>>
  PROVE  FlattenSeq([i \in 1..Len(o) |-> SerializeAll(o[i])])
            = SerializeAll(o[1]) \o FlattenSeq([i \in 1..Len(Tail(o)) |-> SerializeAll(Tail(o)[i])])
<1> DEFINE others == Tail(o)
           r == [i \in 1..Len(o) |-> SerializeAll(o[i])]
           q == [i \in 1..Len(others) |-> SerializeAll(others[i])]
<1>1. Len(o) \in Nat /\ Len(o) # 0 /\ \A i \in 1..Len(o) : o[i] \in Seq(T)
  BY LenProperties, EmptySeq, ElementOfSeq
<1>2. /\ others \in Seq(Seq(T)) /\ Len(others) = Len(o) - 1
      /\ \A i \in 1..Len(others) : others[i] = o[i + 1]
  BY HeadTailProperties
<1>3. Len(others) \in Nat /\ \A i \in 1..Len(others) : others[i] \in Seq(T)
  BY <1>2, LenProperties, ElementOfSeq
<1> HIDE DEF others
<1>4. r \in Seq(Seq(Byte)) /\ Len(r) = Len(o) /\ r[1] = SerializeAll(o[1])
  <2>1. r \in [1..Len(o) -> Seq(Byte)]
    BY <1>1, SerializeType
  <2>2. 1 \in 1..Len(o)
    BY <1>1
  <2>3. r[1] = SerializeAll(o[1])
    BY <2>2
  <2>4. Len(o) \in Nat
    BY <1>1
  <2> HIDE DEF r
  <2>5. r \in Seq(Seq(Byte)) /\ Len(r) = Len(o)
    BY <2>1, <2>4, FcnIsSeq
  <2>. QED
    BY <2>3, <2>5
<1>5. q \in Seq(Seq(Byte)) /\ Len(q) = Len(others)
  <2>1. q \in [1..Len(others) -> Seq(Byte)]
    BY <1>3, SerializeType
  <2>2. Len(others) \in Nat
    BY <1>3
  <2> HIDE DEF q
  <2>. QED
    BY <2>1, <2>2, FcnIsSeq
<1>6. Behind(r, q)
  <2>1. \A i \in 1..Len(q) : r[i + 1] = q[i]
    BY <1>1, <1>2, <1>3, <1>5
  <2>2. Len(r) = Len(q) + 1
    <3>1. Len(r) = Len(o) /\ Len(q) = Len(others) /\ Len(others) = Len(o) - 1 /\ Len(o) \in Nat
      BY <1>1, <1>2, <1>4, <1>5
    <3> HIDE DEF r, q
    <3>. QED
      BY <3>1
  <2> HIDE DEF r, q
  <2>. QED
    BY <2>1, <2>2 DEF Behind
<1> HIDE DEF r, q
<1>7. FlattenSeq(r) = r[1] \o FlattenSeq(q)
  BY <1>4, <1>5, <1>6, FlattenHead
<1>. QED
  BY <1>4, <1>7 DEF r, q, others

\* so that a missing one leaves no trace.
LEMMA OptionsListed ==
  ASSUME NEW T, AreTlvs(T)
  PROVE  \A o \in Seq(Seq(T)) : Options(o, T) => IsOneList(o, T)
<1> DEFINE S == {n \in Nat : \A o \in Seq(Seq(T)) : Len(o) = n /\ Options(o, T) => IsOneList(o, T)}
<1>1. ASSUME NEW n \in Nat, \A m \in Nat : m < n => m \in S
      PROVE  n \in S
  <2> SUFFICES ASSUME NEW o \in Seq(Seq(T)), Len(o) = n, Options(o, T)
               PROVE  IsOneList(o, T)
    OBVIOUS
  <2>1. CASE o = <<>>
    <3>1. [i \in 1..Len(o) |-> SerializeAll(o[i])] = <<>>
      BY <2>1
    <3>2. FlattenSeq(<<>>) = <<>>
      BY DEF FlattenSeq
    <3>3. HasThose(<<>>, o) /\ <<>> \in Seq(T)
      BY <2>1 DEF HasThose
    <3>. QED
      BY <3>1, <3>2, <3>3, SerializeNone DEF IsOneList
  <2>2. CASE o # <<>>
    <3> DEFINE others == Tail(o)
               rest == FlattenSeq([i \in 1..Len(others) |-> SerializeAll(others[i])])
    <3>1. Len(o) \in Nat /\ Len(o) # 0
      BY <2>2, LenProperties, EmptySeq
    <3>2. /\ others \in Seq(Seq(T)) /\ Len(others) = Len(o) - 1
          /\ \A i \in 1..Len(others) : others[i] = o[i + 1]
      BY <2>2, HeadTailProperties
    <3>3. FlattenSeq([i \in 1..Len(o) |-> SerializeAll(o[i])]) = SerializeAll(o[1]) \o rest
      BY <2>2, OptionsHead
    <3> HIDE DEF others
    <3>4. Options(others, T)
      BY SMTT(60), <3>1, <3>2 DEF Options
    <3>5. Len(others) \in Nat /\ Len(others) < n
      BY <3>1, <3>2
    <3>6. PICK L \in Seq(T) : rest = SerializeAll(L) /\ HasThose(L, others)
      BY <1>1, <3>2, <3>4, <3>5 DEF IsOneList
    <3>7. SerializeAll(L) \in Seq(Byte)
      BY SerializeType
    <3>8. \A t : (\E i \in 1..Len(o) : o[i] = <<t>>)
                    <=> o[1] = <<t>> \/ \E i \in 1..Len(others) : others[i] = <<t>>
      <4>1. ASSUME NEW i \in 1..Len(o), i # 1
            PROVE  i - 1 \in 1..Len(others) /\ others[i - 1] = o[i]
        <5>1. i - 1 \in 1..Len(others) /\ (i - 1) + 1 = i
          BY <3>1, <3>2, <4>1
        <5>. QED
          BY <3>2, <5>1
      <4>2. 1 \in 1..Len(o) /\ \A i \in 1..Len(others) : i + 1 \in 1..Len(o)
        <5>1. Len(o) \in Nat /\ Len(others) \in Nat /\ Len(others) = Len(o) - 1
          BY Zenon, <3>1, <3>2, <3>5
        <5>2. \A k, m \in Nat : m = k - 1 => 1 \in 1..k /\ \A i \in 1..m : i + 1 \in 1..k
          OBVIOUS
        <5>. QED
          BY Zenon, <5>1, <5>2
      <4>. QED
        BY <3>2, <4>1, <4>2
    <3>9. CASE o[1] = <<>>
      <4>1. SerializeAll(o[1]) \o rest = SerializeAll(L)
        BY <3>6, <3>7, <3>9, SerializeNone, ConcatEmptySeq
      <4>3. \A t : o[1] # <<t>>
        BY <3>9
      <4>2. HasThose(L, o)
        BY <3>6, <3>8, <4>3 DEF HasThose
      <4>. QED
        BY <3>3, <4>1, <4>2 DEF IsOneList
    <3>10. CASE o[1] # <<>>
      <4>1. PICK t \in T : o[1] = <<t>>
        BY <3>1, <3>10 DEF Options
      <4> DEFINE M == <<t>> \o L
      <4>2. /\ M \in Seq(T) /\ Len(M) = Len(L) + 1
            /\ M[1] = t /\ \A i \in 1..Len(L) : M[i + 1] = L[i]
            /\ SerializeAll(M) = SerializeTlv(t) \o SerializeAll(L)
        BY SerializeOne
      <4>3. SerializeAll(<<t>>) = SerializeTlv(t)
        <5>1. <<>> \in Seq(T) /\ <<t>> \o <<>> = <<t>>
          BY ConcatEmptySeq
        <5>2. SerializeAll(<<t>> \o <<>>) = SerializeTlv(t) \o SerializeAll(<<>>)
          BY <5>1, SerializeOne
        <5>3. SerializeTlv(t) \in Seq(Byte)
          BY SentOf, SerializeSent
        <5>4. SerializeTlv(t) \o <<>> = SerializeTlv(t)
          BY <5>3, ConcatEmptySeq
        <5>. QED
          BY <5>1, <5>2, <5>4, SerializeNone
      <4> HIDE DEF M
      <4>4. SerializeAll(o[1]) \o rest = SerializeAll(M)
        BY <3>6, <4>1, <4>2, <4>3
      <4>5. Len(L) \in Nat
        BY LenProperties
      <4>6. \A u : (\E i \in 1..Len(M) : M[i] = u) <=> u = t \/ \E i \in 1..Len(L) : L[i] = u
        <5>1. ASSUME NEW i \in 1..Len(M), i # 1
              PROVE  i - 1 \in 1..Len(L) /\ L[i - 1] = M[i]
          <6>1. i - 1 \in 1..Len(L) /\ (i - 1) + 1 = i
            BY <4>2, <4>5, <5>1
          <6>. QED
            BY <4>2, <6>1
        <5>2. 1 \in 1..Len(M) /\ \A i \in 1..Len(L) : i + 1 \in 1..Len(M)
          BY <4>2, <4>5
        <5>. QED
          BY <4>2, <5>1, <5>2
      <4>7. \A u : o[1] = <<u>> <=> u = t
        BY <4>1
      <4>8. HasThose(M, o)
        BY <3>6, <3>8, <4>6, <4>7 DEF HasThose
      <4>. QED
        BY <3>3, <4>2, <4>4, <4>8 DEF IsOneList
    <3>. QED
      BY <3>9, <3>10
  <2>. QED
    BY <2>1, <2>2
<1>2. \A n \in Nat : n \in S
  <2> HIDE DEF S
  <2>. QED
    BY <1>1, Induction
<1>. QED
  BY <1>2, LenProperties

\* Below a list of simple TLVs there are these TLVs.
LEMMA BelowSimple ==
  ASSUME NEW T, \A t \in T : t.below = <<>>
  PROVE  \A L \in Seq(T) : FlattenSeq([i \in DOMAIN L |-> <<L[i]>> \o L[i].below]) = L
<1> DEFINE piece(L) == [i \in DOMAIN L |-> <<L[i]>> \o L[i].below]
           S == {n \in Nat : \A L \in Seq(T) : Len(L) = n => FlattenSeq(piece(L)) = L}
<1>1. ASSUME NEW L \in Seq(T)
      PROVE  /\ piece(L) \in Seq(Seq(T)) /\ Len(piece(L)) = Len(L)
             /\ \A i \in 1..Len(L) : piece(L)[i] = <<L[i]>>
  <2>1. Len(L) \in Nat /\ DOMAIN L = 1..Len(L) /\ \A i \in 1..Len(L) : L[i] \in T
    BY LenProperties
  <2>2. \A t \in T : <<t>> \in Seq(T) /\ <<t>> \o <<>> = <<t>>
    BY ConcatEmptySeq
  <2>3. \A i \in 1..Len(L) : piece(L)[i] = <<L[i]>>
    BY <2>1, <2>2
  <2>4. piece(L) \in [1..Len(L) -> Seq(T)]
    BY <2>1, <2>2
  <2> HIDE DEF piece
  <2>. QED
    BY <2>1, <2>3, <2>4, FcnIsSeq
<1> HIDE DEF piece
<1>2. ASSUME NEW n \in Nat, \A m \in Nat : m < n => m \in S
      PROVE  n \in S
  <2> SUFFICES ASSUME NEW L \in Seq(T), Len(L) = n
               PROVE  FlattenSeq(piece(L)) = L
    OBVIOUS
  <2>1. CASE L = <<>>
    <3>1. piece(L) = <<>>
      BY <2>1 DEF piece
    <3>. QED
      BY <2>1, <3>1 DEF FlattenSeq
  <2>2. CASE L # <<>>
    <3>1. PICK M : M = Tail(L)
      OBVIOUS
    <3>2. /\ M \in Seq(T) /\ Len(M) \in Nat /\ Len(L) = Len(M) + 1 /\ L = <<L[1]>> \o M
          /\ \A i \in 1..Len(M) : i + 1 \in 1..Len(L) /\ M[i] = L[i + 1]
      BY <2>2, <3>1, HeadOf
    <3>3. FlattenSeq(piece(M)) = M
      <4>1. Len(M) \in S
        BY <1>2, <3>2
      <4>. QED
        BY <3>2, <4>1
    <3>4. Behind(piece(L), piece(M))
      <4>1. Len(piece(L)) = Len(piece(M)) + 1
        BY <1>1, <3>2
      <4>2. ASSUME NEW i \in 1..Len(M)
            PROVE  piece(L)[i + 1] = piece(M)[i]
        <5>1. piece(L)[i + 1] = <<L[i + 1]>> /\ piece(M)[i] = <<M[i]>>
          BY <1>1, <3>2
        <5>. QED
          BY <3>2, <5>1
      <4>3. Len(piece(M)) = Len(M)
        BY <1>1, <3>2
      <4>. QED
        BY <4>1, <4>2, <4>3 DEF Behind
    <3>5. FlattenSeq(piece(L)) = piece(L)[1] \o FlattenSeq(piece(M))
      <4>1. piece(L) \in Seq(Seq(T)) /\ piece(M) \in Seq(Seq(T))
        BY <1>1, <3>2
      <4>. QED
        BY <3>4, <4>1, FlattenHead
    <3>6. piece(L)[1] = <<L[1]>>
      <4>1. 1 \in 1..Len(L)
        BY <3>2
      <4>. QED
        BY <1>1, <4>1
    <3>. QED
      BY <3>2, <3>3, <3>5, <3>6
  <2>. QED
    BY <2>1, <2>2
<1>3. \A n \in Nat : n \in S
  <2> HIDE DEF S
  <2>. QED
    BY <1>2, Induction
<1>4. \A L \in Seq(T) : FlattenSeq(piece(L)) = L
  BY <1>3, LenProperties
<1>. QED
  BY <1>4 DEF piece

\* The tags of the KDF-DO are whole and those of simple values.
LEMMA PrimitiveTag ==
  ASSUME NEW b \in Byte, b > 128, b < 137
  PROVE  WholeTag(<<b>>) /\ ~IsConstructed(<<b>>)
<1>1. <<b>> \in Seq(Byte) /\ <<b>> # <<>> /\ Len(<<b>>) = 1 /\ <<b>>[1] = b
  OBVIOUS
<1>2. b % 32 # 31 /\ (b \div 32) % 2 = 0
  BY SMT DEF Byte
<1>3. TagOctets(<<b>>) = 1
  BY <1>1, <1>2 DEF TagOctets
<1>4. 2^5 = 32
  OBVIOUS
<1>5. ~Bit(b, 5)
  BY <1>2, <1>4 DEF Bit
<1>. QED
  BY <1>1, <1>3, <1>5 DEF WholeTag, IsConstructed

\* They are 81 to 88,
LEMMA KdfTags ==
  /\ Len(KdfFields) = 8 /\ DOMAIN KdfFields = 1..8
  /\ \A i \in 1..8 : KdfTag[KdfFields[i]] = 128 + i
<1>1. Len(KdfFields) = 8 /\ DOMAIN KdfFields = 1..8
  BY DEF KdfFields
<1>2. /\ KdfTag[KdfFields[1]] = 129 /\ KdfTag[KdfFields[2]] = 130
      /\ KdfTag[KdfFields[3]] = 131 /\ KdfTag[KdfFields[4]] = 132
      /\ KdfTag[KdfFields[5]] = 133 /\ KdfTag[KdfFields[6]] = 134
      /\ KdfTag[KdfFields[7]] = 135 /\ KdfTag[KdfFields[8]] = 136
  BY DEF KdfFields, KdfTag
<1>3. ASSUME NEW i \in 1..8
      PROVE  KdfTag[KdfFields[i]] = 128 + i
  BY <1>2
<1>. QED
  BY <1>1, <1>3

\* one for each field,
LEMMA KdfFieldAt ==
  ASSUME NEW f \in Range(KdfFields)
  PROVE  \E i \in 1..8 : f = KdfFields[i]
BY KdfTags DEF Range

\* each for one field only.
LEMMA KdfTagOf ==
  ASSUME NEW f \in Range(KdfFields)
  PROVE  /\ WholeTag(<<KdfTag[f]>>) /\ ~IsConstructed(<<KdfTag[f]>>)
         /\ KdfTag[f] # 249
         /\ \A g \in Range(KdfFields) : <<KdfTag[f]>> = <<KdfTag[g]>> => f = g
<1>1. PICK i \in 1..8 : f = KdfFields[i] /\ KdfTag[f] = 128 + i
  BY KdfFieldAt, KdfTags
<1>2. KdfTag[f] \in Byte /\ KdfTag[f] > 128 /\ KdfTag[f] < 137
  BY <1>1 DEF Byte
<1>3. ASSUME NEW g \in Range(KdfFields), <<KdfTag[f]>> = <<KdfTag[g]>>
      PROVE  f = g
  <2>1. PICK j \in 1..8 : g = KdfFields[j] /\ KdfTag[g] = 128 + j
    BY KdfFieldAt, KdfTags
  <2>2. KdfTag[f] = KdfTag[g]
    BY <1>3
  <2>3. i = j
    BY <1>1, <2>1, <2>2
  <2>. QED
    BY <1>1, <2>1, <2>3
<1>. QED
  BY <1>2, <1>3, PrimitiveTag

\* A list of TLVs of which no two have the same tag
Single(L) == \A i, j \in 1..Len(L) : L[i].tag = L[j].tag => L[i] = L[j]

\* What find returns among these TLVs
FirstWith(all, tag) ==
    LET at == {i \in DOMAIN all : all[i].tag = tag}
    IN  IF at = {} THEN {} ELSE {all[Min(at)]}

\* It finds the one with the tag, wherever it is in the list.
LEMMA FindAmong ==
  ASSUME NEW T, \A t \in T : t.below = <<>>, NEW L \in Seq(T), Single(L),
         NEW outer, NEW tag, tag # outer
  PROVE  Find(ConstructedTlv(outer, L), tag) = {t \in {L[i] : i \in 1..Len(L)} : t.tag = tag}
<1>1. PICK c : c = ConstructedTlv(outer, L)
  OBVIOUS
<1> DEFINE all == <<c>> \o L
           at == {i \in DOMAIN all : all[i].tag = tag}
<1>2. c.tag = outer /\ c.below = FlattenSeq([i \in DOMAIN L |-> <<L[i]>> \o L[i].below])
  BY <1>1 DEF ConstructedTlv
<1>3. c.below = L
  BY <1>2, BelowSimple
<1>4. Find(c, tag) = IF at = {} THEN {} ELSE {all[Min(at)]}
  <2>1. Find(c, tag) = FirstWith(<<c>> \o c.below, tag)
    BY DEF Find, FirstWith
  <2>. QED
    BY <1>3, <2>1 DEF FirstWith
<1>5. /\ Len(L) \in Nat /\ DOMAIN all = 1..Len(L) + 1
      /\ all[1] = c /\ \A i \in 1..Len(L) : all[i + 1] = L[i]
  <2>1. PICK U : U = T \cup {c}
    OBVIOUS
  <2>2. <<c>> \in Seq(U) /\ L \in Seq(U) /\ Len(<<c>>) = 1 /\ <<c>>[1] = c /\ Len(L) \in Nat
    BY <2>1, SeqMonotonic, LenProperties
  <2>3. PICK q : q = <<c>>
    OBVIOUS
  <2>4. /\ q \o L \in Seq(U) /\ Len(q \o L) = Len(q) + Len(L)
        /\ \A i \in 1..Len(q) + Len(L) : (q \o L)[i] = IF i <= Len(q) THEN q[i] ELSE L[i - Len(q)]
    BY <2>2, <2>3, ConcatProperties
  <2>5. Len(q) = 1 /\ q[1] = c
    BY <2>2, <2>3
  <2>6. DOMAIN (q \o L) = 1..Len(L) + 1
    BY <2>2, <2>4, <2>5, LenProperties
  <2>7. (q \o L)[1] = c
    BY <2>2, <2>4, <2>5
  <2>8. ASSUME NEW i \in 1..Len(L) PROVE (q \o L)[i + 1] = L[i]
    <3>1. i + 1 \in 1..1 + Len(L) /\ ~(i + 1 <= 1) /\ (i + 1) - 1 = i
      BY <2>2
    <3>. QED
      BY <2>4, <2>5, <3>1
  <2>. QED
    BY <2>2, <2>3, <2>6, <2>7, <2>8
<1> HIDE DEF all
<1>6. at = {i + 1 : i \in {j \in 1..Len(L) : L[j].tag = tag}}
  <2>1. ASSUME NEW i \in at PROVE i - 1 \in 1..Len(L) /\ L[i - 1].tag = tag /\ i = (i - 1) + 1
    <3>1. i \in 1..Len(L) + 1 /\ all[i].tag = tag
      BY <1>5
    <3>2. i # 1
      BY <1>2, <1>5, <3>1
    <3>3. i - 1 \in 1..Len(L) /\ i = (i - 1) + 1
      BY <1>5, <3>1, <3>2
    <3>4. all[(i - 1) + 1] = L[i - 1]
      BY <1>5, <3>3
    <3>. QED
      BY <3>1, <3>3, <3>4
  <2>2. ASSUME NEW i \in 1..Len(L), L[i].tag = tag PROVE i + 1 \in at
    BY <1>5, <2>2
  <2>. QED
    BY <2>1, <2>2
<1> HIDE DEF at
<1>7. ASSUME at = {}
      PROVE  Find(c, tag) = {t \in {L[i] : i \in 1..Len(L)} : t.tag = tag}
  <2>1. \A i \in 1..Len(L) : L[i].tag # tag
    BY <1>6, <1>7
  <2>. QED
    BY <1>4, <1>7, <2>1
<1>8. ASSUME at # {}
      PROVE  Find(c, tag) = {t \in {L[i] : i \in 1..Len(L)} : t.tag = tag}
  <2>1. at \subseteq Nat
    BY <1>5, <1>6
  <2>2. Min(at) \in at
    BY <1>8, <2>1, LeastOf
  <2>3. PICK i \in 1..Len(L) : Min(at) = i + 1 /\ L[i].tag = tag
    BY <1>6, <2>2
  <2>4. Find(c, tag) = {L[i]}
    BY <1>4, <1>5, <1>8, <2>3
  <2>5. \A j \in 1..Len(L) : L[j].tag = tag => L[j] = L[i]
    BY <2>3 DEF Single
  <2>. QED
    BY <2>3, <2>4, <2>5
<1>. QED
  BY <1>1, <1>7, <1>8

\* What makes TLVs TLVs that can be sent
LEMMA TlvsAre ==
  ASSUME NEW T,
         \A t \in T : /\ Sendable(t) /\ t.inner \in Seq(T)
                     /\ t = IF IsConstructed(t.tag) THEN ConstructedTlv(t.tag, t.inner)
                            ELSE SimpleTlv(t.tag, t.octets)
  PROVE  AreTlvs(T)
<1>1. \A t \in T : /\ t.tag \in Seq(Byte) /\ t.tag # <<>> /\ TagOctets(t.tag) = Len(t.tag)
                   /\ t.octets \in Seq(Byte) /\ Short(Len(t.octets))
  BY DEF Sendable, WholeTag
<1>. QED
  BY SMT, <1>1 DEF AreTlvs, Short

\* A KDF-DO is read as it was written, whichever of its fields are there.
LEMMA KdfRead ==
  ASSUME NEW k, IsKdfDo(k)
  PROVE  KdfIsRead(k)
<1> DEFINE F == Range(KdfFields)
           v(f) == CHOOSE o \in k[f] : TRUE
           tlv(f) == SimpleTlv(<<KdfTag[f]>>, v(f))
           T == {tlv(f) : f \in {g \in F : k[g] # {}}}
           o == [i \in 1..8 |-> IF k[KdfFields[i]] = {} THEN <<>> ELSE <<tlv(KdfFields[i])>>]
<1>1. k = [f \in F |-> k[f]] /\ k.algo # {} /\ "algo" \in F
  BY KdfTags DEF IsKdfDo, Range, KdfFields
<1>2. ASSUME NEW f \in F, k[f] # {}
      PROVE  /\ k[f] = {v(f)} /\ v(f) \in Seq(Byte) /\ Short(Len(v(f)))
             /\ f \in DOMAIN KdfSize => Len(v(f)) = KdfSize[f]
  <2>1. v(f) \in k[f]
    BY <1>2
  <2> HIDE DEF v
  <2>2. k \in [F -> SUBSET Seq(Byte)]
    BY DEF IsKdfDo
  <2>3. k[f] = {v(f)} /\ Len(v(f)) < 65536 /\ (f \in DOMAIN KdfSize => Len(v(f)) = KdfSize[f])
    BY SMT, <2>1 DEF IsKdfDo
  <2>4. v(f) \in Seq(Byte)
    BY SMT, <2>1, <2>2
  <2>5. Len(v(f)) \in Nat
    BY SMT, <2>4, ByteSeq
  <2>. QED
    BY SMT, <2>3, <2>4, <2>5 DEF Short
<1> HIDE DEF v
<1>3. ASSUME NEW f \in F, k[f] # {}
      PROVE  /\ tlv(f) \in T /\ Sendable(tlv(f)) /\ tlv(f).below = <<>>
             /\ tlv(f).tag = <<KdfTag[f]>> /\ tlv(f).octets = v(f)
             /\ SerializeTlv(tlv(f)) = (<<KdfTag[f]>> \o EncodeLength(Len(v(f)))) \o v(f)
  <2>1. /\ tlv(f) \in T /\ tlv(f).below = <<>>
        /\ tlv(f).tag = <<KdfTag[f]>> /\ tlv(f).octets = v(f)
    BY <1>3 DEF SimpleTlv
  <2>2. Sendable(tlv(f))
    <3>1. v(f) \in Seq(Byte) /\ Short(Len(v(f)))
      BY <1>2, <1>3
    <3>2. WholeTag(<<KdfTag[f]>>)
      BY KdfTagOf
    <3> HIDE DEF tlv
    <3>. QED
      BY <2>1, <3>1, <3>2 DEF Sendable
  <2> HIDE DEF tlv, T
  <2>. QED
    BY <2>1, <2>2, SerializeSent
<1>4. AreTlvs(T)
  <2> SUFFICES ASSUME NEW f \in F, k[f] # {}
               PROVE  /\ Sendable(tlv(f))
                      /\ tlv(f) = IF IsConstructed(tlv(f).tag) THEN ConstructedTlv(tlv(f).tag, tlv(f).inner)
                                  ELSE SimpleTlv(tlv(f).tag, tlv(f).octets)
                      /\ tlv(f).inner \in Seq(T)
    <3> HIDE DEF tlv
    <3>1. \A t \in T : \E f \in F : k[f] # {} /\ t = tlv(f)
      OBVIOUS
    <3> HIDE DEF T
    <3>2. \A t \in T : /\ Sendable(t) /\ t.inner \in Seq(T)
                       /\ t = IF IsConstructed(t.tag) THEN ConstructedTlv(t.tag, t.inner)
                              ELSE SimpleTlv(t.tag, t.octets)
      BY <3>1
    <3>. QED
      BY <3>2, TlvsAre
  <2>1. Sendable(tlv(f)) /\ tlv(f).tag = <<KdfTag[f]>> /\ tlv(f).octets = v(f)
    BY <1>3
  <2>2. tlv(f).inner = <<>>
    BY DEF SimpleTlv
  <2>3. tlv(f) = SimpleTlv(tlv(f).tag, tlv(f).octets)
    BY <2>1
  <2> HIDE DEF tlv, T
  <2>. QED
    BY <2>1, <2>2, <2>3, KdfTagOf
<1>5. o \in Seq(Seq(T)) /\ Len(o) = 8 /\ Options(o, T)
  <2>1. ASSUME NEW i \in 1..8
        PROVE  o[i] \in Seq(T) /\ (o[i] = <<>> \/ \E t \in T : o[i] = <<t>>)
    <3>1. KdfFields[i] \in F
      BY KdfTags DEF Range
    <3>2. CASE k[KdfFields[i]] = {}
      <4> HIDE DEF T
      <4>. QED
        BY <3>2, EmptySeq
    <3>3. CASE k[KdfFields[i]] # {}
      <4>1. tlv(KdfFields[i]) \in T /\ o[i] = <<tlv(KdfFields[i])>>
        BY <3>1, <3>3
      <4> HIDE DEF tlv, T, o
      <4>. QED
        BY <4>1
    <3>. QED
      BY <3>2, <3>3
  <2>2. o \in [1..8 -> Seq(T)]
    <3> HIDE DEF T
    <3>. QED
      BY <2>1
  <2> HIDE DEF o, T
  <2>3. 8 \in Nat
    OBVIOUS
  <2>4. o \in Seq(Seq(T)) /\ Len(o) = 8
    BY ZenonT(60), <2>2, <2>3, FcnIsSeq
  <2>. QED
    BY <2>1, <2>4 DEF Options
<1>6. KdfOctets(k) = FlattenSeq([i \in 1..Len(o) |-> SerializeAll(o[i])])
  <2>1. ASSUME NEW i \in 1..8
        PROVE  SerializeAll(o[i]) = IF k[KdfFields[i]] = {} THEN <<>>
                                    ELSE (<<KdfTag[KdfFields[i]]>> \o EncodeLength(Len(v(KdfFields[i])))) \o v(KdfFields[i])
    <3>1. KdfFields[i] \in F
      BY KdfTags DEF Range
    <3>2. CASE k[KdfFields[i]] = {}
      <4>1. o[i] = <<>>
        BY <3>2
      <4>. QED
        BY <3>2, <4>1, SerializeNone
    <3>3. CASE k[KdfFields[i]] # {}
      <4>1. tlv(KdfFields[i]) \in T /\ o[i] = <<tlv(KdfFields[i])>>
        BY <3>1, <3>3
      <4> HIDE DEF o, T
      <4>2. SerializeTlv(tlv(KdfFields[i])) = (<<KdfTag[KdfFields[i]]>> \o EncodeLength(Len(v(KdfFields[i])))) \o v(KdfFields[i])
        BY <1>3, <3>1, <3>3
      <4> HIDE DEF tlv
      <4>3. SerializeAll(<<tlv(KdfFields[i])>>) = SerializeTlv(tlv(KdfFields[i]))
        BY <1>4, <4>1, SerializeSingle
      <4>. QED
        BY <3>3, <4>1, <4>2, <4>3
    <3>. QED
      BY <3>2, <3>3
  <2> DEFINE piece(i) == IF k[KdfFields[i]] = {} THEN <<>>
                         ELSE (<<KdfTag[KdfFields[i]]>> \o EncodeLength(Len(v(KdfFields[i])))) \o v(KdfFields[i])
  <2>2. KdfOctets(k) = FlattenSeq([i \in DOMAIN KdfFields |-> piece(i)])
    BY Zenon DEF KdfOctets, v
  <2>3. \A i \in 1..8 : SerializeAll(o[i]) = piece(i)
    BY <2>1
  <2> HIDE DEF piece, o
  <2>4. [i \in 1..Len(o) |-> SerializeAll(o[i])] = [i \in DOMAIN KdfFields |-> piece(i)]
    BY <1>5, <2>3, KdfTags
  <2>. QED
    BY <2>2, <2>4
<1>7. PICK L \in Seq(T) : KdfOctets(k) = SerializeAll(L) /\ HasThose(L, o)
  <2> HIDE DEF T, o
  <2>. QED
    BY <1>4, <1>5, <1>6, OptionsListed DEF IsOneList
<1>8. ParseList[KdfOctets(k)] = {L}
  <2> HIDE DEF T
  <2>. QED
    BY <1>4, <1>7, ListRead
<1>9. {L[i] : i \in 1..Len(L)} = T
  <2>1. \A t : (\E i \in 1..Len(L) : L[i] = t) <=> \E i \in 1..8 : o[i] = <<t>>
    BY <1>5, <1>7 DEF HasThose
  <2>2. ASSUME NEW t PROVE (\E i \in 1..8 : o[i] = <<t>>) <=> t \in T
    <3>1. ASSUME NEW i \in 1..8, o[i] = <<t>> PROVE t \in T
      <4>1. KdfFields[i] \in F
        BY KdfTags DEF Range
      <4>2. k[KdfFields[i]] # {}
        BY <3>1
      <4>3. t = tlv(KdfFields[i])
        <5>1. o[i] = <<tlv(KdfFields[i])>>
          BY <4>2
        <5> HIDE DEF tlv, o
        <5>. QED
          BY <3>1, <5>1
      <4> HIDE DEF tlv
      <4>. QED
        BY <4>1, <4>2, <4>3
    <3>2. ASSUME t \in T PROVE \E i \in 1..8 : o[i] = <<t>>
      <4>1. PICK f \in F : k[f] # {} /\ t = tlv(f)
        BY <3>2
      <4>2. PICK i \in 1..8 : f = KdfFields[i]
        BY KdfFieldAt
      <4>3. o[i] = <<tlv(f)>>
        BY <4>1, <4>2
      <4>. QED
        BY <4>1, <4>3
    <3>. QED
      BY <3>1, <3>2
  <2> HIDE DEF T, o
  <2>. QED
    BY <2>1, <2>2
<1>10. Single(L)
  <2> SUFFICES ASSUME NEW f \in F, k[f] # {}, NEW g \in F, k[g] # {}, tlv(f).tag = tlv(g).tag
               PROVE  tlv(f) = tlv(g)
    <3>1. \A i \in 1..Len(L) : L[i] \in T
      BY <1>9
    <3> HIDE DEF tlv
    <3>. QED
      BY <3>1 DEF Single
  <2>1. <<KdfTag[f]>> = <<KdfTag[g]>>
    <3>1. tlv(f).tag = <<KdfTag[f]>> /\ tlv(g).tag = <<KdfTag[g]>>
      BY <1>3
    <3> HIDE DEF tlv
    <3>. QED
      BY <3>1
  <2>2. f = g
    BY <2>1, KdfTagOf
  <2>. QED
    BY <2>2
<1>11. ASSUME NEW f \in F
       PROVE  {w \in {t.octets : t \in Find(ConstructedTlv(<<249>>, L), <<KdfTag[f]>>)} :
                    f \in DOMAIN KdfSize => Len(w) = KdfSize[f]} = k[f]
  <2>1. Find(ConstructedTlv(<<249>>, L), <<KdfTag[f]>>) = {t \in T : t.tag = <<KdfTag[f]>>}
    <3>1. <<KdfTag[f]>> # <<249>>
      BY KdfTagOf
    <3>2. \A t \in T : t.below = <<>>
      BY <1>3
    <3> HIDE DEF T
    <3>3. Find(ConstructedTlv(<<249>>, L), <<KdfTag[f]>>)
            = {t \in {L[i] : i \in 1..Len(L)} : t.tag = <<KdfTag[f]>>}
      BY <1>10, <3>1, <3>2, FindAmong
    <3>. QED
      BY Zenon, <1>9, <3>3
  <2>2. \A g \in F : k[g] # {} /\ tlv(g).tag = <<KdfTag[f]>> => g = f
    <3>1. \A g \in F : k[g] # {} => tlv(g).tag = <<KdfTag[g]>>
      BY <1>3
    <3> HIDE DEF tlv
    <3>. QED
      BY ZenonT(60), <3>1, KdfTagOf
  <2>3. CASE k[f] = {}
    <3>1. {t \in T : t.tag = <<KdfTag[f]>>} = {}
      <4> HIDE DEF tlv
      <4>. QED
        BY <2>2, <2>3
    <3>. QED
      BY <2>1, <2>3, <3>1
  <2>4. CASE k[f] # {}
    <3>1. tlv(f) \in T /\ tlv(f).tag = <<KdfTag[f]>> /\ tlv(f).octets = v(f)
      BY <1>3, <2>4
    <3>2. {t \in T : t.tag = <<KdfTag[f]>>} = {tlv(f)}
      <4> HIDE DEF tlv
      <4>. QED
        BY <2>2, <3>1
    <3> HIDE DEF tlv, T
    <3>3. {t.octets : t \in {tlv(f)}} = {v(f)}
      BY <3>1
    <3>4. {w \in {v(f)} : f \in DOMAIN KdfSize => Len(w) = KdfSize[f]} = {v(f)}
      BY <1>2, <2>4
    <3>. QED
      BY ZenonT(60), <1>2, <2>1, <2>4, <3>2, <3>3, <3>4
  <2>. QED
    BY <2>3, <2>4
<1> DEFINE fields(inner) ==
        [f \in F |-> {w \in {t.octets : t \in Find(ConstructedTlv(<<249>>, inner), <<KdfTag[f]>>)} :
                        f \in DOMAIN KdfSize => Len(w) = KdfSize[f]}]
<1>12. fields(L) = k
  BY <1>1, <1>11
<1>13. KdfDoOf(KdfOctets(k)) = {r \in {fields(inner) : inner \in {L}} : r.algo # {}}
  BY Zenon, <1>8 DEF KdfDoOf
<1> HIDE DEF fields
<1>14. {fields(inner) : inner \in {L}} = {k}
  BY <1>12
<1>15. {r \in {k} : r.algo # {}} = {k}
  BY <1>1
<1>. QED
  BY <1>13, <1>14, <1>15 DEF KdfIsRead

-----------------------------------------------------------------------------
(* PW status bytes.                                                        *)

\* An octet is its seven low bits and its high one.
LEMMA HighBit ==
  ASSUME NEW o \in Byte
  PROVE  (o % 128) + (IF Bit(o, 7) THEN 128 ELSE 0) = o
<1>1. Bit(o, 7) <=> (o \div 128) % 2 = 1
  <2>1. 2^7 = 128
    OBVIOUS
  <2>. QED
    BY <2>1 DEF Bit
<1>2. CASE o < 128
  BY <1>1, <1>2 DEF Byte
<1>3. CASE o >= 128
  BY <1>1, <1>3 DEF Byte
<1>. QED
  BY <1>2, <1>3 DEF Byte

\* The status that is sent is the status that was read, but for the counters.
LEMMA StatusRead ==
  ASSUME NEW octets, IsStatus(octets)
  PROVE  StatusIsRead(octets)
<1> DEFINE p == [once |-> octets[1] = 0,
           pw1Block |-> Bit(octets[2], 7), pw1Len |-> octets[2] % 128, rcLen |-> octets[3],
           pw3Block |-> Bit(octets[4], 7), pw3Len |-> octets[4] % 128,
           left |-> SubSeq(octets, 5, 7)]
<1>1. octets \in Seq(Byte) /\ Len(octets) = 7 /\ octets[1] \in {0, 1}
  BY DEF IsStatus
<1>2. PwStatus(octets) = {p}
  BY <1>1 DEF PwStatus
<1>3. \A i \in 1..7 : octets[i] \in Byte
  BY <1>1, ByteSeq
<1>4. (IF p.once THEN 0 ELSE 1) = octets[1]
  BY <1>1
<1>5. p.pw1Len + (IF p.pw1Block THEN 128 ELSE 0) = octets[2]
  BY <1>3, HighBit
<1>6. p.pw3Len + (IF p.pw3Block THEN 128 ELSE 0) = octets[4]
  BY <1>3, HighBit
<1>7. p.rcLen = octets[3]
  OBVIOUS
<1> HIDE DEF p
<1>8. PutPwStatus(p, TRUE) = <<octets[1]>> \o <<octets[2], octets[3], octets[4]>>
  BY <1>4, <1>5, <1>6, <1>7 DEF PutPwStatus
<1>9. PutPwStatus(p, FALSE) = <<octets[1]>> \o <<>>
  BY <1>4 DEF PutPwStatus
<1>10. <<octets[1]>> \o <<octets[2], octets[3], octets[4]>> = Take(octets, 4)
  <2> DEFINE a == <<octets[1]>>
             b == <<octets[2], octets[3], octets[4]>>
  <2>1. a \in Seq(Byte) /\ b \in Seq(Byte) /\ Len(a) = 1 /\ Len(b) = 3
    BY <1>3
  <2>2. a[1] = octets[1] /\ b[1] = octets[2] /\ b[2] = octets[3] /\ b[3] = octets[4]
    OBVIOUS
  <2> HIDE DEF a, b
  <2>3. /\ (a \o b) \in Seq(Byte)
        /\ Len(a \o b) = Len(a) + Len(b)
        /\ \A i \in 1..Len(a) + Len(b) :
              (a \o b)[i] = IF i <= Len(a) THEN a[i] ELSE b[i - Len(a)]
    BY <2>1, ConcatProperties
  <2>4. /\ SubSeq(octets, 1, 4) \in Seq(Byte)
        /\ Len(SubSeq(octets, 1, 4)) = 4
        /\ \A i \in 1..4 : SubSeq(octets, 1, 4)[i] = octets[i]
    BY <1>3, SubSeqProperties, 4 - 1 + 1 = 4, \A i \in 1..4 : 1 + i - 1 = i
  <2>5. a \o b = SubSeq(octets, 1, 4)
    <3>1. \A i \in 1..4 : (a \o b)[i] = octets[i]
      BY <2>1, <2>2, <2>3
    <3>. QED
      BY <3>1, <2>1, <2>3, <2>4, SeqEqual
  <2>. QED
    BY <2>5 DEF a, b, Take
<1>11. <<octets[1]>> \o <<>> = Take(octets, 1)
  <2>1. <<octets[1]>> \o <<>> = <<octets[1]>>
    BY <1>3, ConcatEmptySeq
  <2>. QED
    BY <2>1, <1>1 DEF Take
<1>12. ASSUME NEW long \in BOOLEAN
      PROVE  {PutPwStatus(q, long) : q \in PwStatus(octets)} = {PutPwStatus(p, long)}
  BY <1>2
<1>. QED
  BY <1>12, <1>8, <1>9, <1>10, <1>11 DEF StatusIsRead

-----------------------------------------------------------------------------
(* Algorithm attributes.                                                   *)

\* A number of two octets
LEMMA Pair ==
  ASSUME NEW s \in Seq(Byte), NEW m \in Nat, 1 <= m, m < Len(s)
  PROVE  BE(SubSeq(s, m, m + 1)) = 256 * s[m] + s[m + 1]
<1>1. \A i \in m..m + 1 : s[i] \in Byte
  BY ByteSeq
<1>2. (m + 1) - m + 1 = 2 /\ m + 1 - 1 = m /\ m + 2 - 1 = m + 1
  OBVIOUS
<1>3. \A i \in 1..(m + 1) - m + 1 : SubSeq(s, m, m + 1)[i] = s[m + i - 1]
  BY <1>1, SubSeqProperties
<1>4. SubSeq(s, m, m + 1)[1] = s[m] /\ SubSeq(s, m, m + 1)[2] = s[m + 1]
  BY <1>2, <1>3
<1>. QED
  BY <1>4 DEF BE

\* All curves,
LEMMA Curves == Curve = {"NistP256r1", "NistP384r1", "NistP521r1", "BrainpoolP256r1", "BrainpoolP384r1", "BrainpoolP512r1", "Secp256k1", "Ed25519", "Curve25519", "Ed448", "X448"}
BY Zenon DEF Curve, Oid

\* and their object identifiers,
LEMMA Oids ==
  /\ Oid["NistP256r1"] = <<42, 134, 72, 206, 61, 3, 1, 7>>
  /\ Oid["NistP384r1"] = <<43, 129, 4, 0, 34>>
  /\ Oid["NistP521r1"] = <<43, 129, 4, 0, 35>>
  /\ Oid["BrainpoolP256r1"] = <<43, 36, 3, 3, 2, 8, 1, 1, 7>>
  /\ Oid["BrainpoolP384r1"] = <<43, 36, 3, 3, 2, 8, 1, 1, 11>>
  /\ Oid["BrainpoolP512r1"] = <<43, 36, 3, 3, 2, 8, 1, 1, 13>>
  /\ Oid["Secp256k1"] = <<43, 129, 4, 0, 10>>
  /\ Oid["Ed25519"] = <<43, 6, 1, 4, 1, 218, 71, 15, 1>>
  /\ Oid["Curve25519"] = <<43, 6, 1, 4, 1, 151, 85, 1, 5, 1>>
  /\ Oid["Ed448"] = <<43, 101, 113>>
  /\ Oid["X448"] = <<43, 101, 111>>
BY Zenon DEF Oid

\* which are octets.
LEMMA OidsTyped ==
  ASSUME NEW c \in Curve
  PROVE  Oid[c] \in Seq(Byte)
<1>1. <<42, 134, 72, 206, 61, 3, 1, 7>> \in Seq(Byte)
  BY SMT DEF Byte
<1>2. <<43, 129, 4, 0, 34>> \in Seq(Byte)
  BY SMT DEF Byte
<1>3. <<43, 129, 4, 0, 35>> \in Seq(Byte)
  BY SMT DEF Byte
<1>4. <<43, 36, 3, 3, 2, 8, 1, 1, 7>> \in Seq(Byte)
  BY SMT DEF Byte
<1>5. <<43, 36, 3, 3, 2, 8, 1, 1, 11>> \in Seq(Byte)
  BY SMT DEF Byte
<1>6. <<43, 36, 3, 3, 2, 8, 1, 1, 13>> \in Seq(Byte)
  BY SMT DEF Byte
<1>7. <<43, 129, 4, 0, 10>> \in Seq(Byte)
  BY SMT DEF Byte
<1>8. <<43, 6, 1, 4, 1, 218, 71, 15, 1>> \in Seq(Byte)
  BY SMT DEF Byte
<1>9. <<43, 6, 1, 4, 1, 151, 85, 1, 5, 1>> \in Seq(Byte)
  BY SMT DEF Byte
<1>10. <<43, 101, 113>> \in Seq(Byte)
  BY SMT DEF Byte
<1>11. <<43, 101, 111>> \in Seq(Byte)
  BY SMT DEF Byte
<1>12. CASE c = "NistP256r1"
  BY Zenon, <1>1, <1>12, Oids
<1>13. CASE c = "NistP384r1"
  BY Zenon, <1>2, <1>13, Oids
<1>14. CASE c = "NistP521r1"
  BY Zenon, <1>3, <1>14, Oids
<1>15. CASE c = "BrainpoolP256r1"
  BY Zenon, <1>4, <1>15, Oids
<1>16. CASE c = "BrainpoolP384r1"
  BY Zenon, <1>5, <1>16, Oids
<1>17. CASE c = "BrainpoolP512r1"
  BY Zenon, <1>6, <1>17, Oids
<1>18. CASE c = "Secp256k1"
  BY Zenon, <1>7, <1>18, Oids
<1>19. CASE c = "Ed25519"
  BY Zenon, <1>8, <1>19, Oids
<1>20. CASE c = "Curve25519"
  BY Zenon, <1>9, <1>20, Oids
<1>21. CASE c = "Ed448"
  BY Zenon, <1>10, <1>21, Oids
<1>22. CASE c = "X448"
  BY Zenon, <1>11, <1>22, Oids
<1>. QED
  BY Zenon, Curves, <1>12, <1>13, <1>14, <1>15, <1>16, <1>17, <1>18, <1>19, <1>20, <1>21, <1>22

\* What tells an identifier from the others of its length
LEMMA Digits ==
  ASSUME NEW c \in Curve
  PROVE  \/ c = "NistP256r1" /\ Len(Oid[c]) = 8 /\ Oid[c][2] = 134
         \/ c = "NistP384r1" /\ Len(Oid[c]) = 5 /\ Oid[c][2] = 129 /\ Oid[c][5] = 34
         \/ c = "NistP521r1" /\ Len(Oid[c]) = 5 /\ Oid[c][2] = 129 /\ Oid[c][5] = 35
         \/ c = "BrainpoolP256r1" /\ Len(Oid[c]) = 9 /\ Oid[c][2] = 36 /\ Oid[c][9] = 7
         \/ c = "BrainpoolP384r1" /\ Len(Oid[c]) = 9 /\ Oid[c][2] = 36 /\ Oid[c][9] = 11
         \/ c = "BrainpoolP512r1" /\ Len(Oid[c]) = 9 /\ Oid[c][2] = 36 /\ Oid[c][9] = 13
         \/ c = "Secp256k1" /\ Len(Oid[c]) = 5 /\ Oid[c][2] = 129 /\ Oid[c][5] = 10
         \/ c = "Ed25519" /\ Len(Oid[c]) = 9 /\ Oid[c][2] = 6 /\ Oid[c][6] = 218
         \/ c = "Curve25519" /\ Len(Oid[c]) = 10 /\ Oid[c][2] = 6 /\ Oid[c][6] = 151
         \/ c = "Ed448" /\ Len(Oid[c]) = 3 /\ Oid[c][2] = 101 /\ Oid[c][3] = 113
         \/ c = "X448" /\ Len(Oid[c]) = 3 /\ Oid[c][2] = 101 /\ Oid[c][3] = 111
<1>1. CASE c = "NistP256r1"
  <2>1. Len(Oid["NistP256r1"]) = 8 /\ Oid["NistP256r1"][2] = 134
    BY SMT, Oids
  <2>. QED
    BY Zenon, <1>1, <2>1
<1>2. CASE c = "NistP384r1"
  <2>1. Len(Oid["NistP384r1"]) = 5 /\ Oid["NistP384r1"][2] = 129 /\ Oid["NistP384r1"][5] = 34
    BY SMT, Oids
  <2>. QED
    BY Zenon, <1>2, <2>1
<1>3. CASE c = "NistP521r1"
  <2>1. Len(Oid["NistP521r1"]) = 5 /\ Oid["NistP521r1"][2] = 129 /\ Oid["NistP521r1"][5] = 35
    BY SMT, Oids
  <2>. QED
    BY Zenon, <1>3, <2>1
<1>4. CASE c = "BrainpoolP256r1"
  <2>1. Len(Oid["BrainpoolP256r1"]) = 9 /\ Oid["BrainpoolP256r1"][2] = 36 /\ Oid["BrainpoolP256r1"][9] = 7
    BY SMT, Oids
  <2>. QED
    BY Zenon, <1>4, <2>1
<1>5. CASE c = "BrainpoolP384r1"
  <2>1. Len(Oid["BrainpoolP384r1"]) = 9 /\ Oid["BrainpoolP384r1"][2] = 36 /\ Oid["BrainpoolP384r1"][9] = 11
    BY SMT, Oids
  <2>. QED
    BY Zenon, <1>5, <2>1
<1>6. CASE c = "BrainpoolP512r1"
  <2>1. Len(Oid["BrainpoolP512r1"]) = 9 /\ Oid["BrainpoolP512r1"][2] = 36 /\ Oid["BrainpoolP512r1"][9] = 13
    BY SMT, Oids
  <2>. QED
    BY Zenon, <1>6, <2>1
<1>7. CASE c = "Secp256k1"
  <2>1. Len(Oid["Secp256k1"]) = 5 /\ Oid["Secp256k1"][2] = 129 /\ Oid["Secp256k1"][5] = 10
    BY SMT, Oids
  <2>. QED
    BY Zenon, <1>7, <2>1
<1>8. CASE c = "Ed25519"
  <2>1. Len(Oid["Ed25519"]) = 9 /\ Oid["Ed25519"][2] = 6 /\ Oid["Ed25519"][6] = 218
    BY SMT, Oids
  <2>. QED
    BY Zenon, <1>8, <2>1
<1>9. CASE c = "Curve25519"
  <2>1. Len(Oid["Curve25519"]) = 10 /\ Oid["Curve25519"][2] = 6 /\ Oid["Curve25519"][6] = 151
    BY SMT, Oids
  <2>. QED
    BY Zenon, <1>9, <2>1
<1>10. CASE c = "Ed448"
  <2>1. Len(Oid["Ed448"]) = 3 /\ Oid["Ed448"][2] = 101 /\ Oid["Ed448"][3] = 113
    BY SMT, Oids
  <2>. QED
    BY Zenon, <1>10, <2>1
<1>11. CASE c = "X448"
  <2>1. Len(Oid["X448"]) = 3 /\ Oid["X448"][2] = 101 /\ Oid["X448"][3] = 111
    BY SMT, Oids
  <2>. QED
    BY Zenon, <1>11, <2>1
<1>. QED
  BY Zenon, Curves, <1>1, <1>2, <1>3, <1>4, <1>5, <1>6, <1>7, <1>8, <1>9, <1>10, <1>11

\* d is not a prefix of c.
Apart(c, d) == Len(c) < Len(d) \/ \E i \in 1..Len(d) : c[i] # d[i]

\* No identifier is a prefix of another one.
LEMMA OidsApart ==
  ASSUME NEW c \in Curve, NEW d \in Curve, c # d
  PROVE  Apart(Oid[c], Oid[d])
<1>1. Len(Oid[c]) \in Nat /\ Len(Oid[d]) \in Nat
  BY OidsTyped, LenProperties
<1> SUFFICES ASSUME Len(Oid[c]) >= Len(Oid[d]), \A i \in 1..Len(Oid[d]) : Oid[c][i] = Oid[d][i]
             PROVE  FALSE
  BY <1>1 DEF Apart
<1>2. \A n \in {2, 3, 5, 6, 9} : n <= Len(Oid[d]) => Oid[c][n] = Oid[d][n]
  BY <1>1
<1>3. /\ 2 <= Len(Oid[d]) => Oid[c][2] = Oid[d][2]
      /\ 3 <= Len(Oid[d]) => Oid[c][3] = Oid[d][3]
      /\ 5 <= Len(Oid[d]) => Oid[c][5] = Oid[d][5]
      /\ 6 <= Len(Oid[d]) => Oid[c][6] = Oid[d][6]
      /\ 9 <= Len(Oid[d]) => Oid[c][9] = Oid[d][9]
  BY <1>2
<1>4. \/ c = "NistP256r1" /\ Oid[c][2] = 134
      \/ c \in {"NistP384r1", "NistP521r1", "Secp256k1"} /\ Oid[c][2] = 129
      \/ c \in {"BrainpoolP256r1", "BrainpoolP384r1", "BrainpoolP512r1"} /\ Oid[c][2] = 36
      \/ c \in {"Ed25519", "Curve25519"} /\ Oid[c][2] = 6
      \/ c \in {"Ed448", "X448"} /\ Oid[c][2] = 101
  BY Digits
<1>5. Oid[c][2] = Oid[d][2]
  BY <1>3, Digits
<1>6. CASE d = "NistP256r1"
  BY <1>4, <1>5, <1>6, Digits
<1>7. CASE d \in {"NistP384r1", "NistP521r1", "Secp256k1"}
  BY SMTT(60), <1>3, <1>4, <1>5, <1>7, Digits
<1>8. CASE d \in {"BrainpoolP256r1", "BrainpoolP384r1", "BrainpoolP512r1"}
  BY SMTT(60), <1>3, <1>4, <1>5, <1>8, Digits
<1>9. CASE d \in {"Ed25519", "Curve25519"}
  BY SMTT(60), <1>3, <1>4, <1>5, <1>9, Digits
<1>10. CASE d \in {"Ed448", "X448"}
  BY <1>3, <1>4, <1>5, <1>10, Digits
<1>. QED
  BY <1>6, <1>7, <1>8, <1>9, <1>10, Curves

\* A prefix agrees octet for octet.
LEMMA PrefixAt ==
  ASSUME NEW p \in Seq(Byte), NEW in \in Seq(Byte), IsPrefix(p, in)
  PROVE  Len(p) <= Len(in) /\ \A i \in 1..Len(p) : p[i] = in[i]
<1>1. Len(p) \in Nat /\ Len(in) \in Nat /\ Len(p) <= Len(in) /\ SubSeq(p, 1, Len(p)) = SubSeq(in, 1, Len(p))
  BY LenProperties DEF IsPrefix
<1>2. ASSUME NEW i \in 1..Len(p) PROVE p[i] = in[i]
  <2>1. SubSeq(p, 1, Len(p))[i] = p[i] /\ SubSeq(in, 1, Len(p))[i] = in[i]
    BY <1>1, LenProperties
  <2>. QED
    BY <1>1, <2>1
<1>. QED
  BY <1>1, <1>2

\* An identifier of an algorithm before an OID
LEMMA WithId ==
  ASSUME NEW type \in DOMAIN EccId, NEW curve \in Curve
  PROVE  LET in == <<EccId[type]>> \o Oid[curve]
         IN  /\ in \in Seq(Byte)
             /\ Len(in) = 1 + Len(Oid[curve])
             /\ in[1] = EccId[type]
             /\ \A i \in 1..Len(Oid[curve]) : in[1 + i] = Oid[curve][i]
<1> DEFINE q == <<EccId[type]>>
<1>1. EccId[type] \in Byte
  BY DEF EccId, Byte
<1>2. q \in Seq(Byte) /\ Len(q) = 1 /\ q[1] = EccId[type]
  BY <1>1
<1> HIDE DEF q
<1>3. /\ q \o Oid[curve] \in Seq(Byte)
      /\ Len(q \o Oid[curve]) = 1 + Len(Oid[curve])
      /\ (q \o Oid[curve])[1] = EccId[type]
      /\ \A i \in 1..Len(Oid[curve]) : (q \o Oid[curve])[1 + i] = Oid[curve][i]
  BY <1>2, OidsTyped, JoinedBytes
<1>. QED
  BY <1>3 DEF q

\* The octets of attributes of an ECC key begin with one algorithm and one OID only.
LEMMA OnePrefix ==
  ASSUME NEW type \in DOMAIN EccId, NEW curve \in Curve,
         NEW t \in DOMAIN EccId, NEW c \in Curve
  PROVE  IsPrefix(<<EccId[t]>> \o Oid[c], <<EccId[type]>> \o Oid[curve])
            <=> t = type /\ c = curve
<1> DEFINE p == <<EccId[t]>> \o Oid[c]
           in == <<EccId[type]>> \o Oid[curve]
<1>1. /\ p \in Seq(Byte) /\ in \in Seq(Byte)
      /\ Len(p) = 1 + Len(Oid[c]) /\ Len(in) = 1 + Len(Oid[curve])
      /\ p[1] = EccId[t] /\ in[1] = EccId[type]
      /\ \A i \in 1..Len(Oid[c]) : p[1 + i] = Oid[c][i]
      /\ \A i \in 1..Len(Oid[curve]) : in[1 + i] = Oid[curve][i]
  BY WithId
<1>2. Len(Oid[c]) \in Nat /\ Len(Oid[curve]) \in Nat
  BY OidsTyped, LenProperties
<1>3. t = type /\ c = curve => IsPrefix(p, in)
  BY <1>1 DEF IsPrefix
<1> HIDE DEF p, in
<1>4. ASSUME IsPrefix(p, in) PROVE t = type /\ c = curve
  <2>1. Len(p) <= Len(in) /\ \A i \in 1..Len(p) : p[i] = in[i]
    BY <1>1, <1>4, PrefixAt
  <2>2. EccId[t] = EccId[type]
    BY <1>1, <1>2, <2>1
  <2>3. t = type
    BY <2>2 DEF EccId
  <2>4. ASSUME NEW i \in 1..Len(Oid[c]) PROVE Oid[c][i] = Oid[curve][i]
    BY <1>1, <1>2, <2>1, 1 + i \in 1..Len(p), i \in 1..Len(Oid[curve])
  <2>5. ~Apart(Oid[curve], Oid[c])
    BY <1>1, <1>2, <2>1, <2>4 DEF Apart
  <2>. QED
    BY <2>3, <2>5, OidsApart
<1>. QED
  BY <1>3, <1>4 DEF p, in

\* A parser that left nothing over has succeeded.
LEMMA CompleteOne ==
  ASSUME NEW v
  PROVE  Complete({[value |-> v, rest |-> <<>>]}) = {v}
<1>1. PICK p : p = [value |-> v, rest |-> <<>>]
  OBVIOUS
<1>2. p.value = v /\ p.rest = <<>>
  BY <1>1
<1>3. {q \in {p} : q.rest = <<>>} = {p}
  BY <1>2
<1>4. Complete({p}) = {v}
  BY <1>2, <1>3 DEF Complete
<1>. QED
  BY <1>1, <1>4

\* Attributes of ECC keys are read as they were written.
LEMMA EccRead ==
  ASSUME NEW type \in EccType, NEW curve \in Curve
  PROVE  AttributesAreRead(Ecc(type, curve, {}))
<1> DEFINE a == Ecc(type, curve, {})
           in == <<EccId[type]>> \o Oid[curve]
           len == Len(Oid[curve])
<1>1. type \in DOMAIN EccId /\ EccId[type] # 1 /\ len \in Nat
  BY OidsTyped, LenProperties DEF EccType, EccId
<1>2. AttributesOctets(a) = in
  BY DEF AttributesOctets, Ecc
<1>3. in \in Seq(Byte) /\ Len(in) = 1 + len /\ in[1] # 1
  BY <1>1, WithId
<1>4. ParseRsa(in) = {}
  BY <1>3 DEF ParseRsa
<1>5. {x \in (DOMAIN EccId) \X Curve : IsPrefix(<<EccId[x[1]]>> \o Oid[x[2]], in)} = {<<type, curve>>}
  BY <1>1, OnePrefix
<1> HIDE DEF in
<1>6. {in[i] : i \in {2 + len} \cap DOMAIN in} = {}
  BY <1>1, <1>3, LenProperties
<1>7. Drop(in, 2 + len) = <<>>
  BY <1>1, <1>3, SubSeqEmpty DEF Drop
<1>8. ParseEcc(in) = {[value |-> a, rest |-> <<>>]}
  <2> DEFINE parsed(x) ==
        [value |-> Ecc(x[1], x[2], {in[i] : i \in {2 + Len(Oid[x[2]])} \cap DOMAIN in}),
         rest |-> Drop(in, 2 + Len(Oid[x[2]]))]
  <2>1. ParseEcc(in) = {parsed(x) : x \in {<<type, curve>>}}
    BY Zenon, <1>5 DEF ParseEcc
  <2>2. parsed(<<type, curve>>) = [value |-> a, rest |-> <<>>]
    BY <1>6, <1>7
  <2>. QED
    BY <2>1, <2>2
<1>9. Complete({[value |-> a, rest |-> <<>>]}) = {a}
  BY CompleteOne
<1>10. Complete(ParseAttributes(in)) = {a}
  BY <1>4, <1>8, <1>9 DEF ParseAttributes
<1>. QED
  BY <1>2, <1>10 DEF AttributesAreRead

\* One octet, two and three are six.
LEMMA Six ==
  ASSUME NEW x \in Seq(Byte), NEW y \in Seq(Byte), NEW z \in Seq(Byte),
         Len(x) = 1, Len(y) = 2, Len(z) = 3
  PROVE  /\ (x \o y) \o z \in Seq(Byte)
         /\ Len((x \o y) \o z) = 6
         /\ ((x \o y) \o z)[1] = x[1]
         /\ ((x \o y) \o z)[2] = y[1]
         /\ ((x \o y) \o z)[3] = y[2]
         /\ ((x \o y) \o z)[4] = z[1]
         /\ ((x \o y) \o z)[5] = z[2]
         /\ ((x \o y) \o z)[6] = z[3]
<1>1. /\ x \o y \in Seq(Byte)
      /\ Len(x \o y) = Len(x) + Len(y)
      /\ \A i \in 1..Len(x) : (x \o y)[i] = x[i]
      /\ \A i \in 1..Len(y) : (x \o y)[Len(x) + i] = y[i]
  BY JoinedBytes
<1>2. PICK w \in Seq(Byte) : w = x \o y
  BY <1>1
<1>3. Len(w) = 3 /\ w[1] = x[1] /\ w[2] = y[1] /\ w[3] = y[2]
  <2>1. 1 \in 1..1 /\ 1 \in 1..2 /\ 2 \in 1..2
    OBVIOUS
  <2>2. w[1] = x[1] /\ w[1 + 1] = y[1] /\ w[1 + 2] = y[2]
    BY <1>1, <1>2, <2>1
  <2>. QED
    BY <1>1, <1>2, <2>2
<1>4. /\ w \o z \in Seq(Byte)
      /\ Len(w \o z) = Len(w) + Len(z)
      /\ \A i \in 1..Len(w) : (w \o z)[i] = w[i]
      /\ \A i \in 1..Len(z) : (w \o z)[Len(w) + i] = z[i]
  BY JoinedBytes
<1>5. PICK v \in Seq(Byte) : v = w \o z
  BY <1>4
<1>6. \A i \in 1..3 : v[i] = w[i] /\ v[3 + i] = z[i]
  BY <1>3, <1>4, <1>5
<1>7. /\ v[1] = w[1] /\ v[2] = w[2] /\ v[3] = w[3]
      /\ v[3 + 1] = z[1] /\ v[3 + 2] = z[2] /\ v[3 + 3] = z[3]
  BY <1>6, 1 \in 1..3, 2 \in 1..3, 3 \in 1..3
<1>8. /\ v[1] = x[1] /\ v[2] = y[1] /\ v[3] = y[2]
      /\ v[4] = z[1] /\ v[5] = z[2] /\ v[6] = z[3]
  BY <1>3, <1>7
<1>9. Len(v) = 6
  BY <1>3, <1>4, <1>5
<1>. QED
  BY Zenon, <1>2, <1>5, <1>8, <1>9

\* Attributes of RSA keys are, too.
LEMMA RsaRead ==
  ASSUME NEW n \in Nat, n \div 256 \in Byte, NEW e \in Byte, NEW format \in Byte
  PROVE  AttributesAreRead(Rsa(n, e, format))
<1> DEFINE a == Rsa(n, e, format)
<1>1. n \div 256 \in Byte /\ n % 256 \in Byte /\ n = 256 * (n \div 256) + (n % 256)
  BY HighLow, LowOctet
<1>2. 0 \in Byte /\ 1 \in Byte
  BY DEF Byte
<1> DEFINE x == <<1>>
           y == <<n \div 256, n % 256>>
           z == <<0, e, format>>
           in == (x \o y) \o z
<1>3. AttributesOctets(a) = in
  <2>1. e % 256 = e
    BY DEF Byte
  <2>2. a.kind = "rsa" /\ a.n = n /\ a.e = e /\ a.format = format
    BY DEF Rsa
  <2>. QED
    BY <2>1, <2>2 DEF AttributesOctets, BE16
<1>4. x \in Seq(Byte) /\ Len(x) = 1 /\ x[1] = 1
  BY <1>2, One
<1>5. y \in Seq(Byte) /\ Len(y) = 2 /\ y[1] = n \div 256 /\ y[2] = n % 256
  BY <1>1, Two
<1>6. z \in Seq(Byte) /\ Len(z) = 3 /\ z[1] = 0 /\ z[2] = e /\ z[3] = format
  BY <1>2, Three
<1> HIDE DEF x, y, z
<1>7. /\ in \in Seq(Byte) /\ Len(in) = 6
      /\ in[1] = x[1] /\ in[2] = y[1] /\ in[3] = y[2]
      /\ in[4] = z[1] /\ in[5] = z[2] /\ in[6] = z[3]
  BY SMTT(60), <1>4, <1>5, <1>6, Six
<1> HIDE DEF in
<1>8. in[1] = 1 /\ in[2] = n \div 256 /\ in[3] = n % 256 /\ in[4] = 0 /\ in[5] = e /\ in[6] = format
  BY <1>4, <1>5, <1>6, <1>7
<1>9. 2 \in Nat /\ 1 <= 2 /\ 2 < Len(in) /\ 4 \in Nat /\ 1 <= 4 /\ 4 < Len(in)
  BY <1>7
<1>10. BE(SubSeq(in, 2, 3)) = n /\ BE(SubSeq(in, 4, 5)) = e
  <2>1. BE(SubSeq(in, 2, 2 + 1)) = 256 * in[2] + in[2 + 1]
    BY Zenon, <1>7, <1>9, Pair
  <2>2. BE(SubSeq(in, 4, 4 + 1)) = 256 * in[4] + in[4 + 1]
    BY Zenon, <1>7, <1>9, Pair
  <2>. QED
    BY <2>1, <2>2, <1>1, <1>8 DEF Byte
<1>11. Drop(in, 6) = <<>>
  BY <1>7, SubSeqEmpty DEF Drop
<1>12. ParseRsa(in) = {[value |-> a, rest |-> <<>>]}
  BY <1>7, <1>8, <1>10, <1>11 DEF ParseRsa
<1>13. ParseEcc(in) = {}
  <2> SUFFICES ASSUME NEW t \in DOMAIN EccId, NEW c \in Curve,
                      IsPrefix(<<EccId[t]>> \o Oid[c], in)
               PROVE  FALSE
    BY DEF ParseEcc
  <2> DEFINE p == <<EccId[t]>> \o Oid[c]
  <2>1. p \in Seq(Byte) /\ Len(p) = 1 + Len(Oid[c]) /\ p[1] = EccId[t]
    BY WithId
  <2>2. Len(Oid[c]) \in Nat /\ EccId[t] # 1
    BY OidsTyped, LenProperties DEF EccId
  <2> HIDE DEF p
  <2>3. IsPrefix(p, in)
    BY DEF p
  <2>4. \A i \in 1..Len(p) : p[i] = in[i]
    BY Zenon, <1>7, <2>1, <2>3, PrefixAt
  <2>. QED
    BY <1>8, <2>1, <2>2, <2>4, 1 \in 1..Len(p)
<1>14. ParseAttributes(in) = {[value |-> a, rest |-> <<>>]}
  BY <1>12, <1>13 DEF ParseAttributes
<1>15. Complete(ParseAttributes(in)) = {a}
  BY <1>14, CompleteOne
<1>. QED
  BY <1>3, <1>15 DEF AttributesAreRead

-----------------------------------------------------------------------------
(* What is written is read.                                                *)

\* What the library writes, it reads (tlv.rs:32-80, kdf_do.rs, pw_status.rs,
\* algorithm.rs:245-283): every tree of TLVs with values below 2^16 octets, every KDF-DO
\* with its first field, all PW status bytes and all algorithm attributes with a modulus
\* below 2^16 bits and an exponent of at most eight.
THEOREM WrittenObjects ==
  ASSUME NEW T, AreTlvs(T),
         sample.what = "tree" => sample.value \in T,
         sample.what = "kdf" => IsKdfDo(sample.value),
         sample.what = "status" => IsStatus(sample.value),
         sample.what = "attributes" => sample.value \in RsaAttributes(U16, Byte, Byte) \cup EccAttributes
  PROVE  WrittenObjectsAreRead
<1>1. sample.what = "tree" => TreeIsRead(sample.value)
  BY TreeRead
<1>2. sample.what = "kdf" => KdfIsRead(sample.value)
  BY KdfRead
<1>3. sample.what = "status" => StatusIsRead(sample.value)
  BY StatusRead
<1>4. ASSUME NEW a \in RsaAttributes(U16, Byte, Byte) \cup EccAttributes
      PROVE  AttributesAreRead(a)
  <2>1. ASSUME NEW n \in U16, NEW e \in Byte, NEW format \in Byte
        PROVE  AttributesAreRead(Rsa(n, e, format))
    BY Words, RsaRead
  <2>2. ASSUME NEW type \in EccType, NEW curve \in Curve
        PROVE  AttributesAreRead(Ecc(type, curve, {}))
    BY EccRead
  <2>3. a \in RsaAttributes(U16, Byte, Byte) \/ a \in EccAttributes
    OBVIOUS
  <2>. QED
    BY <2>1, <2>2, <2>3 DEF RsaAttributes, EccAttributes
<1>. QED
  BY <1>1, <1>2, <1>3, <1>4 DEF WrittenObjectsAreRead

-----------------------------------------------------------------------------
(* The import of RSA keys.                                                 *)

\* An exponent is not longer than the field that its length in bits asks for, which
\* is short enough for a length of one octet.
LEMMA Exponent ==
  ASSUME NEW a, a.e \in 0..1016, NEW len \in Nat, 8 * len <= a.e + 7
  PROVE  ExponentLength(a) \in 0..127 /\ ExponentLength(a) >= len
<1>1. PICK e \in 0..1016 : e = a.e
  OBVIOUS
<1>2. PICK l \in Nat : l = (e + 7) \div 8 /\ 8 * l <= e + 7 /\ e + 7 < 8 * l + 8
  BY SMT
<1>3. l < 128 /\ len <= l
  <2>1. 8 * len <= e + 7
    BY <1>1
  <2>. QED
    BY SMT, <1>2, <2>1
<1>6. l % 256 = l
  BY SMT, <1>3
<1>4. (e + 7) % 65536 = e + 7
  BY SMT
<1>5. ExponentLength(a) = l
  BY <1>1, <1>2, <1>4, <1>6 DEF ExponentLength
<1>. QED
  BY <1>2, <1>3, <1>5

\* A field is a length field of its length,
LEMMA FieldAlone ==
  ASSUME NEW n, Short(n)
  PROVE  IsLengthField(EncodeLength(n), n)
<1>1. PICK f \in Seq(Byte) : f = EncodeLength(n)
  BY FieldRead, EmptySeq
<1>2. <<>> \in Seq(Byte) /\ f \o <<>> = f
  BY EmptySeq, ConcatEmptySeq
<1>3. ParseLength(f \o <<>>) = [octets |-> Len(f), value |-> n]
  BY <1>1, <1>2, FieldRead
<1>. QED
  BY <1>1, <1>2, <1>3 DEF IsLengthField

\* and so is one octet below 128.
LEMMA OctetAlone ==
  ASSUME NEW n \in 0..127
  PROVE  IsLengthField(<<n>>, n)
BY DEF IsLengthField, ParseLength

\* A part that is announced as it is sent, and parts
Matches(p, q) == p.part = q.part /\ IsLengthField(p.length, q.length)
Alike(announced, sent) ==
    /\ \E S, T : announced \in Seq(S) /\ sent \in Seq(T)
    /\ Len(announced) = Len(sent)
    /\ \A i \in 1..Len(sent) : Matches(announced[i], sent[i])

\* One part, three parts, none,
LEMMA FewAlike ==
  /\ \A p, q : Matches(p, q) => Alike(<<p>>, <<q>>)
  /\ \A p1, p2, p3, q1, q2, q3 :
        Matches(p1, q1) /\ Matches(p2, q2) /\ Matches(p3, q3) =>
            Alike(<<p1, p2, p3>>, <<q1, q2, q3>>)
  /\ Alike(<<>>, <<>>)
<1>1. ASSUME NEW p, NEW q, Matches(p, q) PROVE Alike(<<p>>, <<q>>)
  <2>1. PICK P, Q : P = {p} /\ Q = {q}
    OBVIOUS
  <2>2. p \in P /\ q \in Q
    BY <2>1
  <2>3. <<p>> \in Seq(P) /\ <<q>> \in Seq(Q) /\ Len(<<p>>) = 1 /\ Len(<<q>>) = 1
    BY <2>2
  <2>4. \A i \in 1..1 : Matches(<<p>>[i], <<q>>[i])
    BY <1>1
  <2>. QED
    BY <2>3, <2>4 DEF Alike
<1>2. ASSUME NEW p1, NEW p2, NEW p3, NEW q1, NEW q2, NEW q3,
             Matches(p1, q1), Matches(p2, q2), Matches(p3, q3)
      PROVE  Alike(<<p1, p2, p3>>, <<q1, q2, q3>>)
  <2>1. /\ <<p1, p2, p3>> \in Seq({p1, p2, p3}) /\ <<q1, q2, q3>> \in Seq({q1, q2, q3})
        /\ Len(<<p1, p2, p3>>) = 3 /\ Len(<<q1, q2, q3>>) = 3
    OBVIOUS
  <2>2. \A i \in 1..3 : Matches(<<p1, p2, p3>>[i], <<q1, q2, q3>>[i])
    BY <1>2
  <2>. QED
    BY <2>1, <2>2 DEF Alike
<1>3. Alike(<<>>, <<>>)
  BY EmptySeq DEF Alike
<1>. QED
  BY <1>1, <1>2, <1>3

\* and parts one behind the other.
LEMMA JoinedAlike ==
  ASSUME NEW p, NEW q, NEW r, NEW s, Alike(p, q), Alike(r, s)
  PROVE  Alike(p \o r, q \o s)
<1>1. PICK S1, T1 : p \in Seq(S1) /\ q \in Seq(T1)
  BY DEF Alike
<1>2. PICK S2, T2 : r \in Seq(S2) /\ s \in Seq(T2)
  BY DEF Alike
<1> DEFINE S == S1 \cup S2
           T == T1 \cup T2
<1>3. p \in Seq(S) /\ r \in Seq(S) /\ q \in Seq(T) /\ s \in Seq(T)
  BY <1>1, <1>2, SeqMonotonic
<1> HIDE DEF S, T
<1>4. /\ Len(p) \in Nat /\ Len(r) \in Nat /\ Len(p) = Len(q) /\ Len(r) = Len(s)
      /\ \A i \in 1..Len(q) : Matches(p[i], q[i])
      /\ \A i \in 1..Len(s) : Matches(r[i], s[i])
  BY <1>3, LenProperties DEF Alike
<1>5. /\ p \o r \in Seq(S) /\ Len(p \o r) = Len(p) + Len(r)
      /\ \A i \in 1..Len(p) + Len(r) : (p \o r)[i] = IF i <= Len(p) THEN p[i] ELSE r[i - Len(p)]
  BY <1>3, ConcatProperties
<1>6. /\ q \o s \in Seq(T) /\ Len(q \o s) = Len(q) + Len(s)
      /\ \A i \in 1..Len(q) + Len(s) : (q \o s)[i] = IF i <= Len(q) THEN q[i] ELSE s[i - Len(q)]
  BY <1>3, ConcatProperties
<1>7. ASSUME NEW i \in 1..Len(p) + Len(r) PROVE Matches((p \o r)[i], (q \o s)[i])
  <2>1. CASE i <= Len(p)
    BY <1>4, <1>5, <1>6, <2>1
  <2>2. CASE ~(i <= Len(p))
    <3>1. i - Len(p) \in 1..Len(s)
      BY <1>4, <2>2
    <3>. QED
      BY <1>4, <1>5, <1>6, <2>2, <3>1
  <2>. QED
    BY <2>1, <2>2
<1>. QED
  BY <1>4, <1>5, <1>6, <1>7 DEF Alike

\* Half the modulus is a prime, the exponent is padded to what the card asks for, and
\* every length is in its field.
LEMMA ImportsFit ==
  ASSUME NEW v, IsImport(v)
  PROVE  ImportFits(v)
<1> DEFINE a == v.a
           k == v.k
           asks == ExponentLength(a)
           sends == IF asks > k.e THEN asks ELSE k.e
<1>1. /\ a.e \in 0..1016 /\ a.n \in U16 /\ k.e \in Nat /\ k.p \in Nat
      /\ 16 * k.p \in a.n - 15..a.n /\ k.q = k.p /\ 8 * k.e <= a.e + 7
      /\ k.n \in U16 /\ k.pq \in U16 /\ k.dp1 \in U16 /\ k.dq1 \in U16
  BY SMTT(60) DEF IsImport
<1>2. asks \in 0..127 /\ sends = asks
  <2>1. asks \in 0..127 /\ asks >= k.e
    BY <1>1, Exponent
  <2>. QED
    BY <1>1, <2>1
<1>3. a.n \in Nat /\ Short(a.n)
  BY <1>1, ShortWord
<1>4. k.p = a.n \div 16 /\ Short(a.n \div 16)
  <2>1. PICK n \in Nat : n = a.n /\ n < 65536
    BY <1>3 DEF Short
  <2>2. PICK p \in Nat : p = k.p /\ 16 * p \in n - 15..n
    BY <1>1, <2>1
  <2>3. p = n \div 16 /\ n \div 16 \in Nat /\ n \div 16 <= n
    BY SMT, <2>1, <2>2
  <2>. QED
    BY <2>1, <2>2, <2>3 DEF Short
<1>5. Matches(KeyPart("e", <<asks>>), KeyPart("e", sends))
  BY <1>2, OctetAlone DEF Matches, KeyPart
<1>6. ASSUME NEW name \in {"p", "q"}
      PROVE  Matches(KeyPart(name, EncodeLength(a.n \div 16)), KeyPart(name, k[name]))
  <2>1. k[name] = a.n \div 16
    BY <1>1, <1>4
  <2>. QED
    BY <1>4, <2>1, FieldAlone DEF Matches, KeyPart
<1>7. ASSUME NEW name \in {"n", "pq", "dp1", "dq1"}
      PROVE  Matches(KeyPart(name, EncodeLength(k[name] % 65536)), KeyPart(name, k[name]))
  <2>1. k[name] \in U16
    BY <1>1
  <2>2. PICK m : m = k[name]
    OBVIOUS
  <2>3. Short(m) /\ m % 65536 = m
    BY <2>1, <2>2, ShortWord
  <2>. QED
    BY <2>2, <2>3, FieldAlone DEF Matches, KeyPart
<1> DEFINE field(name) == KeyPart(name, EncodeLength(k[name] % 65536))
           half(name) == KeyPart(name, EncodeLength(a.n \div 16))
           sent(name) == KeyPart(name, k[name])
           a1 == <<KeyPart("e", <<asks>>), half("p"), half("q")>>
           s1 == <<KeyPart("e", sends), sent("p"), sent("q")>>
           a2 == IF a.format \in {2, 3} THEN <<field("pq"), field("dp1"), field("dq1")>> ELSE <<>>
           s2 == IF a.format \in {2, 3} THEN <<sent("pq"), sent("dp1"), sent("dq1")>> ELSE <<>>
           a3 == IF a.format \in {1, 3} THEN <<field("n")>> ELSE <<>>
           s3 == IF a.format \in {1, 3} THEN <<sent("n")>> ELSE <<>>
<1>8. Alike(a1, s1)
  BY <1>5, <1>6, FewAlike
<1>9. Alike(a2, s2)
  BY <1>7, FewAlike
<1>10. Alike(a3, s3)
  BY <1>7, FewAlike
<1>11. RsaAnnounced(a, k) = a1 \o a2 \o a3 /\ RsaSent(a, k) = s1 \o s2 \o s3
  BY DEF RsaAnnounced, RsaSent
<1> HIDE DEF a1, a2, a3, s1, s2, s3
<1>12. Alike(RsaAnnounced(a, k), RsaSent(a, k))
  BY <1>8, <1>9, <1>10, <1>11, JoinedAlike
<1>13. PICK announced, sents : announced = RsaAnnounced(a, k) /\ sents = RsaSent(a, k)
  OBVIOUS
<1>14. Alike(announced, sents)
  BY <1>12, <1>13
<1>15. /\ DOMAIN announced = 1..Len(announced) /\ DOMAIN sents = 1..Len(sents)
       /\ Len(announced) = Len(sents)
  BY <1>14, LenProperties DEF Alike
<1>16. \A i \in DOMAIN sents : Matches(announced[i], sents[i])
  BY <1>14, <1>15 DEF Alike
<1>. QED
  BY <1>13, <1>15, <1>16 DEF ImportFits, Matches

\* keys.rs:418-513: a card that reads the announced lengths of an RSA key, each in a
\* length field of one octet or more, finds those of the parts that are sent, in their
\* order, for every length of the modulus, every exponent that is shorter than 128
\* octets, and every format.
THEOREM ImportsWellFormed ==
  ASSUME sample.what = "rsa" => IsImport(sample.value)
  PROVE  ImportIsWellFormed
BY ImportsFit DEF ImportIsWellFormed

-----------------------------------------------------------------------------
(* The hashing of PINs.                                                    *)

\* A number has a quotient and a remainder
LEMMA Quotient ==
  ASSUME NEW n \in Nat, NEW m \in Nat, m > 0
  PROVE  n % m \in 0..m - 1 /\ n \div m \in Nat /\ n = m * (n \div m) + (n % m)
BY SMT

\* and no others.
LEMMA Remainder ==
  ASSUME NEW n \in Nat, NEW m \in Nat, m > 0,
         NEW q \in Nat, NEW r \in 0..m - 1, n = m * q + r
  PROVE  n % m = r
BY SMT

\* A round more leaves the same remainder.
LEMMA Round ==
  ASSUME NEW n \in Nat, NEW m \in Nat, m > 0
  PROVE  (n + m) % m = n % m
<1>1. PICK q \in Nat, r \in 0..m - 1 : n = m * q + r
  BY Quotient
<1>2. n % m = r
  BY <1>1, Remainder
<1>3. n + m \in Nat /\ n + m = m * (q + 1) + r /\ q + 1 \in Nat
  BY SMT, <1>1
<1>4. (n + m) % m = r
  BY <1>3, Remainder
<1>. QED
  BY <1>2, <1>4

\* What is hashed consists of these.
HashOctet == {"salt", "pin"} \X Nat

\* The piece whose turn it is,
Piece(s, p, turn) == IF turn = "salt" THEN Salt(s) ELSE Word(p)

\* the one after it,
Other(turn) == IF turn = "salt" THEN "pin" ELSE "salt"

\* and where it is in salt and PIN.
Start(s, turn) == IF turn = "salt" THEN 0 ELSE s

\* Salt and PIN over and over, from the piece whose turn it is, `left` octets of it
Onwards(s, p, turn, left) ==
    [i \in 1..left |-> (Salt(s) \o Word(p))[(((i - 1) + Start(s, turn)) % (s + p)) + 1]]

\* A piece is a part of salt and PIN.
LEMMA PieceAt ==
  ASSUME NEW s \in Nat, NEW p \in Nat, NEW turn \in {"salt", "pin"}
  PROVE  /\ Piece(s, p, turn) \in Seq(HashOctet)
         /\ Len(Piece(s, p, turn)) = IF turn = "salt" THEN s ELSE p
         /\ Salt(s) \o Word(p) \in Seq(HashOctet)
         /\ Len(Salt(s) \o Word(p)) = s + p
         /\ \A i \in 1..Len(Piece(s, p, turn)) :
                Piece(s, p, turn)[i] = (Salt(s) \o Word(p))[i + Start(s, turn)]
<1>1. Salt(s) \in Seq(HashOctet) /\ Len(Salt(s)) = s
  <2>1. Salt(s) \in [1..s -> HashOctet]
    BY DEF Salt, HashOctet
  <2>. QED
    BY <2>1, FcnIsSeq
<1>2. Word(p) \in Seq(HashOctet) /\ Len(Word(p)) = p
  <2>1. Word(p) \in [1..p -> HashOctet]
    BY DEF Word, HashOctet
  <2>. QED
    BY <2>1, FcnIsSeq
<1>3. PICK a \in Seq(HashOctet) : a = Salt(s) /\ Len(a) = s
  BY <1>1
<1>4. PICK b \in Seq(HashOctet) : b = Word(p) /\ Len(b) = p
  BY <1>2
<1>5. /\ a \o b \in Seq(HashOctet) /\ Len(a \o b) = Len(a) + Len(b)
      /\ \A i \in 1..Len(a) + Len(b) : (a \o b)[i] = IF i <= Len(a) THEN a[i] ELSE b[i - Len(a)]
  BY ConcatProperties
<1>6. PICK w : w = a \o b
  OBVIOUS
<1>7. \A i \in 1..s + p : w[i] = IF i <= s THEN a[i] ELSE b[i - s]
  BY <1>3, <1>4, <1>5, <1>6
<1>8. \A i \in 1..s : a[i] = w[i + 0]
  BY <1>7
<1>9. \A i \in 1..p : b[i] = w[i + s]
  BY <1>7
<1>10. CASE turn = "salt"
  <2>1. Piece(s, p, turn) = a /\ Start(s, turn) = 0
    BY <1>3, <1>10 DEF Piece, Start
  <2>. QED
    BY <1>3, <1>4, <1>5, <1>6, <1>8, <1>10, <2>1
<1>11. CASE turn = "pin"
  <2>1. Piece(s, p, turn) = b /\ Start(s, turn) = s
    BY <1>4, <1>11 DEF Piece, Start
  <2>. QED
    BY <1>3, <1>4, <1>5, <1>6, <1>9, <1>11, <2>1
<1>. QED
  BY <1>10, <1>11

\* It goes on for `left` octets.
LEMMA OnwardsType ==
  ASSUME NEW s \in Nat, NEW p \in Nat, s + p > 0, NEW turn \in {"salt", "pin"}, NEW left \in Nat
  PROVE  /\ Onwards(s, p, turn, left) \in Seq(HashOctet)
         /\ Len(Onwards(s, p, turn, left)) = left
<1>1. PICK w \in Seq(HashOctet) : w = Salt(s) \o Word(p) /\ Len(w) = s + p
  BY ZenonT(60), PieceAt
<1>2. PICK m \in Nat : m = s + p /\ m > 0
  OBVIOUS
<1>3. Start(s, turn) \in Nat
  BY DEF Start
<1>4. ASSUME NEW i \in 1..left
      PROVE  w[(((i - 1) + Start(s, turn)) % m) + 1] \in HashOctet
  <2>1. PICK n \in Nat : n = (i - 1) + Start(s, turn)
    BY <1>3
  <2>2. (n % m) + 1 \in 1..m
    BY SMT, <1>2, Quotient
  <2>3. w[(n % m) + 1] \in HashOctet
    BY <1>1, <1>2, <2>2, ElementOfSeq
  <2>. QED
    BY <2>1, <2>3
<1>5. Onwards(s, p, turn, left) = [i \in 1..left |-> w[(((i - 1) + Start(s, turn)) % m) + 1]]
  BY <1>1, <1>2 DEF Onwards
<1>6. Onwards(s, p, turn, left) \in [1..left -> HashOctet]
  BY <1>4, <1>5
<1>. QED
  BY <1>6, FcnIsSeq

\* First there is the piece, and after the piece the other one has its turn.
LEMMA OnwardsSteps ==
  ASSUME NEW s \in Nat, NEW p \in Nat, s + p > 0, NEW turn \in {"salt", "pin"}, NEW left \in Nat
  PROVE  Onwards(s, p, turn, left) =
            IF left >= Len(Piece(s, p, turn))
            THEN Piece(s, p, turn) \o Onwards(s, p, Other(turn), left - Len(Piece(s, p, turn)))
            ELSE SubSeq(Piece(s, p, turn), 1, left)
<1>1. PICK w \in Seq(HashOctet) : w = Salt(s) \o Word(p) /\ Len(w) = s + p
  BY PieceAt
<1>2. PICK m \in Nat : m = s + p /\ m > 0
  OBVIOUS
<1>3. PICK piece \in Seq(HashOctet) : piece = Piece(s, p, turn)
  BY PieceAt
<1>4. PICK l \in Nat : l = Len(piece)
  BY LenProperties
<1>5. PICK a \in Nat : a = Start(s, turn)
  BY DEF Start
<1>6. PICK b \in Nat : b = Start(s, Other(turn))
  BY DEF Start, Other
<1>7. a + l <= m /\ (l + a = b \/ l + a = b + m)
  <2>1. l = IF turn = "salt" THEN s ELSE p
    <3>1. Len(Piece(s, p, turn)) = IF turn = "salt" THEN s ELSE p
      BY ZenonT(60), PieceAt
    <3>. QED
      BY Zenon, <1>3, <1>4, <3>1
  <2>2. CASE turn = "salt"
    BY <1>2, <1>5, <1>6, <2>1, <2>2 DEF Start, Other
  <2>3. CASE turn = "pin"
    BY <1>2, <1>5, <1>6, <2>1, <2>3 DEF Start, Other
  <2>. QED
    BY <2>2, <2>3
<1>8. \A i \in 1..l : piece[i] = w[i + a]
  <2>1. \A i \in 1..Len(Piece(s, p, turn)) :
            Piece(s, p, turn)[i] = (Salt(s) \o Word(p))[i + Start(s, turn)]
    BY ZenonT(60), PieceAt
  <2>. QED
    BY Zenon, <1>1, <1>3, <1>4, <1>5, <2>1
<1>9. PICK all \in Seq(HashOctet) : all = Onwards(s, p, turn, left) /\ Len(all) = left
  BY OnwardsType
<1>10. \A i \in 1..left : all[i] = w[(((i - 1) + a) % m) + 1]
  BY <1>1, <1>2, <1>5, <1>9 DEF Onwards
<1>11. ASSUME NEW i \in 1..left, i <= l
       PROVE  all[i] = piece[i]
  <2>1. PICK n \in Nat : n = (i - 1) + a /\ n < m /\ n + 1 = i + a
    BY <1>7, <1>11
  <2>2. n % m = n
    BY SMT, <1>2, <2>1
  <2>3. all[i] = w[n + 1]
    BY Zenon, <1>10, <2>1, <2>2
  <2>4. piece[i] = w[i + a]
    BY <1>8, <1>11
  <2>. QED
    BY Zenon, <2>1, <2>3, <2>4
<1>12. CASE left >= l
  <2>1. PICK k \in Nat : k = left - l
    BY <1>12
  <2>2. Other(turn) \in {"salt", "pin"}
    BY DEF Other
  <2>3. PICK others \in Seq(HashOctet) : others = Onwards(s, p, Other(turn), k) /\ Len(others) = k
    BY SMTT(60), <2>2, OnwardsType
  <2>4. \A i \in 1..k : others[i] = w[(((i - 1) + b) % m) + 1]
    BY <1>1, <1>2, <1>6, <2>3 DEF Onwards
  <2>5. /\ piece \o others \in Seq(HashOctet) /\ Len(piece \o others) = Len(piece) + Len(others)
        /\ \A i \in 1..Len(piece) + Len(others) :
                (piece \o others)[i] = IF i <= Len(piece) THEN piece[i] ELSE others[i - Len(piece)]
    BY ConcatProperties
  <2>6. PICK joined \in Seq(HashOctet) : joined = piece \o others
    BY <2>5
  <2>7. Len(joined) = left /\ \A i \in 1..left : joined[i] = IF i <= l THEN piece[i] ELSE others[i - l]
    BY <1>4, <1>12, <2>1, <2>3, <2>5, <2>6
  <2>8. ASSUME NEW i \in 1..left, i > l
        PROVE  all[i] = others[i - l]
    <3>1. PICK n \in Nat : n = ((i - l) - 1) + b
      BY <2>8
    <3>2. (i - 1) + a = n \/ (i - 1) + a = n + m
      BY <1>7, <3>1
    <3>3. ((i - 1) + a) % m = n % m
      BY <1>2, <3>2, Round
    <3>4. i - l \in 1..k
      BY <2>1, <2>8
    <3>. QED
      BY <1>10, <2>4, <3>1, <3>3, <3>4
  <2>9. ASSUME NEW i \in 1..left
        PROVE  all[i] = joined[i]
    <3>1. CASE i <= l
      BY <1>11, <2>7, <3>1
    <3>2. CASE i > l
      <4>1. ~(i <= l)
        BY <3>2
      <4>2. joined[i] = others[i - l]
        BY Zenon, <2>7, <4>1
      <4>. QED
        BY <2>8, <3>2, <4>2
    <3>. QED
      BY <3>1, <3>2
  <2>10. all = joined
    BY <1>9, <2>7, <2>9, SeqEqual
  <2>. QED
    BY <1>3, <1>4, <1>9, <1>12, <2>1, <2>3, <2>6, <2>10
<1>13. CASE left < l
  <2>1. /\ SubSeq(piece, 1, left) \in Seq(HashOctet)
        /\ Len(SubSeq(piece, 1, left)) = left
        /\ \A i \in 1..left : SubSeq(piece, 1, left)[i] = piece[i]
    <3>1. \A i \in 1..left : piece[i] \in HashOctet
      BY <1>4, <1>13, ElementOfSeq
    <3>2. /\ SubSeq(piece, 1, left) \in Seq(HashOctet)
          /\ Len(SubSeq(piece, 1, left)) = IF 1 <= left THEN left - 1 + 1 ELSE 0
          /\ \A i \in 1..left - 1 + 1 : SubSeq(piece, 1, left)[i] = piece[1 + i - 1]
      BY <3>1, SubSeqProperties
    <3>. QED
      BY <3>2
  <2>2. \A i \in 1..left : all[i] = SubSeq(piece, 1, left)[i]
    BY <1>11, <1>13, <2>1
  <2>3. all = SubSeq(piece, 1, left)
    BY <1>9, <2>1, <2>2, SeqEqual
  <2>. QED
    BY <1>3, <1>4, <1>9, <1>13, <2>3
<1>. QED
  BY <1>4, <1>12, <1>13

\* What one turn adds, `others` being what comes after it
Turn(s, p, others, left, turn) ==
    IF left >= Len(Piece(s, p, turn))
    THEN Piece(s, p, turn) \o others[left - Len(Piece(s, p, turn)), Other(turn)]
    ELSE SubSeq(Piece(s, p, turn), 1, left)

\* A function made of turns
IsTurns(s, p, c, f) ==
    \A left \in 0..c, turn \in {"salt", "pin"} : f[left, turn] = Turn(s, p, f, left, turn)

\* ... and one that goes on and on
IsOnwards(s, p, c, f) ==
    \A left \in 0..c, turn \in {"salt", "pin"} : f[left, turn] = Onwards(s, p, turn, left)

\* There is only one function made of turns: after an empty piece there is a piece
\* that is not empty.
LEMMA TurnsAre ==
  ASSUME NEW s \in Nat, NEW p \in Nat, s + p > 0, NEW c \in Nat, NEW f, IsTurns(s, p, c, f)
  PROVE  IsOnwards(s, p, c, f)
<1> DEFINE Right(n, turn) == f[n, turn] = Onwards(s, p, turn, n)
           S == {n \in Nat : n \in 0..c => \A turn \in {"salt", "pin"} : Right(n, turn)}
<1> HIDE DEF Right
<1>1. ASSUME NEW turn \in {"salt", "pin"}
      PROVE  /\ Len(Piece(s, p, turn)) \in Nat /\ Other(turn) \in {"salt", "pin"}
             /\ Len(Piece(s, p, turn)) = 0 => Len(Piece(s, p, Other(turn))) # 0
  <2>1. PICK other \in {"salt", "pin"} : other = Other(turn) /\ (turn = "salt" <=> other = "pin")
    BY DEF Other
  <2>2. Len(Piece(s, p, turn)) = IF turn = "salt" THEN s ELSE p
    BY ZenonT(60), PieceAt
  <2>3. Len(Piece(s, p, other)) = IF other = "salt" THEN s ELSE p
    BY ZenonT(60), PieceAt
  <2>4. Len(Piece(s, p, turn)) = 0 => Len(Piece(s, p, other)) # 0
    BY <2>1, <2>2, <2>3
  <2>5. Len(Piece(s, p, turn)) \in Nat
    BY <2>2
  <2>. QED
    BY Zenon, <2>1, <2>4, <2>5
<1>2. ASSUME NEW n \in Nat, \A m \in Nat : m < n => m \in S
      PROVE  n \in S
  <2> SUFFICES ASSUME n \in 0..c
               PROVE  \A turn \in {"salt", "pin"} : Right(n, turn)
    OBVIOUS
  <2>1. ASSUME NEW turn \in {"salt", "pin"},
               n >= Len(Piece(s, p, turn)) => Right(n - Len(Piece(s, p, turn)), Other(turn))
        PROVE  Right(n, turn)
    <3>1. f[n, turn] = Turn(s, p, f, n, turn)
      BY Zenon DEF IsTurns
    <3>2. Onwards(s, p, turn, n) = IF n >= Len(Piece(s, p, turn))
                                   THEN Piece(s, p, turn) \o Onwards(s, p, Other(turn), n - Len(Piece(s, p, turn)))
                                   ELSE SubSeq(Piece(s, p, turn), 1, n)
      BY ZenonT(60), OnwardsSteps
    <3>. QED
      BY Zenon, <2>1, <3>1, <3>2 DEF Turn, Right
  <2>2. ASSUME NEW turn \in {"salt", "pin"}, Len(Piece(s, p, turn)) # 0
        PROVE  Right(n, turn)
    <3>1. PICK l \in Nat : l = Len(Piece(s, p, turn)) /\ l # 0
      BY <1>1, <2>2
    <3>2. ASSUME n >= l PROVE Right(n - l, Other(turn))
      <4>1. n - l \in Nat /\ n - l < n /\ n - l \in 0..c
        BY <3>1, <3>2
      <4>2. n - l \in S
        BY <1>2, <4>1
      <4>. QED
        BY Zenon, <1>1, <4>1, <4>2
    <3>. QED
      BY Zenon, <2>1, <3>1, <3>2
  <2>3. ASSUME NEW turn \in {"salt", "pin"}, Len(Piece(s, p, turn)) = 0
        PROVE  Right(n, turn)
    <3>1. Right(n, Other(turn))
      BY Zenon, <1>1, <2>2, <2>3
    <3>2. n - 0 = n
      OBVIOUS
    <3>. QED
      BY Zenon, <2>1, <2>3, <3>1, <3>2
  <2>. QED
    BY Zenon, <2>2, <2>3
<1>3. \A n \in Nat : n \in S
  <2> HIDE DEF S
  <2>. QED
    BY <1>2, Induction
<1>4. ASSUME NEW left \in 0..c PROVE left \in S
  BY <1>3
<1>. QED
  BY Zenon, <1>4 DEF IsOnwards, Right

\* To go on and on is to take turns.
LEMMA OnwardsTurns ==
  ASSUME NEW s \in Nat, NEW p \in Nat, s + p > 0, NEW c \in Nat
  PROVE  \E f : f = [at \in (0..c) \X {"salt", "pin"} |-> Turn(s, p, f, at[1], at[2])]
<1>1. PICK f : f = [at \in (0..c) \X {"salt", "pin"} |-> Onwards(s, p, at[2], at[1])]
  BY Zenon
<1>2. \A left \in 0..c, turn \in {"salt", "pin"} : f[left, turn] = Onwards(s, p, turn, left)
  BY Zenon, <1>1
<1>3. ASSUME NEW turn \in {"salt", "pin"}, NEW n \in Nat
      PROVE  Onwards(s, p, turn, n) = IF n >= Len(Piece(s, p, turn))
                THEN Piece(s, p, turn) \o Onwards(s, p, Other(turn), n - Len(Piece(s, p, turn)))
                ELSE SubSeq(Piece(s, p, turn), 1, n)
  BY ZenonT(60), OnwardsSteps
<1>4. ASSUME NEW left \in 0..c, NEW turn \in {"salt", "pin"}
      PROVE  Onwards(s, p, turn, left) = Turn(s, p, f, left, turn)
  <2>1. PICK other \in {"salt", "pin"} : other = Other(turn)
    BY DEF Other
  <2>2. PICK l \in Nat : l = Len(Piece(s, p, turn))
    <3>1. Piece(s, p, turn) \in Seq(HashOctet)
      BY Zenon, PieceAt
    <3>. QED
      BY Zenon, <3>1, LenProperties
  <2>3. left \in Nat /\ (left >= l => left - l \in 0..c)
    BY <2>2
  <2>4. left >= l => f[left - l, other] = Onwards(s, p, other, left - l)
    BY Zenon, <1>2, <2>3
  <2>5. Onwards(s, p, turn, left) = IF left >= Len(Piece(s, p, turn))
            THEN Piece(s, p, turn) \o Onwards(s, p, Other(turn), left - Len(Piece(s, p, turn)))
            ELSE SubSeq(Piece(s, p, turn), 1, left)
    BY Zenon, <1>3, <2>3
  <2>. QED
    BY Zenon, <2>1, <2>2, <2>4, <2>5 DEF Turn
<1>. QED
  BY Zenon, <1>1, <1>4

\* itersalt goes on as if salt and PIN were written again and again.
LEMMA HashedUnfold ==
  ASSUME NEW s \in Nat, NEW p \in Nat, s + p > 0, NEW c \in Nat
  PROVE  c - s - p \in 0..c =>
            HashedOctets(s, p, c) = (Salt(s) \o Word(p)) \o Onwards(s, p, "salt", c - s - p)
<1> DEFINE IsRest(f) == f = [at \in (0..c) \X {"salt", "pin"} |-> Turn(s, p, f, at[1], at[2])]
<1>1. PICK rest : rest = CHOOSE f : IsRest(f)
  OBVIOUS
<1>2. HashedOctets(s, p, c) = (Salt(s) \o Word(p)) \o rest[c - s - p, "salt"]
  BY Zenon, <1>1 DEF HashedOctets, Turn, Piece, Other
<1>3. IsRest(rest)
  <2>1. \E f : IsRest(f)
    BY ZenonT(60), OnwardsTurns
  <2> HIDE DEF IsRest
  <2>. QED
    BY Zenon, <1>1, <2>1
<1>4. IsTurns(s, p, c, rest)
  BY Zenon, <1>3 DEF IsTurns
<1>5. IsOnwards(s, p, c, rest)
  BY <1>4, TurnsAre
<1>. QED
  BY Zenon, <1>2, <1>5 DEF IsOnwards

\* So that it hashes them repeated, cut off after the count.
LEMMA HashRead ==
  ASSUME NEW s \in Nat, NEW p \in Nat, s + p > 0, NEW c \in Nat, s + p <= c
  PROVE  HashedOctets(s, p, c) = Repeated(s, p, c)
<1>1. PICK w \in Seq(HashOctet) : w = Salt(s) \o Word(p) /\ Len(w) = s + p
  <2>1. "salt" \in {"salt", "pin"}
    OBVIOUS
  <2>. QED
    BY <2>1, PieceAt
<1>2. PICK m \in Nat : m = s + p /\ m > 0
  OBVIOUS
<1>3. PICK k \in Nat : k = c - s - p /\ c = m + k
  BY <1>2
<1>4. PICK others \in Seq(HashOctet) : others = Onwards(s, p, "salt", k) /\ Len(others) = k
  <2>1. "salt" \in {"salt", "pin"}
    OBVIOUS
  <2>. QED
    BY <2>1, OnwardsType
<1>5. \A i \in 1..k : others[i] = w[((i - 1) % m) + 1]
  <2>1. \A i \in 1..k : others[i] = w[(((i - 1) + 0) % m) + 1]
    BY <1>1, <1>2, <1>4 DEF Onwards, Start
  <2>2. \A i \in 1..k : (i - 1) + 0 = i - 1
    OBVIOUS
  <2>. QED
    BY Zenon, <2>1, <2>2
<1>6. /\ w \o others \in Seq(HashOctet) /\ Len(w \o others) = Len(w) + Len(others)
      /\ \A i \in 1..Len(w) + Len(others) :
            (w \o others)[i] = IF i <= Len(w) THEN w[i] ELSE others[i - Len(w)]
  BY ConcatProperties
<1>7. PICK all \in Seq(HashOctet) : all = w \o others
  BY <1>6
<1>8. Len(all) = c /\ \A i \in 1..c : all[i] = IF i <= m THEN w[i] ELSE others[i - m]
  BY <1>1, <1>2, <1>3, <1>4, <1>6, <1>7
<1>9. ASSUME NEW i \in 1..c
      PROVE  all[i] = w[((i - 1) % m) + 1]
  <2>1. CASE i <= m
    <3>1. PICK n \in Nat : n = i - 1 /\ n < m /\ n + 1 = i
      BY <2>1
    <3>2. n % m = n
      BY SMT, <1>2, <3>1
    <3>3. all[i] = w[i]
      BY Zenon, <1>8, <2>1
    <3>. QED
      BY Zenon, <3>1, <3>2, <3>3
  <2>2. CASE ~(i <= m)
    <3>1. PICK n \in Nat : n = (i - m) - 1 /\ i - 1 = n + m /\ i - m \in 1..k
      BY <1>3, <2>2
    <3>2. (n + m) % m = n % m
      BY <1>2, Round
    <3>3. all[i] = others[i - m]
      BY Zenon, <1>8, <2>2
    <3>4. others[i - m] = w[(n % m) + 1]
      BY Zenon, <1>5, <3>1
    <3>. QED
      BY Zenon, <3>1, <3>2, <3>3, <3>4
  <2>. QED
    BY <2>1, <2>2
<1>10. all = [i \in 1..Len(all) |-> all[i]]
  BY SeqDef, LenProperties
<1>11. Repeated(s, p, c) = [i \in 1..c |-> w[((i - 1) % m) + 1]]
  BY Zenon, <1>1, <1>2 DEF Repeated
<1>12. all = Repeated(s, p, c)
  BY Zenon, <1>8, <1>9, <1>10, <1>11
<1>13. HashedOctets(s, p, c) = w \o others
  <2>1. c - s - p \in 0..c
    BY <1>3
  <2>. QED
    BY ZenonT(60), <1>1, <1>3, <1>4, <2>1, HashedUnfold
<1>. QED
  BY <1>7, <1>12, <1>13

\* kdf.rs:92-169: itersalt hashes salt and PIN repeated, cut off after exactly `count`
\* octets, whatever the lengths of the salt and of the PIN are, of which one may be empty,
\* and for every count that it does not refuse.
THEOREM HashedExactly ==
  ASSUME sample.what = "hash" => IsHash(sample.value)
  PROVE  HashesExactly
<1> SUFFICES ASSUME NEW k, IsHash(k)
             PROVE  HashIsExact(k)
  BY DEF HashesExactly
<1>1. /\ k.salt \in Nat /\ k.pin \in Nat /\ k.count \in Nat
      /\ k.salt + k.pin > 0 /\ k.salt + k.pin <= k.count
  BY DEF IsHash
<1>. QED
  BY <1>1, HashRead DEF HashIsExact
=============================================================================
