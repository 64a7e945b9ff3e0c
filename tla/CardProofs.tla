----------------------------- MODULE CardProofs -----------------------------
(***************************************************************************)
(* That the library recovers what a card holds, whatever the values are,   *)
(* from the application related data in either of its forms, and what a    *)
(* card supports, from the list of algorithms in either of its forms.      *)
(*                                                                         *)
(* The card's side is put into TLVs, which the parsers are known to read   *)
(* (CodecProofs); each data object is found again in what they return; and *)
(* from each its own parser makes what the card had made it of.            *)
(***************************************************************************)
EXTENDS CodecProofs

-----------------------------------------------------------------------------
(* What is found among TLVs.                                               *)

\* The elements of a sequence
Elements(q) == {q[i] : i \in 1..Len(q)}

\* ... are those of a sequence of that kind,
LEMMA ElementsIn ==
  ASSUME NEW S, NEW q \in Seq(S)
  PROVE  Elements(q) \subseteq S
BY LenProperties, ElementOfSeq DEF Elements

\* none of the empty one,
LEMMA NoElements == Elements(<<>>) = {}
BY DEF Elements

\* one of a sequence of one,
LEMMA OneElement ==
  ASSUME NEW x
  PROVE  Elements(<<x>>) = {x}
BY DEF Elements

\* and of two sequences those of either.
LEMMA JoinedElements ==
  ASSUME NEW S, NEW s \in Seq(S), NEW t \in Seq(S)
  PROVE  Elements(s \o t) = Elements(s) \cup Elements(t)
<1>1. Len(s) \in Nat /\ Len(t) \in Nat
  BY LenProperties
<1>2. PICK r : r = s \o t
  OBVIOUS
<1>3. /\ Len(r) = Len(s) + Len(t)
      /\ \A i \in 1..Len(s) + Len(t) : r[i] = IF i <= Len(s) THEN s[i] ELSE t[i - Len(s)]
  BY <1>2, ConcatProperties
<1>4. ASSUME NEW i \in 1..Len(r) PROVE r[i] \in Elements(s) \cup Elements(t)
  <2>1. CASE i <= Len(s)
    BY <1>1, <1>3, <2>1 DEF Elements
  <2>2. CASE ~(i <= Len(s))
    <3>1. i - Len(s) \in 1..Len(t) /\ r[i] = t[i - Len(s)]
      BY <1>1, <1>3, <2>2
    <3>. QED
      BY <3>1 DEF Elements
  <2>. QED
    BY <2>1, <2>2
<1>5. ASSUME NEW i \in 1..Len(s) PROVE s[i] \in Elements(r)
  <2>1. i \in 1..Len(r) /\ r[i] = s[i]
    BY <1>1, <1>3
  <2>. QED
    BY <2>1 DEF Elements
<1>6. ASSUME NEW i \in 1..Len(t) PROVE t[i] \in Elements(r)
  <2>1. Len(s) + i \in 1..Len(r) /\ ~(Len(s) + i <= Len(s)) /\ (Len(s) + i) - Len(s) = i
    BY <1>1, <1>3
  <2>2. r[Len(s) + i] = t[i]
    BY <1>3, <2>1
  <2>. QED
    BY <2>1, <2>2 DEF Elements
<1>7. Elements(r) \subseteq Elements(s) \cup Elements(t)
  BY <1>4 DEF Elements
<1>8. Elements(s) \subseteq Elements(r)
  BY <1>5 DEF Elements
<1>9. Elements(t) \subseteq Elements(r)
  BY <1>6 DEF Elements
<1>. QED
  BY <1>2, <1>7, <1>8, <1>9

\* The elements of any of some sequences
Together(q) == UNION {Elements(q[j]) : j \in 1..Len(q)}

\* FlattenSeq has the elements of its parts, and no others.
LEMMA FlattenElements ==
  ASSUME NEW S
  PROVE  \A q \in Seq(Seq(S)) : Elements(FlattenSeq(q)) = Together(q)
<1> DEFINE P == {n \in Nat : \A q \in Seq(Seq(S)) : Len(q) = n => Elements(FlattenSeq(q)) = Together(q)}
<1>1. ASSUME NEW n \in Nat, \A m \in Nat : m < n => m \in P
      PROVE  n \in P
  <2> SUFFICES ASSUME NEW q \in Seq(Seq(S)), Len(q) = n
               PROVE  Elements(FlattenSeq(q)) = Together(q)
    OBVIOUS
  <2>1. CASE q = <<>>
    <3>1. FlattenSeq(q) = <<>>
      BY <2>1 DEF FlattenSeq
    <3>2. Together(q) = {}
      BY <2>1 DEF Together
    <3>. QED
      BY <3>1, <3>2, NoElements
  <2>2. CASE q # <<>>
    <3>1. PICK r : r = Tail(q)
      OBVIOUS
    <3>2. /\ q[1] \in Seq(S) /\ r \in Seq(Seq(S)) /\ Len(r) \in Nat /\ Len(q) = Len(r) + 1
          /\ \A i \in 1..Len(r) : i + 1 \in 1..Len(q) /\ r[i] = q[i + 1]
      BY <2>2, <3>1, HeadOf
    <3>3. Behind(q, r)
      BY <3>2 DEF Behind
    <3>4. FlattenSeq(q) = q[1] \o FlattenSeq(r) /\ FlattenSeq(r) \in Seq(S)
      BY <3>2, <3>3, FlattenHead, FlattenTyped
    <3>5. Elements(FlattenSeq(r)) = Together(r)
      <4>1. Len(r) \in Nat /\ Len(r) < n
        BY <3>2
      <4>2. Len(r) \in P
        <5> HIDE DEF P
        <5>. QED
          BY <1>1, <4>1
      <4>. QED
        BY <3>2, <4>2
    <3>6. Elements(FlattenSeq(q)) = Elements(q[1]) \cup Together(r)
      BY <3>2, <3>4, <3>5, JoinedElements
    <3>7. ASSUME NEW j \in 1..Len(q), j # 1
          PROVE  j - 1 \in 1..Len(r) /\ r[j - 1] = q[j]
      <4>1. j - 1 \in 1..Len(r) /\ (j - 1) + 1 = j
        BY SMTT(60), <3>2, <3>7
      <4>. QED
        BY <3>2, <4>1
    <3>8. Together(q) = Elements(q[1]) \cup Together(r)
      <4>1. 1 \in 1..Len(q)
        BY <3>2
      <4>2. Together(q) \subseteq Elements(q[1]) \cup Together(r)
        BY <3>7 DEF Together
      <4>3. Elements(q[1]) \cup Together(r) \subseteq Together(q)
        BY <3>2, <4>1 DEF Together
      <4>. QED
        BY <4>2, <4>3
    <3>. QED
      BY <3>6, <3>8
  <2>. QED
    BY <2>1, <2>2
<1>2. \A n \in Nat : n \in P
  <2> HIDE DEF P
  <2>. QED
    BY <1>1, Induction
<1>. QED
  BY <1>2, LenProperties

\* Below a constructed TLV there are the TLVs in it, and those below them.
LEMMA BelowElements ==
  ASSUME NEW T, \A t \in T : t.below \in Seq(T), NEW L \in Seq(T), NEW tag
  PROVE  /\ ConstructedTlv(tag, L).below \in Seq(T)
         /\ Elements(ConstructedTlv(tag, L).below)
                = Elements(L) \cup UNION {Elements(t.below) : t \in Elements(L)}
<1> DEFINE q == [i \in DOMAIN L |-> <<L[i]>> \o L[i].below]
<1>1. Len(L) \in Nat /\ DOMAIN L = 1..Len(L) /\ \A i \in 1..Len(L) : L[i] \in T
  BY LenProperties, ElementOfSeq
<1>2. ASSUME NEW t \in T
      PROVE  <<t>> \o t.below \in Seq(T) /\ Elements(<<t>> \o t.below) = {t} \cup Elements(t.below)
  <2>1. PICK o : o = <<t>>
    OBVIOUS
  <2>2. o \in Seq(T) /\ t.below \in Seq(T) /\ Elements(o) = {t}
    BY <2>1, OneElement
  <2>3. o \o t.below \in Seq(T) /\ Elements(o \o t.below) = {t} \cup Elements(t.below)
    BY <2>2, ConcatProperties, JoinedElements
  <2>. QED
    BY <2>1, <2>3
<1>3. q \in [1..Len(L) -> Seq(T)]
  BY <1>1, <1>2
<1>4. \A i \in 1..Len(L) : Elements(q[i]) = {L[i]} \cup Elements(L[i].below)
  BY <1>1, <1>2
<1>5. ConstructedTlv(tag, L).below = FlattenSeq(q)
  BY DEF ConstructedTlv
<1> HIDE DEF q
<1>6. q \in Seq(Seq(T)) /\ Len(q) = Len(L)
  BY <1>1, <1>3, FcnIsSeq
<1>7. FlattenSeq(q) \in Seq(T) /\ Elements(FlattenSeq(q)) = Together(q)
  BY <1>6, FlattenElements, FlattenTyped
<1>8. Together(q) = Elements(L) \cup UNION {Elements(t.below) : t \in Elements(L)}
  <2>1. Together(q) = UNION {Elements(q[i]) : i \in 1..Len(L)}
    BY <1>6 DEF Together
  <2>2. Elements(L) = {L[i] : i \in 1..Len(L)}
    BY DEF Elements
  <2>3. ASSUME NEW x PROVE x \in Together(q) <=> \E i \in 1..Len(L) : x = L[i] \/ x \in Elements(L[i].below)
    BY <1>4, <2>1
  <2>. QED
    BY <2>2, <2>3
<1>. QED
  BY <1>5, <1>7, <1>8

\* Find comes to the TLVs with the tag, all of which have the same value.
LEMMA FindBelow ==
  ASSUME NEW T, NEW c, c.below \in Seq(T), NEW tag, c.tag # tag,
         \A x, y \in Elements(c.below) : x.tag = tag /\ y.tag = tag => x.octets = y.octets
  PROVE  {x.octets : x \in Find(c, tag)} = {x.octets : x \in {y \in Elements(c.below) : y.tag = tag}}
<1>1. PICK L : L = c.below
  OBVIOUS
<1> DEFINE all == <<c>> \o L
           at == {i \in DOMAIN all : all[i].tag = tag}
<1>2. Find(c, tag) = IF at = {} THEN {} ELSE {all[Min(at)]}
  <2>1. Find(c, tag) = FirstWith(<<c>> \o c.below, tag)
    BY DEF Find, FirstWith
  <2>. QED
    BY <1>1, <2>1 DEF FirstWith
<1>3. /\ Len(L) \in Nat /\ DOMAIN all = 1..Len(L) + 1
      /\ all[1] = c /\ \A i \in 1..Len(L) : all[i + 1] = L[i]
  <2>1. PICK U : U = T \cup {c}
    OBVIOUS
  <2>2. <<c>> \in Seq(U) /\ L \in Seq(U) /\ Len(<<c>>) = 1 /\ <<c>>[1] = c /\ Len(L) \in Nat
    BY <1>1, <2>1, SeqMonotonic, LenProperties
  <2>3. PICK q : q = <<c>>
    OBVIOUS
  <2>4. /\ q \o L \in Seq(U) /\ Len(q \o L) = Len(q) + Len(L)
        /\ \A i \in 1..Len(q) + Len(L) : (q \o L)[i] = IF i <= Len(q) THEN q[i] ELSE L[i - Len(q)]
    BY <2>2, <2>3, ConcatProperties
  <2>5. Len(q) = 1 /\ q[1] = c
    BY <2>2, <2>3
  <2>6. DOMAIN (q \o L) = 1..Len(L) + 1
    BY <2>2, <2>4, <2>5, LenProperties
  <2>7. (q \o L)[1] = c
    BY <2>2, <2>4, <2>5
  <2>8. ASSUME NEW i \in 1..Len(L) PROVE (q \o L)[i + 1] = L[i]
    <3>1. i + 1 \in 1..1 + Len(L) /\ ~(i + 1 <= 1) /\ (i + 1) - 1 = i
      BY <2>2
    <3>. QED
      BY <2>4, <2>5, <3>1
  <2>. QED
    BY <2>2, <2>3, <2>6, <2>7, <2>8
<1> HIDE DEF all
<1>4. ASSUME NEW i \in at
      PROVE  all[i] \in Elements(L) /\ all[i].tag = tag
  <2>1. i \in 1..Len(L) + 1 /\ all[i].tag = tag
    BY <1>3
  <2>2. i # 1
    BY <1>3, <2>1
  <2>3. i - 1 \in 1..Len(L) /\ i = (i - 1) + 1
    BY <1>3, <2>1, <2>2
  <2>4. all[i] = L[i - 1]
    BY <1>3, <2>3
  <2>. QED
    BY <2>1, <2>3, <2>4 DEF Elements
<1>5. ASSUME NEW i \in 1..Len(L), L[i].tag = tag PROVE i + 1 \in at
  BY <1>3, <1>5
<1>6. at \subseteq Nat
  BY <1>3
<1> HIDE DEF at
<1>7. CASE at = {}
  <2>1. \A x \in Elements(L) : x.tag # tag
    BY <1>5, <1>7 DEF Elements
  <2>. QED
    BY <1>1, <1>2, <1>7, <2>1
<1>8. CASE at # {}
  <2>1. Min(at) \in at
    BY <1>6, <1>8, LeastOf
  <2>2. PICK t : t = all[Min(at)]
    OBVIOUS
  <2>3. t \in Elements(L) /\ t.tag = tag
    BY <1>4, <2>1, <2>2
  <2>4. Find(c, tag) = {t}
    BY <1>2, <1>8, <2>2
  <2>5. \A y \in Elements(L) : y.tag = tag => y.octets = t.octets
    BY <1>1, <2>3
  <2>. QED
    BY <1>1, <2>3, <2>4, <2>5
<1>. QED
  BY <1>7, <1>8

-----------------------------------------------------------------------------
(* Tags, and TLVs that can be sent.                                        *)

\* One octet is a tag by itself, if it does not announce more;
LEMMA OneOctetTag ==
  ASSUME NEW b \in Byte, b % 32 # 31
  PROVE  WholeTag(<<b>>) /\ (IsConstructed(<<b>>) <=> (b \div 32) % 2 = 1)
<1>1. <<b>> \in Seq(Byte) /\ <<b>> # <<>> /\ Len(<<b>>) = 1 /\ <<b>>[1] = b
  OBVIOUS
<1>2. TagOctets(<<b>>) = 1
  BY <1>1 DEF TagOctets
<1>3. 2^5 = 32
  OBVIOUS
<1>4. Bit(b, 5) <=> (b \div 32) % 2 = 1
  BY <1>3 DEF Bit
<1>. QED
  BY <1>1, <1>2, <1>4 DEF WholeTag, IsConstructed

\* else the second one can be the last.
LEMMA TwoOctetTag ==
  ASSUME NEW b \in Byte, b % 32 = 31, NEW c \in Byte, 0 < c, c < 128
  PROVE  WholeTag(<<b, c>>) /\ (IsConstructed(<<b, c>>) <=> (b \div 32) % 2 = 1)
<1>1. /\ <<b, c>> \in Seq(Byte) /\ <<b, c>> # <<>> /\ Len(<<b, c>>) = 2
      /\ <<b, c>>[1] = b /\ <<b, c>>[2] = c
  OBVIOUS
<1> DEFINE in == <<b, c>>
           last == {i \in 2..Len(in) : in[i] < 128}
<1>2. last = {2}
  BY <1>1
<1>3. c % 128 # 0
  BY DEF Byte
<1>4. Min({2}) = 2
  <2>1. Min({2}) \in {2}
    BY LeastOf
  <2>. QED
    BY <2>1
<1>5. TagOctets(in) = IF in = <<>> THEN 0
                      ELSE IF in[1] % 32 # 31 THEN 1
                      ELSE IF Len(in) >= 2 /\ in[2] % 128 # 0 /\ last # {} THEN Min(last) ELSE 0
  BY Zenon DEF TagOctets
<1>6. TagOctets(<<b, c>>) = 2
  <2> HIDE DEF last
  <2>1. last # {} /\ Min(last) = 2
    BY <1>2, <1>4
  <2>. QED
    BY <1>1, <1>3, <1>5, <2>1
<1>7. 2^5 = 32
  OBVIOUS
<1>8. Bit(b, 5) <=> (b \div 32) % 2 = 1
  BY <1>7 DEF Bit
<1>. QED
  BY <1>1, <1>6, <1>8 DEF WholeTag, IsConstructed

\* The parts of the application related data
LEMMA ArdFields == DOMAIN TagOf = {"aid", "historical", "eli", "capabilities", "pwStatus", "fingerprints",
          "caFingerprints", "times", "Signing", "Decryption", "Authentication", "Attestation",
          "attestationFp", "attestationTime", "uifSigning", "uifDecryption", "uifAuthentication",
          "uifAttestation"}
BY DEF TagOf

\* ... and their tags
LEMMA ArdTags ==
  /\ TagOf["aid"] = <<79>> /\ TagOf["historical"] = <<95, 82>> /\ TagOf["eli"] = <<127, 102>>
  /\ TagOf["capabilities"] = <<192>> /\ TagOf["pwStatus"] = <<196>> /\ TagOf["fingerprints"] = <<197>>
  /\ TagOf["caFingerprints"] = <<198>> /\ TagOf["times"] = <<205>>
  /\ TagOf["Signing"] = <<193>> /\ TagOf["Decryption"] = <<194>> /\ TagOf["Authentication"] = <<195>>
  /\ TagOf["Attestation"] = <<218>> /\ TagOf["attestationFp"] = <<219>> /\ TagOf["attestationTime"] = <<221>>
  /\ TagOf["uifSigning"] = <<214>> /\ TagOf["uifDecryption"] = <<215>>
  /\ TagOf["uifAuthentication"] = <<216>> /\ TagOf["uifAttestation"] = <<217>>
BY DEF TagOf

\* Which part a tag is of, by its first octet
NameAt(n) ==
    CASE n = 79 -> "aid" [] n = 95 -> "historical" [] n = 127 -> "eli" [] n = 192 -> "capabilities"
      [] n = 196 -> "pwStatus" [] n = 197 -> "fingerprints" [] n = 198 -> "caFingerprints"
      [] n = 205 -> "times" [] n = 193 -> "Signing" [] n = 194 -> "Decryption"
      [] n = 195 -> "Authentication" [] n = 218 -> "Attestation" [] n = 219 -> "attestationFp"
      [] n = 221 -> "attestationTime" [] n = 214 -> "uifSigning" [] n = 215 -> "uifDecryption"
      [] n = 216 -> "uifAuthentication" [] n = 217 -> "uifAttestation"

\* No two parts have the same tag, and only the extended length information is constructed.
LEMMA ArdTag ==
  ASSUME NEW f \in DOMAIN TagOf
  PROVE  /\ WholeTag(TagOf[f]) /\ Len(TagOf[f]) <= 2
         /\ IsConstructed(TagOf[f]) <=> f = "eli"
         /\ NameAt(TagOf[f][1]) = f
         /\ TagOf[f][1] \notin {2, 110, 115}
<1>1. CASE f \in {"aid", "capabilities", "pwStatus", "fingerprints",
          "caFingerprints", "times", "Signing", "Decryption", "Authentication", "Attestation",
          "attestationFp", "attestationTime", "uifSigning", "uifDecryption", "uifAuthentication",
          "uifAttestation"}
  <2>1. \E b \in Byte : /\ TagOf[f] = <<b>>
                        /\ b \in {79, 192, 196, 197, 198, 205, 193, 194, 195, 218, 219, 221,
                                 214, 215, 216, 217}
                        /\ NameAt(b) = f
    BY <1>1, ArdTags DEF Byte, NameAt
  <2>2. PICK b \in Byte : /\ TagOf[f] = <<b>>
                          /\ b \in {79, 192, 196, 197, 198, 205, 193, 194, 195, 218, 219, 221,
                                   214, 215, 216, 217}
                        /\ NameAt(b) = f
    BY <2>1
  <2>3. b % 32 # 31 /\ (b \div 32) % 2 # 1 /\ b \notin {2, 110, 115}
    BY <2>2
  <2>4. WholeTag(<<b>>) /\ ~IsConstructed(<<b>>)
    BY <2>3, OneOctetTag
  <2>5. Len(<<b>>) = 1 /\ <<b>>[1] = b
    OBVIOUS
  <2>. QED
    BY <1>1, <2>2, <2>3, <2>4, <2>5
<1>2. CASE f = "historical"
  <2>1. WholeTag(<<95, 82>>) /\ ~IsConstructed(<<95, 82>>)
    <3>1. 95 \in Byte /\ 82 \in Byte /\ 95 % 32 = 31 /\ (95 \div 32) % 2 # 1 /\ 0 < 82 /\ 82 < 128
      BY DEF Byte
    <3>. QED
      BY <3>1, TwoOctetTag
  <2>2. Len(<<95, 82>>) = 2 /\ <<95, 82>>[1] = 95 /\ NameAt(95) = "historical"
    BY DEF NameAt
  <2>. QED
    BY <1>2, <2>1, <2>2, ArdTags
<1>3. CASE f = "eli"
  <2>1. WholeTag(<<127, 102>>) /\ IsConstructed(<<127, 102>>)
    <3>1. 127 \in Byte /\ 102 \in Byte /\ 127 % 32 = 31 /\ (127 \div 32) % 2 = 1 /\ 0 < 102 /\ 102 < 128
      BY DEF Byte
    <3>. QED
      BY <3>1, TwoOctetTag
  <2>2. Len(<<127, 102>>) = 2 /\ <<127, 102>>[1] = 127 /\ NameAt(127) = "eli"
    BY DEF NameAt
  <2>. QED
    BY <1>3, <2>1, <2>2, ArdTags
<1>. QED
  BY <1>1, <1>2, <1>3, ArdFields

\* The tags of the TLVs around these parts, and in the extended length information
LEMMA OuterTags ==
  /\ WholeTag(<<110>>) /\ IsConstructed(<<110>>) /\ WholeTag(<<115>>) /\ IsConstructed(<<115>>)
  /\ WholeTag(<<2>>) /\ ~IsConstructed(<<2>>)
  /\ \A f \in DOMAIN TagOf : TagOf[f] # <<110>> /\ TagOf[f] # <<115>> /\ TagOf[f] # <<2>>
<1>1. /\ 110 \in Byte /\ 110 % 32 # 31 /\ (110 \div 32) % 2 = 1
      /\ 115 \in Byte /\ 115 % 32 # 31 /\ (115 \div 32) % 2 = 1
      /\ 2 \in Byte /\ 2 % 32 # 31 /\ (2 \div 32) % 2 # 1
  BY DEF Byte
<1>2. <<110>>[1] = 110 /\ <<115>>[1] = 115 /\ <<2>>[1] = 2
  OBVIOUS
<1>3. \A f \in DOMAIN TagOf : TagOf[f][1] \notin {2, 110, 115}
  BY ArdTag
<1>. QED
  BY <1>1, <1>2, <1>3, OneOctetTag

\* All simple TLVs that can be sent
AllLeaves == {SimpleTlv(x[1], x[2]) :
    x \in {y \in Seq(Byte) \X Seq(Byte) : WholeTag(y[1]) /\ ~IsConstructed(y[1]) /\ Short(Len(y[2]))}}

\* ... with their parts
LEMMA LeafIn ==
  ASSUME NEW tag, WholeTag(tag), ~IsConstructed(tag), NEW o \in Seq(Byte), Short(Len(o))
  PROVE  SimpleTlv(tag, o) \in AllLeaves
<1>1. <<tag, o>> \in {y \in Seq(Byte) \X Seq(Byte) : WholeTag(y[1]) /\ ~IsConstructed(y[1]) /\ Short(Len(y[2]))}
  BY DEF WholeTag
<1>. QED
  BY <1>1 DEF AllLeaves

\* can be sent.
LEMMA LeavesSent == AreTlvs(AllLeaves) /\ \A t \in AllLeaves : t.below = <<>>
<1>1. ASSUME NEW t \in AllLeaves
      PROVE  /\ Sendable(t) /\ t.inner = <<>> /\ t.below = <<>> /\ ~IsConstructed(t.tag)
             /\ t = SimpleTlv(t.tag, t.octets)
  <2>1. PICK y \in Seq(Byte) \X Seq(Byte) : /\ WholeTag(y[1]) /\ ~IsConstructed(y[1]) /\ Short(Len(y[2]))
                                            /\ t = SimpleTlv(y[1], y[2])
    BY DEF AllLeaves
  <2>2. t.tag = y[1] /\ t.octets = y[2] /\ t.inner = <<>> /\ t.below = <<>>
    BY <2>1 DEF SimpleTlv
  <2>3. y[2] \in Seq(Byte)
    OBVIOUS
  <2>. QED
    BY <2>1, <2>2, <2>3 DEF Sendable
<1>2. ASSUME NEW t \in AllLeaves
      PROVE  /\ Sendable(t) /\ t.inner \in Seq(AllLeaves)
             /\ t = IF IsConstructed(t.tag) THEN ConstructedTlv(t.tag, t.inner)
                    ELSE SimpleTlv(t.tag, t.octets)
  <2>1. t.inner \in Seq(AllLeaves)
    BY <1>1, EmptySeq
  <2>. QED
    BY <1>1, <2>1
<1>. QED
  BY <1>1, <1>2, TlvsAre

\* A constructed TLV of TLVs that can be sent, can be sent, if it is short enough.
LEMMA OneMore ==
  ASSUME NEW T, AreTlvs(T), NEW tag, WholeTag(tag), IsConstructed(tag), NEW L \in Seq(T),
         Short(Len(SerializeAll(L)))
  PROVE  /\ AreTlvs(T \cup {ConstructedTlv(tag, L)})
         /\ Sendable(ConstructedTlv(tag, L)) /\ T \subseteq T \cup {ConstructedTlv(tag, L)}
         /\ Seq(T) \subseteq Seq(T \cup {ConstructedTlv(tag, L)})
         /\ SerializeTlv(ConstructedTlv(tag, L)) = Do(tag, SerializeAll(L))
<1>1. PICK c : c = ConstructedTlv(tag, L)
  OBVIOUS
<1>2. c.tag = tag /\ c.octets = SerializeAll(L) /\ c.inner = L
  BY <1>1 DEF ConstructedTlv
<1>3. Sendable(c)
  BY <1>2, SerializeType DEF Sendable
<1>4. PICK U : U = T \cup {c}
  OBVIOUS
<1>5. Seq(T) \subseteq Seq(U)
  BY <1>4, SeqMonotonic
<1>6. \A t \in U : /\ Sendable(t) /\ t.inner \in Seq(U)
                   /\ t = IF IsConstructed(t.tag) THEN ConstructedTlv(t.tag, t.inner)
                          ELSE SimpleTlv(t.tag, t.octets)
  <2>1. \A t \in T : /\ Sendable(t) /\ t.inner \in Seq(U)
                     /\ t = IF IsConstructed(t.tag) THEN ConstructedTlv(t.tag, t.inner)
                            ELSE SimpleTlv(t.tag, t.octets)
    BY <1>5, SentOf
  <2>2. /\ Sendable(c) /\ c.inner \in Seq(U)
        /\ c = IF IsConstructed(c.tag) THEN ConstructedTlv(c.tag, c.inner)
               ELSE SimpleTlv(c.tag, c.octets)
    BY <1>1, <1>2, <1>3, <1>5
  <2>. QED
    BY <1>4, <2>1, <2>2
<1>7. AreTlvs(U)
  BY <1>6, TlvsAre
<1>8. SerializeTlv(c) = Do(tag, SerializeAll(L))
  BY <1>2, <1>3, SerializeSent DEF Do
<1>. QED
  BY <1>1, <1>3, <1>4, <1>5, <1>7, <1>8

\* Something of at most b octets each makes at most b times as many.
LEMMA FlattenLength ==
  ASSUME NEW S, NEW b \in Nat
  PROVE  \A q \in Seq(Seq(S)) :
            (\A i \in 1..Len(q) : Len(q[i]) <= b) => Len(FlattenSeq(q)) <= b * Len(q)
<1> DEFINE P == {n \in Nat : \A q \in Seq(Seq(S)) :
                    Len(q) = n /\ (\A i \in 1..Len(q) : Len(q[i]) <= b)
                        => Len(FlattenSeq(q)) <= b * Len(q)}
<1>1. ASSUME NEW n \in Nat, \A m \in Nat : m < n => m \in P
      PROVE  n \in P
  <2> SUFFICES ASSUME NEW q \in Seq(Seq(S)), Len(q) = n, \A i \in 1..Len(q) : Len(q[i]) <= b
               PROVE  Len(FlattenSeq(q)) <= b * Len(q)
    OBVIOUS
  <2>1. CASE q = <<>>
    <3>1. FlattenSeq(q) = <<>> /\ Len(q) = 0
      BY <2>1 DEF FlattenSeq
    <3>2. Len(FlattenSeq(q)) = 0 /\ b * Len(q) = 0
      BY <3>1
    <3>. QED
      BY <3>2
  <2>2. CASE q # <<>>
    <3>1. PICK r : r = Tail(q)
      OBVIOUS
    <3>2. /\ q[1] \in Seq(S) /\ r \in Seq(Seq(S)) /\ Len(r) \in Nat /\ Len(q) = Len(r) + 1
          /\ \A i \in 1..Len(r) : i + 1 \in 1..Len(q) /\ r[i] = q[i + 1]
      BY <2>2, <3>1, HeadOf
    <3>3. Behind(q, r)
      BY <3>2 DEF Behind
    <3>4. FlattenSeq(q) = q[1] \o FlattenSeq(r) /\ FlattenSeq(r) \in Seq(S)
      BY <3>2, <3>3, FlattenHead, FlattenTyped
    <3>5. Len(FlattenSeq(r)) <= b * Len(r)
      <4>1. Len(r) \in Nat /\ Len(r) < n
        BY <3>2
      <4>2. Len(r) \in P
        <5> HIDE DEF P
        <5>. QED
          BY <1>1, <4>1
      <4>3. \A i \in 1..Len(r) : Len(r[i]) <= b
        BY <3>2
      <4>. QED
        BY <3>2, <4>2, <4>3
    <3>6. PICK x \in Nat : x = Len(q[1]) /\ x <= b
      <4>1. 1 \in 1..Len(q) /\ Len(q[1]) \in Nat
        BY <3>2, LenProperties
      <4>. QED
        BY <4>1
    <3>7. PICK y \in Nat : y = Len(FlattenSeq(r))
      BY <3>4, LenProperties
    <3>8. Len(FlattenSeq(q)) = x + y
      BY <3>2, <3>4, <3>6, <3>7, ConcatProperties
    <3>9. PICK k \in Nat : k = Len(r)
      BY <3>2
    <3>10. b * (k + 1) = b * k + b /\ b * k \in Nat
      OBVIOUS
    <3>. QED
      BY <3>2, <3>5, <3>6, <3>7, <3>8, <3>9, <3>10
  <2>. QED
    BY <2>1, <2>2
<1>2. \A n \in Nat : n \in P
  <2> HIDE DEF P
  <2>. QED
    BY <1>1, Induction
<1>. QED
  BY <1>2, LenProperties

\* A length field has at most three octets.
LEMMA FieldLength ==
  ASSUME NEW n \in Nat
  PROVE  Len(EncodeLength(n)) <= 3
<1>1. CASE n > 255
  <2>1. PICK f : f = <<130, n \div 256, n % 256>>
    OBVIOUS
  <2>2. Len(f) = 3
    BY <2>1
  <2>3. EncodeLength(n) = f
    BY ZenonT(60), <1>1, <2>1, FieldOf
  <2>4. Len(EncodeLength(n)) = 3
    BY Zenon, <2>2, <2>3
  <2>. QED
    BY <2>4
<1>2. CASE n > 127 /\ n <= 255
  <2>1. PICK f : f = <<129, n>>
    OBVIOUS
  <2>2. Len(f) = 2
    BY <2>1
  <2>3. EncodeLength(n) = f
    BY Zenon, <1>2, <2>1, FieldOf
  <2>4. Len(EncodeLength(n)) = 2
    BY Zenon, <2>2, <2>3
  <2>. QED
    BY <2>4
<1>3. CASE n <= 127
  <2>1. PICK f : f = <<n>>
    OBVIOUS
  <2>2. Len(f) = 1
    BY <2>1
  <2>3. EncodeLength(n) = f
    BY Zenon, <1>3, <2>1, FieldOf
  <2>4. Len(EncodeLength(n)) = 1
    BY Zenon, <2>2, <2>3
  <2>. QED
    BY <2>4
<1>. QED
  BY <1>1, <1>2, <1>3

\* A data object is its tag, its length and its value: what serialize writes for a simple TLV.
LEMMA DoIs ==
  ASSUME NEW tag, WholeTag(tag), NEW o \in Seq(Byte), Short(Len(o))
  PROVE  /\ Do(tag, o) \in Seq(Byte) /\ Len(Do(tag, o)) \in Nat /\ Len(Do(tag, o)) <= Len(tag) + 3 + Len(o)
         /\ SerializeTlv(SimpleTlv(tag, o)) = Do(tag, o)
<1>1. PICK t : t = SimpleTlv(tag, o)
  OBVIOUS
<1>2. t.tag = tag /\ t.octets = o
  BY <1>1 DEF SimpleTlv
<1>3. Sendable(t)
  BY <1>2 DEF Sendable
<1>4. SerializeTlv(t) = Do(tag, o) /\ SerializeTlv(t) \in Seq(Byte)
  BY <1>2, <1>3, SerializeSent DEF Do
<1>5. PICK f \in Seq(Byte) : f = EncodeLength(Len(o)) /\ Len(f) \in Nat
  BY FieldRead
<1>6. Len(f) <= 3
  BY <1>5, FieldLength, LenProperties
<1>7. tag \in Seq(Byte) /\ Len(tag) \in Nat /\ Len(o) \in Nat
  BY LenProperties DEF WholeTag
<1>8. Len((tag \o f) \o o) = (Len(tag) + Len(f)) + Len(o)
  BY <1>5, <1>7, JoinedBytes
<1>9. Len(Do(tag, o)) <= Len(tag) + 3 + Len(o)
  BY <1>5, <1>6, <1>7, <1>8 DEF Do
<1>. QED
  BY <1>1, <1>4, <1>9, LenProperties

\* The octets of the extended length information: two numbers of two octets each
EliForm(e) == \E a, b \in Seq(Byte) : Len(a) = 2 /\ Len(b) = 2 /\ e = <<2, 2>> \o a \o <<2, 2>> \o b

\* Their value, in TLVs
EliTlv(t, e) ==
    /\ t = ConstructedTlv(TagOf["eli"], t.inner) /\ t.tag = TagOf["eli"] /\ t.octets = e
    /\ t.inner \in Seq(AllLeaves) /\ Elements(t.below) = Elements(t.inner)
    /\ \A x \in Elements(t.inner) : x.tag = <<2>>

\* ... are the two.
LEMMA EliIsTwo ==
  ASSUME NEW e, EliForm(e)
  PROVE  (\E t : EliTlv(t, e)) /\ Short(Len(e)) /\ e \in Seq(Byte)
<1>1. PICK a \in Seq(Byte), b \in Seq(Byte) : Len(a) = 2 /\ Len(b) = 2 /\ e = <<2, 2>> \o a \o <<2, 2>> \o b
  BY DEF EliForm
<1>2. PICK x : x = SimpleTlv(<<2>>, a)
  OBVIOUS
<1>3. PICK y : y = SimpleTlv(<<2>>, b)
  OBVIOUS
<1>4. Short(2)
  BY SMT DEF Short
<1>5. x \in AllLeaves /\ y \in AllLeaves /\ x.tag = <<2>> /\ y.tag = <<2>>
  <2>1. x \in AllLeaves /\ y \in AllLeaves
    BY ZenonT(60), <1>1, <1>2, <1>3, <1>4, OuterTags, LeafIn
  <2>. QED
    BY <1>2, <1>3, <2>1 DEF SimpleTlv
<1>6. 2 \in Byte
  BY DEF Byte
<1>7. PICK q : q = <<2, 2>>
  OBVIOUS
<1>8. q \in Seq(Byte) /\ Len(q) = 2 /\ q[1] = 2 /\ q[2] = 2
  BY <1>6, <1>7, Two
<1>9. PICK h : h = <<2>>
  OBVIOUS
<1>10. h \in Seq(Byte) /\ Len(h) = 1 /\ h[1] = 2
  BY <1>6, <1>9, One
<1>11. h \o h = q
  <2>1. PICK r : r = h \o h
    OBVIOUS
  <2>2. r \in Seq(Byte) /\ Len(r) = 2 /\ r[1] = 2 /\ r[1 + 1] = 2
    <3>1. r \in Seq(Byte) /\ Len(r) = Len(h) + Len(h)
      BY <1>10, <2>1, JoinedBytes
    <3>2. \A i \in 1..Len(h) : r[i] = h[i] /\ r[Len(h) + i] = h[i]
      BY ZenonT(60), <1>10, <2>1, JoinedBytes
    <3>. QED
      BY <1>10, <3>1, <3>2
  <2>3. \A i \in 1..Len(r) : r[i] = q[i]
    BY <1>8, <2>2
  <2>. QED
    BY <1>8, <2>1, <2>2, <2>3, SeqEqual
<1>12. ASSUME NEW v \in Seq(Byte), Len(v) = 2
       PROVE  Do(h, v) = q \o v
  <2>1. EncodeLength(2) = h
    BY <1>9, FieldOf
  <2>. QED
    BY <1>11, <1>12, <2>1 DEF Do
<1>13. SerializeTlv(x) = q \o a /\ SerializeTlv(y) = q \o b
  <2>1. SerializeTlv(x) = Do(h, a) /\ SerializeTlv(y) = Do(h, b)
    BY <1>1, <1>2, <1>3, <1>4, <1>9, OuterTags, DoIs
  <2>. QED
    BY <1>1, <1>12, <2>1
<1>14. PICK r : r = <<y>>
  OBVIOUS
<1>15. PICK s : s = <<x>>
  OBVIOUS
<1>16. r \in Seq(AllLeaves) /\ s \in Seq(AllLeaves) /\ Elements(r) = {y} /\ Elements(s) = {x}
  BY <1>5, <1>14, <1>15, OneElement
<1>17. PICK L : L = s \o r
  OBVIOUS
<1>18. L \in Seq(AllLeaves) /\ SerializeAll(L) = SerializeTlv(x) \o SerializeTlv(y)
  <2>1. AreTlvs(AllLeaves)
    BY LeavesSent
  <2>2. SerializeAll(r) = SerializeTlv(y)
    BY <1>5, <1>14, <2>1, SerializeSingle
  <2>3. <<x>> \o r \in Seq(AllLeaves) /\ SerializeAll(<<x>> \o r) = SerializeTlv(x) \o SerializeAll(r)
    BY <1>5, <1>16, <2>1, SerializeOne
  <2>. QED
    BY <1>15, <1>17, <2>2, <2>3
<1>19. Elements(L) = {x} \cup {y}
  BY <1>16, <1>17, JoinedElements
<1>20. SerializeAll(L) = e /\ Len(e) = 8 /\ e \in Seq(Byte)
  <2>1. PICK u : u = q \o a
    OBVIOUS
  <2>2. u \in Seq(Byte) /\ Len(u) = 4
    <3>1. u \in Seq(Byte) /\ Len(u) = Len(q) + Len(a)
      BY <1>8, <2>1, JoinedBytes
    <3>. QED
      BY <1>1, <1>8, <3>1
  <2>3. PICK w : w = q \o b
    OBVIOUS
  <2>4. w \in Seq(Byte) /\ Len(w) = 4
    <3>1. w \in Seq(Byte) /\ Len(w) = Len(q) + Len(b)
      BY <1>8, <2>3, JoinedBytes
    <3>. QED
      BY <1>1, <1>8, <3>1
  <2>5. (u \o q) \o b = u \o w
    BY <1>1, <1>8, <2>2, <2>3, Regroup
  <2>6. e = (u \o q) \o b
    BY <1>1, <1>7, <2>1
  <2>7. SerializeAll(L) = u \o w
    BY <1>13, <1>18, <2>1, <2>3
  <2>8. u \o w \in Seq(Byte) /\ Len(u \o w) = 8
    <3>1. u \o w \in Seq(Byte) /\ Len(u \o w) = Len(u) + Len(w)
      BY <2>2, <2>4, JoinedBytes
    <3>. QED
      BY <2>2, <2>4, <3>1
  <2>. QED
    BY <2>5, <2>6, <2>7, <2>8
<1>21. PICK t : t = ConstructedTlv(TagOf["eli"], L)
  OBVIOUS
<1>22. t.tag = TagOf["eli"] /\ t.octets = e /\ t.inner = L
  BY <1>20, <1>21 DEF ConstructedTlv
<1>23. Elements(t.below) = Elements(L)
  <2>1. \A z \in AllLeaves : z.below = <<>>
    BY LeavesSent
  <2>2. \A z \in AllLeaves : z.below \in Seq(AllLeaves)
    BY <2>1, EmptySeq
  <2>3. Elements(t.below) = Elements(L) \cup UNION {Elements(z.below) : z \in Elements(L)}
    BY <1>18, <1>21, <2>2, BelowElements
  <2>4. Elements(L) \subseteq AllLeaves
    BY <1>18, ElementsIn
  <2>5. ASSUME NEW z \in Elements(L) PROVE Elements(z.below) = {}
    <3>1. z.below = <<>>
      BY <2>1, <2>4
    <3>. QED
      BY Zenon, <3>1, NoElements
  <2>6. UNION {Elements(z.below) : z \in Elements(L)} = {}
    BY <2>5
  <2>. QED
    BY <2>3, <2>6
<1>24. \A z \in Elements(L) : z.tag = <<2>>
  BY <1>5, <1>19
<1>25. EliTlv(t, e)
  BY Zenon, <1>18, <1>21, <1>22, <1>23, <1>24 DEF EliTlv
<1>26. Short(8)
  BY SMT DEF Short
<1>. QED
  BY <1>20, <1>25, <1>26

\* What a card's data objects are
IsData(d) ==
    /\ \A f \in DOMAIN TagOf : \A o \in d[f] : d[f] = {o} /\ o \in Seq(Byte) /\ Len(o) <= 64
    /\ \A e \in d["eli"] : EliForm(e)

\* An object, in TLVs
TlvFor(t, d, f) ==
    IF f = "eli" THEN EliTlv(t, The(d[f])) ELSE t = SimpleTlv(TagOf[f], The(d[f]))

\* ... is there, or is not.
LEMMA ObjectIs ==
  ASSUME NEW d, IsData(d), NEW f \in DOMAIN TagOf
  PROVE  /\ d[f] = {} => Object(d, f) = <<>>
         /\ d[f] # {} => /\ d[f] = {The(d[f])} /\ The(d[f]) \in Seq(Byte)
                         /\ Len(The(d[f])) <= 64 /\ Short(Len(The(d[f])))
                         /\ Object(d, f) = Do(TagOf[f], The(d[f]))
         /\ Object(d, f) \in Seq(Byte) /\ Len(Object(d, f)) <= 69
<1>1. CASE d[f] = {}
  BY <1>1, EmptySeq DEF Object
<1>2. CASE d[f] # {}
  <2>1. The(d[f]) \in d[f]
    BY <1>2 DEF The
  <2>2. PICK o : o = The(d[f]) /\ o \in d[f]
    BY <2>1
  <2>3. d[f] = {o} /\ o \in Seq(Byte) /\ Len(o) <= 64
    BY <2>2 DEF IsData
  <2>4. Len(o) \in Nat
    BY <2>3, LenProperties
  <2>5. Short(Len(o))
    BY SMT, <2>3, <2>4 DEF Short
  <2>6. Object(d, f) = Do(TagOf[f], o)
    BY <1>2, <2>2 DEF Object
  <2>7. PICK tag \in Seq(Byte) : tag = TagOf[f] /\ WholeTag(tag) /\ Len(tag) <= 2 /\ Len(tag) \in Nat
    BY ArdTag, LenProperties DEF WholeTag
  <2>8. Do(tag, o) \in Seq(Byte) /\ Len(Do(tag, o)) \in Nat /\ Len(Do(tag, o)) <= Len(tag) + 3 + Len(o)
    BY <2>3, <2>5, <2>7, DoIs
  <2>. QED
    BY <1>2, <2>2, <2>3, <2>4, <2>5, <2>6, <2>7, <2>8
<1>. QED
  BY <1>1, <1>2

\* A TLV for each object
LEMMA ObjectTlv ==
  ASSUME NEW d, IsData(d), NEW f \in DOMAIN TagOf, d[f] # {}
  PROVE  \E t : /\ TlvFor(t, d, f) /\ t.tag = TagOf[f] /\ t.octets = The(d[f])
                /\ f # "eli" => t \in AllLeaves
                /\ f = "eli" => /\ t = ConstructedTlv(TagOf[f], t.inner) /\ t.inner \in Seq(AllLeaves)
                                /\ Short(Len(SerializeAll(t.inner)))
                                /\ Elements(t.below) = Elements(t.inner)
                                /\ \A x \in Elements(t.inner) : x.tag = <<2>>
                /\ SerializeTlv(t) = Object(d, f)
<1>1. PICK o : /\ o = The(d[f]) /\ o \in Seq(Byte) /\ Short(Len(o)) /\ d[f] = {o}
               /\ Object(d, f) = Do(TagOf[f], o)
  BY ObjectIs
<1>2. WholeTag(TagOf[f]) /\ (IsConstructed(TagOf[f]) <=> f = "eli")
  BY ArdTag
<1>3. CASE f # "eli"
  <2>1. PICK t : t = SimpleTlv(TagOf[f], o)
    OBVIOUS
  <2>2. t.tag = TagOf[f] /\ t.octets = o
    BY <2>1 DEF SimpleTlv
  <2>3. t \in AllLeaves /\ SerializeTlv(t) = Do(TagOf[f], o)
    BY <1>1, <1>2, <1>3, <2>1, LeafIn, DoIs
  <2>. QED
    BY <1>1, <1>3, <2>1, <2>2, <2>3 DEF TlvFor
<1>4. CASE f = "eli"
  <2>1. EliForm(o)
    BY <1>1, <1>4 DEF IsData
  <2>2. PICK t : EliTlv(t, o)
    BY <2>1, EliIsTwo
  <2>3. /\ t = ConstructedTlv(TagOf["eli"], t.inner) /\ t.tag = TagOf["eli"] /\ t.octets = o
        /\ t.inner \in Seq(AllLeaves) /\ Elements(t.below) = Elements(t.inner)
        /\ \A x \in Elements(t.inner) : x.tag = <<2>>
    BY <2>2 DEF EliTlv
  <2>4. t.octets = SerializeAll(t.inner)
    BY <2>3 DEF ConstructedTlv
  <2>5. PICK tag : tag = TagOf["eli"]
    OBVIOUS
  <2>6. PICK L \in Seq(AllLeaves) : L = t.inner /\ Short(Len(SerializeAll(L)))
    BY <1>1, <2>3, <2>4
  <2>7. WholeTag(tag) /\ IsConstructed(tag)
    BY <1>2, <1>4, <2>5
  <2>8. AreTlvs(AllLeaves)
    BY LeavesSent
  <2>9. SerializeTlv(ConstructedTlv(tag, L)) = Do(tag, SerializeAll(L))
    <3>1. WholeTag(tag) /\ IsConstructed(tag) /\ Short(Len(SerializeAll(L)))
      BY <2>6, <2>7
    <3>. QED
      BY Zenon, <2>8, <3>1, OneMore
  <2>10. SerializeTlv(t) = Do(TagOf[f], o)
    BY <1>4, <2>3, <2>4, <2>5, <2>6, <2>9
  <2>. QED
    BY <1>1, <1>4, <2>2, <2>3, <2>4, <2>10 DEF TlvFor
<1>. QED
  BY <1>3, <1>4

-----------------------------------------------------------------------------
(* The application related data.                                           *)

\* The objects of the discretionary data
LEMMA DiscretionaryFields ==
  /\ Len(Discretionary) = 15 /\ DOMAIN Discretionary = 1..15
  /\ \A i \in 1..15 : Discretionary[i] \in DOMAIN TagOf \ {"aid", "historical", "eli"}
  /\ \A f \in DOMAIN TagOf \ {"aid", "historical", "eli"} : \E i \in 1..15 : f = Discretionary[i]
<1>1. Len(Discretionary) = 15 /\ DOMAIN Discretionary = 1..15
  BY DEF Discretionary
<1>2. /\ Discretionary[1] = "capabilities" /\ Discretionary[2] = "Signing"
      /\ Discretionary[3] = "Decryption" /\ Discretionary[4] = "Authentication"
      /\ Discretionary[5] = "pwStatus" /\ Discretionary[6] = "fingerprints"
      /\ Discretionary[7] = "caFingerprints" /\ Discretionary[8] = "times"
      /\ Discretionary[9] = "Attestation" /\ Discretionary[10] = "attestationFp"
      /\ Discretionary[11] = "attestationTime" /\ Discretionary[12] = "uifSigning"
      /\ Discretionary[13] = "uifDecryption" /\ Discretionary[14] = "uifAuthentication"
      /\ Discretionary[15] = "uifAttestation"
  BY DEF Discretionary
<1>3. ASSUME NEW i \in 1..15
      PROVE  Discretionary[i] \in DOMAIN TagOf \ {"aid", "historical", "eli"}
  <2>1. \/ i = 1 \/ i = 2 \/ i = 3 \/ i = 4 \/ i = 5 \/ i = 6 \/ i = 7 \/ i = 8
        \/ i = 9 \/ i = 10 \/ i = 11 \/ i = 12 \/ i = 13 \/ i = 14 \/ i = 15
    OBVIOUS
  <2>. QED
    BY <1>2, <2>1, ArdFields
<1>4. ASSUME NEW f \in DOMAIN TagOf \ {"aid", "historical", "eli"}
      PROVE  \E i \in 1..15 : f = Discretionary[i]
  <2>1. f \in {"capabilities", "pwStatus", "fingerprints", "caFingerprints", "times", "Signing",
               "Decryption", "Authentication", "Attestation", "attestationFp", "attestationTime",
               "uifSigning", "uifDecryption", "uifAuthentication", "uifAttestation"}
    BY ArdFields
  <2>2. /\ 1 \in 1..15 /\ 2 \in 1..15 /\ 3 \in 1..15 /\ 4 \in 1..15 /\ 5 \in 1..15 /\ 6 \in 1..15
        /\ 7 \in 1..15 /\ 8 \in 1..15 /\ 9 \in 1..15 /\ 10 \in 1..15 /\ 11 \in 1..15
        /\ 12 \in 1..15 /\ 13 \in 1..15 /\ 14 \in 1..15 /\ 15 \in 1..15
    OBVIOUS
  <2>. QED
    BY ZenonT(60), <1>2, <2>1, <2>2
<1>. QED
  BY <1>1, <1>3, <1>4

\* The TLV of an object, if there is the object
Coded(X, d, f) ==
    \/ d[f] = {} /\ X = {}
    \/ d[f] # {} /\ \E t : /\ X = {t} /\ t.tag = TagOf[f] /\ d[f] = {t.octets}
                           /\ SerializeTlv(t) = Object(d, f)

\* ... a simple one, but for the extended length information
LEMMA SimplyCoded ==
  ASSUME NEW d, IsData(d), NEW f \in DOMAIN TagOf, f # "eli"
  PROVE  \E X \in SUBSET AllLeaves : Coded(X, d, f)
<1>1. CASE d[f] = {}
  BY <1>1 DEF Coded
<1>2. CASE d[f] # {}
  <2>1. PICK t : /\ t.tag = TagOf[f] /\ t.octets = The(d[f]) /\ t \in AllLeaves
                 /\ SerializeTlv(t) = Object(d, f)
    BY <1>2, ObjectTlv
  <2>2. d[f] = {t.octets}
    BY <1>2, <2>1, ObjectIs
  <2>3. Coded({t}, d, f)
    BY <1>2, <2>1, <2>2 DEF Coded
  <2>. QED
    BY <2>1, <2>3
<1>. QED
  BY <1>1, <1>2

\* A list of the TLVs of some objects, and what is written for them
ListsAll(L, d, F) ==
    /\ L \in Seq(AllLeaves)
    /\ \A f \in F : \A o \in d[f] : \E x \in Elements(L) : x.tag = TagOf[f] /\ x.octets = o
    /\ \A x \in Elements(L) : \E f \in F : x.tag = TagOf[f] /\ x.octets \in d[f]

\* ... is what the discretionary data are.
LEMMA DiscretionaryListed ==
  ASSUME NEW d, IsData(d)
  PROVE  /\ \E L : /\ ListsAll(L, d, DOMAIN TagOf \ {"aid", "historical", "eli"})
                   /\ SerializeAll(L) = Objects(d)
         /\ Objects(d) \in Seq(Byte) /\ Len(Objects(d)) <= 1035
<1> DEFINE D(i) == Discretionary[i]
           X(i) == CHOOSE Y \in SUBSET AllLeaves : Coded(Y, d, D(i))
           one(Y) == IF Y = {} THEN <<>> ELSE <<CHOOSE t \in Y : TRUE>>
           o == [i \in 1..15 |-> one(X(i))]
           q == [i \in 1..15 |-> Object(d, D(i))]
<1>1. ASSUME NEW i \in 1..15
      PROVE  /\ D(i) \in DOMAIN TagOf /\ D(i) # "eli"
             /\ X(i) \in SUBSET AllLeaves /\ Coded(X(i), d, D(i))
  <2>1. D(i) \in DOMAIN TagOf /\ D(i) # "eli"
    BY DiscretionaryFields
  <2> HIDE DEF D
  <2>2. \E Y \in SUBSET AllLeaves : Coded(Y, d, D(i))
    BY <2>1, SimplyCoded
  <2>. QED
    BY <2>1, <2>2
<1> HIDE DEF X, D
<1>2. ASSUME NEW Y \in SUBSET AllLeaves, NEW f, Coded(Y, d, f), f \in DOMAIN TagOf
      PROVE  /\ one(Y) \in Seq(AllLeaves)
             /\ one(Y) = <<>> \/ \E t \in AllLeaves : one(Y) = <<t>>
             /\ SerializeAll(one(Y)) = Object(d, f)
             /\ \A t : one(Y) = <<t>> <=> t \in Y
  <2>1. CASE Y = {}
    <3>1. one(Y) = <<>>
      BY <2>1
    <3>2. d[f] = {}
      BY <1>2, <2>1 DEF Coded
    <3>3. Object(d, f) = <<>>
      BY <1>2, <3>2, ObjectIs
    <3>4. SerializeAll(one(Y)) = Object(d, f)
      BY Zenon, <3>1, <3>3, SerializeNone
    <3>5. ASSUME NEW t PROVE <<>> # <<t>>
      OBVIOUS
    <3> HIDE DEF one
    <3>. QED
      BY <2>1, <3>1, <3>4, <3>5, EmptySeq
  <2>2. CASE Y # {}
    <3>1. PICK t : Y = {t} /\ SerializeTlv(t) = Object(d, f)
      BY <1>2, <2>2 DEF Coded
    <3>2. one(Y) = <<t>> /\ t \in AllLeaves
      BY <3>1
    <3> HIDE DEF one
    <3>3. PICK s : s = <<t>>
      OBVIOUS
    <3>4. s \in Seq(AllLeaves)
      BY <3>2, <3>3
    <3>5. SerializeAll(<<t>>) = SerializeTlv(t)
      BY <3>2, LeavesSent, SerializeSingle
    <3>6. ASSUME NEW u PROVE <<t>> = <<u>> <=> t = u
      OBVIOUS
    <3>. QED
      BY <3>1, <3>2, <3>3, <3>4, <3>5, <3>6
  <2>. QED
    BY <2>1, <2>2
<1> HIDE DEF one
<1>3. ASSUME NEW i \in 1..15
      PROVE  /\ o[i] = one(X(i)) /\ o[i] \in Seq(AllLeaves)
             /\ o[i] = <<>> \/ \E t \in AllLeaves : o[i] = <<t>>
             /\ SerializeAll(o[i]) = q[i]
             /\ \A t : o[i] = <<t>> <=> t \in X(i)
  <2>1. o[i] = one(X(i)) /\ q[i] = Object(d, D(i))
    OBVIOUS
  <2> HIDE DEF o, q
  <2>. QED
    BY <1>1, <1>2, <2>1
<1>4. q \in Seq(Seq(Byte)) /\ Len(q) = 15 /\ \A i \in 1..Len(q) : Len(q[i]) <= 69
  <2>1. \A i \in 1..15 : q[i] \in Seq(Byte) /\ Len(q[i]) <= 69
    BY <1>1, ObjectIs
  <2>2. q \in [1..15 -> Seq(Byte)]
    BY <2>1
  <2> HIDE DEF q
  <2>3. 15 \in Nat
    OBVIOUS
  <2>4. q \in Seq(Seq(Byte)) /\ Len(q) = 15
    BY ZenonT(60), <2>2, <2>3, FcnIsSeq
  <2>. QED
    BY <2>1, <2>4
<1>5. Objects(d) = FlattenSeq(q)
  <2>1. q = [i \in DOMAIN Discretionary |-> Object(d, Discretionary[i])]
    BY DiscretionaryFields DEF D
  <2> HIDE DEF q
  <2>. QED
    BY <2>1 DEF Objects
<1>6. o \in Seq(Seq(AllLeaves)) /\ Len(o) = 15
  <2>1. o \in [1..15 -> Seq(AllLeaves)]
    BY <1>3
  <2> HIDE DEF o
  <2>2. 15 \in Nat
    OBVIOUS
  <2>. QED
    BY ZenonT(60), <2>1, <2>2, FcnIsSeq
<1>7. q = [i \in 1..Len(o) |-> SerializeAll(o[i])]
  BY <1>3, <1>6
<1> HIDE DEF o, q
<1>8. Options(o, AllLeaves)
  BY <1>3, <1>6 DEF Options
<1>9. AreTlvs(AllLeaves)
  BY LeavesSent
<1>10. PICK L \in Seq(AllLeaves) : /\ FlattenSeq([i \in 1..Len(o) |-> SerializeAll(o[i])]) = SerializeAll(L)
                                   /\ HasThose(L, o)
  BY <1>6, <1>8, <1>9, OptionsListed DEF IsOneList
<1>11. SerializeAll(L) = Objects(d)
  BY <1>5, <1>7, <1>10
<1>12. ASSUME NEW t PROVE t \in Elements(L) <=> \E i \in 1..15 : t \in X(i)
  <2>1. t \in Elements(L) <=> \E i \in 1..Len(L) : L[i] = t
    BY DEF Elements
  <2>2. (\E i \in 1..Len(L) : L[i] = t) <=> \E i \in 1..Len(o) : o[i] = <<t>>
    BY <1>10 DEF HasThose
  <2>. QED
    BY <1>3, <1>6, <2>1, <2>2
<1>13. ASSUME NEW f \in DOMAIN TagOf \ {"aid", "historical", "eli"}, NEW v \in d[f]
       PROVE  \E x \in Elements(L) : x.tag = TagOf[f] /\ x.octets = v
  <2>1. PICK i \in 1..15 : f = D(i)
    BY DiscretionaryFields DEF D
  <2>2. PICK t : X(i) = {t} /\ t.tag = TagOf[f] /\ d[f] = {t.octets}
    BY <1>1, <1>13, <2>1 DEF Coded
  <2>. QED
    BY <1>12, <1>13, <2>1, <2>2
<1>14. ASSUME NEW x \in Elements(L)
       PROVE  \E f \in DOMAIN TagOf \ {"aid", "historical", "eli"} : x.tag = TagOf[f] /\ x.octets \in d[f]
  <2>1. PICK i \in 1..15 : x \in X(i)
    BY <1>12
  <2>2. D(i) \in DOMAIN TagOf \ {"aid", "historical", "eli"}
    BY DiscretionaryFields DEF D
  <2>3. x.tag = TagOf[D(i)] /\ d[D(i)] = {x.octets}
    BY <1>1, <2>1 DEF Coded
  <2>. QED
    BY <2>2, <2>3
<1>15. ListsAll(L, d, DOMAIN TagOf \ {"aid", "historical", "eli"})
  BY <1>13, <1>14 DEF ListsAll
<1>16. FlattenSeq(q) \in Seq(Byte)
  BY <1>4, FlattenTyped
<1>17. Len(FlattenSeq(q)) <= 69 * Len(q)
  <2>1. 69 \in Nat
    OBVIOUS
  <2>. QED
    BY <1>4, <2>1, FlattenLength
<1>18. 69 * 15 = 1035
  OBVIOUS
<1>. QED
  BY <1>4, <1>5, <1>11, <1>15, <1>16, <1>17, <1>18

\* All that is below a list of TLVs
Under(L) == Elements(L) \cup UNION {Elements(t.below) : t \in Elements(L)}

\* M is L behind the TLV of an object, if there is the object.
PutBefore(M, T, X, L, octets) ==
    M \in Seq(T) /\ SerializeAll(M) = octets \o SerializeAll(L) /\ Elements(M) = X \cup Elements(L)

\* There is such a list.
LEMMA ObjectInFront ==
  ASSUME NEW d, IsData(d), NEW f \in DOMAIN TagOf, NEW T, AreTlvs(T), NEW X \in SUBSET T,
         Coded(X, d, f), NEW L \in Seq(T)
  PROVE  \E M : PutBefore(M, T, X, L, Object(d, f))
<1>1. CASE d[f] = {}
  <2>1. X = {} /\ Object(d, f) = <<>>
    BY <1>1, ObjectIs DEF Coded
  <2>2. SerializeAll(L) \in Seq(Byte)
    BY SerializeType
  <2>3. PICK s \in Seq(Byte) : s = SerializeAll(L)
    BY <2>2
  <2>4. <<>> \o s = s
    OBVIOUS
  <2>5. SerializeAll(L) = Object(d, f) \o SerializeAll(L)
    BY <2>1, <2>3, <2>4
  <2>6. PutBefore(L, T, X, L, Object(d, f))
    BY <2>1, <2>5 DEF PutBefore
  <2>. QED
    BY <2>6
<1>2. CASE d[f] # {}
  <2>1. PICK t : X = {t} /\ SerializeTlv(t) = Object(d, f)
    BY <1>2 DEF Coded
  <2>2. t \in T
    BY <2>1
  <2>3. <<t>> \o L \in Seq(T) /\ SerializeAll(<<t>> \o L) = SerializeTlv(t) \o SerializeAll(L)
    BY <2>2, SerializeOne
  <2>4. PICK s : s = <<t>>
    OBVIOUS
  <2>5. s \in Seq(T) /\ Elements(s) = {t}
    BY <2>2, <2>4, OneElement
  <2>6. Elements(s \o L) = {t} \cup Elements(L)
    BY <2>5, JoinedElements
  <2>7. PutBefore(s \o L, T, X, L, Object(d, f))
    BY <2>1, <2>3, <2>4, <2>6 DEF PutBefore
  <2>. QED
    BY <2>7
<1>. QED
  BY <1>1, <1>2

\* A set of TLVs that can be sent, with all that is below them
Forest(T) == AreTlvs(T) /\ \A t \in T : t.below \in Seq(T)

\* The extended length information, if a card has it
EliIn(X, d) ==
    /\ Coded(X, d, "eli") /\ Forest(AllLeaves \cup X)
    /\ \A t \in X : \A x \in Elements(t.below) : x.tag = <<2>>

\* ... is coded as another object is.
LEMMA EliCoded ==
  ASSUME NEW d, IsData(d)
  PROVE  \E X : EliIn(X, d)
<1>1. \A t \in AllLeaves : t.below \in Seq(AllLeaves)
  BY LeavesSent, EmptySeq
<1>2. CASE d["eli"] = {}
  <2>1. Coded({}, d, "eli")
    BY <1>2 DEF Coded
  <2>2. AllLeaves \cup {} = AllLeaves
    OBVIOUS
  <2>3. Forest(AllLeaves \cup {})
    BY Zenon, <1>1, <2>2, LeavesSent DEF Forest
  <2>4. EliIn({}, d)
    BY <2>1, <2>3 DEF EliIn
  <2>. QED
    BY <2>4
<1>3. CASE d["eli"] # {}
  <2>1. "eli" \in DOMAIN TagOf
    BY ArdFields
  <2>2. PICK t : /\ t.tag = TagOf["eli"] /\ t.octets = The(d["eli"])
                 /\ t = ConstructedTlv(TagOf["eli"], t.inner) /\ t.inner \in Seq(AllLeaves)
                 /\ Short(Len(SerializeAll(t.inner)))
                 /\ Elements(t.below) = Elements(t.inner)
                 /\ \A x \in Elements(t.inner) : x.tag = <<2>>
                 /\ SerializeTlv(t) = Object(d, "eli")
    BY <1>3, <2>1, ObjectTlv
  <2>3. d["eli"] = {t.octets}
    BY <1>3, <2>1, <2>2, ObjectIs
  <2>4. Coded({t}, d, "eli")
    BY <1>3, <2>2, <2>3 DEF Coded
  <2>5. WholeTag(TagOf["eli"]) /\ IsConstructed(TagOf["eli"])
    BY <2>1, ArdTag
  <2>6. PICK tag : tag = TagOf["eli"]
    OBVIOUS
  <2>7. PICK L \in Seq(AllLeaves) : L = t.inner
    BY <2>2
  <2>8. WholeTag(tag) /\ IsConstructed(tag) /\ Short(Len(SerializeAll(L))) /\ t = ConstructedTlv(tag, L)
    BY <2>2, <2>5, <2>6, <2>7
  <2>9. AreTlvs(AllLeaves)
    BY LeavesSent
  <2>10. AreTlvs(AllLeaves \cup {ConstructedTlv(tag, L)})
    BY Zenon, <2>8, <2>9, OneMore
  <2>11. t.below \in Seq(AllLeaves)
    BY <1>1, <2>7, <2>8, BelowElements
  <2>12. Seq(AllLeaves) \subseteq Seq(AllLeaves \cup {t})
    BY SeqMonotonic
  <2>13. \A x \in AllLeaves \cup {t} : x.below \in Seq(AllLeaves \cup {t})
    BY <1>1, <2>11, <2>12
  <2>14. Forest(AllLeaves \cup {t})
    BY <2>8, <2>10, <2>13 DEF Forest
  <2>15. \A x \in Elements(t.below) : x.tag = <<2>>
    BY <2>2
  <2>16. EliIn({t}, d)
    BY <2>4, <2>14, <2>15 DEF EliIn
  <2>. QED
    BY <2>16
<1>. QED
  BY <1>2, <1>3

\* U is T with the constructed TLV c more, below which there is what is under L.
Grown(T, U, c, tag, L) ==
    /\ c = ConstructedTlv(tag, L) /\ c.tag = tag /\ c \in U /\ T \subseteq U
    /\ Forest(U) /\ U = T \cup {c} /\ Seq(T) \subseteq Seq(U)
    /\ SerializeTlv(c) = Do(tag, SerializeAll(L))
    /\ Elements(c.below) = Under(L)

\* There is such a set.
LEMMA ForestGrows ==
  ASSUME NEW T, Forest(T), NEW tag, WholeTag(tag), IsConstructed(tag), NEW L \in Seq(T),
         Short(Len(SerializeAll(L)))
  PROVE  \E c, U : Grown(T, U, c, tag, L)
<1>1. PICK c : c = ConstructedTlv(tag, L)
  OBVIOUS
<1>2. PICK U : U = T \cup {c}
  OBVIOUS
<1>3. AreTlvs(T) /\ \A t \in T : t.below \in Seq(T)
  BY DEF Forest
<1>4. AreTlvs(U) /\ SerializeTlv(c) = Do(tag, SerializeAll(L))
  BY Zenon, <1>1, <1>2, <1>3, OneMore
<1>5. Seq(T) \subseteq Seq(U)
  BY <1>2, SeqMonotonic
<1>6. c.below \in Seq(T) /\ Elements(c.below) = Under(L)
  BY <1>1, <1>3, BelowElements DEF Under
<1>7. \A t \in U : t.below \in Seq(U)
  BY <1>2, <1>3, <1>5, <1>6
<1>8. Forest(U)
  BY <1>4, <1>7 DEF Forest
<1>9. c.tag = tag
  BY <1>1 DEF ConstructedTlv
<1>10. Grown(T, U, c, tag, L)
  BY <1>1, <1>2, <1>4, <1>5, <1>6, <1>8, <1>9 DEF Grown
<1>. QED
  BY <1>10

\* B has the parts of the data, and nothing else with a tag of a part.
Shows(B, d) ==
    /\ \A f \in DOMAIN TagOf : \A o \in d[f] : \E x \in B : x.tag = TagOf[f] /\ x.octets = o
    /\ \A x \in B : \/ x.tag \in {<<2>>, <<110>>, <<115>>}
                    \/ \E f \in DOMAIN TagOf : x.tag = TagOf[f] /\ x.octets \in d[f]

\* What a card writes is the TLVs of its data objects.
LEMMA ArdListed ==
  ASSUME NEW d, IsData(d)
  PROVE  \E T, M : /\ Forest(T) /\ M \in Seq(T) /\ Shows(Under(M), d)
                   /\ SerializeAll(M) = ArdOctets(d, FALSE) /\ Short(Len(SerializeAll(M)))
<1>1. PICK L : /\ ListsAll(L, d, DOMAIN TagOf \ {"aid", "historical", "eli"})
               /\ SerializeAll(L) = Objects(d)
  BY ZenonT(60), DiscretionaryListed
<1>2. Objects(d) \in Seq(Byte) /\ Len(Objects(d)) <= 1035 /\ Len(Objects(d)) \in Nat
  BY DiscretionaryListed, LenProperties
<1>3. L \in Seq(AllLeaves)
  BY <1>1 DEF ListsAll
<1>4. PICK X : /\ Coded(X, d, "eli") /\ Forest(AllLeaves \cup X)
               /\ \A t \in X : \A x \in Elements(t.below) : x.tag = <<2>>
  BY EliCoded DEF EliIn
<1>5. PICK T : T = AllLeaves \cup X
  OBVIOUS
<1>6. L \in Seq(T) /\ Forest(T)
  BY <1>3, <1>4, <1>5, SeqMonotonic
<1>7. PICK tag : tag = <<115>>
  OBVIOUS
<1>8. WholeTag(tag) /\ IsConstructed(tag)
  BY <1>7, OuterTags
<1>9. Short(Len(SerializeAll(L)))
  <2>1. PICK n : n = Len(Objects(d)) /\ n \in Nat /\ n <= 1035
    BY <1>2
  <2>2. Short(n)
    BY SMT, <2>1 DEF Short
  <2>. QED
    BY <1>1, <2>1, <2>2
<1>100. PICK c, U : Grown(T, U, c, tag, L)
  BY Zenon, <1>6, <1>8, <1>9, ForestGrows
<1>10. /\ c.tag = tag /\ c \in U /\ T \subseteq U /\ Forest(U)
       /\ SerializeTlv(c) = Do(tag, SerializeAll(L)) /\ Elements(c.below) = Under(L)
  BY <1>100 DEF Grown
<1>11. PICK M0 : M0 = <<c>>
  OBVIOUS
<1>12. AreTlvs(U)
  BY <1>10 DEF Forest
<1>13. /\ M0 \in Seq(U) /\ Elements(M0) = {c}
       /\ SerializeAll(M0) = Do(<<115>>, Objects(d))
  <2>1. M0 \in Seq(U) /\ Elements(M0) = {c}
    BY <1>10, <1>11, OneElement
  <2>2. SerializeAll(M0) = SerializeTlv(c)
    BY <1>10, <1>11, <1>12, SerializeSingle
  <2>. QED
    BY <1>1, <1>7, <1>10, <2>1, <2>2
<1>14. "eli" \in DOMAIN TagOf /\ "aid" \in DOMAIN TagOf /\ "historical" \in DOMAIN TagOf
  BY ArdFields
<1>15. PICK A \in SUBSET AllLeaves : Coded(A, d, "aid")
  BY <1>14, SimplyCoded
<1>16. PICK H \in SUBSET AllLeaves : Coded(H, d, "historical")
  BY <1>14, SimplyCoded
<1>17. X \in SUBSET U /\ A \in SUBSET U /\ H \in SUBSET U
  BY <1>5, <1>10
<1>181. PICK M1 : PutBefore(M1, U, X, M0, Object(d, "eli"))
  BY <1>4, <1>12, <1>13, <1>14, <1>17, ObjectInFront
<1>18. /\ M1 \in Seq(U) /\ Elements(M1) = X \cup Elements(M0)
       /\ SerializeAll(M1) = Object(d, "eli") \o SerializeAll(M0)
  BY <1>181 DEF PutBefore
<1>191. PICK M2 : PutBefore(M2, U, H, M1, Object(d, "historical"))
  BY <1>12, <1>14, <1>16, <1>17, <1>18, ObjectInFront
<1>19. /\ M2 \in Seq(U) /\ Elements(M2) = H \cup Elements(M1)
       /\ SerializeAll(M2) = Object(d, "historical") \o SerializeAll(M1)
  BY <1>191 DEF PutBefore
<1>201. PICK M : PutBefore(M, U, A, M2, Object(d, "aid"))
  BY <1>12, <1>14, <1>15, <1>17, <1>19, ObjectInFront
<1>20. /\ M \in Seq(U) /\ Elements(M) = A \cup Elements(M2)
       /\ SerializeAll(M) = Object(d, "aid") \o SerializeAll(M2)
  BY <1>201 DEF PutBefore
<1>21. Elements(M) = A \cup H \cup X \cup {c}
  BY <1>13, <1>18, <1>19, <1>20
<1>22. \A t \in AllLeaves : Elements(t.below) = {}
  <2>1. \A t \in AllLeaves : t.below = <<>>
    BY LeavesSent
  <2>. QED
    BY Zenon, <2>1, NoElements
<1>23. Elements(L) \subseteq AllLeaves
  BY <1>3, ElementsIn
<1>24. Under(L) = Elements(L)
  <2>1. \A t \in Elements(L) : Elements(t.below) = {}
    BY <1>22, <1>23
  <2>2. UNION {Elements(t.below) : t \in Elements(L)} = {}
    BY <2>1
  <2>. QED
    BY <2>2 DEF Under
<1>25. ASSUME NEW x
       PROVE  x \in Under(M) <=> \/ x \in A \/ x \in H \/ x \in X \/ x = c
                                 \/ x \in Elements(L)
                                 \/ \E t \in X : x \in Elements(t.below)
  <2>1. x \in Under(M) <=> x \in Elements(M) \/ \E t \in Elements(M) : x \in Elements(t.below)
    BY DEF Under
  <2>2. \A t \in A \cup H : Elements(t.below) = {}
    BY <1>22
  <2>. QED
    BY <1>10, <1>21, <1>24, <2>1, <2>2
<1>26. ASSUME NEW f \in DOMAIN TagOf, NEW o \in d[f]
       PROVE  \E x \in Under(M) : x.tag = TagOf[f] /\ x.octets = o
  <2>1. CASE f \notin {"aid", "historical", "eli"}
    <3>1. \E x \in Elements(L) : x.tag = TagOf[f] /\ x.octets = o
      BY <1>1, <1>26, <2>1 DEF ListsAll
    <3>. QED
      BY <1>25, <3>1
  <2>2. ASSUME NEW Y, Coded(Y, d, f)
        PROVE  \E x \in Y : x.tag = TagOf[f] /\ x.octets = o
    BY <1>26, <2>2 DEF Coded
  <2>3. CASE f = "aid"
    BY <1>15, <1>25, <2>2, <2>3
  <2>4. CASE f = "historical"
    BY <1>16, <1>25, <2>2, <2>4
  <2>5. CASE f = "eli"
    BY <1>4, <1>25, <2>2, <2>5
  <2>. QED
    BY <2>1, <2>3, <2>4, <2>5
<1>27. ASSUME NEW x \in Under(M)
       PROVE  \/ x.tag \in {<<2>>, <<110>>, <<115>>}
              \/ \E f \in DOMAIN TagOf : x.tag = TagOf[f] /\ x.octets \in d[f]
  <2>1. CASE x \in Elements(L)
    BY <1>1, <2>1 DEF ListsAll
  <2>2. CASE x = c
    BY <1>7, <1>10, <2>2
  <2>3. CASE \E t \in X : x \in Elements(t.below)
    BY <1>4, <2>3
  <2>4. ASSUME NEW f, NEW Y, Coded(Y, d, f), x \in Y
        PROVE  x.tag = TagOf[f] /\ x.octets \in d[f]
    BY <2>4 DEF Coded
  <2>5. CASE x \in A \/ x \in H \/ x \in X
    BY <1>4, <1>14, <1>15, <1>16, <2>4, <2>5
  <2>. QED
    BY <1>25, <2>1, <2>2, <2>3, <2>5
<1>28. Shows(Under(M), d)
  BY <1>26, <1>27 DEF Shows
<1>29. PICK a, h, e, r \in Seq(Byte) : /\ a = Object(d, "aid") /\ h = Object(d, "historical")
                                       /\ e = Object(d, "eli") /\ r = Do(<<115>>, Objects(d))
                                       /\ Len(a) <= 69 /\ Len(h) <= 69 /\ Len(e) <= 69
                                       /\ Len(r) <= 1039
  <2>1. \A f \in DOMAIN TagOf : Object(d, f) \in Seq(Byte) /\ Len(Object(d, f)) <= 69
    BY ObjectIs
  <2>2. /\ Do(tag, Objects(d)) \in Seq(Byte)
        /\ Len(Do(tag, Objects(d))) <= Len(tag) + 3 + Len(Objects(d))
    BY <1>1, <1>2, <1>8, <1>9, DoIs
  <2>3. Len(tag) = 1
    BY <1>7
  <2>4. Len(Do(tag, Objects(d))) <= 1039
    <3>1. Len(Do(tag, Objects(d))) \in Nat
      BY <2>2, LenProperties
    <3>. QED
      BY <1>2, <2>2, <2>3, <3>1
  <2>. QED
    BY <1>7, <1>14, <2>1, <2>2, <2>4
<1>30. SerializeAll(M) = a \o (h \o (e \o r))
  BY <1>13, <1>18, <1>19, <1>20, <1>29
<1>31. ((a \o h) \o e) \o r = a \o (h \o (e \o r))
  <2>1. PICK ah \in Seq(Byte) : ah = a \o h
    BY JoinedBytes
  <2>2. PICK er \in Seq(Byte) : er = e \o r
    BY JoinedBytes
  <2>3. (ah \o e) \o r = ah \o (e \o r)
    BY ZenonT(60), Regroup
  <2>4. (a \o h) \o er = a \o (h \o er)
    BY SMTT(60), Regroup
  <2>. QED
    BY Zenon, <2>1, <2>2, <2>3, <2>4
<1>32. ArdOctets(d, FALSE) = ((a \o h) \o e) \o r
  BY <1>29 DEF ArdOctets
<1>33. Short(Len(SerializeAll(M)))
  <2>1. PICK er \in Seq(Byte) : er = e \o r /\ Len(er) = Len(e) + Len(r)
    BY JoinedBytes
  <2>2. PICK her \in Seq(Byte) : her = h \o er /\ Len(her) = Len(h) + Len(er)
    BY JoinedBytes
  <2>3. PICK all \in Seq(Byte) : all = a \o her /\ Len(all) = Len(a) + Len(her)
    BY JoinedBytes
  <2>4. Len(a) \in Nat /\ Len(h) \in Nat /\ Len(e) \in Nat /\ Len(r) \in Nat
    BY LenProperties
  <2>5. Len(all) \in Nat /\ Len(all) <= 2000
    BY <1>29, <2>1, <2>2, <2>3, <2>4
  <2>6. Short(Len(all))
    BY SMT, <2>5 DEF Short
  <2>. QED
    BY <1>30, <2>1, <2>2, <2>3, <2>6
<1>. QED
  BY <1>10, <1>20, <1>28, <1>30, <1>31, <1>32, <1>33

\* The application related data as a TLV
IsTree(c, T) == c.tag = <<110>> /\ c.below \in Seq(T)

\* Every part is found where only the parts have their tags.
LEMMA PartShown ==
  ASSUME NEW d, IsData(d), NEW T, NEW c, IsTree(c, T),
         Shows(Elements(c.below), d), NEW f \in DOMAIN TagOf
  PROVE  Part(c, f) = d[f]
<1>1. PICK B : B = Elements(c.below)
  OBVIOUS
<1>2. PICK tag : tag = TagOf[f]
  OBVIOUS
<1>3. tag \notin {<<2>>, <<110>>, <<115>>}
  BY <1>2, OuterTags
<1>4. ASSUME NEW g \in DOMAIN TagOf, TagOf[g] = tag PROVE g = f
  <2>1. NameAt(TagOf[g][1]) = g /\ NameAt(TagOf[f][1]) = f
    BY ArdTag
  <2>. QED
    BY <1>2, <1>4, <2>1
<1>5. ASSUME NEW x \in B, x.tag = tag PROVE x.octets \in d[f]
  <2>1. PICK g \in DOMAIN TagOf : x.tag = TagOf[g] /\ x.octets \in d[g]
    BY <1>1, <1>3, <1>5 DEF Shows
  <2>2. g = f
    BY <1>4, <1>5, <2>1
  <2>. QED
    BY <2>1, <2>2
<1>6. \A o \in d[f] : \E x \in B : x.tag = tag /\ x.octets = o
  BY <1>1, <1>2 DEF Shows
<1>7. \A x, y \in B : x.tag = tag /\ y.tag = tag => x.octets = y.octets
  <2>1. \A o \in d[f] : d[f] = {o}
    BY DEF IsData
  <2>. QED
    BY <1>5, <2>1
<1>8. c.tag # tag /\ c.below \in Seq(T)
  BY <1>3 DEF IsTree
<1>9. {x.octets : x \in Find(c, tag)} = {x.octets : x \in {y \in B : y.tag = tag}}
  <2>1. \A x, y \in Elements(c.below) : x.tag = tag /\ y.tag = tag => x.octets = y.octets
    BY <1>1, <1>7
  <2>2. {x.octets : x \in Find(c, tag)} = {x.octets : x \in {y \in Elements(c.below) : y.tag = tag}}
    BY Zenon, <1>8, <2>1, FindBelow
  <2>. QED
    BY <1>1, <2>2
<1>10. {x.octets : x \in {y \in B : y.tag = tag}} = d[f]
  BY <1>5, <1>6
<1>. QED
  BY <1>2, <1>9, <1>10 DEF Part

\* A list of octets that is read as application related data with these parts
IsArdOf(octets, d) ==
    \E ard : ArdOf(octets) = {ard} /\ \A f \in DOMAIN TagOf : Part(ard, f) = d[f]

\* A list with all parts is read so.
LEMMA ShownRead ==
  ASSUME NEW d, IsData(d), NEW T, Forest(T), NEW M \in Seq(T), Shows(Under(M), d)
  PROVE  IsArdOf(SerializeAll(M), d)
<1>1. AreTlvs(T) /\ \A t \in T : t.below \in Seq(T)
  BY DEF Forest
<1>2. ParseList[SerializeAll(M)] = {M}
  BY <1>1, ListRead
<1>3. PICK tag : tag = <<110>>
  OBVIOUS
<1>4. PICK c : c = ConstructedTlv(tag, M)
  OBVIOUS
<1>5. ArdOf(SerializeAll(M)) = {c}
  BY <1>2, <1>3, <1>4 DEF ArdOf
<1>6. c.below \in Seq(T) /\ Elements(c.below) = Under(M)
  BY <1>1, <1>4, BelowElements DEF Under
<1>7. c.tag = <<110>>
  BY <1>3, <1>4 DEF ConstructedTlv
<1>8. \A f \in DOMAIN TagOf : Part(c, f) = d[f]
  BY <1>6, <1>7, PartShown DEF IsTree
<1>. QED
  BY <1>5, <1>8 DEF IsArdOf

\* Whether or not a card repeats the tag 6E, every part of what it writes is read.
LEMMA ArdRead ==
  ASSUME NEW d, IsData(d), NEW wrapped \in BOOLEAN
  PROVE  IsArdOf(ArdOctets(d, wrapped), d)
<1>1. PICK T, M : /\ Forest(T) /\ M \in Seq(T) /\ Shows(Under(M), d)
                  /\ SerializeAll(M) = ArdOctets(d, FALSE) /\ Short(Len(SerializeAll(M)))
  BY ArdListed
<1>2. CASE ~wrapped
  BY <1>1, <1>2, ShownRead
<1>3. CASE wrapped
  <2>1. PICK tag : tag = <<110>>
    OBVIOUS
  <2>2. WholeTag(tag) /\ IsConstructed(tag)
    BY <2>1, OuterTags
  <2>3. PICK w, U : Grown(T, U, w, tag, M)
    BY Zenon, <1>1, <2>2, ForestGrows
  <2>4. /\ w.tag = tag /\ w \in U /\ Forest(U) /\ SerializeTlv(w) = Do(tag, SerializeAll(M))
        /\ Elements(w.below) = Under(M)
    BY <2>3 DEF Grown
  <2>5. PICK N : N = <<w>>
    OBVIOUS
  <2>6. N \in Seq(U) /\ Elements(N) = {w}
    BY <2>4, <2>5, OneElement
  <2>7. SerializeAll(N) = SerializeTlv(w)
    BY <2>4, <2>5, SerializeSingle DEF Forest
  <2>8. ArdOctets(d, wrapped) = Do(<<110>>, ArdOctets(d, FALSE))
    BY <1>3 DEF ArdOctets
  <2>9. SerializeAll(N) = ArdOctets(d, wrapped)
    BY <1>1, <2>1, <2>4, <2>7, <2>8
  <2>10. Under(N) = {w} \cup Under(M)
    BY <2>4, <2>6 DEF Under
  <2>11. Shows(Under(N), d)
    BY <1>1, <2>1, <2>4, <2>10 DEF Shows
  <2>. QED
    BY <2>4, <2>6, <2>9, <2>11, ShownRead
<1>. QED
  BY <1>2, <1>3

-----------------------------------------------------------------------------
(* Identifier, values of keys, touch policies, PINs and extended lengths.  *)

\* A piece of what was joined
LEMMA PieceOf ==
  ASSUME NEW a \in Seq(Byte), NEW b \in Seq(Byte), NEW c \in Seq(Byte)
  PROVE  /\ (a \o b) \o c \in Seq(Byte) /\ Len((a \o b) \o c) = Len(a) + Len(b) + Len(c)
         /\ SubSeq((a \o b) \o c, Len(a) + 1, Len(a) + Len(b)) = b
         /\ \A i \in 1..Len(a) : ((a \o b) \o c)[i] = a[i]
<1>1. Len(a) \in Nat /\ Len(b) \in Nat /\ Len(c) \in Nat
  BY LenProperties
<1>2. PICK ab \in Seq(Byte) : /\ ab = a \o b /\ Len(ab) = Len(a) + Len(b)
                              /\ \A i \in 1..Len(a) : ab[i] = a[i]
                              /\ \A i \in 1..Len(b) : ab[Len(a) + i] = b[i]
  BY ZenonT(60), JoinedBytes
<1>3. PICK s \in Seq(Byte) : /\ s = ab \o c /\ Len(s) = Len(ab) + Len(c)
                             /\ \A i \in 1..Len(ab) : s[i] = ab[i]
  BY JoinedBytes
<1>4. PICK m \in Nat \ {0}, n \in Nat : m = Len(a) + 1 /\ n = Len(a) + Len(b)
  BY <1>1
<1>5. n <= Len(s)
  BY <1>1, <1>2, <1>3, <1>4
<1>6. /\ SubSeq(s, m, n) \in Seq(Byte)
      /\ Len(SubSeq(s, m, n)) = IF m <= n THEN n - m + 1 ELSE 0
      /\ \A i \in 1..n - m + 1 : SubSeq(s, m, n)[i] = s[m + i - 1]
  BY <1>5, SubBytes
<1>7. PICK p \in Seq(Byte) : p = SubSeq(s, m, n)
  BY <1>6
<1>8. Len(p) = Len(b)
  BY <1>1, <1>4, <1>6, <1>7
<1>9. ASSUME NEW i \in 1..Len(p) PROVE p[i] = b[i]
  <2>1. i \in 1..n - m + 1 /\ m + i - 1 = Len(a) + i /\ i \in 1..Len(b)
    BY <1>1, <1>4, <1>8
  <2>2. p[i] = s[Len(a) + i]
    BY <1>6, <1>7, <2>1
  <2>3. Len(a) + i \in 1..Len(ab)
    BY <1>1, <1>2, <2>1
  <2>. QED
    BY <1>2, <1>3, <2>1, <2>2, <2>3
<1>10. p = b
  BY <1>8, <1>9, SeqEqual
<1>11. \A i \in 1..Len(a) : s[i] = a[i]
  <2>1. \A i \in 1..Len(a) : i \in 1..Len(ab)
    BY <1>1, <1>2
  <2>. QED
    BY <1>2, <1>3, <2>1
<1>. QED
  BY <1>1, <1>2, <1>3, <1>4, <1>7, <1>10, <1>11

\* A number of octets are octets.
LEMMA ExactlyIs ==
  ASSUME NEW n \in Nat, NEW s \in Exactly(n)
  PROVE  s \in Seq(Byte) /\ Len(s) = n
BY FcnIsSeq DEF Exactly

\* ... and so are zeros.
LEMMA ZerosAre ==
  ASSUME NEW n \in Nat
  PROVE  Zeros(n) \in Seq(Byte) /\ Len(Zeros(n)) = n /\ \A i \in 1..n : Zeros(n)[i] = 0
<1>1. Zeros(n) \in [1..n -> Byte]
  BY DEF Zeros, Byte
<1>2. \A i \in 1..n : Zeros(n)[i] = 0
  BY DEF Zeros
<1>. QED
  BY <1>1, <1>2, FcnIsSeq

\* A number in two octets, the high one first
LEMMA Number ==
  ASSUME NEW n \in U16
  PROVE  /\ BE16(n) \in Seq(Byte) /\ Len(BE16(n)) = 2 /\ BE(BE16(n)) = n
         /\ BE16(n)[1] = n \div 256 /\ BE16(n)[2] = n % 256
<1>1. n \in Nat /\ n \div 256 \in Byte
  BY Words
<1>2. n % 256 \in Byte
  BY <1>1, LowOctet
<1>3. PICK h \in Byte, l \in Byte : h = n \div 256 /\ l = n % 256
  BY <1>1, <1>2
<1>4. PICK s : s = <<h, l>>
  OBVIOUS
<1>5. s \in Seq(Byte) /\ Len(s) = 2 /\ s[1] = h /\ s[2] = l
  BY <1>4, Two
<1>6. BE16(n) = s
  BY Zenon, <1>3, <1>4 DEF BE16
<1>7. BE(s) = 256 * h + l
  BY <1>5 DEF BE
<1>8. n = 256 * h + l
  BY <1>1, <1>3, HighLow
<1>. QED
  BY <1>3, <1>5, <1>6, <1>7, <1>8

\* The head of octets
LEMMA TakeIs ==
  ASSUME NEW s \in Seq(Byte), NEW n \in Nat, n <= Len(s)
  PROVE  Take(s, n) \in Seq(Byte) /\ Len(Take(s, n)) = n /\ \A i \in 1..n : Take(s, n)[i] = s[i]
<1>1. PICK m \in Nat \ {0} : m = 1
  OBVIOUS
<1>2. /\ SubSeq(s, m, n) \in Seq(Byte)
      /\ Len(SubSeq(s, m, n)) = IF m <= n THEN n - m + 1 ELSE 0
      /\ \A i \in 1..n - m + 1 : SubSeq(s, m, n)[i] = s[m + i - 1]
  BY SubBytes
<1>3. \A i \in 1..n : i \in 1..n - m + 1 /\ m + i - 1 = i
  BY <1>1
<1>4. Take(s, n) = SubSeq(s, m, n)
  BY <1>1 DEF Take
<1>. QED
  BY <1>1, <1>2, <1>3, <1>4

\* Five pieces, one behind the other
Pieces(s, a, b, c, d, e) ==
    /\ s \in Seq(Byte) /\ Len(s) = Len(a) + Len(b) + Len(c) + Len(d) + Len(e)
    /\ Take(s, Len(a)) = a /\ \A i \in 1..Len(a) : s[i] = a[i]
    /\ SubSeq(s, Len(a) + 1, Len(a) + Len(b)) = b
    /\ SubSeq(s, Len(a) + Len(b) + 1, Len(a) + Len(b) + Len(c)) = c
    /\ SubSeq(s, Len(a) + Len(b) + Len(c) + 1, Len(a) + Len(b) + Len(c) + Len(d)) = d
    /\ Drop(s, Len(a) + Len(b) + Len(c) + Len(d)) = e

\* ... are the pieces they were.
LEMMA FivePieces ==
  ASSUME NEW a \in Seq(Byte), NEW b \in Seq(Byte), NEW c \in Seq(Byte), NEW d \in Seq(Byte),
         NEW e \in Seq(Byte)
  PROVE  Pieces(a \o b \o c \o d \o e, a, b, c, d, e)
<1>1. PICK ab : ab = a \o b
  OBVIOUS
<1>2. ab \in Seq(Byte) /\ Len(ab) = Len(a) + Len(b)
  BY <1>1, JoinedBytes
<1>3. PICK abc : abc = ab \o c
  OBVIOUS
<1>4. abc \in Seq(Byte) /\ Len(abc) = Len(ab) + Len(c)
  BY <1>2, <1>3, JoinedBytes
<1>5. PICK abcd : abcd = abc \o d
  OBVIOUS
<1>6. abcd \in Seq(Byte) /\ Len(abcd) = Len(abc) + Len(d)
  BY <1>4, <1>5, JoinedBytes
<1>7. PICK s : s = abcd \o e
  OBVIOUS
<1>8. s \in Seq(Byte) /\ Len(s) = Len(abcd) + Len(e)
  BY <1>6, <1>7, JoinedBytes
<1>9. PICK de : de = d \o e
  OBVIOUS
<1>10. de \in Seq(Byte)
  BY <1>9, JoinedBytes
<1>11. PICK cde : cde = c \o de
  OBVIOUS
<1>12. cde \in Seq(Byte)
  BY <1>10, <1>11, JoinedBytes
<1>13. s = abc \o de
  <2>1. (abc \o d) \o e = abc \o (d \o e)
    BY ZenonT(60), <1>4, Regroup
  <2>. QED
    BY Zenon, <1>5, <1>7, <1>9, <2>1
<1>14. s = ab \o cde
  <2>1. ab \in Seq(Byte)
    BY <1>2
  <2>2. (ab \o c) \o de = ab \o (c \o de)
    BY ZenonT(60), <1>10, <2>1, Regroup
  <2>. QED
    BY Zenon, <1>3, <1>11, <1>13, <2>2
<1>15. Drop(s, Len(abcd)) = e
  BY <1>6, <1>7, Parts
<1>16. SubSeq(s, Len(abc) + 1, Len(abc) + Len(d)) = d
  BY <1>4, <1>5, <1>7, PieceOf
<1>17. SubSeq(s, Len(ab) + 1, Len(ab) + Len(c)) = c
  BY <1>2, <1>3, <1>10, <1>13, PieceOf
<1>18. /\ SubSeq(s, Len(a) + 1, Len(a) + Len(b)) = b
       /\ \A i \in 1..Len(a) : s[i] = a[i]
  BY <1>1, <1>12, <1>14, PieceOf
<1>19. Len(s) = Len(a) + Len(b) + Len(c) + Len(d) + Len(e)
  BY <1>2, <1>4, <1>6, <1>8
<1>20. Take(s, Len(a)) = a
  <2>1. Len(a) \in Nat /\ Len(a) <= Len(s)
    BY <1>19, LenProperties
  <2>2. PICK t : t = Take(s, Len(a))
    OBVIOUS
  <2>3. t \in Seq(Byte) /\ Len(t) = Len(a) /\ \A i \in 1..Len(a) : t[i] = s[i]
    BY <1>8, <2>1, <2>2, TakeIs
  <2>4. t = a
    BY <1>18, <2>3, SeqEqual
  <2>. QED
    BY <2>2, <2>4
<1>21. Pieces(s, a, b, c, d, e)
  BY <1>2, <1>4, <1>6, <1>8, <1>15, <1>16, <1>17, <1>18, <1>19, <1>20 DEF Pieces
<1>. QED
  BY <1>1, <1>3, <1>5, <1>7, <1>21

\* Four of them are five, the last of which is empty.
LEMMA FourPieces ==
  ASSUME NEW a \in Seq(Byte), NEW b \in Seq(Byte), NEW c \in Seq(Byte), NEW d \in Seq(Byte)
  PROVE  Pieces(a \o b \o c \o d, a, b, c, d, <<>>)
<1>1. PICK n : n = <<>>
  OBVIOUS
<1>2. n \in Seq(Byte) /\ Len(n) = 0
  BY <1>1
<1>3. PICK s : s = a \o b \o c \o d
  OBVIOUS
<1>4. s \in Seq(Byte)
  <2>1. PICK ab : ab = a \o b
    OBVIOUS
  <2>2. ab \in Seq(Byte)
    BY <2>1, JoinedBytes
  <2>3. PICK abc : abc = ab \o c
    OBVIOUS
  <2>4. abc \in Seq(Byte)
    BY <2>2, <2>3, JoinedBytes
  <2>5. s = abc \o d
    BY Zenon, <1>3, <2>1, <2>3
  <2>. QED
    BY <2>4, <2>5, JoinedBytes
<1>5. s \o n = s
  BY <1>1, <1>4
<1>6. Pieces(a \o b \o c \o d \o n, a, b, c, d, n)
  BY <1>2, FivePieces
<1>. QED
  BY <1>1, <1>3, <1>5, <1>6

\* Numbers of a card: its application, its version, its manufacturer and its own one
IsAid(a) == a \in [application : Byte, version : Exactly(2), manufacturer : Exactly(2), serial : Exactly(4)]

\* ... are read.
LEMMA AidRead ==
  ASSUME NEW a, IsAid(a)
  PROVE  /\ CardAid(a) \in Seq(Byte) /\ Len(CardAid(a)) = 16
         /\ ApplicationId(CardAid(a)) = {a}
<1>1. /\ a.application \in Byte /\ a.version \in Exactly(2)
      /\ a.manufacturer \in Exactly(2) /\ a.serial \in Exactly(4)
  BY DEF IsAid
<1>2. /\ a.version \in Seq(Byte) /\ Len(a.version) = 2 /\ a.manufacturer \in Seq(Byte) /\ Len(a.manufacturer) = 2
      /\ a.serial \in Seq(Byte) /\ Len(a.serial) = 4
  BY <1>1, ExactlyIs
<1>3. PICK v, m, n \in Seq(Byte) : /\ v = a.version /\ m = a.manufacturer /\ n = a.serial
                                   /\ Len(v) = 2 /\ Len(m) = 2 /\ Len(n) = 4
  BY <1>2
<1>4. PICK h : h = <<210, 118, 0, 1, 36, a.application>>
  OBVIOUS
<1>5. /\ h \in Seq(Byte) /\ Len(h) = 6 /\ h[1] = 210 /\ h[2] = 118 /\ h[3] = 0
      /\ h[4] = 1 /\ h[5] = 36 /\ h[6] = a.application
  <2>1. 210 \in Byte /\ 118 \in Byte /\ 0 \in Byte /\ 1 \in Byte /\ 36 \in Byte
    BY DEF Byte
  <2>. QED
    BY <1>1, <1>4, <2>1
<1>6. PICK z : z = <<0, 0>>
  OBVIOUS
<1>7. z \in Seq(Byte) /\ Len(z) = 2
  <2>1. 0 \in Byte
    BY DEF Byte
  <2>. QED
    BY <1>6, <2>1, Two
<1>8. PICK s : s = h \o v \o m \o n \o z
  OBVIOUS
<1>9. CardAid(a) = s
  BY <1>3, <1>4, <1>6, <1>8 DEF CardAid
<1>10. /\ s \in Seq(Byte) /\ Len(s) = 16 /\ \A i \in 1..6 : s[i] = h[i]
       /\ SubSeq(s, 7, 8) = v /\ SubSeq(s, 9, 10) = m /\ SubSeq(s, 11, 14) = n /\ Drop(s, 14) = z
  <2>1. Pieces(s, h, v, m, n, z)
    BY <1>5, <1>7, <1>8, FivePieces
  <2>2. /\ Len(h) + 1 = 7 /\ Len(h) + Len(v) = 8 /\ Len(h) + Len(v) + 1 = 9 /\ Len(h) + Len(v) + Len(m) = 10
        /\ Len(h) + Len(v) + Len(m) + 1 = 11 /\ Len(h) + Len(v) + Len(m) + Len(n) = 14
        /\ Len(h) + Len(v) + Len(m) + Len(n) + Len(z) = 16
    BY <1>3, <1>5, <1>7
  <2>. QED
    BY <1>5, <2>1, <2>2 DEF Pieces
<1>11. Take(s, 5) = <<210, 118, 0, 1, 36>>
  <2>1. PICK p : p = <<210, 118, 0, 1, 36>>
    OBVIOUS
  <2>2. p \in Seq(Byte) /\ Len(p) = 5 /\ p[1] = 210 /\ p[2] = 118 /\ p[3] = 0 /\ p[4] = 1 /\ p[5] = 36
    BY <2>1 DEF Byte
  <2>3. PICK t : t = Take(s, 5)
    OBVIOUS
  <2>4. t \in Seq(Byte) /\ Len(t) = 5 /\ \A i \in 1..5 : t[i] = s[i]
    <3>1. PICK k \in Nat : k = 5 /\ k <= Len(s)
      BY <1>10
    <3>. QED
      BY <1>10, <2>3, <3>1, TakeIs
  <2>5. \A i \in 1..Len(t) : t[i] = p[i]
    <3>1. \A i \in 1..5 : s[i] = h[i]
      BY SMTT(60), <1>10
    <3>2. ASSUME NEW i \in 1..5 PROVE h[i] = p[i]
      BY SMTT(60), <1>5, <2>2
    <3>. QED
      BY <2>4, <3>1, <3>2
  <2>6. t = p
    <3>1. Len(t) = Len(p) /\ t \in Seq(Byte) /\ p \in Seq(Byte)
      BY <2>2, <2>4
    <3> HIDE <2>1, <2>2, <2>4
    <3>. QED
      BY <2>5, <3>1, SeqEqual
  <2>. QED
    BY <2>1, <2>3, <2>6
<1>12. s[6] = a.application
  BY SMTT(60), <1>5, <1>10
<1>13. ApplicationId(s) = {[application |-> a.application, version |-> v, manufacturer |-> m, serial |-> n]}
  BY <1>6, <1>10, <1>11, <1>12 DEF ApplicationId
<1>14. [application |-> a.application, version |-> v, manufacturer |-> m, serial |-> n] = a
  BY <1>3 DEF IsAid
<1>. QED
  BY <1>9, <1>10, <1>13, <1>14

\* What a slot for a key says
SlotOf(v) == IF \A i \in DOMAIN v : v[i] = 0 THEN {} ELSE {v}

\* ... is what was put there.
LEMMA SlotRead ==
  ASSUME NEW n \in Nat, NEW S \in SUBSET Exactly(n), AtMostOne(S),
         \A o \in S : \E i \in DOMAIN o : o[i] # 0
  PROVE  /\ KeySlot(S, n) \in Seq(Byte) /\ Len(KeySlot(S, n)) = n
         /\ SlotOf(KeySlot(S, n)) = S /\ NonZero(KeySlot(S, n)) = S
<1>1. CASE S = {}
  <2>1. KeySlot(S, n) = Zeros(n)
    BY <1>1 DEF KeySlot
  <2>2. PICK z : z = Zeros(n)
    OBVIOUS
  <2>3. z \in Seq(Byte) /\ Len(z) = n /\ \A i \in 1..n : z[i] = 0
    BY <2>2, ZerosAre
  <2>4. DOMAIN z = 1..n
    BY <2>3, LenProperties
  <2>5. SlotOf(z) = {} /\ NonZero(z) = {}
    BY <2>3, <2>4 DEF SlotOf, NonZero
  <2>. QED
    BY <1>1, <2>1, <2>2, <2>3, <2>5
<1>2. CASE S # {}
  <2>1. PICK o : o \in S /\ o = The(S)
    BY <1>2 DEF The
  <2>2. S = {o} /\ (\E i \in DOMAIN o : o[i] # 0) /\ o \in Exactly(n)
    BY <2>1 DEF AtMostOne
  <2>3. KeySlot(S, n) = o
    BY <1>2, <2>1 DEF KeySlot
  <2>4. o \in Seq(Byte) /\ Len(o) = n
    BY <2>2, ExactlyIs
  <2>5. SlotOf(o) = {o} /\ NonZero(o) = {o}
    BY <2>2 DEF SlotOf, NonZero
  <2>. QED
    BY <2>2, <2>3, <2>4, <2>5
<1>. QED
  BY <1>1, <1>2

\* The three keys that every card has
LEMMA BasicKeys ==
  /\ Range(Basic) = {"Signing", "Decryption", "Authentication"}
  /\ KeyType = Range(Basic) \cup {"Attestation"}
<1>1. DOMAIN Basic = 1..3 /\ Basic[1] = "Signing" /\ Basic[2] = "Decryption" /\ Basic[3] = "Authentication"
  BY DEF Basic
<1>2. Range(Basic) = {Basic[i] : i \in 1..3}
  BY <1>1 DEF Range
<1>3. Range(Basic) = {"Signing", "Decryption", "Authentication"}
  BY <1>1, <1>2
<1>. QED
  BY <1>3 DEF KeyType

\* The values of keys, each in its slot, are each read from it.
LEMMA KeysRead ==
  ASSUME NEW n \in Nat, NEW keys, Range(Basic) \subseteq keys, NEW v, AreValues(v, keys, n), NeverZero(v)
  PROVE  /\ KeyInfo(v, n) \in Seq(Byte) /\ Len(KeyInfo(v, n)) = 3 * n
         /\ KeySet(KeyInfo(v, n), n) = {[kt \in Range(Basic) |-> v[kt]]}
<1>1. ASSUME NEW kt \in Range(Basic)
      PROVE  /\ KeySlot(v[kt], n) \in Seq(Byte) /\ Len(KeySlot(v[kt], n)) = n
             /\ SlotOf(KeySlot(v[kt], n)) = v[kt]
  <2>1. kt \in keys /\ v \in [keys -> SUBSET Exactly(n)] /\ AtMostOne(v[kt])
    BY DEF AreValues
  <2>2. v[kt] \in SUBSET Exactly(n) /\ \A o \in v[kt] : \E i \in DOMAIN o : o[i] # 0
    BY <2>1 DEF NeverZero
  <2>. QED
    BY <2>1, <2>2, SlotRead
<1>2. PICK x : x = KeySlot(v["Signing"], n)
  OBVIOUS
<1>3. PICK y : y = KeySlot(v["Decryption"], n)
  OBVIOUS
<1>4. PICK z : z = KeySlot(v["Authentication"], n)
  OBVIOUS
<1>5. /\ x \in Seq(Byte) /\ Len(x) = n /\ SlotOf(x) = v["Signing"]
      /\ y \in Seq(Byte) /\ Len(y) = n /\ SlotOf(y) = v["Decryption"]
      /\ z \in Seq(Byte) /\ Len(z) = n /\ SlotOf(z) = v["Authentication"]
  BY <1>1, <1>2, <1>3, <1>4, BasicKeys
<1>6. PICK s : s = (x \o y) \o z
  OBVIOUS
<1>7. KeyInfo(v, n) = s
  BY <1>2, <1>3, <1>4, <1>6 DEF KeyInfo
<1>8. s \in Seq(Byte) /\ Len(s) = 3 * n /\ SubSeq(s, n + 1, n + n) = y
  <2>1. /\ s \in Seq(Byte) /\ Len(s) = Len(x) + Len(y) + Len(z)
        /\ SubSeq(s, Len(x) + 1, Len(x) + Len(y)) = y
    BY ZenonT(60), <1>5, <1>6, PieceOf
  <2>. QED
    BY <1>5, <2>1
<1>9. SubSeq(s, 1, n) = x
  <2>1. PICK yz : yz = y \o z
    OBVIOUS
  <2>2. yz \in Seq(Byte)
    BY <1>5, <2>1, JoinedBytes
  <2>3. (x \o y) \o z = x \o (y \o z)
    BY <1>5, Regroup
  <2>4. Take(x \o yz, Len(x)) = x
    BY <1>5, <2>2, Parts
  <2>5. Take(s, n) = x
    BY <1>5, <1>6, <2>1, <2>3, <2>4
  <2>. QED
    BY <2>5 DEF Take
<1>10. SubSeq(s, (n + n) + 1, 3 * n) = z
  <2>1. PICK xy : xy = x \o y
    OBVIOUS
  <2>2. xy \in Seq(Byte) /\ Len(xy) = n + n
    BY ZenonT(60), <1>5, <2>1, JoinedBytes
  <2>3. Drop(s, Len(xy)) = z
    BY <1>5, <1>6, <2>1, <2>2, Parts
  <2>4. SubSeq(s, Len(xy) + 1, Len(s)) = z
    BY <2>3 DEF Drop
  <2>. QED
    BY <1>8, <2>2, <2>4
<1>11. ASSUME NEW kt \in Range(Basic)
       PROVE  LET at == CASE kt = "Signing" -> 0 [] kt = "Decryption" -> 1 [] OTHER -> 2
                  p  == SubSeq(s, at * n + 1, (at + 1) * n)
              IN  (IF \A i \in DOMAIN p : p[i] = 0 THEN {} ELSE {p}) = v[kt]
  <2> DEFINE at == CASE kt = "Signing" -> 0 [] kt = "Decryption" -> 1 [] OTHER -> 2
             p  == SubSeq(s, at * n + 1, (at + 1) * n)
  <2>1. SlotOf(p) = v[kt]
    <3>1. CASE kt = "Signing"
      <4>1. at = 0
        BY <3>1
      <4>2. at * n + 1 = 1 /\ (at + 1) * n = n
        BY <4>1
      <4>3. p = x
        BY <1>9, <4>2
      <4> HIDE DEF p
      <4>. QED
        BY <1>5, <3>1, <4>3
    <3>2. CASE kt = "Decryption"
      <4>1. at = 1
        BY <3>2
      <4>2. at * n + 1 = n + 1 /\ (at + 1) * n = n + n
        BY <4>1
      <4>3. p = y
        BY <1>8, <4>2
      <4> HIDE DEF p
      <4>. QED
        BY <1>5, <3>2, <4>3
    <3>3. CASE kt = "Authentication"
      <4>1. at = 2
        BY <3>3
      <4>2. at * n + 1 = (n + n) + 1 /\ (at + 1) * n = 3 * n
        BY <4>1
      <4>3. p = z
        BY <1>10, <4>2
      <4> HIDE DEF p
      <4>. QED
        BY <1>5, <3>3, <4>3
    <3>. QED
      BY <3>1, <3>2, <3>3, BasicKeys
  <2>. QED
    BY Zenon, <2>1 DEF SlotOf
<1>12. KeySet(s, n) = {[kt \in Range(Basic) |-> v[kt]]}
  <2>1. ~(Len(s) < 3 * n)
    BY <1>8
  <2> DEFINE slot(kt) == LET at == CASE kt = "Signing" -> 0 [] kt = "Decryption" -> 1 [] OTHER -> 2
                             p  == SubSeq(s, at * n + 1, (at + 1) * n)
                         IN  IF \A i \in DOMAIN p : p[i] = 0 THEN {} ELSE {p}
  <2>2. KeySet(s, n) = {[kt \in Range(Basic) |-> slot(kt)]}
    BY <2>1 DEF KeySet
  <2>3. \A kt \in Range(Basic) : slot(kt) = v[kt]
    BY <1>11
  <2> HIDE DEF slot
  <2>4. [kt \in Range(Basic) |-> slot(kt)] = [kt \in Range(Basic) |-> v[kt]]
    BY <2>3
  <2>. QED
    BY <2>2, <2>4
<1>. QED
  BY <1>7, <1>8, <1>12

\* The touch policy of a key
LEMMA UifRead ==
  ASSUME NEW o \in Exactly(2)
  PROVE  UserInteraction(o) = {[policy |-> o[1], features |-> o[2]]}
BY ExactlyIs DEF UserInteraction

\* The lengths of the PINs
LEMMA PwRead ==
  ASSUME NEW o \in Exactly(7)
  PROVE  \E p : PwStatus(o) = {p} /\ p.pw1Len = o[2] % 128 /\ p.pw3Len = o[4] % 128
<1>1. Len(o) = 7
  BY ExactlyIs
<1>2. PICK p : p = [once |-> o[1] = 0, pw1Block |-> Bit(o[2], 7), pw1Len |-> o[2] % 128, rcLen |-> o[3],
                    pw3Block |-> Bit(o[4], 7), pw3Len |-> o[4] % 128, left |-> SubSeq(o, 5, 7)]
  OBVIOUS
<1>3. PwStatus(o) = {p}
  BY <1>1, <1>2 DEF PwStatus
<1>4. p.pw1Len = o[2] % 128 /\ p.pw3Len = o[4] % 128
  BY <1>2
<1>. QED
  BY <1>3, <1>4

\* The extended length information
LEMMA EliRead ==
  ASSUME NEW e \in [cmd : U16, rsp : U16]
  PROVE  /\ EliForm(CardEli(e)) /\ ExtendedLengthInfo(CardEli(e)) = {e}
         /\ CardEli(e) \in Seq(Byte) /\ Len(CardEli(e)) = 8
<1>1. PICK a : a = BE16(e.cmd)
  OBVIOUS
<1>2. PICK b : b = BE16(e.rsp)
  OBVIOUS
<1>3. e.cmd \in U16 /\ e.rsp \in U16 /\ e = [cmd |-> e.cmd, rsp |-> e.rsp]
  OBVIOUS
<1>4. /\ a \in Seq(Byte) /\ Len(a) = 2 /\ BE(a) = e.cmd
      /\ b \in Seq(Byte) /\ Len(b) = 2 /\ BE(b) = e.rsp
  BY <1>1, <1>2, <1>3, Number
<1>5. PICK q : q = <<2, 2>>
  OBVIOUS
<1>6. q \in Seq(Byte) /\ Len(q) = 2
  <2>1. 2 \in Byte
    BY DEF Byte
  <2>. QED
    BY <1>5, <2>1, Two
<1>7. PICK n : n = <<>>
  OBVIOUS
<1>8. Len(n) = 0
  BY <1>7
<1>9. PICK s : s = q \o a \o q \o b
  OBVIOUS
<1>10. CardEli(e) = s
  BY <1>1, <1>2, <1>5, <1>9 DEF CardEli
<1>13. Pieces(s, q, a, q, b, n)
  BY <1>4, <1>6, <1>7, <1>9, FourPieces
<1>14. Len(s) = 8 /\ Take(s, 2) = q /\ SubSeq(s, 3, 4) = a /\ SubSeq(s, 5, 6) = q /\ SubSeq(s, 7, 8) = b
  <2>1. /\ Len(q) + 1 = 3 /\ Len(q) + Len(a) = 4 /\ Len(q) + Len(a) + 1 = 5 /\ Len(q) + Len(a) + Len(q) = 6
        /\ Len(q) + Len(a) + Len(q) + 1 = 7 /\ Len(q) + Len(a) + Len(q) + Len(b) = 8
        /\ Len(q) + Len(a) + Len(q) + Len(b) + Len(n) = 8
    BY <1>4, <1>6, <1>8
  <2>. QED
    BY <1>6, <1>13, <2>1 DEF Pieces
<1>15. ExtendedLengthInfo(s) = {[cmd |-> BE(a), rsp |-> BE(b)]}
  BY <1>5, <1>14 DEF ExtendedLengthInfo
<1>16. EliForm(s)
  BY <1>4, <1>5, <1>9 DEF EliForm
<1>17. s \in Seq(Byte)
  BY <1>13 DEF Pieces
<1>. QED
  BY <1>3, <1>4, <1>10, <1>14, <1>15, <1>16, <1>17

-----------------------------------------------------------------------------
(* Capabilities, and the attributes of keys.                               *)

\* A version is one octet and another one; the lengths or the modes are behind the features.
IsCapable(c) ==
    /\ c.aid.version[1] \in Byte /\ c.aid.version[1] >= 2
    /\ c.features \in Exactly(6) /\ c.modes \in [1..2 -> {0, 1}]
    /\ c.lengths \in [cmd : U16, rsp : U16]

\* The extended capabilities of a card have lengths of commands and responses only
\* in version 2.
LEMMA CapabilitiesRead ==
  ASSUME NEW c, IsCapable(c)
  PROVE  /\ CardCapabilities(c) \in Seq(Byte) /\ Len(CardCapabilities(c)) = 10
         /\ \E x : /\ ExtendedCapabilities(CardCapabilities(c), c.aid.version[1]) = {x}
                   /\ c.aid.version[1] = 2 => x.maxCmd = {c.lengths.cmd} /\ x.maxRsp = {c.lengths.rsp}
                   /\ c.aid.version[1] # 2 => x.maxCmd = {} /\ x.maxRsp = {}
<1>1. PICK major : major = c.aid.version[1]
  OBVIOUS
<1>2. major \in Nat /\ ~(major < 2)
  BY SMTT(60), <1>1 DEF IsCapable, Byte
<1>3. PICK f : f = c.features
  OBVIOUS
<1>4. f \in Seq(Byte) /\ Len(f) = 6
  BY <1>3, ExactlyIs DEF IsCapable
<1>5. PICK a : a = BE16(c.lengths.cmd)
  OBVIOUS
<1>6. PICK r : r = BE16(c.lengths.rsp)
  OBVIOUS
<1>7. /\ a \in Seq(Byte) /\ Len(a) = 2 /\ BE(a) = c.lengths.cmd
      /\ r \in Seq(Byte) /\ Len(r) = 2 /\ BE(r) = c.lengths.rsp
  <2>1. c.lengths.cmd \in U16 /\ c.lengths.rsp \in U16
    BY DEF IsCapable
  <2>. QED
    BY <1>5, <1>6, <2>1, Number
<1>8. PICK b : b = IF major = 2 THEN r ELSE c.modes
  OBVIOUS
<1>9. b \in Seq(Byte) /\ Len(b) = 2 /\ (major = 2 => b = r) /\ (major # 2 => b[1] \in {0, 1} /\ b[2] \in {0, 1})
  <2>1. CASE major = 2
    BY <1>7, <1>8, <2>1
  <2>2. CASE major # 2
    <3>1. c.modes \in [1..2 -> {0, 1}]
      BY DEF IsCapable
    <3>2. c.modes \in [1..2 -> Byte]
      BY <3>1 DEF Byte
    <3>3. c.modes \in Seq(Byte) /\ Len(c.modes) = 2
      BY <3>2, FcnIsSeq
    <3>. QED
      BY <1>8, <2>2, <3>1, <3>3
  <2>. QED
    BY <2>1, <2>2
<1>10. PICK s : s = (f \o a) \o b
  OBVIOUS
<1>11. CardCapabilities(c) = s
  BY <1>1, <1>3, <1>5, <1>6, <1>8, <1>10 DEF CardCapabilities
<1>12. s \in Seq(Byte) /\ Len(s) = 10 /\ SubSeq(s, 7, 8) = a
  <2>1. /\ s \in Seq(Byte) /\ Len(s) = Len(f) + Len(a) + Len(b)
        /\ SubSeq(s, Len(f) + 1, Len(f) + Len(a)) = a
    BY <1>4, <1>7, <1>9, <1>10, PieceOf
  <2>2. Len(f) + 1 = 7 /\ Len(f) + Len(a) = 8 /\ Len(f) + Len(a) + Len(b) = 10
    BY <1>4, <1>7, <1>9
  <2>. QED
    BY <2>1, <2>2
<1>13. SubSeq(s, 9, 10) = b
  <2>1. PICK fa : fa = f \o a
    OBVIOUS
  <2>2. fa \in Seq(Byte) /\ Len(fa) = Len(f) + Len(a)
    BY <1>4, <1>7, <2>1, JoinedBytes
  <2>3. Len(fa) = 8
    BY <1>4, <1>7, <2>2
  <2>4. Drop(s, Len(fa)) = b
    BY <1>9, <1>10, <2>1, <2>2, Parts
  <2>. QED
    BY <1>12, <2>3, <2>4 DEF Drop
<1>14. b[1] = s[9] /\ b[2] = s[10]
  <2>1. PICK m \in Nat \ {0}, n \in Nat : m = 9 /\ n = 10
    OBVIOUS
  <2>2. n <= Len(s)
    BY <1>12, <2>1
  <2>3. \A i \in 1..n - m + 1 : SubSeq(s, m, n)[i] = s[m + i - 1]
    BY <1>12, <2>2, SubBytes
  <2>4. b = SubSeq(s, m, n)
    BY <1>13, <2>1
  <2>5. 1 \in 1..n - m + 1 /\ m + 1 - 1 = 9 /\ 2 \in 1..n - m + 1 /\ m + 2 - 1 = 10
    BY <2>1
  <2>6. b[1] = s[m + 1 - 1] /\ b[2] = s[m + 2 - 1]
    BY <2>3, <2>4, <2>5
  <2>. QED
    BY <2>5, <2>6
<1>15. ~(Len(s) # 10 \/ major < 2 \/ (major > 2 /\ (s[9] > 1 \/ s[10] > 1)))
  <2>1. CASE major = 2
    BY <1>2, <1>12, <2>1
  <2>2. CASE major # 2
    <3>1. ~(s[9] > 1) /\ ~(s[10] > 1)
      BY <1>9, <1>14, <2>2
    <3>. QED
      BY <1>2, <1>12, <3>1
  <2>. QED
    BY <2>1, <2>2
<1>16. PICK x : x = [keyImport |-> Bit(s[1], 5), pwStatus |-> Bit(s[1], 4),
           changeable |-> Bit(s[1], 2), kdf |-> Bit(s[1], 0),
           maxCmd |-> {BE(SubSeq(s, 7, 8)) : v \in {major} \cap {2}},
           maxRsp |-> {BE(SubSeq(s, 9, 10)) : v \in {major} \cap {2}},
           special |-> {BE(SubSeq(s, 7, 8)) : v \in {major} \ {2}},
           mse |-> {s[10] # 0 : v \in {major} \ {2}}]
  OBVIOUS
<1>17. ExtendedCapabilities(s, major) = {x}
  BY Zenon, <1>15, <1>16 DEF ExtendedCapabilities
<1>18. /\ x.maxCmd = {BE(SubSeq(s, 7, 8)) : v \in {major} \cap {2}}
       /\ x.maxRsp = {BE(SubSeq(s, 9, 10)) : v \in {major} \cap {2}}
  BY Zenon, <1>16
<1>19. major = 2 => x.maxCmd = {c.lengths.cmd} /\ x.maxRsp = {c.lengths.rsp}
  BY <1>7, <1>9, <1>12, <1>13, <1>18
<1>20. major # 2 => x.maxCmd = {} /\ x.maxRsp = {}
  BY <1>18
<1>. QED
  BY <1>1, <1>11, <1>12, <1>17, <1>19, <1>20

\* A prefix, and what follows it
LEMMA PrefixStays ==
  ASSUME NEW p \in Seq(Byte), NEW rest \in Seq(Byte)
  PROVE  IsPrefix(p, p \o rest)
<1>1. PICK in : in = p \o rest
  OBVIOUS
<1>2. in \in Seq(Byte) /\ Len(in) = Len(p) + Len(rest) /\ Len(p) \in Nat /\ Len(rest) \in Nat
  BY <1>1, JoinedBytes, LenProperties
<1>3. Take(in, Len(p)) = p
  BY <1>1, Parts
<1>4. SubSeq(p, 1, Len(p)) = p
  <2>1. PICK t : t = Take(p, Len(p))
    OBVIOUS
  <2>2. PICK n : n = Len(p)
    OBVIOUS
  <2>3. n \in Nat /\ n <= Len(p)
    BY <1>2, <2>2
  <2>4. t \in Seq(Byte) /\ Len(t) = Len(p) /\ \A i \in 1..Len(p) : t[i] = p[i]
    <3>1. t = Take(p, n)
      BY <2>1, <2>2
    <3>2. t \in Seq(Byte) /\ Len(t) = n /\ \A i \in 1..n : t[i] = p[i]
      BY <2>3, <3>1, TakeIs
    <3>. QED
      BY <2>2, <3>2
  <2>5. t = p
    BY <2>4, SeqEqual
  <2>. QED
    BY <2>1, <2>5 DEF Take
<1>5. Len(p) <= Len(in)
  BY <1>2
<1>. QED
  BY <1>1, <1>3, <1>4, <1>5 DEF IsPrefix, Take

\* Whatever follows the attributes of an ECC key, they begin with one algorithm and one
\* OID only.
LEMMA OnePrefixOf ==
  ASSUME NEW type \in DOMAIN EccId, NEW curve \in Curve, NEW rest \in Seq(Byte),
         NEW t \in DOMAIN EccId, NEW c \in Curve
  PROVE  IsPrefix(<<EccId[t]>> \o Oid[c], (<<EccId[type]>> \o Oid[curve]) \o rest)
            <=> t = type /\ c = curve
<1>1. PICK p : p = <<EccId[t]>> \o Oid[c]
  OBVIOUS
<1>2. PICK q : q = <<EccId[type]>> \o Oid[curve]
  OBVIOUS
<1>3. /\ p \in Seq(Byte) /\ q \in Seq(Byte)
      /\ Len(p) = 1 + Len(Oid[c]) /\ Len(q) = 1 + Len(Oid[curve])
      /\ p[1] = EccId[t] /\ q[1] = EccId[type]
      /\ \A i \in 1..Len(Oid[c]) : p[1 + i] = Oid[c][i]
      /\ \A i \in 1..Len(Oid[curve]) : q[1 + i] = Oid[curve][i]
  BY <1>1, <1>2, WithId
<1>4. Len(Oid[c]) \in Nat /\ Len(Oid[curve]) \in Nat
  BY OidsTyped, LenProperties
<1>5. PICK in : in = q \o rest
  OBVIOUS
<1>6. in \in Seq(Byte) /\ \A i \in 1..Len(q) : in[i] = q[i]
  BY <1>3, <1>5, JoinedBytes
<1>7. t = type /\ c = curve => IsPrefix(p, in)
  BY <1>1, <1>2, <1>3, <1>5, PrefixStays
<1>8. ASSUME IsPrefix(p, in) PROVE t = type /\ c = curve
  <2>1. \A i \in 1..Len(p) : p[i] = in[i]
    BY <1>3, <1>6, <1>8, PrefixAt
  <2>2. EccId[t] = EccId[type]
    <3>1. 1 \in 1..Len(p) /\ 1 \in 1..Len(q)
      BY <1>3, <1>4
    <3>. QED
      BY <1>3, <1>6, <2>1, <3>1
  <2>3. t = type
    BY <2>2 DEF EccId
  <2>4. ASSUME NEW i \in 1..Len(Oid[c]), i \in 1..Len(Oid[curve]) PROVE Oid[c][i] = Oid[curve][i]
    <3>1. 1 + i \in 1..Len(p) /\ 1 + i \in 1..Len(q)
      BY SMTT(60), <1>3, <1>4, <2>4
    <3>2. p[1 + i] = in[1 + i] /\ in[1 + i] = q[1 + i]
      BY <1>6, <2>1, <3>1
    <3>. QED
      BY <1>3, <2>4, <3>2
  <2>5. ASSUME c # curve PROVE FALSE
    <3>1. Apart(Oid[curve], Oid[c]) /\ Apart(Oid[c], Oid[curve])
      BY <2>5, OidsApart
    <3>2. CASE Len(Oid[c]) <= Len(Oid[curve])
      <4>1. PICK i \in 1..Len(Oid[c]) : Oid[curve][i] # Oid[c][i]
        BY <1>4, <3>1, <3>2 DEF Apart
      <4>2. i \in 1..Len(Oid[curve])
        BY <1>4, <3>2
      <4>. QED
        BY <2>4, <4>1, <4>2
    <3>3. CASE ~(Len(Oid[c]) <= Len(Oid[curve]))
      <4>1. PICK i \in 1..Len(Oid[curve]) : Oid[c][i] # Oid[curve][i]
        BY <1>4, <3>1, <3>3 DEF Apart
      <4>2. i \in 1..Len(Oid[c])
        BY <1>4, <3>3
      <4>. QED
        BY <2>4, <4>1, <4>2
    <3>. QED
      BY <3>2, <3>3
  <2>. QED
    BY <2>3, <2>5
<1>. QED
  BY <1>1, <1>2, <1>5, <1>7, <1>8

\* ECC: what can stand behind the OID of a key
LEMMA FormatIs ==
  ASSUME NEW S \in SUBSET Byte, AtMostOne(S)
  PROVE  LET f == IF S = {} THEN <<>> ELSE <<The(S)>>
         IN  f \in Seq(Byte) /\ Len(f) <= 1 /\ Len(f) \in Nat /\ {f[i] : i \in 1..Len(f)} = S
<1>1. CASE S = {}
  BY <1>1
<1>2. CASE S # {}
  <2>1. PICK b : b \in S /\ b = The(S)
    BY <1>2 DEF The
  <2>2. S = {b} /\ b \in Byte
    BY <2>1 DEF AtMostOne
  <2>3. PICK f : f = <<b>>
    OBVIOUS
  <2>4. f \in Seq(Byte) /\ Len(f) = 1 /\ f[1] = b
    BY <2>2, <2>3, One
  <2>5. {f[i] : i \in 1..Len(f)} = {b}
    BY <2>4
  <2>. QED
    BY <1>2, <2>1, <2>2, <2>3, <2>4, <2>5
<1>. QED
  BY <1>1, <1>2

\* Attributes of an ECC key are read with the format, and without it if there is none.
LEMMA CardEccRead ==
  ASSUME NEW a \in [kind : {"ecc"}, type : EccType, curve : Curve, format : SUBSET Byte],
         AtMostOne(a.format)
  PROVE  /\ CardAttributesOctets(a) \in Seq(Byte) /\ Len(CardAttributesOctets(a)) <= 12
         /\ Complete(ParseAttributes(CardAttributesOctets(a))) = {a}
<1>1. /\ a.kind = "ecc" /\ a.type \in EccType /\ a.curve \in Curve /\ a.format \in SUBSET Byte
      /\ a = Ecc(a.type, a.curve, a.format)
  BY DEF Ecc
<1>2. PICK type, curve : type = a.type /\ curve = a.curve
  OBVIOUS
<1>3. PICK f : f = IF a.format = {} THEN <<>> ELSE <<The(a.format)>>
  OBVIOUS
<1>4. f \in Seq(Byte) /\ Len(f) <= 1 /\ Len(f) \in Nat /\ {f[i] : i \in 1..Len(f)} = a.format
  BY <1>1, <1>3, FormatIs
<1>5. PICK q : q = <<EccId[type]>> \o Oid[curve]
  OBVIOUS
<1>6. type \in DOMAIN EccId /\ curve \in Curve /\ EccId[type] # 1
  BY <1>1, <1>2 DEF EccType, EccId
<1>7. q \in Seq(Byte) /\ Len(q) = 1 + Len(Oid[curve]) /\ q[1] = EccId[type]
  BY <1>5, <1>6, WithId
<1>8. Len(Oid[curve]) \in Nat /\ Len(Oid[curve]) <= 10
  <2>1. Len(Oid[curve]) \in Nat
    BY <1>6, OidsTyped, LenProperties
  <2>2. PICK n : n = Len(Oid[curve])
    OBVIOUS
  <2>3. n = 8 \/ n = 5 \/ n = 9 \/ n = 10 \/ n = 3
    <3>1. curve \in Curve
      BY <1>6
    <3>. QED
      BY Zenon, <2>2, <3>1, Digits
  <2>4. n <= 10
    BY <2>3
  <2>. QED
    BY <2>1, <2>2, <2>4
<1>9. PICK len \in Nat : len = Len(Oid[curve]) /\ len <= 10
  BY <1>8
<1>10. PICK in : in = q \o f
  OBVIOUS
<1>11. CardAttributesOctets(a) = in
  <2>1. a.kind # "rsa"
    BY <1>1
  <2>. QED
    BY <1>2, <1>3, <1>5, <1>10, <2>1 DEF CardAttributesOctets
<1>12. /\ in \in Seq(Byte) /\ Len(in) = (1 + len) + Len(f)
       /\ \A i \in 1..Len(f) : in[(1 + len) + i] = f[i]
       /\ in[1] = EccId[type]
  <2>1. /\ in \in Seq(Byte) /\ Len(in) = Len(q) + Len(f)
        /\ \A i \in 1..Len(f) : in[Len(q) + i] = f[i]
        /\ \A i \in 1..Len(q) : in[i] = q[i]
    BY <1>4, <1>7, <1>10, JoinedBytes
  <2>2. Len(q) = 1 + len /\ 1 \in 1..Len(q)
    BY <1>7, <1>9
  <2>. QED
    BY <1>7, <2>1, <2>2
<1>13. ParseRsa(in) = {}
  BY <1>6, <1>12 DEF ParseRsa
<1>14. {x \in (DOMAIN EccId) \X Curve : IsPrefix(<<EccId[x[1]]>> \o Oid[x[2]], in)} = {<<type, curve>>}
  <2>1. \A t \in DOMAIN EccId, c \in Curve : IsPrefix(<<EccId[t]>> \o Oid[c], in) <=> t = type /\ c = curve
    BY <1>4, <1>5, <1>6, <1>10, OnePrefixOf
  <2>. QED
    BY <1>6, <2>1
<1>15. {in[i] : i \in {2 + len} \cap DOMAIN in} = a.format
  <2>1. DOMAIN in = 1..(1 + len) + Len(f)
    BY <1>12, LenProperties
  <2>2. CASE Len(f) = 0
    <3>1. {2 + len} \cap DOMAIN in = {}
      BY <1>9, <2>1, <2>2
    <3>2. {f[i] : i \in 1..Len(f)} = {}
      BY <2>2
    <3>. QED
      BY <1>4, <3>1, <3>2
  <2>3. CASE Len(f) # 0
    <3>1. Len(f) = 1
      <4>1. PICK k : k = Len(f)
        OBVIOUS
      <4>2. k \in Nat /\ k <= 1 /\ k # 0
        BY <1>4, <2>3, <4>1
      <4>. QED
        BY <4>1, <4>2
    <3>2. {2 + len} \cap DOMAIN in = {2 + len}
      BY <1>9, <2>1, <3>1
    <3>3. in[(1 + len) + 1] = f[1]
      BY <1>12, <3>1
    <3>4. (1 + len) + 1 = 2 + len
      BY <1>9
    <3>5. {f[i] : i \in 1..Len(f)} = {f[1]}
      BY <3>1
    <3>. QED
      BY <1>4, <3>2, <3>3, <3>4, <3>5
  <2>. QED
    BY <2>2, <2>3
<1>16. Drop(in, 2 + len) = <<>>
  <2>1. (2 + len) + 1 > Len(in)
    BY <1>4, <1>9, <1>12
  <2>. QED
    BY <1>9, <1>12, <2>1, SubSeqEmpty DEF Drop
<1>17. ParseEcc(in) = {[value |-> a, rest |-> <<>>]}
  <2> DEFINE parsed(x) ==
        [value |-> Ecc(x[1], x[2], {in[i] : i \in {2 + Len(Oid[x[2]])} \cap DOMAIN in}),
         rest |-> Drop(in, 2 + Len(Oid[x[2]]))]
  <2>1. ParseEcc(in) = {parsed(x) : x \in {<<type, curve>>}}
    BY Zenon, <1>14 DEF ParseEcc
  <2>2. parsed(<<type, curve>>) = [value |-> Ecc(type, curve, a.format), rest |-> <<>>]
    BY <1>9, <1>15, <1>16
  <2>3. Ecc(type, curve, a.format) = a
    BY <1>1, <1>2
  <2> HIDE DEF parsed
  <2>. QED
    BY <2>1, <2>2, <2>3
<1>18. Complete({[value |-> a, rest |-> <<>>]}) = {a}
  BY CompleteOne
<1>19. Complete(ParseAttributes(in)) = {a}
  BY <1>13, <1>17, <1>18 DEF ParseAttributes
<1>20. Len(in) <= 12
  BY <1>4, <1>9, <1>12
<1>. QED
  BY <1>11, <1>12, <1>19, <1>20

\* Attributes of an RSA key are read with all sixteen bits of the exponent.
LEMMA CardRsaRead ==
  ASSUME NEW a \in [kind : {"rsa"}, n : U16, e : U16, format : Byte]
  PROVE  /\ CardAttributesOctets(a) \in Seq(Byte) /\ Len(CardAttributesOctets(a)) <= 12
         /\ Complete(ParseAttributes(CardAttributesOctets(a))) = {a}
<1>1. /\ a.kind = "rsa" /\ a.n \in U16 /\ a.e \in U16 /\ a.format \in Byte
      /\ a = Rsa(a.n, a.e, a.format)
  BY DEF Rsa
<1>2. PICK x : x = <<1>>
  OBVIOUS
<1>3. PICK n : n = BE16(a.n)
  OBVIOUS
<1>4. PICK e : e = BE16(a.e)
  OBVIOUS
<1>5. PICK f : f = <<a.format>>
  OBVIOUS
<1>6. /\ x \in Seq(Byte) /\ Len(x) = 1 /\ x[1] = 1
      /\ f \in Seq(Byte) /\ Len(f) = 1 /\ f[1] = a.format
  <2>1. 1 \in Byte
    BY DEF Byte
  <2>. QED
    BY <1>1, <1>2, <1>5, <2>1, One
<1>7. /\ n \in Seq(Byte) /\ Len(n) = 2 /\ BE(n) = a.n
      /\ e \in Seq(Byte) /\ Len(e) = 2 /\ BE(e) = a.e
  BY <1>1, <1>3, <1>4, Number
<1>8. PICK z : z = <<>>
  OBVIOUS
<1>9. Len(z) = 0
  BY <1>8
<1>10. PICK in : in = x \o n \o e \o f
  OBVIOUS
<1>11. CardAttributesOctets(a) = in
  BY <1>1, <1>2, <1>3, <1>4, <1>5, <1>10 DEF CardAttributesOctets
<1>12. Pieces(in, x, n, e, f, z)
  BY <1>6, <1>7, <1>8, <1>10, FourPieces
<1>13. /\ in \in Seq(Byte) /\ Len(in) = 6 /\ in[1] = 1 /\ SubSeq(in, 2, 3) = n
       /\ SubSeq(in, 4, 5) = e /\ SubSeq(in, 6, 6) = f /\ Drop(in, 6) = <<>>
  <2>1. /\ Len(x) + 1 = 2 /\ Len(x) + Len(n) = 3 /\ Len(x) + Len(n) + 1 = 4
        /\ Len(x) + Len(n) + Len(e) = 5 /\ Len(x) + Len(n) + Len(e) + 1 = 6
        /\ Len(x) + Len(n) + Len(e) + Len(f) = 6 /\ Len(x) + Len(n) + Len(e) + Len(f) + Len(z) = 6
        /\ 1 \in 1..Len(x)
    BY <1>6, <1>7, <1>9
  <2>. QED
    BY <1>6, <1>8, <1>12, <2>1 DEF Pieces
<1>14. in[6] = a.format
  <2>1. PICK m \in Nat \ {0}, k \in Nat : m = 6 /\ k = 6
    OBVIOUS
  <2>2. k <= Len(in)
    BY <1>13, <2>1
  <2>3. \A i \in 1..k - m + 1 : SubSeq(in, m, k)[i] = in[m + i - 1]
    BY <1>13, <2>2, SubBytes
  <2>4. 1 \in 1..k - m + 1 /\ m + 1 - 1 = 6
    BY <2>1
  <2>5. SubSeq(in, m, k)[1] = in[m + 1 - 1]
    BY <2>3, <2>4
  <2>6. SubSeq(in, m, k) = f
    BY <1>13, <2>1
  <2>. QED
    BY <1>6, <2>4, <2>5, <2>6
<1>15. ParseRsa(in) = {[value |-> a, rest |-> <<>>]}
  <2>1. ~(Len(in) < 6 \/ in[1] # 1)
    BY <1>13
  <2>2. Rsa(BE(SubSeq(in, 2, 3)), BE(SubSeq(in, 4, 5)), in[6]) = a
    BY <1>1, <1>7, <1>13, <1>14
  <2>. QED
    BY <1>13, <2>1, <2>2 DEF ParseRsa
<1>16. ParseEcc(in) = {}
  <2> SUFFICES ASSUME NEW t \in DOMAIN EccId, NEW c \in Curve,
                      IsPrefix(<<EccId[t]>> \o Oid[c], in)
               PROVE  FALSE
    BY DEF ParseEcc
  <2>1. PICK p : p = <<EccId[t]>> \o Oid[c]
    OBVIOUS
  <2>2. p \in Seq(Byte) /\ Len(p) = 1 + Len(Oid[c]) /\ p[1] = EccId[t]
    BY <2>1, WithId
  <2>3. Len(Oid[c]) \in Nat /\ EccId[t] # 1
    BY OidsTyped, LenProperties DEF EccId
  <2>4. IsPrefix(p, in)
    BY <2>1
  <2>5. \A i \in 1..Len(p) : p[i] = in[i]
    BY Zenon, <1>13, <2>2, <2>4, PrefixAt
  <2>6. 1 \in 1..Len(p)
    BY <2>2, <2>3
  <2>. QED
    BY <1>13, <2>2, <2>3, <2>5, <2>6
<1>17. ParseAttributes(in) = {[value |-> a, rest |-> <<>>]}
  BY <1>15, <1>16 DEF ParseAttributes
<1>18. Complete(ParseAttributes(in)) = {a}
  BY <1>17, CompleteOne
<1>. QED
  BY <1>11, <1>13, <1>18

\* A sequence of octets that agrees with one as long as it goes is a prefix of it.
LEMMA PrefixIf ==
  ASSUME NEW p \in Seq(Byte), NEW in \in Seq(Byte), Len(p) <= Len(in),
         \A i \in 1..Len(p) : p[i] = in[i]
  PROVE  IsPrefix(p, in)
<1>1. PICK n : n = Len(p)
  OBVIOUS
<1>2. n \in Nat /\ n <= Len(p) /\ n <= Len(in)
  BY <1>1, LenProperties
<1>3. PICK a : a = Take(p, n)
  OBVIOUS
<1>4. PICK b : b = Take(in, n)
  OBVIOUS
<1>5. a \in Seq(Byte) /\ Len(a) = n /\ \A i \in 1..n : a[i] = p[i]
  BY <1>2, <1>3, TakeIs
<1>6. b \in Seq(Byte) /\ Len(b) = n /\ \A i \in 1..n : b[i] = in[i]
  BY <1>2, <1>4, TakeIs
<1>7. a = b
  <2>1. \A i \in 1..n : a[i] = b[i]
    BY <1>1, <1>5, <1>6
  <2>. QED
    BY <1>5, <1>6, <2>1, SeqEqual
<1>. QED
  BY <1>1, <1>3, <1>4, <1>7 DEF IsPrefix, Take

\* Attributes are not found in octets that do not begin with those of a known algorithm.
LEMMA UnknownRead ==
  ASSUME NEW in, IsUnknown(in)
  PROVE  Complete(ParseAttributes(in)) = {}
<1>1. in \in Seq(Byte)
  BY DEF IsUnknown
<1>2. ParseRsa(in) = {}
  <2>1. CASE in = <<>>
    <3>1. Len(in) < 6
      BY <2>1
    <3>. QED
      BY <3>1 DEF ParseRsa
  <2>2. CASE in # <<>>
    <3>1. in[1] # 1
      BY <2>2 DEF IsUnknown
    <3>. QED
      BY <3>1 DEF ParseRsa
  <2>. QED
    BY <2>1, <2>2
<1>3. ASSUME NEW t \in DOMAIN EccId, NEW c \in Curve, IsPrefix(<<EccId[t]>> \o Oid[c], in)
      PROVE  FALSE
  <2>1. PICK p : p = <<EccId[t]>> \o Oid[c]
    OBVIOUS
  <2>2. PICK o : o = Oid[c]
    OBVIOUS
  <2>3. /\ p \in Seq(Byte) /\ Len(p) = 1 + Len(o) /\ p[1] = EccId[t]
        /\ \A i \in 1..Len(o) : p[1 + i] = o[i]
    BY <2>1, <2>2, WithId
  <2>4. o \in Seq(Byte) /\ Len(o) \in Nat
    BY <2>2, OidsTyped, LenProperties
  <2>5. IsPrefix(p, in)
    BY <1>3, <2>1
  <2>6. Len(p) <= Len(in) /\ \A i \in 1..Len(p) : p[i] = in[i]
    BY Zenon, <1>1, <2>3, <2>5, PrefixAt
  <2>7. in # <<>>
    <3>1. ASSUME in = <<>> PROVE FALSE
      <4>1. Len(in) = 0
        BY <3>1
      <4>. QED
        BY <2>3, <2>4, <2>6, <4>1
    <3>. QED
      BY <3>1
  <2>8. in[1] = EccId[t]
    <3>1. 1 \in 1..Len(p)
      BY <2>3, <2>4
    <3>. QED
      BY <2>3, <2>6, <3>1
  <2>9. PICK tl : tl = Tail(in)
    OBVIOUS
  <2>10. /\ tl \in Seq(Byte) /\ Len(tl) \in Nat /\ Len(in) = Len(tl) + 1
         /\ \A i \in 1..Len(tl) : tl[i] = in[i + 1]
    BY <1>1, <2>7, <2>9, HeadOf
  <2>11. Len(o) <= Len(tl)
    BY <2>3, <2>4, <2>6, <2>10
  <2>12. \A i \in 1..Len(o) : o[i] = tl[i]
    <3> SUFFICES ASSUME NEW i \in 1..Len(o) PROVE o[i] = tl[i]
      OBVIOUS
    <3>1. 1 + i \in 1..Len(p) /\ i \in 1..Len(tl) /\ 1 + i = i + 1
      BY <2>3, <2>4, <2>10, <2>11
    <3>2. p[1 + i] = o[i]
      BY <2>3
    <3>3. p[1 + i] = in[1 + i]
      BY <2>6, <3>1
    <3>4. tl[i] = in[1 + i]
      BY <2>10, <3>1
    <3>. QED
      BY <3>2, <3>3, <3>4
  <2>13. IsPrefix(o, tl)
    BY <2>4, <2>10, <2>11, <2>12, PrefixIf
  <2>14. t \in EccType
    BY DEF EccType, EccId
  <2>15. \/ \A type \in EccType : in[1] # EccId[type]
         \/ \A curve \in Curve : ~IsPrefix(Oid[curve], Tail(in))
    BY <2>7 DEF IsUnknown
  <2>. QED
    BY <2>2, <2>8, <2>9, <2>13, <2>14, <2>15
<1>4. ParseEcc(in) = {}
  BY <1>3 DEF ParseEcc
<1>. QED
  BY <1>2, <1>4 DEF ParseAttributes, Complete

\* Attributes of a key are read as they are.
LEMMA CardAttributesRead ==
  ASSUME NEW a, IsAttributes(a)
  PROVE  /\ CardAttributesOctets(a) \in Seq(Byte) /\ Len(CardAttributesOctets(a)) <= 12
         /\ Complete(ParseAttributes(CardAttributesOctets(a))) = {a}
<1>1. CASE a \in [kind : {"rsa"}, n : U16, e : U16, format : Byte]
  BY <1>1, CardRsaRead
<1>2. CASE /\ a \in [kind : {"ecc"}, type : EccType, curve : Curve, format : SUBSET Byte]
           /\ AtMostOne(a.format)
  BY <1>2, CardEccRead
<1>. QED
  BY <1>1, <1>2 DEF IsAttributes

-----------------------------------------------------------------------------
(* Recursion over octets.                                                  *)

\* A body of a recursion over octets calls it for shorter inputs only.
ForShorter(B, V) ==
    \A in \in Seq(Byte) : \A g, h \in [Seq(Byte) -> V] :
        (\A s \in Seq(Byte) : Len(s) < Len(in) => g[s] = h[s]) => B[<<in, g>>] = B[<<in, h>>]

\* For such a body there is a function that is what its body says,
IsRecursion(g, B, V) == g \in [Seq(Byte) -> V] /\ g = [in \in Seq(Byte) |-> B[<<in, g>>]]

\* up to any length, and so for every input.
LEMMA Recursion ==
  ASSUME NEW V, V # {}, NEW B \in [Seq(Byte) \X [Seq(Byte) -> V] -> V], ForShorter(B, V)
  PROVE  \E g : IsRecursion(g, B, V)
<1> DEFINE G == [Seq(Byte) -> V]
           Upto(n, g) == g \in G /\ \A s \in Seq(Byte) : Len(s) < n => g[s] = B[<<s, g>>]
<1>1. \A s \in Seq(Byte) : Len(s) \in Nat
  BY LenProperties
<1>2. \A s \in Seq(Byte), g \in G : B[<<s, g>>] \in V
  OBVIOUS
<1>3. ASSUME NEW in \in Seq(Byte), NEW g \in G, NEW h \in G,
             \A s \in Seq(Byte) : Len(s) < Len(in) => g[s] = h[s]
      PROVE  B[<<in, g>>] = B[<<in, h>>]
  BY <1>3 DEF ForShorter
<1>4. ASSUME NEW n \in Nat, NEW m \in Nat, n <= m, NEW g, NEW h, Upto(n, g), Upto(m, h)
      PROVE  \A s \in Seq(Byte) : Len(s) < n => g[s] = h[s]
  <2> DEFINE T == {k \in Nat : \A s \in Seq(Byte) : Len(s) = k /\ k < n => g[s] = h[s]}
  <2>1. ASSUME NEW k \in Nat, \A j \in Nat : j < k => j \in T
        PROVE  k \in T
    <3> SUFFICES ASSUME NEW s \in Seq(Byte), Len(s) = k, k < n
                 PROVE  g[s] = h[s]
      OBVIOUS
    <3>1. ASSUME NEW r \in Seq(Byte), Len(r) < Len(s)
          PROVE  g[r] = h[r]
      <4>1. Len(r) \in Nat /\ Len(r) < k /\ Len(r) < n
        BY <1>1, <3>1
      <4>2. Len(r) \in T
        BY <2>1, <4>1
      <4>. QED
        BY <4>1, <4>2
    <3>2. g \in G /\ h \in G
      BY <1>4
    <3>3. B[<<s, g>>] = B[<<s, h>>]
      <4> HIDE DEF G
      <4>. QED
        BY <1>3, <3>1, <3>2
    <3>4. Len(s) < n /\ Len(s) < m
      BY <1>4
    <3>5. g[s] = B[<<s, g>>] /\ h[s] = B[<<s, h>>]
      BY <1>4, <3>4
    <3>. QED
      BY <3>3, <3>5
  <2>2. \A k \in Nat : k \in T
    <3> HIDE DEF T
    <3>. QED
      BY <2>1, Induction
  <2>. QED
    BY <1>1, <2>2
<1>5. \A n \in Nat : \E g : Upto(n, g)
  <2> DEFINE T == {n \in Nat : \E g : Upto(n, g)}
  <2>1. ASSUME NEW n \in Nat, \A m \in Nat : m < n => m \in T
        PROVE  n \in T
    <3>1. CASE n = 0
      <4>1. PICK v : v \in V
        OBVIOUS
      <4> DEFINE g == [s \in Seq(Byte) |-> v]
      <4>2. \A s \in Seq(Byte) : ~(Len(s) < 0)
        <5>1. \A k \in Nat : ~(k < 0)
          OBVIOUS
        <5>. QED
          BY Zenon, <1>1, <5>1
      <4>3. g \in G
        BY <4>1
      <4>4. Upto(0, g)
        BY <4>2, <4>3
      <4>. QED
        BY <3>1, <4>4
    <3>2. CASE n # 0
      <4>1. n - 1 \in Nat /\ n - 1 < n
        BY <3>2
      <4>2. n - 1 \in T
        BY <2>1, <4>1
      <4>3. PICK g : Upto(n - 1, g)
        BY <4>2
      <4>4. PICK h : h = [s \in Seq(Byte) |-> B[<<s, g>>]]
        OBVIOUS
      <4>5. g \in G
        BY <4>3
      <4>6. h \in G
        BY <1>2, <4>4, <4>5
      <4>7. ASSUME NEW s \in Seq(Byte), Len(s) < n
            PROVE  h[s] = B[<<s, h>>]
        <5>1. ASSUME NEW r \in Seq(Byte), Len(r) < Len(s)
              PROVE  g[r] = h[r]
          <6>1. Len(r) < n - 1
            BY <1>1, <4>7, <5>1
          <6>2. g[r] = B[<<r, g>>]
            BY <4>3, <6>1
          <6>. QED
            BY <4>4, <6>2
        <5>2. B[<<s, g>>] = B[<<s, h>>]
          <6> HIDE DEF G
          <6>. QED
            BY <1>3, <4>5, <4>6, <5>1
        <5>. QED
          BY <4>4, <5>2
      <4>8. Upto(n, h)
        BY <4>6, <4>7
      <4>. QED
        BY <4>8
    <3>. QED
      BY <3>1, <3>2
  <2>2. \A n \in Nat : n \in T
    <3> HIDE DEF T
    <3>. QED
      BY <2>1, Induction
  <2>. QED
    BY <2>2
<1> DEFINE Of(n) == CHOOSE g : Upto(n, g)
<1>6. \A n \in Nat : Upto(n, Of(n))
  <2> HIDE DEF Upto
  <2>. QED
    BY Zenon, <1>5
<1>7. PICK all : all = [s \in Seq(Byte) |-> Of(Len(s) + 1)[s]]
  OBVIOUS
<1> HIDE DEF Of
<1>8. all \in G
  <2>1. ASSUME NEW s \in Seq(Byte)
        PROVE  Of(Len(s) + 1)[s] \in V
    <3>1. Len(s) + 1 \in Nat
      BY <1>1
    <3>2. Of(Len(s) + 1) \in G
      BY <1>6, <3>1
    <3>. QED
      BY <3>2
  <2>. QED
    BY <1>7, <2>1
<1>9. ASSUME NEW s \in Seq(Byte)
      PROVE  all[s] = B[<<s, all>>]
  <2>1. PICK n \in Nat : n = Len(s) + 1
    BY <1>1
  <2>2. PICK g : g = Of(n)
    OBVIOUS
  <2>3. Upto(n, g)
    BY <1>6, <2>2
  <2>4. g \in G
    BY <2>3
  <2>5. ASSUME NEW r \in Seq(Byte), Len(r) < Len(s)
        PROVE  g[r] = all[r]
    <3>1. PICK m \in Nat : m = Len(r) + 1
      BY <1>1
    <3>2. m <= n /\ Len(r) < m
      BY <1>1, <2>1, <2>5, <3>1
    <3>3. PICK h : h = Of(m)
      OBVIOUS
    <3>4. Upto(m, h)
      BY <1>6, <3>3
    <3>5. h[r] = g[r]
      <4> HIDE DEF Upto
      <4>. QED
        BY <1>4, <2>3, <3>2, <3>4
    <3>. QED
      BY <1>7, <3>1, <3>3, <3>5
  <2>6. B[<<s, g>>] = B[<<s, all>>]
    <3> HIDE DEF G
    <3>. QED
      BY <1>3, <1>8, <2>4, <2>5
  <2>7. Len(s) < n
    BY <1>1, <2>1
  <2>8. g[s] = B[<<s, g>>]
    BY <2>3, <2>7
  <2>. QED
    BY <1>7, <2>1, <2>2, <2>6, <2>8
<1>10. all = [s \in Seq(Byte) |-> B[<<s, all>>]]
  BY <1>8, <1>9
<1>. QED
  BY <1>8, <1>10 DEF IsRecursion

-----------------------------------------------------------------------------
(* Historical bytes.                                                       *)

\* The compact TLVs, with g for the recursive call
CompactBody(in, g) ==
    IF in = <<>> THEN {[service |-> {}, caps |-> {}]}
    ELSE LET len == in[1] % 16
             tag == in[1] \div 16
         IN  IF Len(in) < 1 + len THEN {}
             ELSE {IF tag = 3 /\ len = 1 /\ c.service = {}
                   THEN [c EXCEPT !.service = {in[2]}]
                   ELSE IF tag = 7 /\ len = 3 /\ c.caps = {}
                   THEN [c EXCEPT !.caps = {in[4]}] ELSE c :
                        c \in g[Drop(in, 1 + len)]}

\* What they give: sets of service data and capabilities
Compacts == SUBSET [service : SUBSET Byte, caps : SUBSET Byte]

\* What is left of octets
LEMMA DropIs ==
  ASSUME NEW s \in Seq(Byte), NEW n \in Nat, n <= Len(s)
  PROVE  Drop(s, n) \in Seq(Byte) /\ Len(Drop(s, n)) = Len(s) - n
<1>1. PICK k : k = Len(s)
  OBVIOUS
<1>2. k \in Nat /\ n <= k /\ n + 1 \in Nat \ {0}
  BY <1>1, LenProperties
<1>3. /\ SubSeq(s, n + 1, k) \in Seq(Byte)
      /\ Len(SubSeq(s, n + 1, k)) = IF n + 1 <= k THEN k - (n + 1) + 1 ELSE 0
  BY <1>1, <1>2, SubBytes
<1>4. (IF n + 1 <= k THEN k - (n + 1) + 1 ELSE 0) = k - n
  BY <1>2
<1>. QED
  BY <1>1, <1>3, <1>4 DEF Drop

\* The recursive call is for a shorter input,
LEMMA CompactShorter ==
  ASSUME NEW in \in Seq(Byte), in # <<>>, ~(Len(in) < 1 + (in[1] % 16))
  PROVE  /\ in[1] % 16 \in Nat
         /\ Drop(in, 1 + (in[1] % 16)) \in Seq(Byte)
         /\ Len(Drop(in, 1 + (in[1] % 16))) < Len(in)
<1>1. PICK l : l = in[1] % 16
  OBVIOUS
<1>2. l \in Nat
  <2>1. in[1] \in Byte
    BY HeadOf
  <2>2. \A b \in Byte : b \in Nat
    BY DEF Byte
  <2>3. in[1] \in Nat
    BY Zenon, <2>1, <2>2
  <2>. QED
    BY <1>1, <2>3
<1>3. PICK n : n = 1 + l
  OBVIOUS
<1>4. PICK k : k = Len(in)
  OBVIOUS
<1>5. n \in Nat /\ n > 0 /\ k \in Nat /\ n <= k
  BY <1>1, <1>2, <1>3, <1>4, LenProperties
<1>6. Drop(in, n) \in Seq(Byte) /\ Len(Drop(in, n)) = k - n
  BY <1>4, <1>5, DropIs
<1>7. k - n < k
  BY <1>5
<1>. QED
  BY <1>1, <1>2, <1>3, <1>4, <1>6, <1>7

\* so that Compact is what its definition says it is.
LEMMA CompactUnfold ==
  ASSUME NEW in \in Seq(Byte)
  PROVE  Compact[in] = CompactBody(in, Compact)
<1> DEFINE V == Compacts
           G == [Seq(Byte) -> V]
<1>1. PICK B : B = [p \in Seq(Byte) \X G |-> CompactBody(p[1], p[2])]
  OBVIOUS
<1>2. \A s \in Seq(Byte), g \in G : B[<<s, g>>] = CompactBody(s, g)
  BY <1>1
<1>3. ASSUME NEW s \in Seq(Byte), NEW g \in G
      PROVE  CompactBody(s, g) \in V
  <2>1. CASE s = <<>>
    BY <2>1 DEF CompactBody, Compacts
  <2>2. CASE s # <<>> /\ Len(s) < 1 + (s[1] % 16)
    BY <2>2 DEF CompactBody, Compacts
  <2>3. CASE s # <<>> /\ ~(Len(s) < 1 + (s[1] % 16))
    <3>1. PICK r : r = Drop(s, 1 + (s[1] % 16))
      OBVIOUS
    <3>2. r \in Seq(Byte) /\ g[r] \in V /\ s[1] % 16 \in Nat
      BY <2>3, <3>1, CompactShorter
    <3>3. s[1] % 16 = 1 => s[2] \in Byte
      <4>1. ASSUME s[1] % 16 = 1 PROVE 2 \in 1..Len(s)
        BY <2>3, <4>1, LenProperties
      <4>. QED
        BY <4>1, ElementOfSeq
    <3>4. s[1] % 16 = 3 => s[4] \in Byte
      <4>1. ASSUME s[1] % 16 = 3 PROVE 4 \in 1..Len(s)
        BY <2>3, <4>1, LenProperties
      <4>. QED
        BY <4>1, ElementOfSeq
    <3> DEFINE found(c) ==
                 IF s[1] \div 16 = 3 /\ s[1] % 16 = 1 /\ c.service = {}
                 THEN [c EXCEPT !.service = {s[2]}]
                 ELSE IF s[1] \div 16 = 7 /\ s[1] % 16 = 3 /\ c.caps = {}
                 THEN [c EXCEPT !.caps = {s[4]}] ELSE c
    <3>5. ASSUME NEW c \in g[r]
          PROVE  found(c) \in [service : SUBSET Byte, caps : SUBSET Byte]
      <4>1. c \in [service : SUBSET Byte, caps : SUBSET Byte]
        BY <3>2 DEF Compacts
      <4>. QED
        BY <3>3, <3>4, <4>1
    <3>6. CompactBody(s, g) = {found(c) : c \in g[r]}
      BY Zenon, <2>3, <3>1 DEF CompactBody
    <3> HIDE DEF found
    <3>. QED
      BY <3>5, <3>6 DEF Compacts
  <2>. QED
    BY <2>1, <2>2, <2>3
<1>4. ASSUME NEW s \in Seq(Byte), NEW g \in G, NEW h \in G,
             \A r \in Seq(Byte) : Len(r) < Len(s) => g[r] = h[r]
      PROVE  CompactBody(s, g) = CompactBody(s, h)
  <2>1. CASE s # <<>> /\ ~(Len(s) < 1 + (s[1] % 16))
    <3>1. g[Drop(s, 1 + (s[1] % 16))] = h[Drop(s, 1 + (s[1] % 16))]
      BY <1>4, <2>1, CompactShorter
    <3>. QED
      BY <2>1, <3>1 DEF CompactBody
  <2>. QED
    BY <2>1 DEF CompactBody
<1>5. B \in [Seq(Byte) \X [Seq(Byte) -> V] -> V]
  BY <1>1, <1>3
<1>6. ForShorter(B, V)
  <2> HIDE DEF V
  <2> SUFFICES ASSUME NEW s \in Seq(Byte), NEW g \in G, NEW h \in G,
                      \A r \in Seq(Byte) : Len(r) < Len(s) => g[r] = h[r]
               PROVE  B[<<s, g>>] = B[<<s, h>>]
    BY Zenon DEF ForShorter
  <2>1. CompactBody(s, g) = CompactBody(s, h)
    BY Zenon, <1>4
  <2>. QED
    BY Zenon, <1>2, <2>1
<1>7. V # {}
  BY DEF Compacts
<1>8. PICK g : IsRecursion(g, B, V)
  <2> HIDE DEF V
  <2>. QED
    BY <1>5, <1>6, <1>7, Recursion
<1> DEFINE IsAll(f) == f = [s \in Seq(Byte) |-> CompactBody(s, f)]
<1>9. IsAll(g)
  BY <1>2, <1>8 DEF IsRecursion
<1>10. Compact = CHOOSE f : IsAll(f)
  BY DEF Compact, CompactBody
<1>11. IsAll(Compact)
  BY Zenon, <1>9, <1>10
<1>. QED
  BY <1>11

\* Without octets there is neither service data nor capabilities.
LEMMA CompactNone == Compact[<<>>] = {[service |-> {}, caps |-> {}]}
<1>1. <<>> \in Seq(Byte)
  OBVIOUS
<1>. QED
  BY <1>1, CompactUnfold DEF CompactBody

\* Nothing is left of octets behind their end.
LEMMA DropAll ==
  ASSUME NEW s \in Seq(Byte), NEW n, n = Len(s)
  PROVE  Drop(s, n) = <<>>
<1>1. PICK k : k = Len(s)
  OBVIOUS
<1>2. k \in Nat /\ k + 1 > k
  BY <1>1, LenProperties
<1>. QED
  BY <1>1, <1>2, SubSeqEmpty DEF Drop

\* Other compact TLVs are passed over.
LEMMA CompactOther ==
  ASSUME NEW in \in Seq(Byte), in # <<>>, ~(Len(in) < 1 + (in[1] % 16)), in[1] \div 16 \notin {3, 7}
  PROVE  Compact[in] = Compact[Drop(in, 1 + (in[1] % 16))]
<1>1. PICK r : r = Drop(in, 1 + (in[1] % 16))
  OBVIOUS
<1>2. PICK X : X = Compact[r]
  OBVIOUS
<1>3. CompactBody(in, Compact) = {c : c \in X}
  BY <1>1, <1>2 DEF CompactBody
<1>. QED
  BY <1>1, <1>2, <1>3, CompactUnfold

\* Three octets of capabilities in front of nothing of note: the last of them is kept.
LEMMA CompactFirst ==
  ASSUME NEW in \in Seq(Byte), 4 <= Len(in), in[1] = 115,
         Compact[Drop(in, 4)] = {[service |-> {}, caps |-> {}]}
  PROVE  Compact[in] = {[service |-> {}, caps |-> {in[4]}]}
<1>1. in # <<>>
  <2>1. Len(in) # 0
    BY LenProperties
  <2>. QED
    BY <2>1
<1>2. in[1] % 16 = 3 /\ in[1] \div 16 = 7 /\ 1 + (in[1] % 16) = 4 /\ ~(Len(in) < 1 + (in[1] % 16))
  BY LenProperties
<1>3. CompactBody(in, Compact) = {[service |-> {}, caps |-> {in[4]}]}
  <2>1. Compact[Drop(in, 1 + (in[1] % 16))] = {[service |-> {}, caps |-> {}]}
    BY Zenon, <1>2
  <2> DEFINE found(c) ==
                 IF in[1] \div 16 = 3 /\ in[1] % 16 = 1 /\ c.service = {}
                 THEN [c EXCEPT !.service = {in[2]}]
                 ELSE IF in[1] \div 16 = 7 /\ in[1] % 16 = 3 /\ c.caps = {}
                 THEN [c EXCEPT !.caps = {in[4]}] ELSE c
  <2>2. CompactBody(in, Compact) = {found(c) : c \in Compact[Drop(in, 1 + (in[1] % 16))]}
    BY Zenon, <1>1, <1>2 DEF CompactBody
  <2>3. PICK x : x = [service |-> {}, caps |-> {}]
    OBVIOUS
  <2>4. PICK v : v = {in[4]}
    OBVIOUS
  <2>5. PICK y : y = [service |-> {}, caps |-> v]
    OBVIOUS
  <2>6. found(x) = [x EXCEPT !.caps = v]
    BY <1>2, <2>3, <2>4
  <2> HIDE DEF found
  <2>7. [x EXCEPT !.caps = v] = y
    <3>1. PICK w : w = [x EXCEPT !.caps = v]
      OBVIOUS
    <3>2. w.service = {} /\ w.caps = v
      BY <2>3, <3>1
    <3>3. w = [service |-> w.service, caps |-> w.caps]
      BY <2>3, <3>1
    <3>. QED
      BY <2>5, <3>1, <3>2, <3>3
  <2>8. CompactBody(in, Compact) = {found(c) : c \in {x}}
    BY Zenon, <2>1, <2>2, <2>3
  <2>9. found(x) = y
    BY Zenon, <2>6, <2>7
  <2>10. CompactBody(in, Compact) = {y}
    BY <2>8, <2>9
  <2>. QED
    BY Zenon, <2>4, <2>5, <2>10
<1>. QED
  BY <1>3, CompactUnfold

\* So they are if they stand at the end.
LEMMA CompactCaps ==
  ASSUME NEW o \in Exactly(3)
  PROVE  Compact[<<115>> \o o] = {[service |-> {}, caps |-> {o[3]}]}
<1>1. o \in Seq(Byte) /\ Len(o) = 3
  BY ExactlyIs
<1>2. PICK t : t = <<115>>
  OBVIOUS
<1>3. t \in Seq(Byte) /\ Len(t) = 1 /\ t[1] = 115
  <2>1. 115 \in Byte
    BY DEF Byte
  <2>. QED
    BY <1>2, <2>1, One
<1>4. PICK in : in = t \o o
  OBVIOUS
<1>5. in \in Seq(Byte) /\ Len(in) = 4 /\ in[1] = 115 /\ in[4] = o[3]
  <2>1. o \in Seq(Byte) /\ t \in Seq(Byte)
    BY <1>1, <1>3
  <2>2. /\ in \in Seq(Byte) /\ Len(in) = Len(t) + Len(o)
        /\ \A i \in 1..Len(t) : in[i] = t[i]
        /\ \A i \in 1..Len(o) : in[Len(t) + i] = o[i]
    BY Zenon, <1>4, <2>1, JoinedBytes
  <2>3. 1 \in 1..Len(t) /\ 3 \in 1..Len(o) /\ Len(t) + 3 = 4 /\ Len(t) + Len(o) = 4
    BY <1>1, <1>3
  <2>. QED
    BY <1>3, <2>2, <2>3
<1>6. Drop(in, 4) = <<>>
  <2>1. in \in Seq(Byte) /\ 4 = Len(in)
    BY <1>5
  <2>. QED
    BY Zenon, <2>1, DropAll
<1>7. Compact[Drop(in, 4)] = {[service |-> {}, caps |-> {}]}
  BY Zenon, <1>6, CompactNone
<1>8. 4 <= Len(in)
  BY <1>5
<1>9. Compact[in] = {[service |-> {}, caps |-> {in[4]}]}
  BY Zenon, <1>5, <1>7, <1>8, CompactFirst
<1>. QED
  BY <1>2, <1>4, <1>5, <1>9

\* A zero is a compact TLV of its own, and says nothing.
LEMMA CompactZero ==
  ASSUME NEW k \in Nat
  PROVE  Compact[Zeros(k + 1)] = Compact[Zeros(k)]
<1>1. PICK n \in Nat : n = k + 1
  OBVIOUS
<1>2. PICK in : in = Zeros(n)
  OBVIOUS
<1>3. in \in Seq(Byte) /\ Len(in) = n /\ \A i \in 1..n : in[i] = 0
  BY <1>2, ZerosAre
<1>4. in # <<>> /\ in[1] = 0
  <2>1. Len(in) # 0 /\ 1 \in 1..n
    BY <1>1, <1>3
  <2>. QED
    BY <1>3, <2>1
<1>5. 1 + (in[1] % 16) = 1 /\ in[1] \div 16 \notin {3, 7} /\ ~(Len(in) < 1 + (in[1] % 16))
  BY <1>1, <1>3, <1>4
<1>6. Compact[in] = Compact[Drop(in, 1)]
  <2>1. Compact[in] = Compact[Drop(in, 1 + (in[1] % 16))]
    BY Zenon, <1>3, <1>4, <1>5, CompactOther
  <2>. QED
    BY Zenon, <1>5, <2>1
<1>7. PICK r : r = Drop(in, 1)
  OBVIOUS
<1>8. PICK z : z = Zeros(k)
  OBVIOUS
<1>9. z \in Seq(Byte) /\ Len(z) = k /\ \A i \in 1..k : z[i] = 0
  BY <1>8, ZerosAre
<1>10. r \in Seq(Byte) /\ Len(r) = k /\ \A i \in 1..k : r[i] = 0
  <2>1. PICK m \in Nat \ {0} : m = 2
    OBVIOUS
  <2>2. n <= Len(in)
    BY <1>3
  <2>3. /\ SubSeq(in, m, n) \in Seq(Byte)
        /\ Len(SubSeq(in, m, n)) = IF m <= n THEN n - m + 1 ELSE 0
        /\ \A i \in 1..n - m + 1 : SubSeq(in, m, n)[i] = in[m + i - 1]
    BY ZenonT(60), <1>3, <2>2, SubBytes
  <2>4. r = SubSeq(in, m, n)
    BY <1>3, <1>7, <2>1 DEF Drop
  <2>5. (IF m <= n THEN n - m + 1 ELSE 0) = k /\ n - m + 1 = k
    BY <1>1, <2>1
  <2>6. \A i \in 1..k : m + i - 1 \in 1..n
    BY <1>1, <2>1
  <2>. QED
    BY <1>3, <2>3, <2>4, <2>5, <2>6
<1>11. r = z
  <2>1. Len(r) = Len(z) /\ \A i \in 1..Len(r) : r[i] = z[i]
    BY <1>9, <1>10
  <2>. QED
    BY <1>9, <1>10, <2>1, SeqEqual
<1>. QED
  BY Zenon, <1>1, <1>2, <1>6, <1>7, <1>8, <1>11

\* Seven of them say nothing either.
LEMMA CompactZeros == Compact[Zeros(7)] = {[service |-> {}, caps |-> {}]}
<1>1. 0 + 1 = 1 /\ 1 + 1 = 2 /\ 2 + 1 = 3 /\ 3 + 1 = 4 /\ 4 + 1 = 5 /\ 5 + 1 = 6 /\ 6 + 1 = 7
  OBVIOUS
<1>2. 0 \in Nat /\ 1 \in Nat /\ 2 \in Nat /\ 3 \in Nat /\ 4 \in Nat /\ 5 \in Nat /\ 6 \in Nat
  OBVIOUS
<1>3. Compact[Zeros(1)] = Compact[Zeros(0)] /\ Compact[Zeros(2)] = Compact[Zeros(1)]
  BY Zenon, <1>1, <1>2, CompactZero
<1>4. Compact[Zeros(3)] = Compact[Zeros(2)] /\ Compact[Zeros(4)] = Compact[Zeros(3)]
  BY Zenon, <1>1, <1>2, CompactZero
<1>5. Compact[Zeros(5)] = Compact[Zeros(4)] /\ Compact[Zeros(6)] = Compact[Zeros(5)]
  BY Zenon, <1>1, <1>2, CompactZero
<1>6. Compact[Zeros(7)] = Compact[Zeros(6)]
  BY Zenon, <1>1, <1>2, CompactZero
<1>7. Zeros(0) = <<>>
  <2>1. Zeros(0) \in Seq(Byte) /\ Len(Zeros(0)) = 0
    BY Zenon, <1>2, ZerosAre
  <2>. QED
    BY <2>1, EmptySeq
<1>. QED
  BY Zenon, <1>3, <1>4, <1>5, <1>6, <1>7, CompactNone

\* What compact TLVs are
Holds(in, service, caps) == Compact[in] = {[service |-> service, caps |-> caps]}

\* Service data in front of anything without them
LEMMA CompactService ==
  ASSUME NEW b \in Byte, NEW r \in Seq(Byte), NEW caps, Holds(r, {}, caps)
  PROVE  Holds(<<49, b>> \o r, {b}, caps)
<1>1. PICK t : t = <<49, b>>
  OBVIOUS
<1>2. t \in Seq(Byte) /\ Len(t) = 2 /\ t[1] = 49 /\ t[2] = b
  <2>1. 49 \in Byte
    BY DEF Byte
  <2>. QED
    BY <1>1, <2>1, Two
<1>3. PICK in : in = t \o r
  OBVIOUS
<1>4. in \in Seq(Byte) /\ Len(in) = 2 + Len(r) /\ Len(r) \in Nat /\ in[1] = 49 /\ in[2] = b
  <2>1. /\ in \in Seq(Byte) /\ Len(in) = Len(t) + Len(r)
        /\ \A i \in 1..Len(t) : in[i] = t[i]
    <3>1. t \in Seq(Byte)
      BY <1>2
    <3>. QED
      BY Zenon, <1>3, <3>1, JoinedBytes
  <2>2. 1 \in 1..Len(t) /\ 2 \in 1..Len(t)
    BY <1>2
  <2>3. Len(r) \in Nat
    BY LenProperties
  <2>. QED
    BY <1>2, <2>1, <2>2, <2>3
<1>5. Drop(in, 2) = r
  BY ZenonT(60), <1>2, <1>3, Parts
<1>6. in # <<>>
  <2>1. Len(in) # 0
    BY <1>4
  <2>. QED
    BY <2>1
<1>7. in[1] % 16 = 1 /\ in[1] \div 16 = 3 /\ 1 + (in[1] % 16) = 2 /\ ~(Len(in) < 1 + (in[1] % 16))
  BY <1>4
<1>8. CompactBody(in, Compact) = {[service |-> {b}, caps |-> caps]}
  <2>1. Compact[Drop(in, 1 + (in[1] % 16))] = {[service |-> {}, caps |-> caps]}
    BY Zenon, <1>5, <1>7 DEF Holds
  <2> DEFINE found(c) ==
                 IF in[1] \div 16 = 3 /\ in[1] % 16 = 1 /\ c.service = {}
                 THEN [c EXCEPT !.service = {in[2]}]
                 ELSE IF in[1] \div 16 = 7 /\ in[1] % 16 = 3 /\ c.caps = {}
                 THEN [c EXCEPT !.caps = {in[4]}] ELSE c
  <2>2. CompactBody(in, Compact) = {found(c) : c \in Compact[Drop(in, 1 + (in[1] % 16))]}
    BY Zenon, <1>6, <1>7 DEF CompactBody
  <2>3. PICK x : x = [service |-> {}, caps |-> caps]
    OBVIOUS
  <2>4. found(x) = [x EXCEPT !.service = {in[2]}]
    BY <1>7, <2>3
  <2>5. PICK y : y = [service |-> {b}, caps |-> caps]
    OBVIOUS
  <2> HIDE DEF found
  <2>6. in[2] = b
    BY <1>4
  <2>7. [x EXCEPT !.service = {b}] = [service |-> {b}, caps |-> caps]
    <3>1. PICK w : w = [x EXCEPT !.service = {b}]
      OBVIOUS
    <3>2. w.service = {b} /\ w.caps = caps
      BY <2>3, <3>1
    <3>3. w = [service |-> w.service, caps |-> w.caps]
      BY <2>3, <3>1
    <3>. QED
      BY <3>1, <3>2, <3>3
  <2>8. found(x) = y
    BY Zenon, <2>4, <2>5, <2>6, <2>7
  <2>9. CompactBody(in, Compact) = {found(c) : c \in {x}}
    BY Zenon, <2>1, <2>2, <2>3
  <2>10. CompactBody(in, Compact) = {y}
    BY <2>8, <2>9
  <2>. QED
    BY <2>10, <2>5
<1>. QED
  BY <1>1, <1>3, <1>4, <1>8, CompactUnfold DEF Holds

\* What stands between the first octet and the status
ServiceOf(h) == IF h.service = {} THEN <<>> ELSE <<49, The(h.service)>>
CapsIn(h) == IF h.caps = {} THEN <<>> ELSE <<115>> \o The(h.caps)

\* What a set with one element or none has
LEMMA TheOne ==
  ASSUME NEW S, AtMostOne(S), S # {}
  PROVE  The(S) \in S /\ S = {The(S)}
<1>1. The(S) \in S
  BY DEF The
<1>. QED
  BY <1>1 DEF AtMostOne

\* ... is read.
LEMMA CompactRead ==
  ASSUME NEW h, IsHistory(h)
  PROVE  /\ ServiceOf(h) \in Seq(Byte) /\ Len(ServiceOf(h)) <= 2 /\ Len(ServiceOf(h)) \in Nat
         /\ CapsIn(h) \in Seq(Byte) /\ Len(CapsIn(h)) <= 4 /\ Len(CapsIn(h)) \in Nat
         /\ Compact[ServiceOf(h) \o CapsIn(h)] = {[service |-> h.service, caps |-> {o[3] : o \in h.caps}]}
<1>1. /\ h.service \in SUBSET Byte /\ h.caps \in SUBSET Exactly(3)
      /\ AtMostOne(h.service) /\ AtMostOne(h.caps)
  BY DEF IsHistory
<1>2. PICK u : u = CapsIn(h)
  OBVIOUS
<1>3. /\ u \in Seq(Byte) /\ Len(u) <= 4 /\ Len(u) \in Nat
      /\ Compact[u] = {[service |-> {}, caps |-> {o[3] : o \in h.caps}]}
  <2>1. CASE h.caps = {}
    <3>1. u = <<>>
      BY <1>2, <2>1 DEF CapsIn
    <3>2. u \in Seq(Byte) /\ Len(u) = 0
      BY <3>1
    <3>3. Compact[u] = {[service |-> {}, caps |-> {}]}
      BY <3>1, CompactNone
    <3>4. {o[3] : o \in h.caps} = {}
      BY <2>1
    <3>5. Compact[u] = {[service |-> {}, caps |-> {o[3] : o \in h.caps}]}
      BY Zenon, <3>3, <3>4
    <3>6. Len(u) <= 4 /\ Len(u) \in Nat
      BY <3>2
    <3>. QED
      BY <3>2, <3>5, <3>6
  <2>2. CASE h.caps # {}
    <3>1. PICK o : o = The(h.caps)
      OBVIOUS
    <3>2. h.caps = {o} /\ o \in Exactly(3)
      BY <1>1, <2>2, <3>1, TheOne
    <3>3. PICK t : t = <<115>>
      OBVIOUS
    <3>4. t \in Seq(Byte) /\ Len(t) = 1
      <4>1. 115 \in Byte
        BY DEF Byte
      <4>. QED
        BY <3>3, <4>1, One
    <3>5. o \in Seq(Byte) /\ Len(o) = 3
      BY <3>2, ExactlyIs
    <3>6. u = t \o o
      BY <1>2, <2>2, <3>1, <3>3 DEF CapsIn
    <3>7. u \in Seq(Byte) /\ Len(u) = Len(t) + Len(o)
      BY <3>4, <3>5, <3>6, JoinedBytes
    <3>8. Len(u) = 4
      BY <3>4, <3>5, <3>7
    <3>9. Compact[u] = {[service |-> {}, caps |-> {o[3]}]}
      BY <3>2, <3>3, <3>6, CompactCaps
    <3>10. {x[3] : x \in h.caps} = {o[3]}
      BY <3>2
    <3>11. Len(u) <= 4 /\ Len(u) \in Nat
      BY <3>8
    <3>. QED
      BY <3>7, <3>9, <3>10, <3>11
  <2>. QED
    BY <2>1, <2>2
<1>4. PICK w : w = ServiceOf(h)
  OBVIOUS
<1>5. /\ w \in Seq(Byte) /\ Len(w) <= 2 /\ Len(w) \in Nat
      /\ Compact[w \o u] = {[service |-> h.service, caps |-> {o[3] : o \in h.caps}]}
  <2>1. CASE h.service = {}
    <3>1. w = <<>>
      BY <1>4, <2>1 DEF ServiceOf
    <3>2. w \in Seq(Byte) /\ Len(w) = 0
      BY <3>1
    <3>3. w \o u = u
      BY <1>3, <3>1, ConcatEmptySeq
    <3>. QED
      BY <1>3, <2>1, <3>2, <3>3
  <2>2. CASE h.service # {}
    <3>1. PICK b : b = The(h.service)
      OBVIOUS
    <3>2. h.service = {b} /\ b \in Byte
      BY <1>1, <2>2, <3>1, TheOne
    <3>3. w = <<49, b>>
      BY <1>4, <2>2, <3>1 DEF ServiceOf
    <3>4. w \in Seq(Byte) /\ Len(w) = 2
      <4>1. 49 \in Byte
        BY DEF Byte
      <4>. QED
        BY <3>2, <3>3, <4>1, Two
    <3>5. PICK caps : caps = {o[3] : o \in h.caps}
      OBVIOUS
    <3>6. Holds(u, {}, caps)
      BY <1>3, <3>5 DEF Holds
    <3>7. Holds(<<49, b>> \o u, {b}, caps)
      <4>1. b \in Byte /\ u \in Seq(Byte)
        BY <1>3, <3>2
      <4>. QED
        BY Zenon, <3>6, <4>1, CompactService
    <3>8. Len(w) <= 2 /\ Len(w) \in Nat
      BY <3>4
    <3>9. Compact[w \o u] = {[service |-> h.service, caps |-> {o[3] : o \in h.caps}]}
      BY Zenon, <3>2, <3>3, <3>5, <3>7 DEF Holds
    <3>. QED
      BY <3>4, <3>8, <3>9
  <2>. QED
    BY <2>1, <2>2
<1>. QED
  BY <1>2, <1>3, <1>4, <1>5

\* Octets in reverse order
LEMMA ReverseIs ==
  ASSUME NEW s \in Seq(Byte), NEW n \in Nat, n = Len(s)
  PROVE  /\ Reverse(s) \in Seq(Byte) /\ Len(Reverse(s)) = n
         /\ \A i \in 1..n : Reverse(s)[i] = s[(n - i) + 1]
<1>1. \A i \in 1..n : (n - i) + 1 \in 1..n
  OBVIOUS
<1>2. \A i \in 1..n : s[(n - i) + 1] \in Byte
  BY <1>1, ElementOfSeq
<1>3. PICK r : r = [i \in 1..n |-> s[(n - i) + 1]]
  OBVIOUS
<1>4. r \in [1..n -> Byte]
  BY <1>2, <1>3
<1>5. r \in Seq(Byte) /\ Len(r) = n
  BY <1>4, FcnIsSeq
<1>6. Reverse(s) = r
  BY <1>3 DEF Reverse
<1>7. \A i \in 1..n : r[i] = s[(n - i) + 1]
  BY <1>3
<1>. QED
  BY <1>5, <1>6, <1>7

\* A suffix agrees with the end of octets,
LEMMA SuffixAt ==
  ASSUME NEW w \in Seq(Byte), NEW in \in Seq(Byte), IsSuffix(w, in)
  PROVE  Len(w) <= Len(in) /\ \A j \in 1..Len(w) : w[j] = in[(Len(in) - Len(w)) + j]
<1> DEFINE m == Len(w)
           n == Len(in)
<1>1. m \in Nat /\ n \in Nat
  BY LenProperties
<1> HIDE DEF m, n
<1>2. PICK rw : rw = Reverse(w)
  OBVIOUS
<1>3. PICK ri : ri = Reverse(in)
  OBVIOUS
<1>4. rw \in Seq(Byte) /\ Len(rw) = m /\ \A i \in 1..m : rw[i] = w[(m - i) + 1]
  BY <1>1, <1>2, ReverseIs DEF m
<1>5. ri \in Seq(Byte) /\ Len(ri) = n /\ \A i \in 1..n : ri[i] = in[(n - i) + 1]
  BY <1>1, <1>3, ReverseIs DEF n
<1>6. IsPrefix(rw, ri)
  BY <1>2, <1>3 DEF IsSuffix
<1>7. Len(rw) <= Len(ri) /\ \A i \in 1..Len(rw) : rw[i] = ri[i]
  BY Zenon, <1>4, <1>5, <1>6, PrefixAt
<1>8. m <= n
  BY <1>4, <1>5, <1>7
<1>9. ASSUME NEW j \in 1..m
      PROVE  w[j] = in[(n - m) + j]
  <2>1. PICK i : i = (m - j) + 1
    OBVIOUS
  <2>2. i \in 1..m /\ i \in 1..n /\ (m - i) + 1 = j /\ (n - i) + 1 = (n - m) + j
    BY <1>1, <1>8, <2>1
  <2>3. rw[i] = w[j]
    BY <1>4, <2>2
  <2>4. ri[i] = in[(n - m) + j]
    BY <1>5, <2>2
  <2>5. rw[i] = ri[i]
    BY <1>4, <1>7, <2>2
  <2>. QED
    BY <2>3, <2>4, <2>5
<1>. QED
  BY <1>8, <1>9 DEF m, n

\* and what does is one.
LEMMA SuffixIf ==
  ASSUME NEW w \in Seq(Byte), NEW in \in Seq(Byte), Len(w) <= Len(in),
         \A j \in 1..Len(w) : w[j] = in[(Len(in) - Len(w)) + j]
  PROVE  IsSuffix(w, in)
<1> DEFINE m == Len(w)
           n == Len(in)
<1>1. /\ m \in Nat /\ n \in Nat /\ m <= n
      /\ \A j \in 1..m : w[j] = in[(n - m) + j]
  BY LenProperties
<1> HIDE DEF m, n
<1>2. PICK rw : rw = Reverse(w)
  OBVIOUS
<1>3. PICK ri : ri = Reverse(in)
  OBVIOUS
<1>4. rw \in Seq(Byte) /\ Len(rw) = m /\ \A i \in 1..m : rw[i] = w[(m - i) + 1]
  BY <1>1, <1>2, ReverseIs DEF m
<1>5. ri \in Seq(Byte) /\ Len(ri) = n /\ \A i \in 1..n : ri[i] = in[(n - i) + 1]
  BY <1>1, <1>3, ReverseIs DEF n
<1>6. ASSUME NEW i \in 1..m
      PROVE  rw[i] = ri[i]
  <2>1. PICK j : j = (m - i) + 1
    OBVIOUS
  <2>2. j \in 1..m /\ i \in 1..n /\ (n - i) + 1 = (n - m) + j
    BY <1>1, <2>1
  <2>3. rw[i] = w[j]
    BY <1>4, <2>1
  <2>4. ri[i] = in[(n - m) + j]
    BY <1>5, <2>2
  <2>. QED
    BY <1>1, <2>2, <2>3, <2>4
<1>7. Len(rw) <= Len(ri) /\ \A i \in 1..Len(rw) : rw[i] = ri[i]
  BY <1>1, <1>4, <1>5, <1>6
<1>8. IsPrefix(rw, ri)
  BY Zenon, <1>4, <1>5, <1>7, PrefixIf
<1>. QED
  BY <1>2, <1>3, <1>8 DEF IsSuffix

\* What some cards end their historical bytes with
Padding == <<144, 0, 0, 0, 0, 0, 0>>

\* It is seven octets.
LEMMA PaddingIs ==
  /\ Padding \in Seq(Byte) /\ Len(Padding) = 7
  /\ Padding[1] = 144 /\ \A j \in 2..7 : Padding[j] = 0
<1>1. PICK w : w = <<144, 0, 0, 0, 0, 0, 0>>
  OBVIOUS
<1>2. 144 \in Byte /\ 0 \in Byte
  BY DEF Byte
<1>3. w \in Seq(Byte) /\ Len(w) = 7
  BY <1>1, <1>2
<1>4. w[1] = 144 /\ w[2] = 0 /\ w[3] = 0 /\ w[4] = 0 /\ w[5] = 0 /\ w[6] = 0 /\ w[7] = 0
  BY <1>1
<1>5. \A j \in 2..7 : w[j] = 0
  <2>1. \A j \in 2..7 : j = 2 \/ j = 3 \/ j = 4 \/ j = 5 \/ j = 6 \/ j = 7
    OBVIOUS
  <2>. QED
    BY <1>4, <2>1
<1>. QED
  BY <1>1, <1>3, <1>4, <1>5 DEF Padding

\* Compact TLVs between a zero and the status
Framed(in, b, s) == in = (<<0>> \o b) \o <<s, 144, 0>>

\* Where each part of it is.
LEMMA FrameIs ==
  ASSUME NEW b \in Seq(Byte), NEW s \in Byte, NEW in, Framed(in, b, s),
         NEW n \in Nat, n = Len(b)
  PROVE  /\ in \in Seq(Byte) /\ Len(in) = n + 4 /\ in[1] = 0
         /\ in[n + 2] = s /\ in[n + 3] = 144 /\ in[n + 4] = 0
         /\ SubSeq(in, 2, n + 1) = b /\ \A i \in 1..n : in[1 + i] = b[i]
<1>1. PICK z : z = <<0>>
  OBVIOUS
<1>2. PICK t : t = <<s, 144, 0>>
  OBVIOUS
<1>3. /\ z \in Seq(Byte) /\ Len(z) = 1 /\ z[1] = 0
      /\ t \in Seq(Byte) /\ Len(t) = 3 /\ t[1] = s /\ t[2] = 144 /\ t[3] = 0
  <2>1. 144 \in Byte /\ 0 \in Byte
    BY DEF Byte
  <2>2. z \in Seq(Byte) /\ Len(z) = 1 /\ z[1] = 0
    BY <1>1, <2>1, One
  <2>3. t \in Seq(Byte) /\ Len(t) = 3 /\ t[1] = s /\ t[2] = 144 /\ t[3] = 0
    BY <1>2, <2>1, Three
  <2>. QED
    BY <2>2, <2>3
<1>4. in = (z \o b) \o t
  BY <1>1, <1>2 DEF Framed
<1>5. PICK x : x = z \o b
  OBVIOUS
<1>6. x \in Seq(Byte) /\ Len(x) = n + 1 /\ x[1] = 0 /\ \A i \in 1..n : x[1 + i] = b[i]
  <2>1. /\ x \in Seq(Byte) /\ Len(x) = Len(z) + Len(b)
        /\ \A i \in 1..Len(z) : x[i] = z[i]
        /\ \A i \in 1..Len(b) : x[Len(z) + i] = b[i]
    <3>1. z \in Seq(Byte)
      BY <1>3
    <3>. QED
      BY Zenon, <1>5, <3>1, JoinedBytes
  <2>2. 1 \in 1..Len(z) /\ Len(z) + Len(b) = n + 1
    BY <1>3
  <2>. QED
    BY <1>3, <2>1, <2>2
<1>7. /\ in \in Seq(Byte) /\ Len(in) = n + 4
      /\ in[n + 2] = s /\ in[n + 3] = 144 /\ in[n + 4] = 0 /\ in[1] = 0
      /\ \A i \in 1..n : in[1 + i] = b[i]
  <2>1. /\ in \in Seq(Byte) /\ Len(in) = Len(x) + Len(t)
        /\ \A i \in 1..Len(x) : in[i] = x[i]
        /\ \A i \in 1..Len(t) : in[Len(x) + i] = t[i]
    <3>1. x \in Seq(Byte) /\ t \in Seq(Byte) /\ in = x \o t
      BY <1>3, <1>4, <1>5, <1>6
    <3>. QED
      BY Zenon, <3>1, JoinedBytes
  <2>2. /\ Len(x) + Len(t) = n + 4 /\ Len(x) + 1 = n + 2 /\ Len(x) + 2 = n + 3 /\ Len(x) + 3 = n + 4
        /\ 1 \in 1..Len(x) /\ 1 \in 1..Len(t) /\ 2 \in 1..Len(t) /\ 3 \in 1..Len(t)
        /\ \A i \in 1..n : 1 + i \in 1..Len(x)
    BY <1>3, <1>6
  <2>3. in[n + 2] = s /\ in[n + 3] = 144 /\ in[n + 4] = 0
    BY <1>3, <2>1, <2>2
  <2>4. in[1] = 0 /\ \A i \in 1..n : in[1 + i] = b[i]
    BY <1>6, <2>1, <2>2
  <2>. QED
    BY <2>1, <2>2, <2>3, <2>4
<1>8. SubSeq(in, 2, n + 1) = b
  <2>1. SubSeq(in, Len(z) + 1, Len(z) + Len(b)) = b
    BY <1>3, <1>4, PieceOf
  <2>2. Len(z) + 1 = 2 /\ Len(z) + Len(b) = n + 1
    BY <1>3
  <2>. QED
    BY <2>1, <2>2
<1>. QED
  BY <1>7, <1>8

\* What is put between is found if the status is a known one.
LEMMA FrameRead ==
  ASSUME NEW b \in Seq(Byte), NEW s \in {0, 3, 5}, NEW octets,
         Framed(LedgerStatus(LedgerPadded(octets)), b, s),
         NEW service, NEW caps, Holds(b, service, caps)
  PROVE  HistoricalBytes(octets) = {[service |-> service, caps |-> caps, status |-> s]}
<1>1. PICK in : in = LedgerStatus(LedgerPadded(octets))
  OBVIOUS
<1>2. PICK n \in Nat : n = Len(b)
  BY LenProperties
<1>3. s \in Byte
  BY DEF Byte
<1>4. /\ in \in Seq(Byte) /\ Len(in) = n + 4 /\ in[1] = 0
      /\ in[n + 2] = s /\ SubSeq(in, 2, n + 1) = b
  <2>1. Framed(in, b, s)
    BY <1>1
  <2>. QED
    BY <1>2, <1>3, <2>1, FrameIs
<1>5. Len(in) - 2 = n + 2 /\ Len(in) - 3 = n + 1 /\ ~(Len(in) < 4)
  BY <1>4
<1>6. ~(Len(in) < 4 \/ in[1] # 0 \/ in[Len(in) - 2] \notin {0, 3, 5})
  BY <1>4, <1>5
<1>7. PICK c : c = [service |-> service, caps |-> caps]
  OBVIOUS
<1>8. Compact[SubSeq(in, 2, Len(in) - 3)] = {c}
  BY Zenon, <1>4, <1>5, <1>7 DEF Holds
<1>9. in[Len(in) - 2] = s
  BY <1>4, <1>5
<1>10. HistoricalBytes(octets) = {[service |-> x.service, caps |-> x.caps, status |-> s] : x \in {c}}
  BY Zenon, <1>1, <1>6, <1>8, <1>9 DEF HistoricalBytes
<1>11. c.service = service /\ c.caps = caps
  BY <1>7
<1>. QED
  BY <1>10, <1>11

\* Nothing is taken off if there is no padding,
LEMMA NotPadded ==
  ASSUME NEW b \in Seq(Byte), NEW s \in Byte, NEW in, Framed(in, b, s)
  PROVE  LedgerPadded(in) = in
<1>1. PICK n \in Nat : n = Len(b)
  BY LenProperties
<1>2. in \in Seq(Byte) /\ Len(in) = n + 4 /\ in[n + 3] = 144
  BY <1>1, FrameIs
<1>3. PICK k : k = n + 4
  OBVIOUS
<1>5. k \in Nat
  BY <1>3
<1>4. ASSUME IsSuffix(Padding, in)
      PROVE  FALSE
  <2>1. PICK w : w = Padding
    OBVIOUS
  <2>2. PICK m : m = 7
    OBVIOUS
  <2>3. w \in Seq(Byte) /\ m = Len(w) /\ w[6] = 0
    BY <2>1, <2>2, PaddingIs
  <2>4. k = Len(in) /\ IsSuffix(w, in) /\ m \in Nat
    BY <1>2, <1>3, <1>4, <2>1, <2>2
  <2>5. m <= k /\ \A j \in 1..m : w[j] = in[(k - m) + j]
    <3>1. Len(w) <= Len(in) /\ \A j \in 1..Len(w) : w[j] = in[(Len(in) - Len(w)) + j]
      <4>1. w \in Seq(Byte)
        BY <2>3
      <4>2. in \in Seq(Byte)
        BY <1>2
      <4>3. IsSuffix(w, in)
        BY <2>4
      <4>. QED
        BY ZenonT(60), <4>1, <4>2, <4>3, SuffixAt
    <3>. QED
      BY Zenon, <2>3, <2>4, <3>1
  <2>6. 6 \in 1..m /\ (k - m) + 6 = n + 3
    BY <1>3, <2>2
  <2>7. w[6] = in[n + 3]
    BY <2>5, <2>6
  <2>. QED
    BY <1>2, <2>3, <2>7
<1>. QED
  BY <1>4 DEF LedgerPadded, Padding

\* and the padding is.
LEMMA IsPadded ==
  ASSUME NEW b \in Seq(Byte), NEW s \in Byte, NEW in, Framed(in, b, s)
  PROVE  /\ in \o <<0, 0, 0, 0, 0>> \in Seq(Byte) /\ Len(in \o <<0, 0, 0, 0, 0>>) = Len(in) + 5
         /\ LedgerPadded(in \o <<0, 0, 0, 0, 0>>) = in
<1>1. PICK n \in Nat : n = Len(b)
  BY LenProperties
<1>2. in \in Seq(Byte) /\ Len(in) = n + 4 /\ in[n + 3] = 144 /\ in[n + 4] = 0
  BY <1>1, FrameIs
<1>3. PICK p : p = <<0, 0, 0, 0, 0>>
  OBVIOUS
<1>4. p \in Seq(Byte) /\ Len(p) = 5 /\ \A i \in 1..5 : p[i] = 0
  <2>1. 0 \in Byte
    BY DEF Byte
  <2>2. p \in Seq(Byte) /\ Len(p) = 5
    BY <1>3, <2>1
  <2>3. p[1] = 0 /\ p[2] = 0 /\ p[3] = 0 /\ p[4] = 0 /\ p[5] = 0
    BY <1>3
  <2>4. \A i \in 1..5 : i = 1 \/ i = 2 \/ i = 3 \/ i = 4 \/ i = 5
    OBVIOUS
  <2>. QED
    BY <2>2, <2>3, <2>4
<1>5. PICK all : all = in \o p
  OBVIOUS
<1>6. PICK k : k = n + 9
  OBVIOUS
<1>12. k \in Nat
  BY <1>6
<1>7. /\ all \in Seq(Byte) /\ k = Len(all)
      /\ \A i \in 1..n + 4 : all[i] = in[i]
      /\ \A i \in 1..5 : all[(n + 4) + i] = 0
  <2>1. /\ all \in Seq(Byte) /\ Len(all) = Len(in) + Len(p)
        /\ \A i \in 1..Len(in) : all[i] = in[i]
        /\ \A i \in 1..Len(p) : all[Len(in) + i] = p[i]
    <3>1. in \in Seq(Byte) /\ p \in Seq(Byte)
      BY <1>2, <1>4
    <3>. QED
      BY Zenon, <1>5, <3>1, JoinedBytes
  <2>2. Len(in) + Len(p) = k
    BY <1>2, <1>4, <1>6
  <2>3. \A i \in 1..5 : all[(n + 4) + i] = p[i]
    BY SMTT(60), <1>2, <1>4, <2>1
  <2>4. \A i \in 1..n + 4 : all[i] = in[i]
    BY <1>2, <2>1
  <2>. QED
    BY <1>4, <2>1, <2>2, <2>3, <2>4
<1>8. IsSuffix(Padding, all)
  <2>1. PICK w : w = Padding
    OBVIOUS
  <2>2. PICK m : m = 7
    OBVIOUS
  <2>3. w \in Seq(Byte) /\ m = Len(w) /\ w[1] = 144 /\ \A j \in 2..7 : w[j] = 0
    BY <2>1, <2>2, PaddingIs
  <2>4. m <= k /\ m \in Nat
    BY <1>6, <2>2
  <2>5. ASSUME NEW j \in 1..m
        PROVE  w[j] = all[(k - m) + j]
    <3>1. CASE j = 1
      <4>1. (k - m) + j = n + 3 /\ n + 3 \in 1..n + 4
        BY <1>6, <2>2, <3>1
      <4>2. all[n + 3] = 144
        BY <1>2, <1>7, <4>1
      <4>. QED
        BY <2>3, <3>1, <4>1, <4>2
    <3>2. CASE j = 2
      <4>1. (k - m) + j = n + 4 /\ n + 4 \in 1..n + 4
        BY <1>6, <2>2, <3>2
      <4>2. all[n + 4] = 0
        BY <1>2, <1>7, <4>1
      <4>3. j \in 2..7
        BY <3>2
      <4>. QED
        BY <2>3, <4>1, <4>2, <4>3
    <3>3. CASE j # 1 /\ j # 2
      <4>1. PICK i : i = j - 2
        OBVIOUS
      <4>2. i \in 1..5 /\ (k - m) + j = (n + 4) + i /\ j \in 2..7
        BY <1>6, <2>2, <3>3, <4>1
      <4>3. all[(n + 4) + i] = 0
        BY <1>7, <4>2
      <4>. QED
        BY <2>3, <4>2, <4>3
    <3>. QED
      BY <3>1, <3>2, <3>3
  <2>6. IsSuffix(w, all)
    <3>1. Len(w) <= Len(all) /\ \A j \in 1..Len(w) : w[j] = all[(Len(all) - Len(w)) + j]
      BY Zenon, <1>7, <2>3, <2>4, <2>5
    <3>. QED
      BY Zenon, <1>7, <2>3, <3>1, SuffixIf
  <2>. QED
    BY <2>1, <2>6
<1>9. Take(all, Len(all) - 5) = in
  <2>1. Take(all, Len(in)) = in
    BY <1>2, <1>4, <1>5, Parts
  <2>2. Len(all) - 5 = Len(in)
    BY <1>2, <1>6, <1>7
  <2>. QED
    BY <2>1, <2>2
<1>10. LedgerPadded(all) = in
  BY <1>8, <1>9 DEF LedgerPadded, Padding
<1>11. Len(all) = Len(in) + 5
  BY <1>2, <1>6, <1>7
<1>. QED
  BY <1>3, <1>5, <1>7, <1>10, <1>11

\* The historical bytes of a card with a status of its own
Ledger == <<0, 49, 197, 115, 192, 1, 128, 7, 144, 0>>

\* Its octets are at the places where the library looks for them.
LEMMA LedgerIs ==
  /\ Ledger \in Seq(Byte) /\ Len(Ledger) = 10 /\ Ledger[8] = 7
  /\ Ledger[1] = 0 /\ Ledger[2] = 49 /\ Ledger[3] = 197 /\ Ledger[4] = 115 /\ Ledger[5] = 192
  /\ Ledger[6] = 1 /\ Ledger[7] = 128 /\ Ledger[9] = 144 /\ Ledger[10] = 0
<1>1. PICK w : w = Ledger
  OBVIOUS
<1>2. w = <<0, 49, 197, 115, 192, 1, 128, 7, 144, 0>>
  BY <1>1 DEF Ledger
<1>3. /\ 0 \in Byte /\ 49 \in Byte /\ 197 \in Byte /\ 115 \in Byte /\ 192 \in Byte
      /\ 1 \in Byte /\ 128 \in Byte /\ 7 \in Byte /\ 144 \in Byte
  BY DEF Byte
<1>4. w \in Seq(Byte) /\ Len(w) = 10
  BY <1>2, <1>3
<1>5. /\ w[1] = 0 /\ w[2] = 49 /\ w[3] = 197 /\ w[4] = 115 /\ w[5] = 192
      /\ w[6] = 1 /\ w[7] = 128 /\ w[8] = 7 /\ w[9] = 144 /\ w[10] = 0
  BY <1>2
<1>. QED
  BY <1>1, <1>4, <1>5

\* No other status is replaced,
LEMMA StatusKept ==
  ASSUME NEW b \in Seq(Byte), NEW s \in Byte, s # 7, NEW in, Framed(in, b, s)
  PROVE  LedgerStatus(in) = in
<1>1. PICK n \in Nat : n = Len(b)
  BY LenProperties
<1>2. Len(in) = n + 4 /\ in[n + 2] = s
  BY <1>1, FrameIs
<1>3. ASSUME in = Ledger
      PROVE  FALSE
  <2>1. n + 4 = 10
    BY <1>2, <1>3, LedgerIs
  <2>2. n + 2 = 8
    BY <2>1
  <2>3. in[8] = 7
    BY <1>3, LedgerIs
  <2>. QED
    BY <1>2, <2>2, <2>3
<1>. QED
  BY <1>3 DEF LedgerStatus, Ledger

\* What this card has in front of the status
IsLedger(b) ==
    /\ b \in Seq(Byte) /\ Len(b) = 6 /\ b[1] = 49 /\ b[2] = 197 /\ b[3] = 115 /\ b[4] = 192
    /\ b[5] = 1 /\ b[6] = 128

\* and the status of its own is.
LEMMA StatusRepaired ==
  ASSUME NEW b, IsLedger(b), NEW in, Framed(in, b, 7)
  PROVE  Framed(LedgerStatus(in), b, 5)
<1>1. b \in Seq(Byte)
  BY DEF IsLedger
<1>2. PICK n \in Nat : n = Len(b)
  BY <1>1, LenProperties
<1>3. n = 6
  BY <1>2 DEF IsLedger
<1>4. 7 \in Byte /\ 5 \in Byte
  BY DEF Byte
<1>5. PICK q : q = (<<0>> \o b) \o <<5, 144, 0>>
  OBVIOUS
<1>6. Framed(q, b, 5)
  BY <1>5 DEF Framed
<1>7. /\ in \in Seq(Byte) /\ Len(in) = n + 4 /\ in[1] = 0
      /\ in[n + 2] = 7 /\ in[n + 3] = 144 /\ in[n + 4] = 0 /\ \A i \in 1..n : in[1 + i] = b[i]
  BY <1>1, <1>2, <1>4, FrameIs
<1>8. /\ q \in Seq(Byte) /\ Len(q) = n + 4 /\ q[1] = 0
      /\ q[n + 2] = 5 /\ q[n + 3] = 144 /\ q[n + 4] = 0 /\ \A i \in 1..n : q[1 + i] = b[i]
  BY <1>1, <1>2, <1>4, <1>6, FrameIs
<1>9. /\ b[1] = 49 /\ b[2] = 197 /\ b[3] = 115 /\ b[4] = 192 /\ b[5] = 1 /\ b[6] = 128
  BY DEF IsLedger
<1>10. /\ 1 \in 1..n /\ 2 \in 1..n /\ 3 \in 1..n /\ 4 \in 1..n /\ 5 \in 1..n /\ 6 \in 1..n
       /\ 1 + 1 = 2 /\ 1 + 2 = 3 /\ 1 + 3 = 4 /\ 1 + 4 = 5 /\ 1 + 5 = 6 /\ 1 + 6 = 7
       /\ n + 2 = 8 /\ n + 3 = 9 /\ n + 4 = 10
  BY <1>3
<1>11. /\ in[1] = 0 /\ in[2] = 49 /\ in[3] = 197 /\ in[4] = 115 /\ in[5] = 192
       /\ in[6] = 1 /\ in[7] = 128 /\ in[8] = 7 /\ in[9] = 144 /\ in[10] = 0
  BY <1>7, <1>9, <1>10
<1>12. /\ q[1] = 0 /\ q[2] = 49 /\ q[3] = 197 /\ q[4] = 115 /\ q[5] = 192
       /\ q[6] = 1 /\ q[7] = 128 /\ q[8] = 5 /\ q[9] = 144 /\ q[10] = 0
  BY <1>8, <1>9, <1>10
<1>13. PICK k : k = 10
  OBVIOUS
<1>14. \A i \in 1..k : i = 1 \/ i = 2 \/ i = 3 \/ i = 4 \/ i = 5 \/ i = 6 \/ i = 7 \/ i = 8 \/ i = 9 \/ i = 10
  BY <1>13
<1>15. in = Ledger
  <2>1. PICK w : w = Ledger
    OBVIOUS
  <2>2. /\ w \in Seq(Byte) /\ Len(w) = k
        /\ w[1] = 0 /\ w[2] = 49 /\ w[3] = 197 /\ w[4] = 115 /\ w[5] = 192
        /\ w[6] = 1 /\ w[7] = 128 /\ w[8] = 7 /\ w[9] = 144 /\ w[10] = 0
    BY <1>13, <2>1, LedgerIs
  <2>5. /\ in[1] = w[1] /\ in[2] = w[2] /\ in[3] = w[3] /\ in[4] = w[4] /\ in[5] = w[5]
        /\ in[6] = w[6] /\ in[7] = w[7] /\ in[8] = w[8] /\ in[9] = w[9] /\ in[10] = w[10]
    BY <1>11, <2>2
  <2>3. \A i \in 1..k : in[i] = w[i]
    BY ZenonT(60), <1>14, <2>5
  <2>4. in \in Seq(Byte) /\ Len(in) = Len(w) /\ \A i \in 1..Len(in) : in[i] = w[i]
    BY <1>7, <1>10, <1>13, <2>2, <2>3
  <2>. QED
    BY <2>1, <2>2, <2>4, SeqEqual
<1>16. PICK r : r = [in EXCEPT ![8] = 5]
  OBVIOUS
<1>17. r = q
  <2>5. Len(in) = k /\ Len(q) = k
    BY <1>7, <1>8, <1>10, <1>13
  <2>1. DOMAIN in = 1..k /\ DOMAIN q = 1..k
    BY Zenon, <1>7, <1>8, <2>5, LenProperties
  <2>2. in \in [1..k -> Byte] /\ q \in [1..k -> Byte]
    BY Zenon, <1>7, <1>8, <2>5, LenProperties
  <2>6. /\ in[1] = q[1] /\ in[2] = q[2] /\ in[3] = q[3] /\ in[4] = q[4] /\ in[5] = q[5]
        /\ in[6] = q[6] /\ in[7] = q[7] /\ in[9] = q[9] /\ in[10] = q[10]
    BY <1>11, <1>12
  <2>7. \A i \in 1..k : i # 8 => in[i] = q[i]
    BY Zenon, <1>14, <2>6
  <2>8. \A i \in 1..k : r[i] = IF i = 8 THEN 5 ELSE in[i]
    BY <1>16, <2>1
  <2>3. \A i \in 1..k : r[i] = q[i]
    BY <1>12, <2>7, <2>8
  <2>4. r \in [1..k -> Byte]
    BY <1>4, <1>16, <2>2
  <2>9. r = [i \in 1..k |-> r[i]]
    BY <2>4
  <2>10. q = [i \in 1..k |-> q[i]]
    BY <2>2
  <2>11. [i \in 1..k |-> r[i]] = [i \in 1..k |-> q[i]]
    BY Zenon, <2>3
  <2>. QED
    BY <2>9, <2>10, <2>11
<1>18. LedgerStatus(in) = r
  BY <1>15, <1>16 DEF LedgerStatus, Ledger
<1>. QED
  BY <1>6, <1>17, <1>18

\* The historical bytes of the Neo
IsNeo(in, o) == in = <<0, 115>> \o o \o Zeros(10)

\* Where each part of them is,
LEMMA NeoIs ==
  ASSUME NEW o \in Exactly(3), NEW in, IsNeo(in, o)
  PROVE  /\ in \in Seq(Byte) /\ Len(in) = 15 /\ in[1] = 0 /\ in[2] = 115
         /\ in[5] = o[3] /\ \A i \in 6..15 : in[i] = 0
<1>1. PICK t : t = <<0, 115>>
  OBVIOUS
<1>2. t \in Seq(Byte) /\ Len(t) = 2 /\ t[1] = 0 /\ t[2] = 115
  <2>1. 0 \in Byte /\ 115 \in Byte
    BY DEF Byte
  <2>. QED
    BY <1>1, <2>1, Two
<1>3. o \in Seq(Byte) /\ Len(o) = 3
  BY ExactlyIs
<1>4. PICK n \in Nat : n = 10
  OBVIOUS
<1>5. PICK z : z = Zeros(n)
  OBVIOUS
<1>6. z \in Seq(Byte) /\ Len(z) = n /\ \A i \in 1..n : z[i] = 0
  BY <1>5, ZerosAre
<1>7. PICK x : x = t \o o
  OBVIOUS
<1>8. in = x \o z
  BY Zenon, <1>1, <1>4, <1>5, <1>7 DEF IsNeo
<1>9. x \in Seq(Byte) /\ Len(x) = 5 /\ x[1] = 0 /\ x[2] = 115 /\ x[5] = o[3]
  <2>1. /\ x \in Seq(Byte) /\ Len(x) = Len(t) + Len(o)
        /\ \A i \in 1..Len(t) : x[i] = t[i]
        /\ \A i \in 1..Len(o) : x[Len(t) + i] = o[i]
    <3>1. t \in Seq(Byte) /\ o \in Seq(Byte)
      BY <1>2, <1>3
    <3>. QED
      BY Zenon, <1>7, <3>1, JoinedBytes
  <2>2. /\ Len(t) + Len(o) = 5 /\ 1 \in 1..Len(t) /\ 2 \in 1..Len(t)
        /\ 3 \in 1..Len(o) /\ Len(t) + 3 = 5
    BY <1>2, <1>3
  <2>. QED
    BY <1>2, <2>1, <2>2
<1>10. /\ in \in Seq(Byte) /\ Len(in) = Len(x) + Len(z)
       /\ \A i \in 1..Len(x) : in[i] = x[i]
       /\ \A i \in 1..Len(z) : in[Len(x) + i] = z[i]
  <2>1. x \in Seq(Byte) /\ z \in Seq(Byte)
    BY <1>6, <1>9
  <2>. QED
    BY Zenon, <1>8, <2>1, JoinedBytes
<1>11. /\ Len(x) + Len(z) = 15 /\ 1 \in 1..Len(x) /\ 2 \in 1..Len(x) /\ 5 \in 1..Len(x)
  BY <1>4, <1>6, <1>9
<1>12. ASSUME NEW i \in 6..15
       PROVE  in[i] = 0
  <2>1. PICK j : j = i - 5
    OBVIOUS
  <2>2. j \in 1..n /\ 5 + j = i
    BY <1>4, <2>1
  <2>3. in[5 + j] = z[j]
    BY <1>6, <1>9, <1>10, <2>2
  <2>. QED
    BY <1>6, <2>2, <2>3
<1>. QED
  BY <1>9, <1>10, <1>11, <1>12

\* and its compact TLVs: the capabilities and then zeros.
LEMMA NeoCompact ==
  ASSUME NEW o \in Exactly(3), NEW in, IsNeo(in, o)
  PROVE  Compact[SubSeq(in, 2, 12)] = {[service |-> {}, caps |-> {o[3]}]}
<1>1. /\ in \in Seq(Byte) /\ Len(in) = 15 /\ in[1] = 0 /\ in[2] = 115
      /\ in[5] = o[3] /\ \A i \in 6..15 : in[i] = 0
  BY SMTT(30), NeoIs
<1>2. PICK y : y = SubSeq(in, 2, 12)
  OBVIOUS
<1>3. y \in Seq(Byte) /\ Len(y) = 11 /\ y[1] = 115 /\ y[4] = o[3] /\ \A i \in 5..11 : y[i] = 0
  <2>1. PICK m \in Nat \ {0}, n \in Nat : m = 2 /\ n = 12
    OBVIOUS
  <2>2. n <= Len(in)
    BY <1>1, <2>1
  <2>3. /\ SubSeq(in, m, n) \in Seq(Byte)
        /\ Len(SubSeq(in, m, n)) = IF m <= n THEN n - m + 1 ELSE 0
        /\ \A i \in 1..n - m + 1 : SubSeq(in, m, n)[i] = in[m + i - 1]
    <3>1. in \in Seq(Byte)
      BY <1>1
    <3>. QED
      BY ZenonT(60), <2>2, <3>1, SubBytes
  <2>4. y = SubSeq(in, m, n)
    BY <1>2, <2>1
  <2>5. /\ (IF m <= n THEN n - m + 1 ELSE 0) = 11
        /\ 1 \in 1..n - m + 1 /\ m + 1 - 1 = 2 /\ 4 \in 1..n - m + 1 /\ m + 4 - 1 = 5
    BY <2>1
  <2>6. \A i \in 5..11 : i \in 1..n - m + 1 /\ m + i - 1 \in 6..15
    BY <2>1
  <2>7. y[1] = in[m + 1 - 1] /\ y[4] = in[m + 4 - 1]
    BY <2>3, <2>4, <2>5
  <2>8. ASSUME NEW i \in 5..11
        PROVE  y[i] = 0
    <3>1. PICK j : j = m + i - 1
      OBVIOUS
    <3>2. i \in 1..n - m + 1 /\ j \in 6..15
      BY <2>6, <3>1
    <3>3. y[i] = in[j]
      BY Zenon, <2>3, <2>4, <3>1, <3>2
    <3>. QED
      BY <1>1, <3>2, <3>3
  <2>. QED
    BY <1>1, <2>3, <2>4, <2>5, <2>7, <2>8
<1>4. PICK k \in Nat : k = 7
  OBVIOUS
<1>5. PICK r : r = Drop(y, 4)
  OBVIOUS
<1>6. r \in Seq(Byte) /\ Len(r) = k /\ \A i \in 1..k : r[i] = 0
  <2>1. PICK m \in Nat \ {0}, n \in Nat : m = 5 /\ n = 11
    OBVIOUS
  <2>2. n <= Len(y)
    BY <1>3, <2>1
  <2>3. /\ SubSeq(y, m, n) \in Seq(Byte)
        /\ Len(SubSeq(y, m, n)) = IF m <= n THEN n - m + 1 ELSE 0
        /\ \A i \in 1..n - m + 1 : SubSeq(y, m, n)[i] = y[m + i - 1]
    <3>1. y \in Seq(Byte)
      BY <1>3
    <3>. QED
      BY ZenonT(60), <2>2, <3>1, SubBytes
  <2>4. r = SubSeq(y, m, n)
    BY <1>3, <1>5, <2>1 DEF Drop
  <2>5. (IF m <= n THEN n - m + 1 ELSE 0) = k /\ n - m + 1 = k
    BY <1>4, <2>1
  <2>6. ASSUME NEW i \in 1..k
        PROVE  r[i] = 0
    <3>1. PICK j : j = m + i - 1
      OBVIOUS
    <3>2. i \in 1..n - m + 1 /\ j \in 5..11
      BY <1>4, <2>1, <2>5, <3>1
    <3>3. r[i] = y[j]
      BY Zenon, <2>3, <2>4, <3>1, <3>2
    <3>. QED
      BY <1>3, <3>2, <3>3
  <2>. QED
    BY <2>3, <2>4, <2>5, <2>6
<1>7. r = Zeros(7)
  <2>1. PICK z : z = Zeros(k)
    OBVIOUS
  <2>2. z \in Seq(Byte) /\ Len(z) = k /\ \A i \in 1..k : z[i] = 0
    BY <2>1, ZerosAre
  <2>3. Len(r) = Len(z) /\ \A i \in 1..Len(r) : r[i] = z[i]
    BY <1>6, <2>2
  <2>4. r = z
    BY <1>6, <2>2, <2>3, SeqEqual
  <2>. QED
    BY Zenon, <1>4, <2>1, <2>4
<1>8. Compact[Drop(y, 4)] = {[service |-> {}, caps |-> {}]}
  BY Zenon, <1>5, <1>7, CompactZeros
<1>9. 4 <= Len(y)
  BY <1>3
<1>10. Compact[y] = {[service |-> {}, caps |-> {y[4]}]}
  BY Zenon, <1>3, <1>8, <1>9, CompactFirst
<1>. QED
  BY Zenon, <1>2, <1>3, <1>10

\* They are read as they are, neither padded nor with a status of their own.
LEMMA NeoRead ==
  ASSUME NEW o \in Exactly(3), NEW octets, IsNeo(octets, o)
  PROVE  HistoricalBytes(octets) = {[service |-> {}, caps |-> {o[3]}, status |-> 0]}
<1>1. PICK in : in = octets
  OBVIOUS
<1>2. /\ in \in Seq(Byte) /\ Len(in) = 15 /\ in[1] = 0
      /\ in[2] = 115 /\ in[9] = 0 /\ in[13] = 0
  <2>1. /\ in \in Seq(Byte) /\ Len(in) = 15 /\ in[1] = 0
        /\ in[2] = 115 /\ \A i \in 6..15 : in[i] = 0
    BY SMTT(30), <1>1, NeoIs
  <2>. QED
    BY <2>1
<1>3. LedgerPadded(in) = in
  <2>1. ASSUME IsSuffix(Padding, in)
        PROVE  FALSE
    <3>1. PICK w : w = Padding
      OBVIOUS
    <3>2. w \in Seq(Byte) /\ Len(w) = 7 /\ w[1] = 144
      BY <3>1, PaddingIs
    <3>3. IsSuffix(w, in)
      BY <2>1, <3>1
    <3>4. \A j \in 1..Len(w) : w[j] = in[(Len(in) - Len(w)) + j]
      <4>1. w \in Seq(Byte)
        BY <3>2
      <4>2. in \in Seq(Byte)
        BY <1>2
      <4>. QED
        BY ZenonT(60), <3>3, <4>1, <4>2, SuffixAt
    <3>5. 1 \in 1..Len(w) /\ (Len(in) - Len(w)) + 1 = 9
      BY <1>2, <3>2
    <3>6. w[1] = in[9]
      BY <3>4, <3>5
    <3>. QED
      BY <1>2, <3>2, <3>6
  <2>. QED
    BY <2>1 DEF LedgerPadded, Padding
<1>4. LedgerStatus(in) = in
  <2>1. in # Ledger
    BY <1>2, LedgerIs
  <2>. QED
    BY <2>1 DEF LedgerStatus, Ledger
<1>5. Len(in) - 2 = 13 /\ Len(in) - 3 = 12 /\ ~(Len(in) < 4)
  BY <1>2
<1>6. ~(Len(in) < 4 \/ in[1] # 0 \/ in[Len(in) - 2] \notin {0, 3, 5})
  BY <1>2, <1>5
<1>7. PICK c : c = [service |-> {}, caps |-> {o[3]}]
  OBVIOUS
<1>8. Compact[SubSeq(in, 2, Len(in) - 3)] = {c}
  <2>1. Compact[SubSeq(in, 2, 12)] = {[service |-> {}, caps |-> {o[3]}]}
    BY Zenon, <1>1, NeoCompact
  <2>. QED
    BY Zenon, <1>5, <1>7, <2>1
<1>9. in[Len(in) - 2] = 0
  BY <1>2, <1>5
<1>10. HistoricalBytes(in) = {[service |-> x.service, caps |-> x.caps, status |-> 0] : x \in {c}}
  BY Zenon, <1>3, <1>4, <1>6, <1>8, <1>9 DEF HistoricalBytes
<1>11. c.service = {} /\ c.caps = {o[3]}
  BY <1>7
<1>. QED
  BY <1>1, <1>10, <1>11

\* What is read of historical bytes: the last octet of the capabilities
IsHistoryOf(octets, h) == \E c : HistoricalBytes(octets) = {c} /\ c.caps = {o[3] : o \in h.caps}

\* With the status that is kept, or repaired, they are read;
LEMMA FramedHistory ==
  ASSUME NEW h, IsHistory(h), NEW in, Framed(in, ServiceOf(h) \o CapsIn(h), h.status)
  PROVE  \A octets : LedgerPadded(octets) = in => IsHistoryOf(octets, h)
<1>1. PICK w : w = ServiceOf(h)
  OBVIOUS
<1>2. PICK u : u = CapsIn(h)
  OBVIOUS
<1>3. PICK b : b = w \o u
  OBVIOUS
<1>4. PICK caps : caps = {o[3] : o \in h.caps}
  OBVIOUS
<1>5. w \in Seq(Byte) /\ u \in Seq(Byte) /\ Holds(b, h.service, caps)
  BY <1>1, <1>2, <1>3, <1>4, CompactRead DEF Holds
<1>6. b \in Seq(Byte)
  BY <1>3, <1>5, JoinedBytes
<1>7. Framed(in, b, h.status)
  BY <1>1, <1>2, <1>3
<1> SUFFICES ASSUME NEW octets, LedgerPadded(octets) = in
             PROVE  IsHistoryOf(octets, h)
  OBVIOUS
<1>8. \E s \in {0, 3, 5} : Framed(LedgerStatus(in), b, s)
  <2>1. CASE h.status \in {0, 3, 5}
    <3>1. h.status \in Byte /\ h.status # 7
      BY <2>1 DEF Byte
    <3>2. LedgerStatus(in) = in
      BY Zenon, <1>6, <1>7, <3>1, StatusKept
    <3>. QED
      BY <1>7, <2>1, <3>2
  <2>2. CASE h.status \notin {0, 3, 5}
    <3>1. h.status = 7 /\ h.service = {197} /\ h.caps = {<<192, 1, 128>>}
      BY <2>2 DEF IsHistory
    <3>2. w = <<49, 197>>
      <4>1. The({197}) = 197
        BY DEF The
      <4>. QED
        BY <1>1, <3>1, <4>1 DEF ServiceOf
    <3>3. PICK a : a = <<115>>
      OBVIOUS
    <3>4. PICK e : e = <<192, 1, 128>>
      OBVIOUS
    <3>5. u = a \o e
      <4>1. The({e}) = e
        BY DEF The
      <4>. QED
        BY <1>2, <3>1, <3>3, <3>4, <4>1 DEF CapsIn
    <3>6. /\ w \in Seq(Byte) /\ Len(w) = 2 /\ w[1] = 49 /\ w[2] = 197
          /\ a \in Seq(Byte) /\ Len(a) = 1 /\ a[1] = 115
          /\ e \in Seq(Byte) /\ Len(e) = 3 /\ e[1] = 192 /\ e[2] = 1 /\ e[3] = 128
      <4>1. 49 \in Byte /\ 197 \in Byte /\ 115 \in Byte /\ 192 \in Byte /\ 1 \in Byte /\ 128 \in Byte
        BY DEF Byte
      <4>2. w \in Seq(Byte) /\ Len(w) = 2 /\ w[1] = 49 /\ w[2] = 197
        BY <3>2, <4>1, Two
      <4>3. a \in Seq(Byte) /\ Len(a) = 1 /\ a[1] = 115
        BY <3>3, <4>1, One
      <4>4. e \in Seq(Byte) /\ Len(e) = 3 /\ e[1] = 192 /\ e[2] = 1 /\ e[3] = 128
        BY <3>4, <4>1, Three
      <4>. QED
        BY <4>2, <4>3, <4>4
    <3>7. u \in Seq(Byte) /\ Len(u) = 4 /\ u[1] = 115 /\ u[2] = 192 /\ u[3] = 1 /\ u[4] = 128
      <4>1. /\ u \in Seq(Byte) /\ Len(u) = Len(a) + Len(e)
            /\ \A i \in 1..Len(a) : u[i] = a[i]
            /\ \A i \in 1..Len(e) : u[Len(a) + i] = e[i]
        <5>1. a \in Seq(Byte) /\ e \in Seq(Byte)
          BY <3>6
        <5>. QED
          BY Zenon, <3>5, <5>1, JoinedBytes
      <4>2. /\ Len(a) + Len(e) = 4 /\ 1 \in 1..Len(a)
            /\ 1 \in 1..Len(e) /\ 2 \in 1..Len(e) /\ 3 \in 1..Len(e)
            /\ Len(a) + 1 = 2 /\ Len(a) + 2 = 3 /\ Len(a) + 3 = 4
        BY <3>6
      <4>. QED
        BY <3>6, <4>1, <4>2
    <3>8. /\ b \in Seq(Byte) /\ Len(b) = 6 /\ b[1] = 49 /\ b[2] = 197
          /\ b[3] = 115 /\ b[4] = 192 /\ b[5] = 1 /\ b[6] = 128
      <4>1. /\ b \in Seq(Byte) /\ Len(b) = Len(w) + Len(u)
            /\ \A i \in 1..Len(w) : b[i] = w[i]
            /\ \A i \in 1..Len(u) : b[Len(w) + i] = u[i]
        <5>1. w \in Seq(Byte) /\ u \in Seq(Byte)
          BY <1>5
        <5>. QED
          BY Zenon, <1>3, <5>1, JoinedBytes
      <4>2. /\ Len(w) + Len(u) = 6 /\ 1 \in 1..Len(w) /\ 2 \in 1..Len(w)
            /\ 1 \in 1..Len(u) /\ 2 \in 1..Len(u) /\ 3 \in 1..Len(u) /\ 4 \in 1..Len(u)
            /\ Len(w) + 1 = 3 /\ Len(w) + 2 = 4 /\ Len(w) + 3 = 5 /\ Len(w) + 4 = 6
        BY <3>6, <3>7
      <4>. QED
        BY <3>6, <3>7, <4>1, <4>2
    <3>9. IsLedger(b)
      BY <3>8 DEF IsLedger
    <3>10. Framed(in, b, 7)
      BY <1>7, <3>1
    <3>. QED
      BY <3>9, <3>10, StatusRepaired
  <2>. QED
    BY <2>1, <2>2
<1>9. PICK s \in {0, 3, 5} : Framed(LedgerStatus(in), b, s)
  BY <1>8
<1>11. Framed(LedgerStatus(LedgerPadded(octets)), b, s) /\ s \in {0, 3, 5}
  BY <1>9
<1>12. PICK service : service = h.service
  OBVIOUS
<1>13. Holds(b, service, caps)
  BY <1>5, <1>12
<1>14. HistoricalBytes(octets) = {[service |-> service, caps |-> caps, status |-> s]}
  BY SMTT(30), <1>6, <1>11, <1>13, FrameRead
<1>15. PICK c : c = [service |-> service, caps |-> caps, status |-> s]
  OBVIOUS
<1>16. c.caps = caps
  BY <1>15
<1>. QED
  BY Zenon, <1>4, <1>14, <1>15, <1>16 DEF IsHistoryOf

\* padded or not, and so are those of every card.
LEMMA HistoryRead ==
  ASSUME NEW h, IsHistory(h)
  PROVE  /\ CardHistorical(h) \in Seq(Byte) /\ Len(CardHistorical(h)) <= 15
         /\ IsHistoryOf(CardHistorical(h), h)
<1>1. PICK octets : octets = CardHistorical(h)
  OBVIOUS
<1>2. CASE h.neo
  <2>1. PICK o : o = The(h.caps)
    OBVIOUS
  <2>2. h.caps = {o} /\ o \in Exactly(3)
    <3>1. h.caps \in SUBSET Exactly(3) /\ AtMostOne(h.caps) /\ h.caps # {}
      BY <1>2 DEF IsHistory
    <3>. QED
      BY <2>1, <3>1, TheOne
  <2>3. IsNeo(octets, o)
    BY <1>1, <1>2, <2>1 DEF CardHistorical, IsNeo
  <2>4. octets \in Seq(Byte) /\ Len(octets) <= 15
    <3>1. octets \in Seq(Byte) /\ Len(octets) = 15
      BY SMTT(30), <2>2, <2>3, NeoIs
    <3>. QED
      BY <3>1
  <2>5. IsHistoryOf(octets, h)
    <3>1. PICK c : c = [service |-> {}, caps |-> {o[3]}, status |-> 0]
      OBVIOUS
    <3>2. HistoricalBytes(octets) = {c}
      BY Zenon, <2>2, <2>3, <3>1, NeoRead
    <3>3. c.caps = {x[3] : x \in h.caps}
      BY <2>2, <3>1
    <3>. QED
      BY <3>2, <3>3 DEF IsHistoryOf
  <2>. QED
    BY <1>1, <2>4, <2>5
<1>3. CASE ~h.neo
  <2>1. PICK z : z = <<0>>
    OBVIOUS
  <2>2. PICK w : w = ServiceOf(h)
    OBVIOUS
  <2>3. PICK u : u = CapsIn(h)
    OBVIOUS
  <2>4. PICK t : t = <<h.status, 144, 0>>
    OBVIOUS
  <2>5. PICK p : p = IF h.padded THEN <<0, 0, 0, 0, 0>> ELSE <<>>
    OBVIOUS
  <2>6. h.status \in Byte
    BY DEF IsHistory
  <2>7. z \in Seq(Byte) /\ t \in Seq(Byte)
    <3>1. 144 \in Byte /\ 0 \in Byte
      BY DEF Byte
    <3>2. z \in Seq(Byte)
      BY <2>1, <3>1, One
    <3>3. t \in Seq(Byte)
      BY <2>4, <2>6, <3>1, Three
    <3>. QED
      BY <3>2, <3>3
  <2>8. /\ w \in Seq(Byte) /\ Len(w) <= 2 /\ Len(w) \in Nat
        /\ u \in Seq(Byte) /\ Len(u) <= 4 /\ Len(u) \in Nat
    BY <2>2, <2>3, CompactRead
  <2>9. octets = (((z \o w) \o u) \o t) \o p
    BY ZenonT(60), <1>1, <1>3, <2>1, <2>2, <2>3, <2>4, <2>5 DEF CardHistorical, ServiceOf, CapsIn
  <2>10. PICK b : b = w \o u
    OBVIOUS
  <2>11. b \in Seq(Byte) /\ Len(b) <= 6 /\ Len(b) \in Nat
    <3>1. b \in Seq(Byte) /\ Len(b) = Len(w) + Len(u)
      <4>1. w \in Seq(Byte) /\ u \in Seq(Byte)
        BY <2>8
      <4>. QED
        BY Zenon, <2>10, <4>1, JoinedBytes
    <3>2. PICK i, j : i = Len(w) /\ j = Len(u)
      OBVIOUS
    <3>3. i \in Nat /\ j \in Nat /\ i <= 2 /\ j <= 4
      BY <2>8, <3>2
    <3>4. i + j <= 6 /\ i + j \in Nat
      BY <3>3
    <3>. QED
      BY <3>1, <3>2, <3>4
  <2>12. (z \o w) \o u = z \o b
    <3>1. w \in Seq(Byte) /\ u \in Seq(Byte) /\ z \in Seq(Byte)
      BY <2>7, <2>8
    <3>. QED
      BY Zenon, <2>10, <3>1, Regroup
  <2>13. PICK in : in = (z \o b) \o t
    OBVIOUS
  <2>14. octets = in \o p
    BY Zenon, <2>9, <2>12, <2>13
  <2>15. Framed(in, b, h.status)
    BY Zenon, <2>1, <2>4, <2>13 DEF Framed
  <2>16. PICK n : n = Len(b)
    OBVIOUS
  <2>17. in \in Seq(Byte) /\ Len(in) = n + 4
    <3>1. b \in Seq(Byte) /\ n \in Nat
      BY <2>11, <2>16
    <3>. QED
      BY <2>6, <2>15, <2>16, <3>1, FrameIs
  <2>18. LedgerPadded(octets) = in /\ octets \in Seq(Byte) /\ Len(octets) <= Len(in) + 5
    <3>1. CASE h.padded
      <4>1. octets = in \o <<0, 0, 0, 0, 0>>
        BY <2>5, <2>14, <3>1
      <4>2. b \in Seq(Byte)
        BY <2>11
      <4>3. /\ in \o <<0, 0, 0, 0, 0>> \in Seq(Byte) /\ Len(in \o <<0, 0, 0, 0, 0>>) = Len(in) + 5
            /\ LedgerPadded(in \o <<0, 0, 0, 0, 0>>) = in
        BY Zenon, <2>6, <2>15, <4>2, IsPadded
      <4>4. Len(octets) = n + 4 + 5 /\ n \in Nat
        BY <2>11, <2>16, <2>17, <4>1, <4>3
      <4>5. Len(octets) <= Len(in) + 5
        BY <2>17, <4>4
      <4>. QED
        BY <4>1, <4>3, <4>5
    <3>2. CASE ~h.padded
      <4>1. octets = in
        BY <2>5, <2>14, <2>17, <3>2, ConcatEmptySeq
      <4>2. b \in Seq(Byte)
        BY <2>11
      <4>3. LedgerPadded(in) = in
        BY Zenon, <2>6, <2>15, <4>2, NotPadded
      <4>4. n \in Nat
        BY <2>11, <2>16
      <4>5. Len(in) <= Len(in) + 5
        BY <2>17, <4>4
      <4>. QED
        BY <2>17, <4>1, <4>3, <4>5
    <3>. QED
      BY <3>1, <3>2
  <2>19. Len(octets) <= 15
    <3>1. PICK k : k = Len(octets)
      OBVIOUS
    <3>2. k \in Nat /\ n \in Nat /\ n <= 6 /\ k <= n + 4 + 5
      BY <2>11, <2>16, <2>17, <2>18, <3>1, LenProperties
    <3>3. k <= 15
      BY <3>2
    <3>. QED
      BY <3>1, <3>3
  <2>20. IsHistoryOf(octets, h)
    <3>1. Framed(in, ServiceOf(h) \o CapsIn(h), h.status)
      BY Zenon, <2>2, <2>3, <2>10, <2>15
    <3>. QED
      BY Zenon, <2>18, <3>1, FramedHistory
  <2>. QED
    BY <1>1, <2>18, <2>19, <2>20
<1>. QED
  BY <1>2, <1>3

-----------------------------------------------------------------------------
(* The data objects of a card.                                             *)

\* A data object, or none, that a card can hold
FitsObject(S) == \A o \in S : S = {o} /\ o \in Seq(Byte) /\ Len(o) <= 64

\* One value of at most 64 octets is one,
LEMMA FitsOne ==
  ASSUME NEW o \in Seq(Byte), Len(o) <= 64
  PROVE  FitsObject({o})
BY DEF FitsObject

\* and so is no value at all.
LEMMA FitsNone == FitsObject({})
BY DEF FitsObject

\* Values of n octets do.
LEMMA FitsExactly ==
  ASSUME NEW n \in Nat, n <= 64, NEW S \in SUBSET Exactly(n), AtMostOne(S)
  PROVE  FitsObject(S)
<1> SUFFICES ASSUME NEW o \in S
             PROVE  S = {o} /\ o \in Seq(Byte) /\ Len(o) <= 64
  BY DEF FitsObject
<1>1. S = {o}
  BY DEF AtMostOne
<1>2. o \in Exactly(n)
  OBVIOUS
<1>3. o \in Seq(Byte) /\ Len(o) = n
  BY <1>2, ExactlyIs
<1>. QED
  BY <1>1, <1>3

\* Attributes, if there are any
LEMMA FitsAttributes ==
  ASSUME NEW S, \A a \in S : S = {a} /\ IsAttributes(a)
  PROVE  /\ FitsObject({CardAttributesOctets(a) : a \in S})
         /\ UNION {Complete(ParseAttributes(v)) : v \in {CardAttributesOctets(a) : a \in S}} = S
<1>1. CASE S = {}
  BY <1>1, FitsNone
<1>2. CASE S # {}
  <2>1. PICK a \in S : TRUE
    BY <1>2
  <2>2. S = {a} /\ IsAttributes(a)
    BY <2>1
  <2>3. PICK o : o = CardAttributesOctets(a)
    OBVIOUS
  <2>4. {CardAttributesOctets(x) : x \in S} = {o}
    BY <2>2, <2>3
  <2>5. o \in Seq(Byte) /\ Len(o) <= 12 /\ Complete(ParseAttributes(o)) = {a}
    BY <2>2, <2>3, CardAttributesRead
  <2>6. Len(o) <= 64
    <3>1. PICK k : k = Len(o)
      OBVIOUS
    <3>2. k \in Nat /\ k <= 12
      BY <2>5, <3>1, LenProperties
    <3>3. k <= 64
      BY <3>2
    <3>. QED
      BY <3>1, <3>3
  <2>7. FitsObject({o})
    BY <2>5, <2>6, FitsOne
  <2>8. UNION {Complete(ParseAttributes(v)) : v \in {o}} = {a}
    BY <2>5
  <2>. QED
    BY <2>2, <2>4, <2>7, <2>8
<1>. QED
  BY <1>1, <1>2

\* The slot of the key of the attestation is there if a card attests.
SlotIf(yes, S, n) == IF yes THEN {KeySlot(S, n)} ELSE {}

\* The slot of that key fits, and what the library finds in it is the key's
\* value, if there is one.
LEMMA FitsAttestation ==
  ASSUME NEW n \in Nat, n <= 64, NEW S \in SUBSET Exactly(n), AtMostOne(S),
         \A o \in S : \E i \in DOMAIN o : o[i] # 0,
         NEW yes, ~yes => S = {}
  PROVE  /\ FitsObject(SlotIf(yes, S, n))
         /\ UNION {NonZero(v) : v \in {w \in SlotIf(yes, S, n) : Len(w) = n}} = S
<1>1. CASE ~yes
  BY <1>1, FitsNone DEF SlotIf
<1>2. CASE yes
  <2>1. PICK o : o = KeySlot(S, n)
    OBVIOUS
  <2>2. o \in Seq(Byte) /\ Len(o) = n /\ NonZero(o) = S
    BY <2>1, SlotRead
  <2>3. FitsObject({o})
    BY <2>2, FitsOne
  <2>4. {w \in {o} : Len(w) = n} = {o}
    BY <2>2
  <2>5. UNION {NonZero(v) : v \in {o}} = S
    BY <2>2
  <2>. QED
    BY <1>2, <2>1, <2>3, <2>4, <2>5 DEF SlotIf
<1>. QED
  BY <1>1, <1>2

\* The data objects of a card, each by itself
LEMMA CardFields ==
  ASSUME NEW c, NEW d, d = CardData(c)
  PROVE  /\ d["aid"] = {CardAid(c.aid)} /\ d["historical"] = {CardHistorical(c.history)}
         /\ d["eli"] = {CardEli(e) : e \in c.eli}
         /\ d["capabilities"] = {CardCapabilities(c)} /\ d["pwStatus"] = {c.status}
         /\ d["fingerprints"] = {KeyInfo(c.fingerprint, 20)}
         /\ d["caFingerprints"] = {KeyInfo(c.ca, 20)} /\ d["times"] = {KeyInfo(c.time, 4)}
         /\ d["Signing"] = {CardAttributesOctets(a) : a \in c.attributes["Signing"]}
         /\ d["Decryption"] = {CardAttributesOctets(a) : a \in c.attributes["Decryption"]}
         /\ d["Authentication"] = {CardAttributesOctets(a) : a \in c.attributes["Authentication"]}
         /\ d["Attestation"] = {CardAttributesOctets(a) : a \in c.attributes["Attestation"]}
         /\ d["attestationFp"] = SlotIf(c.attesting, c.fingerprint["Attestation"], 20)
         /\ d["attestationTime"] = SlotIf(c.attesting, c.time["Attestation"], 4)
         /\ d["uifSigning"] = c.uif["Signing"] /\ d["uifDecryption"] = c.uif["Decryption"]
         /\ d["uifAuthentication"] = c.uif["Authentication"] /\ d["uifAttestation"] = c.uif["Attestation"]
BY Zenon DEF CardData, SlotIf

\* What IsContent says of the parts of a card
LEMMA ContentIs ==
  ASSUME NEW c, IsContent(c)
  PROVE  /\ IsAid(c.aid) /\ IsHistory(c.history) /\ IsCapable(c) /\ c.status \in Exactly(7)
         /\ c.eli \in SUBSET [cmd : U16, rsp : U16] /\ AtMostOne(c.eli)
         /\ \A kt \in KeyType : \A a \in c.attributes[kt] : c.attributes[kt] = {a} /\ IsAttributes(a)
         /\ AreValues(c.fingerprint, KeyType, 20) /\ NeverZero(c.fingerprint)
         /\ AreValues(c.time, KeyType, 4) /\ NeverZero(c.time)
         /\ AreValues(c.ca, Range(Basic), 20) /\ NeverZero(c.ca)
         /\ AreValues(c.uif, KeyType, 2)
         /\ c.wrapped \in BOOLEAN /\ c.attesting \in BOOLEAN
         /\ ~c.attesting => c.fingerprint["Attestation"] = {} /\ c.time["Attestation"] = {}
<1>1. IsAid(c.aid)
  BY DEF IsContent, IsAid
<1>2. IsCapable(c)
  <2>1. c.aid.version[1] \in Byte
    <3>1. c.aid.version \in Exactly(2)
      BY DEF IsContent
    <3>. QED
      BY <3>1 DEF Exactly
  <2>. QED
    BY <2>1 DEF IsContent, IsCapable
<1>. QED
  BY Zenon, <1>1, <1>2 DEF IsContent

\* A key has a value at most, and it is not all zeros.
LEMMA ValueOf ==
  ASSUME NEW n \in Nat, NEW keys, NEW v, AreValues(v, keys, n), NEW kt \in keys
  PROVE  /\ v[kt] \in SUBSET Exactly(n) /\ AtMostOne(v[kt])
         /\ NeverZero(v) => \A o \in v[kt] : \E i \in DOMAIN o : o[i] # 0
<1>1. v \in [keys -> SUBSET Exactly(n)] /\ \A k \in keys : AtMostOne(v[k])
  BY Zenon DEF AreValues
<1>2. DOMAIN v = keys
  BY <1>1
<1>. QED
  BY <1>1, <1>2 DEF NeverZero

\* The extended length information fits,
LEMMA FitsEli ==
  ASSUME NEW S \in SUBSET [cmd : U16, rsp : U16], AtMostOne(S)
  PROVE  /\ FitsObject({CardEli(e) : e \in S}) /\ \A e \in {CardEli(x) : x \in S} : EliForm(e)
         /\ UNION {ExtendedLengthInfo(v) : v \in {CardEli(e) : e \in S}} = S
<1>1. CASE S = {}
  BY <1>1, FitsNone
<1>2. CASE S # {}
  <2>1. PICK e : e \in S
    BY <1>2
  <2>2. S = {e} /\ e \in [cmd : U16, rsp : U16]
    BY <2>1 DEF AtMostOne
  <2>3. PICK o : o = CardEli(e)
    OBVIOUS
  <2>4. {CardEli(x) : x \in S} = {o}
    BY <2>2, <2>3
  <2>5. EliForm(o) /\ ExtendedLengthInfo(o) = {e} /\ o \in Seq(Byte) /\ Len(o) = 8
    BY <2>2, <2>3, EliRead
  <2>6. Len(o) <= 64
    BY <2>5
  <2>7. FitsObject({o})
    BY <2>5, <2>6, FitsOne
  <2>8. UNION {ExtendedLengthInfo(v) : v \in {o}} = {e}
    BY <2>5
  <2>. QED
    BY <2>2, <2>4, <2>5, <2>7, <2>8
<1>. QED
  BY <1>1, <1>2

\* and so do all the data of a card.
LEMMA CardDataIs ==
  ASSUME NEW c, IsContent(c)
  PROVE  IsData(CardData(c))
<1>1. PICK d : d = CardData(c)
  OBVIOUS
<1>2. /\ "Signing" \in KeyType /\ "Decryption" \in KeyType
      /\ "Authentication" \in KeyType /\ "Attestation" \in KeyType
  BY DEF KeyType
<1>3. Range(Basic) \subseteq KeyType
  BY BasicKeys
<1>4. FitsObject(d["aid"])
  <2>1. PICK o : o = CardAid(c.aid)
    OBVIOUS
  <2>2. IsAid(c.aid)
    BY ContentIs
  <2>3. o \in Seq(Byte) /\ Len(o) = 16
    BY <2>1, <2>2, AidRead
  <2>4. Len(o) <= 64
    BY <2>3
  <2>. QED
    BY <1>1, <2>1, <2>3, <2>4, FitsOne, CardFields
<1>5. FitsObject(d["historical"])
  <2>1. PICK o : o = CardHistorical(c.history)
    OBVIOUS
  <2>2. IsHistory(c.history)
    BY ContentIs
  <2>3. o \in Seq(Byte) /\ Len(o) <= 15
    BY <2>1, <2>2, HistoryRead
  <2>4. Len(o) <= 64
    <3>1. PICK k : k = Len(o)
      OBVIOUS
    <3>2. k \in Nat /\ k <= 15
      BY <2>3, <3>1, LenProperties
    <3>3. k <= 64
      BY <3>2
    <3>. QED
      BY <3>1, <3>3
  <2>. QED
    BY ZenonT(60), <1>1, <2>1, <2>3, <2>4, FitsOne, CardFields
<1>6. FitsObject(d["eli"]) /\ \A e \in d["eli"] : EliForm(e)
  <2>1. c.eli \in SUBSET [cmd : U16, rsp : U16] /\ AtMostOne(c.eli)
    BY ContentIs
  <2>2. FitsObject({CardEli(e) : e \in c.eli}) /\ \A e \in {CardEli(x) : x \in c.eli} : EliForm(e)
    BY Zenon, <2>1, FitsEli
  <2>3. d["eli"] = {CardEli(e) : e \in c.eli}
    BY <1>1, CardFields
  <2>. QED
    BY <2>2, <2>3
<1>7. FitsObject(d["capabilities"])
  <2>1. PICK o : o = CardCapabilities(c)
    OBVIOUS
  <2>2. IsCapable(c)
    BY ContentIs
  <2>3. o \in Seq(Byte) /\ Len(o) = 10
    BY <2>1, <2>2, CapabilitiesRead
  <2>4. Len(o) <= 64
    BY <2>3
  <2>. QED
    BY <1>1, <2>1, <2>3, <2>4, FitsOne, CardFields
<1>8. FitsObject(d["pwStatus"])
  <2>1. PICK o : o = c.status
    OBVIOUS
  <2>2. o \in Exactly(7)
    BY <2>1, ContentIs
  <2>3. o \in Seq(Byte) /\ Len(o) = 7
    BY <2>2, ExactlyIs
  <2>4. Len(o) <= 64
    BY <2>3
  <2>. QED
    BY <1>1, <2>1, <2>3, <2>4, FitsOne, CardFields
<1>9. ASSUME NEW n \in {4, 20}, NEW keys, Range(Basic) \subseteq keys, NEW v, AreValues(v, keys, n), NeverZero(v)
      PROVE  FitsObject({KeyInfo(v, n)})
  <2>1. PICK o : o = KeyInfo(v, n)
    OBVIOUS
  <2>2. n \in Nat /\ 3 * n <= 64
    OBVIOUS
  <2>3. o \in Seq(Byte) /\ Len(o) = 3 * n
    BY <1>9, <2>1, <2>2, KeysRead
  <2>4. Len(o) <= 64
    BY <2>2, <2>3
  <2>. QED
    BY <2>1, <2>3, <2>4, FitsOne
<1>10. FitsObject(d["fingerprints"])
  <2>1. AreValues(c.fingerprint, KeyType, 20) /\ NeverZero(c.fingerprint)
    BY ContentIs
  <2>2. FitsObject({KeyInfo(c.fingerprint, 20)})
    BY <1>3, <1>9, <2>1
  <2>. QED
    BY <1>1, <2>2, CardFields
<1>11. FitsObject(d["times"])
  <2>1. AreValues(c.time, KeyType, 4) /\ NeverZero(c.time)
    BY ContentIs
  <2>2. FitsObject({KeyInfo(c.time, 4)})
    BY <1>3, <1>9, <2>1
  <2>. QED
    BY <1>1, <2>2, CardFields
<1>12. FitsObject(d["caFingerprints"])
  <2>1. AreValues(c.ca, Range(Basic), 20) /\ NeverZero(c.ca)
    BY ContentIs
  <2>2. FitsObject({KeyInfo(c.ca, 20)})
    BY <1>9, <2>1
  <2>. QED
    BY <1>1, <2>2, CardFields
<1>13. FitsObject(d["Signing"]) /\ FitsObject(d["Decryption"]) /\ FitsObject(d["Authentication"]) /\ FitsObject(d["Attestation"])
  <2>1. \A kt \in KeyType : \A a \in c.attributes[kt] : c.attributes[kt] = {a} /\ IsAttributes(a)
    BY Zenon, ContentIs
  <2>2. ASSUME NEW kt \in KeyType
        PROVE  FitsObject({CardAttributesOctets(a) : a \in c.attributes[kt]})
    <3>1. PICK S : S = c.attributes[kt]
      OBVIOUS
    <3>2. \A a \in S : S = {a} /\ IsAttributes(a)
      BY <2>1, <3>1
    <3>3. FitsObject({CardAttributesOctets(a) : a \in S})
      BY Zenon, <3>2, FitsAttributes
    <3>. QED
      BY <3>1, <3>3
  <2>3. /\ d["Signing"] = {CardAttributesOctets(a) : a \in c.attributes["Signing"]}
        /\ d["Decryption"] = {CardAttributesOctets(a) : a \in c.attributes["Decryption"]}
        /\ d["Authentication"] = {CardAttributesOctets(a) : a \in c.attributes["Authentication"]}
        /\ d["Attestation"] = {CardAttributesOctets(a) : a \in c.attributes["Attestation"]}
    BY Zenon, <1>1, CardFields
  <2>. QED
    BY Zenon, <1>2, <2>2, <2>3
<1>14. FitsObject(d["attestationFp"])
  <2>1. /\ AreValues(c.fingerprint, KeyType, 20) /\ NeverZero(c.fingerprint)
        /\ ~c.attesting => c.fingerprint["Attestation"] = {}
    BY ContentIs
  <2>2. PICK S : S = c.fingerprint["Attestation"]
    OBVIOUS
  <2>3. S \in SUBSET Exactly(20) /\ AtMostOne(S) /\ \A o \in S : \E i \in DOMAIN o : o[i] # 0
    BY <1>2, <2>1, <2>2, ValueOf
  <2>4. ~c.attesting => S = {}
    BY <2>1, <2>2
  <2>5. 20 \in Nat /\ 20 <= 64
    OBVIOUS
  <2>6. FitsObject(SlotIf(c.attesting, S, 20))
    BY Zenon, <2>3, <2>4, <2>5, FitsAttestation
  <2>. QED
    BY Zenon, <1>1, <2>2, <2>6, CardFields
<1>15. FitsObject(d["attestationTime"])
  <2>1. /\ AreValues(c.time, KeyType, 4) /\ NeverZero(c.time)
        /\ ~c.attesting => c.time["Attestation"] = {}
    BY ContentIs
  <2>2. PICK S : S = c.time["Attestation"]
    OBVIOUS
  <2>3. S \in SUBSET Exactly(4) /\ AtMostOne(S) /\ \A o \in S : \E i \in DOMAIN o : o[i] # 0
    BY <1>2, <2>1, <2>2, ValueOf
  <2>4. ~c.attesting => S = {}
    BY <2>1, <2>2
  <2>5. 4 \in Nat /\ 4 <= 64
    OBVIOUS
  <2>6. FitsObject(SlotIf(c.attesting, S, 4))
    BY Zenon, <2>3, <2>4, <2>5, FitsAttestation
  <2>. QED
    BY Zenon, <1>1, <2>2, <2>6, CardFields
<1>16. /\ FitsObject(d["uifSigning"]) /\ FitsObject(d["uifDecryption"])
       /\ FitsObject(d["uifAuthentication"]) /\ FitsObject(d["uifAttestation"])
  <2>1. AreValues(c.uif, KeyType, 2)
    BY ContentIs
  <2>2. ASSUME NEW kt \in KeyType
        PROVE  FitsObject(c.uif[kt])
    <3>1. PICK S : S = c.uif[kt]
      OBVIOUS
    <3>2. S \in SUBSET Exactly(2) /\ AtMostOne(S)
      BY <2>1, <3>1, ValueOf
    <3>3. FitsObject(S)
      BY <3>2, FitsExactly
    <3>. QED
      BY <3>1, <3>3
  <2>. QED
    BY <1>1, <1>2, <2>2, CardFields
<1>17. \A f \in DOMAIN TagOf : FitsObject(d[f])
  BY Zenon, <1>4, <1>5, <1>6, <1>7, <1>8, <1>10, <1>11, <1>12, <1>13, <1>14, <1>15, <1>16, ArdFields
<1>18. IsData(d)
  BY Zenon, <1>6, <1>17 DEF IsData, FitsObject
<1>. QED
  BY <1>1, <1>18

-----------------------------------------------------------------------------
(* What is recovered of a card.                                            *)

\* The two highest bits of an octet
LEMMA TopBits ==
  ASSUME NEW o \in Byte
  PROVE  (Bit(o, 7) <=> o >= 128) /\ (Bit(o, 6) <=> o % 128 >= 64)
<1>1. 2^7 = 128 /\ 2^6 = 64
  OBVIOUS
<1>2. o \in 0..255
  BY DEF Byte
<1>3. (o \div 128) % 2 = 1 <=> o >= 128
  BY <1>2
<1>4. (o \div 64) % 2 = 1 <=> o % 128 >= 64
  BY <1>2
<1>. QED
  BY <1>1, <1>3, <1>4 DEF Bit

\* An application related data that has the data objects of a card
HasData(ard, c) == \A f \in DOMAIN TagOf : Part(ard, f) = CardData(c)[f]

\* The identifier of the card,
LEMMA AidRecovered ==
  ASSUME NEW c, IsContent(c), NEW ard, HasData(ard, c)
  PROVE  AidOf(ard) = {c.aid}
<1>1. Part(ard, "aid") = {CardAid(c.aid)}
  <2>1. "aid" \in DOMAIN TagOf
    BY ArdFields
  <2>2. PICK d : d = CardData(c)
    OBVIOUS
  <2>3. d["aid"] = {CardAid(c.aid)}
    BY Zenon, <2>2, CardFields
  <2>. QED
    BY <2>1, <2>2, <2>3 DEF HasData
<1>2. ApplicationId(CardAid(c.aid)) = {c.aid}
  BY ContentIs, AidRead
<1>. QED
  BY <1>1, <1>2 DEF AidOf

\* what it says of its keys, one value for each of the three,
OfKeys(octets, n, v) ==
    /\ UNION {KeySet(p, n) : p \in {octets}} = {[kt \in Range(Basic) |-> v[kt]]}
    /\ \A kt \in Range(Basic) :
           UNION {ks[kt] : ks \in UNION {KeySet(p, n) : p \in {octets}}} = v[kt]

\* What the library finds in the values of all keys, put together, is the
\* value of each.
LEMMA KeysRecovered ==
  ASSUME NEW n, n \in Nat, NEW keys, Range(Basic) \subseteq keys,
         NEW v, AreValues(v, keys, n), NeverZero(v)
  PROVE  OfKeys(KeyInfo(v, n), n, v)
<1>1. PICK p : p = KeyInfo(v, n)
  OBVIOUS
<1>2. PICK ks : ks = [kt \in Range(Basic) |-> v[kt]]
  OBVIOUS
<1>3. KeySet(p, n) = {ks}
  BY <1>1, <1>2, KeysRead
<1>4. UNION {KeySet(q, n) : q \in {p}} = {ks}
  BY <1>3
<1>5. ASSUME NEW kt \in Range(Basic)
      PROVE  UNION {k[kt] : k \in {ks}} = v[kt]
  BY <1>2
<1>6. \A kt \in Range(Basic) : UNION {k[kt] : k \in UNION {KeySet(q, n) : q \in {p}}} = v[kt]
  BY Zenon, <1>4, <1>5
<1>. QED
  BY Zenon, <1>1, <1>2, <1>4, <1>6 DEF OfKeys

\* fingerprints and times, also for the key of the attestation,
LEMMA FingerprintRecovered ==
  ASSUME NEW c, IsContent(c), NEW ard, HasData(ard, c), NEW kt \in KeyType
  PROVE  FingerprintOf(ard, kt) = c.fingerprint[kt]
<1>1. AreValues(c.fingerprint, KeyType, 20) /\ NeverZero(c.fingerprint)
  BY ContentIs
<1>2. PICK d : d = CardData(c)
  OBVIOUS
<1>3. CASE kt = "Attestation"
  <2>1. PICK S : S = c.fingerprint["Attestation"]
    OBVIOUS
  <2>2. S \in SUBSET Exactly(20) /\ AtMostOne(S) /\ \A o \in S : \E i \in DOMAIN o : o[i] # 0
    BY <1>1, <1>3, <2>1, ValueOf
  <2>3. ~c.attesting => S = {}
    BY <2>1, ContentIs
  <2>4. 20 \in Nat /\ 20 <= 64
    OBVIOUS
  <2>5. UNION {NonZero(v) : v \in {w \in SlotIf(c.attesting, S, 20) : Len(w) = 20}} = S
    BY Zenon, <2>2, <2>3, <2>4, FitsAttestation
  <2>6. d["attestationFp"] = SlotIf(c.attesting, S, 20)
    BY Zenon, <1>2, <2>1, CardFields
  <2>7. Part(ard, "attestationFp") = SlotIf(c.attesting, S, 20)
    BY Zenon, <1>2, <2>6, ArdFields DEF HasData
  <2>. QED
    BY Zenon, <1>3, <2>1, <2>5, <2>7 DEF FingerprintOf
<1>4. CASE kt # "Attestation"
  <2>1. kt \in Range(Basic) /\ Range(Basic) \subseteq KeyType
    BY <1>4, BasicKeys
  <2>2. d["fingerprints"] = {KeyInfo(c.fingerprint, 20)}
    BY Zenon, <1>2, CardFields
  <2>3. PICK parts : parts = Part(ard, "fingerprints")
    OBVIOUS
  <2>4. parts = {KeyInfo(c.fingerprint, 20)}
    BY Zenon, <1>2, <2>2, <2>3, ArdFields DEF HasData
  <2>5. 20 \in Nat
    OBVIOUS
  <2>6. PICK v : v = c.fingerprint
    OBVIOUS
  <2>7. OfKeys(KeyInfo(v, 20), 20, v)
    BY Zenon, <1>1, <2>1, <2>5, <2>6, KeysRecovered
  <2>8. parts = {KeyInfo(v, 20)}
    BY <2>4, <2>6
  <2>9. UNION {ks[kt] : ks \in UNION {KeySet(p, 20) : p \in parts}} = v[kt]
    BY Zenon, <2>1, <2>7, <2>8 DEF OfKeys
  <2>. QED
    BY Zenon, <1>4, <2>3, <2>6, <2>9 DEF FingerprintOf
<1>. QED
  BY <1>3, <1>4

\* The time at which each key was made is the one that was put there.
LEMMA TimeRecovered ==
  ASSUME NEW c, IsContent(c), NEW ard, HasData(ard, c), NEW kt \in KeyType
  PROVE  TimeOf(ard, kt) = c.time[kt]
<1>1. AreValues(c.time, KeyType, 4) /\ NeverZero(c.time)
  BY ContentIs
<1>2. PICK d : d = CardData(c)
  OBVIOUS
<1>3. CASE kt = "Attestation"
  <2>1. PICK S : S = c.time["Attestation"]
    OBVIOUS
  <2>2. S \in SUBSET Exactly(4) /\ AtMostOne(S) /\ \A o \in S : \E i \in DOMAIN o : o[i] # 0
    BY <1>1, <1>3, <2>1, ValueOf
  <2>3. ~c.attesting => S = {}
    BY <2>1, ContentIs
  <2>4. 4 \in Nat /\ 4 <= 64
    OBVIOUS
  <2>5. UNION {NonZero(v) : v \in {w \in SlotIf(c.attesting, S, 4) : Len(w) = 4}} = S
    BY Zenon, <2>2, <2>3, <2>4, FitsAttestation
  <2>6. d["attestationTime"] = SlotIf(c.attesting, S, 4)
    BY Zenon, <1>2, <2>1, CardFields
  <2>7. Part(ard, "attestationTime") = SlotIf(c.attesting, S, 4)
    BY Zenon, <1>2, <2>6, ArdFields DEF HasData
  <2>. QED
    BY Zenon, <1>3, <2>1, <2>5, <2>7 DEF TimeOf
<1>4. CASE kt # "Attestation"
  <2>1. kt \in Range(Basic) /\ Range(Basic) \subseteq KeyType
    BY <1>4, BasicKeys
  <2>2. d["times"] = {KeyInfo(c.time, 4)}
    BY Zenon, <1>2, CardFields
  <2>3. PICK parts : parts = Part(ard, "times")
    OBVIOUS
  <2>4. parts = {KeyInfo(c.time, 4)}
    BY Zenon, <1>2, <2>2, <2>3, ArdFields DEF HasData
  <2>5. 4 \in Nat
    OBVIOUS
  <2>6. PICK v : v = c.time
    OBVIOUS
  <2>7. OfKeys(KeyInfo(v, 4), 4, v)
    BY Zenon, <1>1, <2>1, <2>5, <2>6, KeysRecovered
  <2>8. parts = {KeyInfo(v, 4)}
    BY <2>4, <2>6
  <2>9. UNION {ks[kt] : ks \in UNION {KeySet(p, 4) : p \in parts}} = v[kt]
    BY Zenon, <2>1, <2>7, <2>8 DEF OfKeys
  <2>. QED
    BY Zenon, <1>4, <2>3, <2>6, <2>9 DEF TimeOf
<1>. QED
  BY <1>3, <1>4

\* the fingerprints of its certification authorities,
LEMMA AuthoritiesRecovered ==
  ASSUME NEW c, IsContent(c), NEW ard, HasData(ard, c)
  PROVE  CaFingerprintsOf(ard) = {c.ca}
<1>1. AreValues(c.ca, Range(Basic), 20) /\ NeverZero(c.ca)
  BY ContentIs
<1>2. PICK d : d = CardData(c)
  OBVIOUS
<1>3. d["caFingerprints"] = {KeyInfo(c.ca, 20)}
  BY Zenon, <1>2, CardFields
<1>4. PICK parts : parts = Part(ard, "caFingerprints")
  OBVIOUS
<1>5. parts = {KeyInfo(c.ca, 20)}
  BY Zenon, <1>2, <1>3, <1>4, ArdFields DEF HasData
<1>6. PICK v : v = c.ca
  OBVIOUS
<1>7. UNION {KeySet(p, 20) : p \in parts} = {[kt \in Range(Basic) |-> v[kt]]}
  <2>1. 20 \in Nat /\ Range(Basic) \subseteq Range(Basic)
    OBVIOUS
  <2>2. OfKeys(KeyInfo(v, 20), 20, v)
    BY Zenon, <1>1, <1>6, <2>1, KeysRecovered
  <2>3. parts = {KeyInfo(v, 20)}
    BY <1>5, <1>6
  <2>. QED
    BY Zenon, <2>2, <2>3 DEF OfKeys
<1>8. c.ca = [kt \in Range(Basic) |-> c.ca[kt]]
  <2>1. c.ca \in [Range(Basic) -> SUBSET Exactly(20)]
    BY Zenon, <1>1 DEF AreValues
  <2>. QED
    BY <2>1
<1>. QED
  BY Zenon, <1>4, <1>6, <1>7, <1>8 DEF CaFingerprintsOf

\* the attributes of its keys
LEMMA AttributesRecovered ==
  ASSUME NEW c, IsContent(c), NEW ard, HasData(ard, c), NEW kt \in KeyType
  PROVE  AttributesOf(ard, kt) = c.attributes[kt]
<1>1. PICK S : S = c.attributes[kt]
  OBVIOUS
<1>2. \A a \in S : S = {a} /\ IsAttributes(a)
  <2>1. \A k \in KeyType : \A a \in c.attributes[k] : c.attributes[k] = {a} /\ IsAttributes(a)
    BY Zenon, ContentIs
  <2>. QED
    BY Zenon, <1>1, <2>1
<1>3. UNION {Complete(ParseAttributes(v)) : v \in {CardAttributesOctets(a) : a \in S}} = S
  BY Zenon, <1>2, FitsAttributes
<1>4. PICK d : d = CardData(c)
  OBVIOUS
<1>5. d[kt] = {CardAttributesOctets(a) : a \in c.attributes[kt]}
  <2>1. kt = "Signing" \/ kt = "Decryption" \/ kt = "Authentication" \/ kt = "Attestation"
    BY DEF KeyType
  <2>2. /\ d["Signing"] = {CardAttributesOctets(a) : a \in c.attributes["Signing"]}
        /\ d["Decryption"] = {CardAttributesOctets(a) : a \in c.attributes["Decryption"]}
        /\ d["Authentication"] = {CardAttributesOctets(a) : a \in c.attributes["Authentication"]}
        /\ d["Attestation"] = {CardAttributesOctets(a) : a \in c.attributes["Attestation"]}
    BY Zenon, <1>4, CardFields
  <2>. QED
    BY Zenon, <2>1, <2>2
<1>6. Part(ard, kt) = d[kt]
  <2>1. kt \in DOMAIN TagOf
    BY ArdFields DEF KeyType
  <2>. QED
    BY Zenon, <1>4, <2>1 DEF HasData
<1>. QED
  BY Zenon, <1>1, <1>3, <1>5, <1>6 DEF AttributesOf

\* and their touch policies.
LEMMA TouchRecovered ==
  ASSUME NEW c, IsContent(c), NEW ard, HasData(ard, c), NEW kt \in KeyType
  PROVE  {TouchRequired(u) : u \in UifOf(ard, kt)} = {o[1] # 0 : o \in c.uif[kt]}
<1>1. PICK S : S = c.uif[kt]
  OBVIOUS
<1>2. S \in SUBSET Exactly(2) /\ AtMostOne(S)
  <2>1. AreValues(c.uif, KeyType, 2) /\ 2 \in Nat
    BY ContentIs
  <2>. QED
    BY Zenon, <1>1, <2>1, ValueOf
<1>3. PICK d : d = CardData(c)
  OBVIOUS
<1>4. PICK what : what = CASE kt = "Signing" -> "uifSigning" [] kt = "Decryption" -> "uifDecryption"
                  [] kt = "Authentication" -> "uifAuthentication" [] OTHER -> "uifAttestation"
  OBVIOUS
<1>5. \/ kt = "Signing" /\ what = "uifSigning"
      \/ kt = "Decryption" /\ what = "uifDecryption"
      \/ kt = "Authentication" /\ what = "uifAuthentication"
      \/ kt = "Attestation" /\ what = "uifAttestation"
  BY <1>4 DEF KeyType
<1>6. Part(ard, what) = S
  <2>1. d[what] = S
    <3>1. /\ d["uifSigning"] = c.uif["Signing"] /\ d["uifDecryption"] = c.uif["Decryption"]
          /\ d["uifAuthentication"] = c.uif["Authentication"]
          /\ d["uifAttestation"] = c.uif["Attestation"]
      BY Zenon, <1>3, CardFields
    <3>. QED
      BY Zenon, <1>1, <1>5, <3>1
  <2>2. what \in DOMAIN TagOf
    BY <1>5, ArdFields
  <2>. QED
    BY Zenon, <1>3, <2>1, <2>2 DEF HasData
<1>7. UifOf(ard, kt) = UNION {UserInteraction(v) : v \in S}
  BY Zenon, <1>4, <1>6 DEF UifOf
<1>8. CASE S = {}
  BY <1>1, <1>7, <1>8
<1>9. CASE S # {}
  <2>1. PICK o : o \in S
    BY <1>9
  <2>2. S = {o} /\ o \in Exactly(2)
    BY <1>2, <2>1 DEF AtMostOne
  <2>3. PICK flag : flag = [policy |-> o[1], features |-> o[2]]
    OBVIOUS
  <2>4. UserInteraction(o) = {flag}
    BY <2>2, <2>3, UifRead
  <2>5. UifOf(ard, kt) = {flag}
    BY <1>7, <2>2, <2>4
  <2>6. TouchRequired(flag) = (o[1] # 0)
    BY <2>3 DEF TouchRequired
  <2>7. {TouchRequired(u) : u \in {flag}} = {o[1] # 0}
    BY Zenon, <2>6
  <2>8. {x[1] # 0 : x \in {o}} = {o[1] # 0}
    BY Zenon
  <2>. QED
    BY Zenon, <1>1, <2>2, <2>5, <2>7, <2>8
<1>. QED
  BY <1>8, <1>9

\* Its capabilities, in what the library reads of them,
LengthsOf(c) == IF c.aid.version[1] = 2 THEN {c.lengths} ELSE {}
IsCapabilities(x, c) ==
    /\ c.aid.version[1] = 2 => x.maxCmd = {c.lengths.cmd} /\ x.maxRsp = {c.lengths.rsp}
    /\ c.aid.version[1] # 2 => x.maxCmd = {} /\ x.maxRsp = {}

\* The lengths are read of a card of version 2 alone.
LEMMA CapabilitiesRecovered ==
  ASSUME NEW c, IsContent(c), NEW ard, HasData(ard, c)
  PROVE  \E x : CapabilitiesOf(ard) = {x} /\ IsCapabilities(x, c)
<1>1. Part(ard, "capabilities") = {CardCapabilities(c)}
  <2>1. PICK d : d = CardData(c)
    OBVIOUS
  <2>2. d["capabilities"] = {CardCapabilities(c)}
    BY Zenon, <2>1, CardFields
  <2>. QED
    BY Zenon, <2>1, <2>2, ArdFields DEF HasData
<1>2. AidOf(ard) = {c.aid}
  BY AidRecovered
<1>3. IsCapable(c)
  BY ContentIs
<1>4. PICK x : /\ ExtendedCapabilities(CardCapabilities(c), c.aid.version[1]) = {x}
               /\ c.aid.version[1] = 2 => x.maxCmd = {c.lengths.cmd} /\ x.maxRsp = {c.lengths.rsp}
               /\ c.aid.version[1] # 2 => x.maxCmd = {} /\ x.maxRsp = {}
  BY Zenon, <1>3, CapabilitiesRead
<1>5. CapabilitiesOf(ard) = {x}
  <2>1. PICK v : v = CardCapabilities(c)
    OBVIOUS
  <2>2. PICK a : a = c.aid
    OBVIOUS
  <2>3. Part(ard, "capabilities") = {v} /\ AidOf(ard) = {a}
    BY <1>1, <1>2, <2>1, <2>2
  <2>4. ExtendedCapabilities(v, a.version[1]) = {x}
    BY <1>4, <2>1, <2>2
  <2> DEFINE of(w, b) == ExtendedCapabilities(w, b.version[1])
  <2>5. {of(w, b) : w \in {v}, b \in {a}} = {{x}}
    <3>1. of(v, a) = {x}
      BY <2>4
    <3> HIDE DEF of
    <3>. QED
      BY SMT, <3>1
  <2>6. CapabilitiesOf(ard) = UNION {of(w, b) : w \in Part(ard, "capabilities"), b \in AidOf(ard)}
    BY DEF CapabilitiesOf
  <2> HIDE DEF of
  <2>7. CapabilitiesOf(ard) = UNION {of(w, b) : w \in {v}, b \in {a}}
    BY SMT, <2>3, <2>6
  <2>. QED
    BY SMT, <2>5, <2>7
<1>. QED
  BY Zenon, <1>4, <1>5 DEF IsCapabilities

\* the lengths of commands and responses,
LEMMA LengthsRecovered ==
  ASSUME NEW c, IsCapable(c), NEW x, IsCapabilities(x, c)
  PROVE  {[cmd |-> m, rsp |-> r] : m \in x.maxCmd, r \in x.maxRsp} = LengthsOf(c)
<1>1. CASE c.aid.version[1] = 2
  <2>1. PICK l : l = c.lengths
    OBVIOUS
  <2>2. l = [cmd |-> l.cmd, rsp |-> l.rsp]
    <3>1. l \in [cmd : U16, rsp : U16]
      BY <2>1 DEF IsCapable
    <3>. QED
      BY <3>1
  <2>3. x.maxCmd = {l.cmd} /\ x.maxRsp = {l.rsp}
    BY Zenon, <1>1, <2>1 DEF IsCapabilities
  <2>4. {[cmd |-> m, rsp |-> r] : m \in {l.cmd}, r \in {l.rsp}} = {[cmd |-> l.cmd, rsp |-> l.rsp]}
    BY SMT
  <2>5. {[cmd |-> m, rsp |-> r] : m \in x.maxCmd, r \in x.maxRsp} = {l}
    BY SMT, <2>2, <2>3, <2>4
  <2>6. LengthsOf(c) = {l}
    BY Zenon, <1>1, <2>1 DEF LengthsOf
  <2>. QED
    BY SMT, <2>5, <2>6
<1>2. CASE c.aid.version[1] # 2
  <2>1. x.maxCmd = {}
    BY Zenon, <1>2 DEF IsCapabilities
  <2>2. LengthsOf(c) = {}
    BY Zenon, <1>2 DEF LengthsOf
  <2>. QED
    BY SMT, <2>1, <2>2
<1>. QED
  BY <1>1, <1>2

\* of the extended length information first,
LEMMA EliRecovered ==
  ASSUME NEW c, IsContent(c), NEW ard, HasData(ard, c)
  PROVE  EliOf(ard) = c.eli /\ (Part(ard, "eli") # {} => EliOf(ard) # {})
<1>1. PICK d : d = CardData(c)
  OBVIOUS
<1>2. PICK S : S = c.eli
  OBVIOUS
<1>3. d["eli"] = {CardEli(e) : e \in S}
  <2>1. d["eli"] = {CardEli(e) : e \in c.eli}
    BY Zenon, <1>1, CardFields
  <2>. QED
    BY Zenon, <1>2, <2>1
<1>4. S \in SUBSET [cmd : U16, rsp : U16] /\ AtMostOne(S)
  BY <1>2, ContentIs
<1>5. UNION {ExtendedLengthInfo(v) : v \in {CardEli(e) : e \in S}} = S
  BY Zenon, <1>4, FitsEli
<1>6. Part(ard, "eli") = {CardEli(e) : e \in S}
  BY Zenon, <1>1, <1>3, ArdFields DEF HasData
<1>7. EliOf(ard) = S
  BY Zenon, <1>5, <1>6 DEF EliOf
<1>8. Part(ard, "eli") # {} => S # {}
  BY Zenon, <1>6
<1>. QED
  BY Zenon, <1>2, <1>7, <1>8

\* the last octet of the capabilities among the historical bytes,
LEMMA HistoryRecovered ==
  ASSUME NEW c, IsContent(c), NEW ard, HasData(ard, c)
  PROVE  /\ UNION {h.caps : h \in HistoricalOf(ard)} = {o[3] : o \in c.history.caps}
         /\ HistoricalOf(ard) # {}
<1>1. PICK d : d = CardData(c)
  OBVIOUS
<1>2. PICK v : v = CardHistorical(c.history)
  OBVIOUS
<1>3. d["historical"] = {v}
  BY Zenon, <1>1, <1>2, CardFields
<1>4. Part(ard, "historical") = {v}
  BY Zenon, <1>1, <1>3, ArdFields DEF HasData
<1>5. PICK g : g = c.history
  OBVIOUS
<1>6. IsHistory(g)
  BY <1>5, ContentIs
<1>7. IsHistoryOf(v, g)
  BY Zenon, <1>2, <1>5, <1>6, HistoryRead
<1>8. PICK x : HistoricalBytes(v) = {x} /\ x.caps = {o[3] : o \in g.caps}
  BY Zenon, <1>7 DEF IsHistoryOf
<1>9. HistoricalOf(ard) = {x}
  <2>1. {HistoricalBytes(w) : w \in {v}} = {{x}}
    BY Zenon, <1>8
  <2>2. UNION {{x}} = {x}
    BY Zenon
  <2>. QED
    BY Zenon, <1>4, <2>1, <2>2 DEF HistoricalOf
<1>10. UNION {h.caps : h \in {x}} = x.caps /\ {x} # {}
  BY Zenon
<1>. QED
  BY Zenon, <1>5, <1>8, <1>9, <1>10

\* and the lengths of its PINs.
LEMMA StatusRecovered ==
  ASSUME NEW c, IsContent(c), NEW ard, HasData(ard, c)
  PROVE  \E p : PwStatusOf(ard) = {p} /\ p.pw1Len = c.status[2] % 128
                                      /\ p.pw3Len = c.status[4] % 128
<1>1. PICK d : d = CardData(c)
  OBVIOUS
<1>2. PICK v : v = c.status
  OBVIOUS
<1>3. d["pwStatus"] = {v}
  BY Zenon, <1>1, <1>2, CardFields
<1>4. Part(ard, "pwStatus") = {v}
  BY Zenon, <1>1, <1>3, ArdFields DEF HasData
<1>5. v \in Exactly(7)
  BY <1>2, ContentIs
<1>6. PICK p : PwStatus(v) = {p} /\ p.pw1Len = v[2] % 128 /\ p.pw3Len = v[4] % 128
  BY Zenon, <1>5, PwRead
<1>7. {PwStatus(w) : w \in {v}} = {{p}} /\ UNION {{p}} = {p}
  BY Zenon, <1>6
<1>8. PwStatusOf(ard) = {p}
  BY Zenon, <1>4, <1>7 DEF PwStatusOf
<1>. QED
  BY Zenon, <1>2, <1>6, <1>8

\* What the CardCaps are made of
CapsFrom(hist, lengths, p) ==
    [chaining |-> \E o \in hist : Bit(o, 7), ext |-> \E o \in hist : Bit(o, 6),
     cmd |-> lengths.cmd, rsp |-> lengths.rsp, pw1 |-> p.pw1Len, pw3 |-> p.pw3Len]

\* So the transport has the capabilities of the card.
LEMMA CapsRecovered ==
  ASSUME NEW c, IsContent(c), NEW ard, HasData(ard, c)
  PROVE  CapsOf(ard) = {CardCaps(c)}
<1>1. PICK x : CapabilitiesOf(ard) = {x} /\ IsCapabilities(x, c)
  BY Zenon, CapabilitiesRecovered
<1>2. PICK p : PwStatusOf(ard) = {p} /\ p.pw1Len = c.status[2] % 128 /\ p.pw3Len = c.status[4] % 128
  BY Zenon, StatusRecovered
<1>3. PICK hist : hist = UNION {h.caps : h \in HistoricalOf(ard)}
  OBVIOUS
<1>4. hist = {o[3] : o \in c.history.caps}
  BY Zenon, <1>3, HistoryRecovered
<1> DEFINE of(e) == {[cmd |-> m, rsp |-> r] : m \in e.maxCmd, r \in e.maxRsp}
           bytes == IF EliOf(ard) # {} THEN EliOf(ard) ELSE UNION {of(e) : e \in CapabilitiesOf(ard)}
<1>6. bytes = IF c.eli # {} THEN c.eli ELSE LengthsOf(c)
  <2>1. IsCapable(c) /\ EliOf(ard) = c.eli
    BY ContentIs, EliRecovered
  <2>2. of(x) = LengthsOf(c)
    BY SMT, <1>1, <2>1, LengthsRecovered
  <2> HIDE DEF of
  <2>3. {of(e) : e \in {x}} = {of(x)}
    BY Zenon
  <2>4. UNION {of(e) : e \in CapabilitiesOf(ard)} = LengthsOf(c)
    BY <1>1, <2>2, <2>3
  <2>. QED
    BY Zenon, <2>1, <2>4
<1>7. PICK L : L = IF c.eli # {} THEN The(c.eli)
                   ELSE IF c.aid.version[1] = 2 THEN c.lengths ELSE [cmd |-> 255, rsp |-> 255]
  OBVIOUS
<1> HIDE DEF of
<1>8. (IF bytes = {} THEN {[cmd |-> 255, rsp |-> 255]} ELSE bytes) = {L}
  <2>1. CASE c.eli # {}
    <3>1. PICK S : S = c.eli
      OBVIOUS
    <3>2. AtMostOne(S) /\ S # {}
      BY <2>1, <3>1, ContentIs
    <3>3. S = {The(S)}
      BY Zenon, <3>2 DEF AtMostOne, The
    <3>. QED
      BY ZenonT(60), <1>6, <1>7, <2>1, <3>1, <3>2, <3>3
  <2>2. CASE c.eli = {} /\ c.aid.version[1] = 2
    BY ZenonT(60), <1>6, <1>7, <2>2 DEF LengthsOf
  <2>3. CASE c.eli = {} /\ c.aid.version[1] # 2
    BY Zenon, <1>6, <1>7, <2>3 DEF LengthsOf
  <2>. QED
    BY Zenon, <2>1, <2>2, <2>3
<1> USE DEF of
<1>9. {q \in PwStatusOf(ard) : CardImmutable(ard)} = {p}
  <2>1. AidOf(ard) # {}
    BY Zenon, AidRecovered
  <2>2. CapabilitiesOf(ard) # {}
    BY Zenon, <1>1
  <2>3. HistoricalOf(ard) # {}
    BY Zenon, HistoryRecovered
  <2>4. Part(ard, "eli") # {} => EliOf(ard) # {}
    BY Zenon, EliRecovered
  <2>5. CardImmutable(ard)
    BY Zenon, <2>1, <2>2, <2>3, <2>4 DEF CardImmutable
  <2>. QED
    BY Zenon, <1>2, <2>5
<1>10. CapsOf(ard) = {CapsFrom(hist, L, p)}
  <2>1. CapsOf(ard) = {CapsFrom(hist, b, q) :
                          b \in IF bytes = {} THEN {[cmd |-> 255, rsp |-> 255]} ELSE bytes,
                          q \in {q \in PwStatusOf(ard) : CardImmutable(ard)}}
    BY SMT, <1>3 DEF CapsOf, CapsFrom
  <2> HIDE DEF bytes
  <2>2. {CapsFrom(hist, b, q) : b \in {L}, q \in {p}} = {CapsFrom(hist, L, p)}
    <3> HIDE DEF CapsFrom
    <3>. QED
      BY SMT
  <2>. QED
    BY SMT, <1>8, <1>9, <2>1, <2>2
<1>11. /\ (\E o \in hist : Bit(o, 7)) <=> \E o \in c.history.caps : o[3] >= 128
       /\ (\E o \in hist : Bit(o, 6)) <=> \E o \in c.history.caps : o[3] % 128 >= 64
  <2>1. PICK H : H = c.history.caps
    OBVIOUS
  <2>2. \A o \in H : o[3] \in Byte
    <3>1. H \in SUBSET Exactly(3)
      <4>1. PICK g : g = c.history
        OBVIOUS
      <4>2. IsHistory(g)
        BY <4>1, ContentIs
      <4>3. g.caps \in SUBSET Exactly(3)
        BY <4>2 DEF IsHistory
      <4>. QED
        BY <2>1, <4>1, <4>3
    <3>. QED
      BY <3>1 DEF Exactly
  <2>3. \A o \in H : (Bit(o[3], 7) <=> o[3] >= 128) /\ (Bit(o[3], 6) <=> o[3] % 128 >= 64)
    <3>1. \A b \in Byte : (Bit(b, 7) <=> b >= 128) /\ (Bit(b, 6) <=> b % 128 >= 64)
      BY TopBits
    <3> TAKE o \in H
    <3>2. PICK b : b = o[3]
      OBVIOUS
    <3>3. b \in Byte
      BY <2>2, <3>2
    <3>4. (Bit(b, 7) <=> b >= 128) /\ (Bit(b, 6) <=> b % 128 >= 64)
      BY <3>1, <3>3
    <3>. QED
      BY <3>2, <3>4
  <2>4. hist = {o[3] : o \in H}
    BY Zenon, <1>4, <2>1
  <2> DEFINE high(b) == b >= 128
             next(b) == b % 128 >= 64
  <2>5. /\ (\E o \in hist : Bit(o, 7)) <=> \E o \in H : high(o[3])
        /\ (\E o \in hist : Bit(o, 6)) <=> \E o \in H : next(o[3])
    <3>1. \A o \in H : (Bit(o[3], 7) <=> high(o[3])) /\ (Bit(o[3], 6) <=> next(o[3]))
      BY <2>3
    <3> HIDE DEF high, next
    <3>. QED
      BY Zenon, <2>4, <3>1
  <2>. QED
    BY <2>1, <2>5
<1>12. CardCaps(c) = CapsFrom(hist, L, p)
  <2>1. CardCaps(c) = [chaining |-> \E o \in c.history.caps : o[3] >= 128,
                       ext |-> \E o \in c.history.caps : o[3] % 128 >= 64,
                       cmd |-> L.cmd, rsp |-> L.rsp,
                       pw1 |-> c.status[2] % 128, pw3 |-> c.status[4] % 128]
    BY <1>7 DEF CardCaps
  <2>2. (\E o \in hist : Bit(o, 7)) = (\E o \in c.history.caps : o[3] >= 128)
    BY <1>11
  <2>3. (\E o \in hist : Bit(o, 6)) = (\E o \in c.history.caps : o[3] % 128 >= 64)
    BY <1>11
  <2>. QED
    BY Zenon, <1>2, <2>1, <2>2, <2>3 DEF CapsFrom
<1>. QED
  BY <1>10, <1>12

\* All of a card is recovered.
LEMMA DataRecovered ==
  ASSUME NEW c, IsContent(c)
  PROVE  DataAreRecovered(c)
<1>1. PICK d : d = CardData(c)
  OBVIOUS
<1>2. PICK octets : octets = ArdOctets(d, c.wrapped)
  OBVIOUS
<1>3. IsArdOf(octets, d)
  <2>1. IsData(d) /\ c.wrapped \in BOOLEAN
    BY <1>1, CardDataIs, ContentIs
  <2>. QED
    BY <1>2, <2>1, ArdRead
<1>4. PICK ard : ArdOf(octets) = {ard} /\ \A f \in DOMAIN TagOf : Part(ard, f) = d[f]
  BY Zenon, <1>3 DEF IsArdOf
<1>5. HasData(ard, c)
  BY Zenon, <1>1, <1>4 DEF HasData
<1>6. The(ArdOf(octets)) = ard
  BY <1>4 DEF The
<1>7. ASSUME NEW kt \in KeyType
      PROVE  /\ FingerprintOf(ard, kt) = c.fingerprint[kt]
             /\ TimeOf(ard, kt) = c.time[kt]
             /\ AttributesOf(ard, kt) = c.attributes[kt]
             /\ {TouchRequired(u) : u \in UifOf(ard, kt)} = {o[1] # 0 : o \in c.uif[kt]}
  BY <1>5, <1>7, FingerprintRecovered, TimeRecovered, AttributesRecovered, TouchRecovered
<1>8. AidOf(ard) = {c.aid} /\ CaFingerprintsOf(ard) = {c.ca} /\ CapsOf(ard) = {CardCaps(c)}
  BY <1>5, AidRecovered, AuthoritiesRecovered, CapsRecovered
<1>9. PICK found : found = The(ArdOf(ArdOctets(CardData(c), c.wrapped)))
  OBVIOUS
<1>10. found = ard
  BY <1>1, <1>2, <1>6, <1>9
<1>. QED
  BY Zenon, <1>7, <1>8, <1>9, <1>10 DEF DataAreRecovered

-----------------------------------------------------------------------------
(* The list of algorithms.                                                 *)

\* An entry at the head of a list: where its octets begin and end, whether it ends
\* the list, and what it says.
EntryHead(in) == 1 + ParseLength(Drop(in, 1)).octets
EntryEnd(in) == EntryHead(in) + ParseLength(Drop(in, 1)).value
EntryAt(in) == SubSeq(in, EntryHead(in) + 1, EntryEnd(in))
NoEntry(in) ==
    \/ in = <<>> \/ ParseLength(Drop(in, 1)).octets = 0 \/ EntryEnd(in) > Len(in)
    \/ \A kt \in KeyType : ListTag[kt] # in[1]
    \/ Entry(EntryAt(in)) = {}
EntryIn(in) == [slot |-> CHOOSE kt \in KeyType : ListTag[kt] = in[1],
                attributes |-> CHOOSE a \in Entry(EntryAt(in)) : TRUE]

\* The list, with g for the recursive call
EntriesBody(in, g) ==
    IF NoEntry(in) THEN [value |-> <<>>, rest |-> in]
    ELSE [value |-> <<EntryIn(in)>> \o g[Drop(in, EntryEnd(in))].value,
          rest |-> g[Drop(in, EntryEnd(in))].rest]

\* What it gives: entries, and what is left
Found == [slot : KeyType, attributes : UNION {Entry(o) : o \in Seq(Byte)}]
FoundLists == [value : Seq(Found), rest : Seq(Byte)]

\* The recursive call is for a shorter input,
LEMMA EntryShorter ==
  ASSUME NEW in \in Seq(Byte), ~NoEntry(in)
  PROVE  /\ EntryAt(in) \in Seq(Byte)
         /\ Drop(in, EntryEnd(in)) \in Seq(Byte)
         /\ Len(Drop(in, EntryEnd(in))) < Len(in)
<1>1. in # <<>> /\ ~(EntryEnd(in) > Len(in))
  BY DEF NoEntry
<1>2. PICK k : k = Len(in)
  OBVIOUS
<1>3. k \in Nat /\ k # 0
  BY <1>1, <1>2, LenProperties, EmptySeq
<1>4. PICK tail : tail = Drop(in, 1)
  OBVIOUS
<1>5. tail \in Seq(Byte)
  <2>1. 1 \in Nat /\ 1 <= Len(in)
    BY <1>2, <1>3
  <2>. QED
    BY <1>4, <2>1, DropIs
<1>6. PICK o : o = ParseLength(tail).octets
  OBVIOUS
<1>7. PICK l : l = ParseLength(tail).value
  OBVIOUS
<1>8. o \in Nat /\ l \in Nat
  BY <1>5, <1>6, <1>7, LengthType
<1>9. PICK h : h = 1 + o
  OBVIOUS
<1>10. PICK e : e = h + l
  OBVIOUS
<1>11. EntryHead(in) = h /\ EntryEnd(in) = e
  BY <1>4, <1>6, <1>7, <1>9, <1>10 DEF EntryHead, EntryEnd
<1>12. h \in Nat /\ e \in Nat /\ e > 0 /\ e <= k /\ h + 1 \in Nat \ {0}
  BY <1>1, <1>2, <1>3, <1>8, <1>9, <1>10, <1>11
<1>13. Drop(in, e) \in Seq(Byte) /\ Len(Drop(in, e)) = k - e
  BY <1>2, <1>12, DropIs
<1>14. k - e < k
  BY <1>3, <1>12
<1>15. SubSeq(in, h + 1, e) \in Seq(Byte)
  BY <1>2, <1>12, SubBytes
<1>. QED
  BY <1>2, <1>11, <1>13, <1>14, <1>15 DEF EntryAt

\* ... and so the list has a type
LEMMA EntriesType ==
  ASSUME NEW s \in Seq(Byte), NEW g \in [Seq(Byte) -> FoundLists]
  PROVE  EntriesBody(s, g) \in FoundLists
<1>1. CASE NoEntry(s)
  BY <1>1 DEF EntriesBody, FoundLists
<1>2. CASE ~NoEntry(s)
  <2>1. PICK r : r = Drop(s, EntryEnd(s))
    OBVIOUS
  <2>2. r \in Seq(Byte) /\ EntryAt(s) \in Seq(Byte)
    BY <1>2, <2>1, EntryShorter
  <2>3. g[r] \in FoundLists
    BY <2>2
  <2>4. g[r].value \in Seq(Found) /\ g[r].rest \in Seq(Byte)
    BY <2>3 DEF FoundLists
  <2>5. PICK x : x = EntryIn(s)
    OBVIOUS
  <2>6. x \in Found
    <3>1. (\E kt \in KeyType : ListTag[kt] = s[1]) /\ Entry(EntryAt(s)) # {}
      BY <1>2 DEF NoEntry
    <3>2. (CHOOSE kt \in KeyType : ListTag[kt] = s[1]) \in KeyType
      BY <3>1
    <3>3. (CHOOSE a \in Entry(EntryAt(s)) : TRUE) \in Entry(EntryAt(s))
      BY <3>1
    <3>4. (CHOOSE a \in Entry(EntryAt(s)) : TRUE) \in UNION {Entry(o) : o \in Seq(Byte)}
      BY <2>2, <3>3
    <3>. QED
      BY <2>5, <3>2, <3>4 DEF EntryIn, Found
  <2>7. <<x>> \o g[r].value \in Seq(Found)
    <3>1. <<x>> \in Seq(Found)
      BY <2>6
    <3>. QED
      BY <2>4, <3>1, ConcatProperties
  <2>8. EntriesBody(s, g) = [value |-> <<x>> \o g[r].value, rest |-> g[r].rest]
    BY <1>2, <2>1, <2>5 DEF EntriesBody
  <2>. QED
    BY <2>4, <2>7, <2>8 DEF FoundLists
<1>. QED
  BY <1>1, <1>2

\* and ParseEntries is what its definition says it is.
LEMMA EntriesUnfold ==
  ASSUME NEW in \in Seq(Byte)
  PROVE  ParseEntries[in] = EntriesBody(in, ParseEntries)
<1> DEFINE V == FoundLists
           G == [Seq(Byte) -> V]
<1>1. PICK B : B = [p \in Seq(Byte) \X G |-> EntriesBody(p[1], p[2])]
  OBVIOUS
<1>2. \A s \in Seq(Byte), g \in G : B[<<s, g>>] = EntriesBody(s, g)
  BY <1>1
<1>3. ASSUME NEW s \in Seq(Byte), NEW g \in G
      PROVE  EntriesBody(s, g) \in V
  BY EntriesType
<1>4. ASSUME NEW s \in Seq(Byte), NEW g \in G, NEW h \in G,
             \A r \in Seq(Byte) : Len(r) < Len(s) => g[r] = h[r]
      PROVE  EntriesBody(s, g) = EntriesBody(s, h)
  <2>1. CASE ~NoEntry(s)
    <3>1. g[Drop(s, EntryEnd(s))] = h[Drop(s, EntryEnd(s))]
      BY <1>4, <2>1, EntryShorter
    <3>. QED
      BY <2>1, <3>1 DEF EntriesBody
  <2>. QED
    BY <2>1 DEF EntriesBody
<1>5. B \in [Seq(Byte) \X [Seq(Byte) -> V] -> V]
  BY <1>1, <1>3
<1>6. ForShorter(B, V)
  <2> HIDE DEF V
  <2> SUFFICES ASSUME NEW s \in Seq(Byte), NEW g \in G, NEW h \in G,
                      \A r \in Seq(Byte) : Len(r) < Len(s) => g[r] = h[r]
               PROVE  B[<<s, g>>] = B[<<s, h>>]
    BY Zenon DEF ForShorter
  <2>1. EntriesBody(s, g) = EntriesBody(s, h)
    BY Zenon, <1>4
  <2>. QED
    BY Zenon, <1>2, <2>1
<1>7. V # {}
  <2>1. [value |-> <<>>, rest |-> <<>>] \in V
    BY DEF FoundLists
  <2>. QED
    BY <2>1
<1>8. PICK g : IsRecursion(g, B, V)
  <2> HIDE DEF V
  <2>. QED
    BY <1>5, <1>6, <1>7, Recursion
<1> DEFINE IsAll(f) == f = [s \in Seq(Byte) |-> EntriesBody(s, f)]
<1>9. IsAll(g)
  BY <1>2, <1>8 DEF IsRecursion
<1>10. ParseEntries = CHOOSE f : IsAll(f)
  BY DEF ParseEntries, EntriesBody, NoEntry, EntryIn, EntryAt, EntryEnd, EntryHead
<1>11. IsAll(ParseEntries)
  BY Zenon, <1>9, <1>10
<1>. QED
  BY <1>11

\* What stands behind a tag and a length is found there, and what comes after it.
Opens(in, t, o, r) ==
    /\ in \in Seq(Byte) /\ in # <<>> /\ in[1] = t
    /\ ParseLength(Drop(in, 1)).octets # 0 /\ ~(EntryEnd(in) > Len(in))
    /\ EntryAt(in) = o /\ Drop(in, EntryEnd(in)) = r
    /\ Drop(in, EntryHead(in)) = o \o r

\* An object at the head of what is read is found, and so is what comes after
\* it.
LEMMA OpensIs ==
  ASSUME NEW t \in Byte, NEW o \in Seq(Byte), Short(Len(o)), NEW r \in Seq(Byte)
  PROVE  Opens(Do(<<t>>, o) \o r, t, o, r)
<1>1. PICK a : a = <<t>>
  OBVIOUS
<1>2. a \in Seq(Byte) /\ Len(a) = 1 /\ a[1] = t
  BY <1>1, One
<1>3. PICK n : n = Len(o)
  OBVIOUS
<1>4. Short(n) /\ n \in Nat
  BY <1>3 DEF Short
<1>5. PICK f : f = EncodeLength(n)
  OBVIOUS
<1>6. PICK m : m = Len(f)
  OBVIOUS
<1>7. PICK v : v = o \o r
  OBVIOUS
<1>8. v \in Seq(Byte) /\ Len(v) = n + Len(r)
  BY Zenon, <1>3, <1>7, JoinedBytes
<1>9. /\ f \in Seq(Byte) /\ m \in Nat /\ m # 0
      /\ ParseLength(f \o v) = [octets |-> m, value |-> n]
  BY Zenon, <1>4, <1>5, <1>6, <1>8, FieldRead
<1>10. PICK w : w = f \o v
  OBVIOUS
<1>11. w \in Seq(Byte) /\ Len(w) = m + Len(v) /\ Drop(w, m) = v
  BY Zenon, <1>6, <1>8, <1>9, <1>10, JoinedBytes, Parts
<1>12. PICK in : in = Do(a, o) \o r
  OBVIOUS
<1>13. PICK h : h = a \o f
  OBVIOUS
<1>14. h \in Seq(Byte) /\ Len(h) = 1 + m
  <2>1. a \in Seq(Byte) /\ f \in Seq(Byte)
    BY <1>2, <1>9
  <2>2. h \in Seq(Byte) /\ Len(h) = Len(a) + Len(f)
    BY Zenon, <1>13, <2>1, JoinedBytes
  <2>. QED
    BY Zenon, <1>2, <1>6, <2>2
<1>15. in = (h \o o) \o r
  BY <1>3, <1>5, <1>12, <1>13 DEF Do
<1>16. in = h \o v
  BY Zenon, <1>7, <1>14, <1>15, Regroup
<1>17. in = a \o w
  BY Zenon, <1>2, <1>8, <1>9, <1>10, <1>13, <1>16, Regroup
<1>18. in \in Seq(Byte) /\ Len(in) = 1 + Len(w) /\ in[1] = t /\ Drop(in, 1) = w
  <2>1. in \in Seq(Byte) /\ Len(in) = Len(a) + Len(w) /\ (\A i \in 1..Len(a) : in[i] = a[i])
        /\ Drop(in, Len(a)) = w
    BY Zenon, <1>2, <1>11, <1>17, JoinedBytes, Parts
  <2>2. 1 \in 1..Len(a)
    BY <1>2
  <2>3. in[1] = t
    BY Zenon, <1>2, <2>1, <2>2
  <2>. QED
    BY Zenon, <1>2, <2>1, <2>3
<1>19. PICK l : l = ParseLength(Drop(in, 1))
  OBVIOUS
<1>20. l.octets = m /\ l.value = n
  <2>1. l = [octets |-> m, value |-> n]
    BY Zenon, <1>9, <1>10, <1>18, <1>19
  <2>. QED
    BY <2>1
<1>21. EntryHead(in) = 1 + m /\ EntryEnd(in) = (1 + m) + n
  BY <1>19, <1>20 DEF EntryHead, EntryEnd
<1>22. Drop(in, 1 + m) = v
  BY Zenon, <1>8, <1>14, <1>16, Parts
<1>23. PICK p : p = h \o o
  OBVIOUS
<1>24. p \in Seq(Byte) /\ Len(p) = (1 + m) + n /\ Drop(in, (1 + m) + n) = r
  <2>1. p \in Seq(Byte) /\ Len(p) = Len(h) + Len(o)
    BY Zenon, <1>14, <1>23, JoinedBytes
  <2>2. Len(p) = (1 + m) + n
    BY Zenon, <1>3, <1>14, <2>1
  <2>3. Drop(in, Len(p)) = r
    BY Zenon, <1>15, <1>23, <2>1, Parts
  <2>. QED
    BY Zenon, <2>1, <2>2, <2>3
<1>25. SubSeq(in, (1 + m) + 1, (1 + m) + n) = o
  <2>1. SubSeq((h \o o) \o r, Len(h) + 1, Len(h) + Len(o)) = o
    BY <1>14, PieceOf
  <2>. QED
    BY Zenon, <1>3, <1>14, <1>15, <2>1
<1>26. ~((1 + m) + n > Len(in)) /\ Len(in) # 0
  <2>1. Len(r) \in Nat
    BY LenProperties
  <2>. QED
    BY <1>4, <1>8, <1>9, <1>11, <1>18, <2>1
<1>27. in # <<>>
  BY <1>26
<1>28. EntryAt(in) = o /\ Drop(in, EntryEnd(in)) = r /\ Drop(in, EntryHead(in)) = o \o r
       /\ ~(EntryEnd(in) > Len(in))
  BY Zenon, <1>7, <1>21, <1>22, <1>24, <1>25, <1>26 DEF EntryAt
<1>29. Opens(in, t, o, r)
  BY Zenon, <1>9, <1>18, <1>19, <1>20, <1>27, <1>28 DEF Opens
<1>. QED
  BY <1>1, <1>12, <1>29

\* The octets of an entry say what it is.
PayloadOf(e) == IF e.attributes.kind = "unknown" THEN e.attributes.octets
                ELSE CardAttributesOctets(e.attributes)

\* They can be sent, and are read as the attributes that they are of.
LEMMA PayloadRead ==
  ASSUME NEW e, IsEntry(e)
  PROVE  /\ PayloadOf(e) \in Seq(Byte) /\ Short(Len(PayloadOf(e)))
         /\ Entry(PayloadOf(e)) = {e.attributes}
<1>1. PICK a : a = e.attributes
  OBVIOUS
<1>2. IsAttributes(a) \/ (a = Unknown(a.octets) /\ IsUnknown(a.octets))
  BY <1>1 DEF IsEntry
<1>3. CASE IsAttributes(a)
  <2>1. a.kind # "unknown"
    BY <1>3 DEF IsAttributes
  <2>2. PICK o : o = CardAttributesOctets(a)
    OBVIOUS
  <2>3. PayloadOf(e) = o
    BY Zenon, <1>1, <2>1, <2>2 DEF PayloadOf
  <2>4. o \in Seq(Byte) /\ Len(o) <= 12 /\ Complete(ParseAttributes(o)) = {a}
    BY <1>3, <2>2, CardAttributesRead
  <2>5. Short(Len(o))
    <3>1. Len(o) \in Nat
      BY <2>4, LenProperties
    <3>. QED
      BY <2>4, <3>1 DEF Short
  <2>6. Entry(o) = {a}
    BY <2>4 DEF Entry
  <2>. QED
    BY Zenon, <1>1, <2>3, <2>4, <2>5, <2>6
<1>4. CASE a = Unknown(a.octets) /\ IsUnknown(a.octets)
  <2>1. PICK o : o = a.octets
    OBVIOUS
  <2>2. a = Unknown(o) /\ IsUnknown(o)
    BY <1>4, <2>1
  <2>3. a.kind = "unknown"
    BY <2>2 DEF Unknown
  <2>4. PayloadOf(e) = o
    BY Zenon, <1>1, <2>1, <2>3 DEF PayloadOf
  <2>5. o \in Seq(Byte) /\ Len(o) < 65536 /\ Len(o) \in Nat
    BY <2>2, LenProperties DEF IsUnknown
  <2>6. Entry(o) = {a}
    BY <2>2, UnknownRead DEF Entry
  <2>7. Short(Len(o)) /\ o \in Seq(Byte)
    BY <2>5 DEF Short
  <2>8. PayloadOf(e) \in Seq(Byte) /\ Short(Len(PayloadOf(e)))
    BY Zenon, <2>4, <2>7
  <2>. QED
    BY Zenon, <1>1, <2>4, <2>6, <2>8
<1>. QED
  BY <1>2, <1>3, <1>4

\* The tags of the entries are octets, no two of them the same, and none the tag of the list.
LEMMA ListTags ==
  ASSUME NEW kt \in KeyType
  PROVE  /\ ListTag[kt] \in Byte /\ ListTag[kt] # 250
         /\ \A k \in KeyType : ListTag[k] = ListTag[kt] => k = kt
<1>1. ListTag["Signing"] = 193 /\ ListTag["Decryption"] = 194 /\ ListTag["Authentication"] = 195
      /\ ListTag["Attestation"] = 218
  BY DEF ListTag
<1>. QED
  BY <1>1 DEF KeyType, Byte

\* An entry is read, and what follows it after it.
LEMMA EntryRead ==
  ASSUME NEW e, IsEntry(e), NEW r \in Seq(Byte)
  PROVE  ParseEntries[EntryOctets(e) \o r]
            = [value |-> <<e>> \o ParseEntries[r].value, rest |-> ParseEntries[r].rest]
<1>1. PICK t : t = ListTag[e.slot]
  OBVIOUS
<1>2. PICK o : o = PayloadOf(e)
  OBVIOUS
<1>3. PICK in : in = EntryOctets(e) \o r
  OBVIOUS
<1>4. e.slot \in KeyType
  BY DEF IsEntry
<1>5. t \in Byte /\ \A k \in KeyType : ListTag[k] = t => k = e.slot
  BY <1>1, <1>4, ListTags
<1>6. o \in Seq(Byte) /\ Short(Len(o)) /\ Entry(o) = {e.attributes}
  BY <1>2, PayloadRead
<1>7. in = Do(<<t>>, o) \o r
  BY <1>1, <1>2, <1>3 DEF EntryOctets, PayloadOf
<1>8. Opens(in, t, o, r)
  BY <1>5, <1>6, <1>7, OpensIs
<1>9. /\ in \in Seq(Byte) /\ in # <<>> /\ in[1] = t
      /\ ParseLength(Drop(in, 1)).octets # 0 /\ ~(EntryEnd(in) > Len(in))
      /\ EntryAt(in) = o /\ Drop(in, EntryEnd(in)) = r
  BY Zenon, <1>8 DEF Opens
<1>10. ~NoEntry(in)
  <2>1. Entry(EntryAt(in)) # {}
    BY <1>6, <1>9
  <2>2. ListTag[e.slot] = in[1]
    BY Zenon, <1>1, <1>9
  <2>. QED
    BY Zenon, <1>4, <1>9, <2>1, <2>2 DEF NoEntry
<1>11. EntryIn(in) = e
  <2>1. (CHOOSE kt \in KeyType : ListTag[kt] = in[1]) = e.slot
    BY <1>1, <1>4, <1>5, <1>9
  <2>2. PICK a : a = e.attributes
    OBVIOUS
  <2>3. Entry(EntryAt(in)) = {a}
    BY <1>6, <1>9, <2>2
  <2>4. (CHOOSE x \in {a} : TRUE) = a
    OBVIOUS
  <2>5. e = [slot |-> e.slot, attributes |-> e.attributes]
    BY DEF IsEntry
  <2>. QED
    BY Zenon, <2>1, <2>2, <2>3, <2>4, <2>5 DEF EntryIn
<1>12. ParseEntries[in] = EntriesBody(in, ParseEntries)
  BY <1>9, EntriesUnfold
<1>13. EntriesBody(in, ParseEntries)
          = [value |-> <<e>> \o ParseEntries[r].value, rest |-> ParseEntries[r].rest]
  BY Zenon, <1>9, <1>10, <1>11 DEF EntriesBody
<1>. QED
  BY Zenon, <1>3, <1>12, <1>13

\* Nothing is an empty list,
LEMMA NothingListed == ParseEntries[<<>>] = [value |-> <<>>, rest |-> <<>>]
<1>1. PICK in : in = <<>>
  OBVIOUS
<1>2. in \in Seq(Byte) /\ NoEntry(in)
  BY <1>1 DEF NoEntry
<1>3. ParseEntries[in] = [value |-> <<>>, rest |-> in]
  BY <1>2, EntriesUnfold DEF EntriesBody
<1>. QED
  BY <1>1, <1>3

\* Each entry of a list is read, in its order.
IsRead(L) ==
    /\ ListOctets(L) \in Seq(Byte)
    /\ ParseEntries[ListOctets(L)] = [value |-> L, rest |-> <<>>]

\* So is every list of such entries, however long.
LEMMA ListOctetsRead ==
  ASSUME NEW S, \A e \in S : IsEntry(e)
  PROVE  \A L \in Seq(S) : IsRead(L)
<1> DEFINE P == {n \in Nat : \A L \in Seq(S) : Len(L) = n => IsRead(L)}
<1>1. ASSUME NEW e \in S
      PROVE  EntryOctets(e) \in Seq(Byte)
  <2>1. IsEntry(e)
    BY <1>1
  <2>2. PICK t : t = ListTag[e.slot]
    OBVIOUS
  <2>3. PICK o : o = PayloadOf(e)
    OBVIOUS
  <2>4. t \in Byte
    BY <2>1, <2>2, ListTags DEF IsEntry
  <2>5. o \in Seq(Byte) /\ Short(Len(o))
    BY <2>1, <2>3, PayloadRead
  <2>6. PICK n : n = Len(o)
    OBVIOUS
  <2>7. EncodeLength(n) \in Seq(Byte)
    BY Zenon, <2>5, <2>6, FieldRead
  <2>8. PICK h : h = <<t>> \o EncodeLength(n)
    OBVIOUS
  <2>9. h \in Seq(Byte)
    <3>1. <<t>> \in Seq(Byte)
      BY <2>4, One
    <3>. QED
      BY Zenon, <2>7, <2>8, <3>1, JoinedBytes
  <2>10. h \o o \in Seq(Byte)
    BY Zenon, <2>5, <2>9, JoinedBytes
  <2>11. EntryOctets(e) = h \o o
    BY <2>2, <2>3, <2>6, <2>8 DEF EntryOctets, PayloadOf, Do
  <2>. QED
    BY <2>10, <2>11
<1>2. ASSUME NEW L \in Seq(S)
      PROVE  /\ Len(L) \in Nat /\ DOMAIN L = 1..Len(L)
             /\ [i \in DOMAIN L |-> EntryOctets(L[i])] \in Seq(Seq(Byte))
             /\ Len([i \in DOMAIN L |-> EntryOctets(L[i])]) = Len(L)
  <2>1. Len(L) \in Nat /\ DOMAIN L = 1..Len(L) /\ \A i \in 1..Len(L) : L[i] \in S
    BY LenProperties, ElementOfSeq
  <2>2. PICK n : n = Len(L)
    OBVIOUS
  <2>3. PICK q : q = [i \in 1..n |-> EntryOctets(L[i])]
    OBVIOUS
  <2>4. q \in [1..n -> Seq(Byte)]
    BY <1>1, <2>1, <2>2, <2>3
  <2>5. q \in Seq(Seq(Byte)) /\ Len(q) = n
    BY <2>1, <2>2, <2>4, FcnIsSeq
  <2>. QED
    BY Zenon, <2>1, <2>2, <2>3, <2>5
<1>3. ASSUME NEW n \in Nat, \A m \in Nat : m < n => m \in P
      PROVE  n \in P
  <2> SUFFICES ASSUME NEW L \in Seq(S), Len(L) = n
               PROVE  IsRead(L)
    OBVIOUS
  <2>1. CASE n = 0
    <3>1. L = <<>>
      BY <2>1, EmptySeq
    <3>2. PICK q : q = [i \in DOMAIN L |-> EntryOctets(L[i])]
      OBVIOUS
    <3>3. q \in Seq(Seq(Byte)) /\ Len(q) = 0
      BY <1>2, <2>1, <3>2
    <3>4. q = <<>>
      BY <3>3, EmptySeq
    <3>5. ListOctets(L) = <<>>
      BY SMTT(60), <3>2, <3>4 DEF ListOctets, FlattenSeq
    <3>6. <<>> \in Seq(Byte)
      OBVIOUS
    <3>. QED
      BY Zenon, <3>1, <3>5, <3>6, NothingListed DEF IsRead
  <2>2. CASE n # 0
    <3>1. L # <<>>
      BY <2>2
    <3>2. PICK M : M = Tail(L)
      OBVIOUS
    <3>3. PICK e : e = L[1]
      OBVIOUS
    <3>4. /\ e \in S /\ M \in Seq(S) /\ L = <<e>> \o M
          /\ Len(M) \in Nat /\ Len(L) = Len(M) + 1
          /\ \A i \in 1..Len(M) : i + 1 \in 1..Len(L) /\ M[i] = L[i + 1]
      BY <3>1, <3>2, <3>3, HeadOf
    <3>5. IsRead(M)
      <4>1. Len(M) \in Nat /\ Len(M) < n
        BY <3>4
      <4>2. Len(M) \in P
        BY <1>3, <4>1
      <4>. QED
        BY <3>4, <4>2
    <3>6. PICK q : q = [i \in DOMAIN M |-> EntryOctets(M[i])]
      OBVIOUS
    <3>7. PICK r : r = [i \in DOMAIN L |-> EntryOctets(L[i])]
      OBVIOUS
    <3>8. q \in Seq(Seq(Byte)) /\ Len(q) = Len(M) /\ DOMAIN M = 1..Len(M)
      BY <1>2, <3>4, <3>6
    <3>9. r \in Seq(Seq(Byte)) /\ Len(r) = Len(L) /\ DOMAIN L = 1..Len(L)
      BY <1>2, <3>7
    <3>10. Behind(r, q)
      <4>1. ASSUME NEW i \in 1..Len(M)
            PROVE  r[i + 1] = q[i]
        <5>1. i + 1 \in DOMAIN L /\ i \in DOMAIN M /\ M[i] = L[i + 1]
          BY <3>4, <3>8, <3>9
        <5>. QED
          BY <3>6, <3>7, <5>1
      <4>. QED
        BY <3>4, <3>8, <3>9, <4>1 DEF Behind
    <3>11. FlattenSeq(r) = r[1] \o FlattenSeq(q)
      BY Zenon, <3>8, <3>9, <3>10, FlattenHead
    <3>12. r[1] = EntryOctets(e)
      <4>1. 1 \in DOMAIN L
        BY <3>4, <3>9
      <4>. QED
        BY <3>3, <3>7, <4>1
    <3>13. ListOctets(M) = FlattenSeq(q) /\ ListOctets(L) = FlattenSeq(r)
      BY Zenon, <3>6, <3>7 DEF ListOctets
    <3>14. ListOctets(L) = EntryOctets(e) \o ListOctets(M)
      BY Zenon, <3>11, <3>12, <3>13
    <3>15. PICK s : s = ListOctets(M)
      OBVIOUS
    <3>16. s \in Seq(Byte) /\ ParseEntries[s] = [value |-> M, rest |-> <<>>]
      BY Zenon, <3>5, <3>15 DEF IsRead
    <3>17. IsEntry(e) /\ EntryOctets(e) \in Seq(Byte)
      BY <1>1, <3>4
    <3>18. ListOctets(L) \in Seq(Byte)
      BY Zenon, <3>14, <3>15, <3>16, <3>17, JoinedBytes
    <3>19. ParseEntries[EntryOctets(e) \o s]
              = [value |-> <<e>> \o ParseEntries[s].value, rest |-> ParseEntries[s].rest]
      BY Zenon, <3>16, <3>17, EntryRead
    <3>20. ParseEntries[s].value = M /\ ParseEntries[s].rest = <<>>
      BY <3>16
    <3>21. ParseEntries[ListOctets(L)] = [value |-> L, rest |-> <<>>]
      BY Zenon, <3>4, <3>14, <3>15, <3>19, <3>20
    <3>. QED
      BY Zenon, <3>18, <3>21 DEF IsRead
  <2>. QED
    BY <2>1, <2>2
<1>4. \A n \in Nat : n \in P
  <2> HIDE DEF P
  <2>. QED
    BY <1>3, Induction
<1>. QED
  BY <1>2, <1>4

\* The list is recovered, in either form.
LEMMA ListRecovered ==
  ASSUME NEW l, IsList(l)
  PROVE  ListIsRecovered(l)
<1>1. PICK L : L = l.list
  OBVIOUS
<1>2. IsRead(L)
  <2>1. PICK S : S = Range(L)
    OBVIOUS
  <2>2. L \in Seq(S) /\ \A e \in S : IsEntry(e)
    BY <1>1, <2>1 DEF IsList
  <2>. QED
    BY Zenon, <2>2, ListOctetsRead
<1>3. PICK o : o = ListOctets(L)
  OBVIOUS
<1>4. o \in Seq(Byte) /\ ParseEntries[o] = [value |-> L, rest |-> <<>>]
  BY Zenon, <1>2, <1>3 DEF IsRead
<1>5. Complete({ParseEntries[o]}) = {L}
  BY Zenon, <1>4, CompleteOne
<1>6. Short(Len(o))
  <2>1. Len(o) \in Nat
    BY <1>4, LenProperties
  <2>. QED
    BY <1>1, <1>3, <2>1 DEF IsList, Short
<1>7. CASE ~l.wrapped
  <2>1. CardList(l.list, l.wrapped) = o
    BY Zenon, <1>1, <1>3, <1>7 DEF CardList
  <2>2. Complete({ParseEntries[o]}) # {}
    BY <1>5
  <2>3. AlgorithmInformation(o) = {L}
    BY Zenon, <1>5, <2>2 DEF AlgorithmInformation
  <2>. QED
    BY Zenon, <1>1, <2>1, <2>3 DEF ListIsRecovered
<1>8. CASE l.wrapped
  <2>1. PICK in : in = Do(<<250>>, o)
    OBVIOUS
  <2>2. CardList(l.list, l.wrapped) = in
    BY Zenon, <1>1, <1>3, <1>8, <2>1 DEF CardList
  <2>3. Opens(in, 250, o, <<>>)
    <3>1. 250 \in Byte /\ <<>> \in Seq(Byte)
      BY DEF Byte
    <3>2. Opens(Do(<<250>>, o) \o <<>>, 250, o, <<>>)
      BY ZenonT(60), <1>4, <1>6, <3>1, OpensIs
    <3>3. in \in Seq(Byte)
      <4>1. WholeTag(<<250>>)
        BY OneOctetTag, 250 \in Byte, 250 % 32 # 31 DEF Byte
      <4>. QED
        BY <1>4, <1>6, <2>1, <4>1, DoIs
    <3>4. in \o <<>> = in
      BY <3>3
    <3>. QED
      BY Zenon, <2>1, <3>2, <3>4
  <2>4. PICK length : length = ParseLength(Drop(in, 1))
    OBVIOUS
  <2>5. /\ in \in Seq(Byte) /\ in # <<>> /\ in[1] = 250 /\ length.octets # 0
        /\ Drop(in, 1 + length.octets) = o \o <<>>
    BY Zenon, <2>3, <2>4 DEF Opens, EntryHead
  <2>6. Drop(in, 1 + length.octets) = o
    BY <1>4, <2>5
  <2>7. length.octets > 0
    <3>1. Drop(in, 1) \in Seq(Byte)
      <4>1. 1 \in Nat /\ 1 <= Len(in)
        BY <2>5, LenProperties, EmptySeq
      <4>. QED
        BY <2>5, <4>1, DropIs
    <3>2. length.octets \in Nat
      BY <2>4, <3>1, LengthType
    <3>. QED
      BY <2>5, <3>2
  <2>8. Complete({ParseEntries[in]}) = {}
    <3>1. \A kt \in KeyType : ListTag[kt] # in[1]
      BY <2>5, ListTags
    <3>2. NoEntry(in)
      BY Zenon, <3>1 DEF NoEntry
    <3>3. ParseEntries[in] = [value |-> <<>>, rest |-> in]
      BY <2>5, <3>2, EntriesUnfold DEF EntriesBody
    <3>. QED
      BY <2>5, <3>3 DEF Complete
  <2>9. AlgorithmInformation(in) = {L}
    <3>1. Complete({ParseEntries[Drop(in, 1 + length.octets)]}) = {L}
      BY <1>5, <2>6
    <3>. QED
      BY Zenon, <2>4, <2>5, <2>7, <2>8, <3>1 DEF AlgorithmInformation
  <2>. QED
    BY Zenon, <1>1, <2>2, <2>9 DEF ListIsRecovered
<1>. QED
  BY <1>7, <1>8

\* data.rs:44-281, mod.rs:142-208, data/*.rs, algo_info.rs:40-95: of every card that
\* writes its data objects as it should, whatever their values are, and of every list
\* of algorithms, the library recovers what the card holds.
THEOREM CardsRecovered ==
  ASSUME sample.what = "card" => IsContent(sample.value),
         sample.what = "list" => IsList(sample.value)
  PROVE  CardIsRecovered
BY Zenon, DataRecovered, ListRecovered DEF CardIsRecovered
=============================================================================
