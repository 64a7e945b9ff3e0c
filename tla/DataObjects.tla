----------------------------- MODULE DataObjects -----------------------------
(***************************************************************************)
(* The data objects of an OpenPGP card, from the octets of the card to the *)
(* values of the library: ApplicationRelatedData and its parts             *)
(* (openpgp-card/src/ocard/data.rs, data/*.rs), the algorithm attributes   *)
(* and the list of algorithms (data/algo_attrs.rs, data/algo_info.rs) and  *)
(* the KDF-DO (data/kdf_do.rs).                                            *)
(*                                                                         *)
(* A value that is missing, or that cannot be parsed, is the empty set,    *)
(* any other the set of this value alone.                                  *)
(***************************************************************************)
EXTENDS Tlv, Algorithms

\* Numbers of two octets
BE(s) == 256 * s[1] + s[2]
BE16(n) == <<n \div 256, n % 256>>

\* `complete`: what a parser has left over makes its result an Err.
Complete(parsed) == {p.value : p \in {q \in parsed : q.rest = <<>>}}

-----------------------------------------------------------------------------
(* Algorithm attributes.                                                   *)

EccId == [EdDSA |-> 22, ECDH |-> 18, ECDSA |-> 19]

\* to_data_object: an ECC key has the default format.
AttributesOctets(a) ==
    IF a.kind = "rsa" THEN <<1>> \o BE16(a.n) \o <<0, a.e % 256, a.format>>
    ELSE <<EccId[a.type]>> \o Oid[a.curve]

\* algo_attrs::parse
ParseRsa(in) ==
    IF Len(in) < 6 \/ in[1] # 1 THEN {}
    ELSE {[value |-> Rsa(BE(SubSeq(in, 2, 3)), BE(SubSeq(in, 4, 5)), in[6]),
           rest |-> Drop(in, 6)]}

\* The octet after the OID is the format, if there is one.
ParseEcc(in) ==
    {[value |-> Ecc(tc[1], tc[2], {in[i] : i \in {2 + Len(Oid[tc[2]])} \cap DOMAIN in}),
      rest |-> Drop(in, 2 + Len(Oid[tc[2]]))] :
        tc \in {x \in (DOMAIN EccId) \X Curve : IsPrefix(<<EccId[x[1]]>> \o Oid[x[2]], in)}}

ParseAttributes(in) == ParseRsa(in) \cup ParseEcc(in)

-----------------------------------------------------------------------------
(* The list of algorithms: entries of a key type and attributes, with or   *)
(* without the tag and the length of the list before them.                 *)

ListTag == [Signing |-> 193, Decryption |-> 194, Authentication |-> 195, Attestation |-> 218]

\* parse_one: attributes nobody knows are kept as octets.
Entry(octets) == IF Complete(ParseAttributes(octets)) # {}
                 THEN Complete(ParseAttributes(octets))
                 ELSE {Unknown(octets)}

ParseEntries[in \in Seq(Byte)] ==
    LET length == ParseLength(Drop(in, 1))
        head   == 1 + length.octets
        octets == SubSeq(in, head + 1, head + length.value)
        after  == ParseEntries[Drop(in, head + length.value)]
    IN  IF \/ in = <<>> \/ length.octets = 0 \/ head + length.value > Len(in)
           \/ \A kt \in KeyType : ListTag[kt] # in[1]
           \/ Entry(octets) = {}
        THEN [value |-> <<>>, rest |-> in]
        ELSE [value |-> <<[slot |-> CHOOSE kt \in KeyType : ListTag[kt] = in[1],
                           attributes |-> CHOOSE a \in Entry(octets) : TRUE]>>
                        \o after.value,
              rest |-> after.rest]

\* AlgorithmInformation::try_from
AlgorithmInformation(in) ==
    LET plain == Complete({ParseEntries[in]})
        length == ParseLength(Drop(in, 1))
    IN  IF plain # {} THEN plain
        ELSE IF in # <<>> /\ in[1] = 250 /\ length.octets > 0
        THEN Complete({ParseEntries[Drop(in, 1 + length.octets)]})
        ELSE {}

-----------------------------------------------------------------------------
(* The parts of the application related data.                              *)

ApplicationId(in) ==
    IF Len(in) = 16 /\ Take(in, 5) = <<210, 118, 0, 1, 36>> /\ Drop(in, 14) = <<0, 0>>
    THEN {[application |-> in[6], version |-> SubSeq(in, 7, 8),
           manufacturer |-> SubSeq(in, 9, 10), serial |-> SubSeq(in, 11, 14)]}
    ELSE {}

\* HistoricalBytes: the compact TLVs between the first octet and the last three
Compact[in \in Seq(Byte)] ==
    IF in = <<>> THEN {[service |-> {}, caps |-> {}]}
    ELSE LET len == in[1] % 16
             tag == in[1] \div 16
         IN  IF Len(in) < 1 + len THEN {}
             ELSE {IF tag = 3 /\ len = 1 /\ c.service = {}
                   THEN [c EXCEPT !.service = {in[2]}]
                   ELSE IF tag = 7 /\ len = 3 /\ c.caps = {}
                   THEN [c EXCEPT !.caps = {in[4]}] ELSE c :
                        c \in Compact[Drop(in, 1 + len)]}

\* Two repairs for cards that pad it, or have another status indicator
LedgerPadded(in) == IF IsSuffix(<<144, 0, 0, 0, 0, 0, 0>>, in)
                    THEN Take(in, Len(in) - 5) ELSE in
LedgerStatus(in) == IF in = <<0, 49, 197, 115, 192, 1, 128, 7, 144, 0>>
                    THEN [in EXCEPT ![8] = 5] ELSE in

\* Mutated form: the zeros that some cards append are not taken off.
HistoricalBytesPadded(octets) ==
    LET in == LedgerStatus(octets)
    IN  IF Len(in) < 4 \/ in[1] # 0 \/ in[Len(in) - 2] \notin {0, 3, 5} THEN {}
        ELSE {[service |-> c.service, caps |-> c.caps, status |-> in[Len(in) - 2]] :
                c \in Compact[SubSeq(in, 2, Len(in) - 3)]}
HistoricalBytes(octets) ==
    LET in == LedgerStatus(LedgerPadded(octets))
    IN  IF Len(in) < 4 \/ in[1] # 0 \/ in[Len(in) - 2] \notin {0, 3, 5} THEN {}
        ELSE {[service |-> c.service, caps |-> c.caps, status |-> in[Len(in) - 2]] :
                c \in Compact[SubSeq(in, 2, Len(in) - 3)]}

\* ExtendedCapabilities::try_from panics unless there are ten octets.
ExtendedCapabilities(in, major) ==
    IF Len(in) # 10 \/ major < 2 \/ (major > 2 /\ (in[9] > 1 \/ in[10] > 1)) THEN {}
    ELSE {[keyImport |-> Bit(in[1], 5), pwStatus |-> Bit(in[1], 4),
           changeable |-> Bit(in[1], 2), kdf |-> Bit(in[1], 0),
           maxCmd |-> {BE(SubSeq(in, 7, 8)) : v \in {major} \cap {2}},
           maxRsp |-> {BE(SubSeq(in, 9, 10)) : v \in {major} \cap {2}},
           special |-> {BE(SubSeq(in, 7, 8)) : v \in {major} \ {2}},
           mse |-> {in[10] # 0 : v \in {major} \ {2}}]}

ExtendedLengthInfo(in) ==
    IF Len(in) = 8 /\ Take(in, 2) = <<2, 2>> /\ SubSeq(in, 5, 6) = <<2, 2>>
    THEN {[cmd |-> BE(SubSeq(in, 3, 4)), rsp |-> BE(SubSeq(in, 7, 8))]} ELSE {}

\* PWStatusBytes::try_from; the octets sent by set_pw_status_bytes
PwStatus(in) ==
    IF Len(in) # 7 THEN {}
    ELSE {[once |-> in[1] = 0,
           pw1Block |-> Bit(in[2], 7), pw1Len |-> in[2] % 128, rcLen |-> in[3],
           pw3Block |-> Bit(in[4], 7), pw3Len |-> in[4] % 128,
           left |-> SubSeq(in, 5, 7)]}

PutPwStatus(p, long) ==
    <<IF p.once THEN 0 ELSE 1>> \o
    IF long THEN <<p.pw1Len + IF p.pw1Block THEN 128 ELSE 0, p.rcLen,
                   p.pw3Len + IF p.pw3Block THEN 128 ELSE 0>>
    ELSE <<>>

\* KeySet: three values of a size, all zeros for none; what follows is ignored.
Basic == <<"Signing", "Decryption", "Authentication">>
KeySet(in, size) ==
    IF Len(in) < 3 * size THEN {}
    ELSE {[kt \in Range(Basic) |->
            LET at == CASE kt = "Signing" -> 0 [] kt = "Decryption" -> 1 [] OTHER -> 2
                v  == SubSeq(in, at * size + 1, (at + 1) * size)
            IN  IF \A i \in DOMAIN v : v[i] = 0 THEN {} ELSE {v}]}

\* UserInteractionFlag: the touch policy and the features
UserInteraction(in) == IF Len(in) = 2 THEN {[policy |-> in[1], features |-> in[2]]} ELSE {}
TouchRequired(flag) == flag.policy # 0

-----------------------------------------------------------------------------
(* ApplicationRelatedData: each part is looked for in the TLV.             *)

TagOf == [aid |-> <<79>>, historical |-> <<95, 82>>, eli |-> <<127, 102>>,
          capabilities |-> <<192>>, pwStatus |-> <<196>>, fingerprints |-> <<197>>,
          caFingerprints |-> <<198>>, times |-> <<205>>,
          Signing |-> <<193>>, Decryption |-> <<194>>, Authentication |-> <<195>>,
          Attestation |-> <<218>>, attestationFp |-> <<219>>, attestationTime |-> <<221>>,
          uifSigning |-> <<214>>, uifDecryption |-> <<215>>,
          uifAuthentication |-> <<216>>, uifAttestation |-> <<217>>]

\* Transaction::application_related_data
ArdOf(octets) == {ConstructedTlv(<<110>>, inner) : inner \in ParseList[octets]}

Part(ard, what) == {t.octets : t \in Find(ard, TagOf[what])}

AidOf(ard) == UNION {ApplicationId(v) : v \in Part(ard, "aid")}
HistoricalOf(ard) == UNION {HistoricalBytes(v) : v \in Part(ard, "historical")}
EliOf(ard) == UNION {ExtendedLengthInfo(v) : v \in Part(ard, "eli")}
CapabilitiesOf(ard) ==
    UNION {ExtendedCapabilities(v, aid.version[1]) :
                v \in Part(ard, "capabilities"), aid \in AidOf(ard)}
AttributesOf(ard, kt) == UNION {Complete(ParseAttributes(v)) : v \in Part(ard, kt)}
PwStatusOf(ard) == UNION {PwStatus(v) : v \in Part(ard, "pwStatus")}

NonZero(octets) == {v \in {octets} : \E i \in DOMAIN v : v[i] # 0}
FingerprintOf(ard, kt) ==
    IF kt = "Attestation"
    THEN UNION {NonZero(v) : v \in {w \in Part(ard, "attestationFp") : Len(w) = 20}}
    ELSE UNION {ks[kt] : ks \in UNION {KeySet(v, 20) : v \in Part(ard, "fingerprints")}}
CaFingerprintsOf(ard) == UNION {KeySet(v, 20) : v \in Part(ard, "caFingerprints")}
TimeOf(ard, kt) ==
    IF kt = "Attestation"
    THEN UNION {NonZero(v) : v \in {w \in Part(ard, "attestationTime") : Len(w) = 4}}
    ELSE UNION {ks[kt] : ks \in UNION {KeySet(v, 4) : v \in Part(ard, "times")}}
UifOf(ard, kt) ==
    LET what == CASE kt = "Signing" -> "uifSigning" [] kt = "Decryption" -> "uifDecryption"
                  [] kt = "Authentication" -> "uifAuthentication" [] OTHER -> "uifAttestation"
    IN  UNION {UserInteraction(v) : v \in Part(ard, what)}

\* OpenPGP::new: the CardCaps, unless a part that it keeps (CardImmutable) or the PW
\* status is missing or no good; only the extended length information may be missing.
CardImmutable(ard) ==
    /\ AidOf(ard) # {} /\ CapabilitiesOf(ard) # {} /\ HistoricalOf(ard) # {}
    /\ Part(ard, "eli") # {} => EliOf(ard) # {}
CapsOf(ard) ==
    LET hist  == UNION {h.caps : h \in HistoricalOf(ard)}
        bytes == IF EliOf(ard) # {} THEN EliOf(ard)
                 ELSE UNION {{[cmd |-> c, rsp |-> r] : c \in e.maxCmd, r \in e.maxRsp} :
                                e \in CapabilitiesOf(ard)}
    IN  {[chaining |-> \E c \in hist : Bit(c, 7), ext |-> \E c \in hist : Bit(c, 6),
          cmd |-> b.cmd, rsp |-> b.rsp, pw1 |-> p.pw1Len, pw3 |-> p.pw3Len] :
            b \in IF bytes = {} THEN {[cmd |-> 255, rsp |-> 255]} ELSE bytes,
            p \in {q \in PwStatusOf(ard) : CardImmutable(ard)}}

-----------------------------------------------------------------------------
(* The KDF-DO: its fields are looked for in the TLV, too.                  *)

KdfTag == [algo |-> 129, hash |-> 130, count |-> 131, Pw1 |-> 132, Rc |-> 133,
           Pw3 |-> 134, initial1 |-> 135, initial3 |-> 136]
KdfFields == <<"algo", "hash", "count", "Pw1", "Rc", "Pw3", "initial1", "initial3">>
KdfSize == [algo |-> 1, hash |-> 1, count |-> 4]

\* KdfDo::serialize, of a record of Options
KdfOctets(k) ==
    FlattenSeq([i \in DOMAIN KdfFields |->
        LET f == KdfFields[i]
        IN  IF k[f] = {} THEN <<>>
            ELSE LET v == CHOOSE o \in k[f] : TRUE
                 IN  <<KdfTag[f]>> \o EncodeLength(Len(v)) \o v])

\* KdfDo::try_from: a field of another size is as good as none.
KdfDoOf(in) ==
    {k \in {[f \in Range(KdfFields) |->
                {v \in {t.octets : t \in Find(ConstructedTlv(<<249>>, inner), <<KdfTag[f]>>)} :
                    f \in DOMAIN KdfSize => Len(v) = KdfSize[f]}] :
                inner \in ParseList[in]} :
        k.algo # {}}
=============================================================================
