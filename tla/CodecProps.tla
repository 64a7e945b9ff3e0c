----------------------------- MODULE CodecProps -----------------------------
(***************************************************************************)
(* What the parsers recover of what a card writes, over the kinds of       *)
(* content real cards have.  A card's side is written down here (Card...), *)
(* from the examples in the tests of ocard/data/*.rs; the library's side   *)
(* is modules Tlv and DataObjects.  The variable is what is coded this     *)
(* time: `what` it is, and its value.                                      *)
(***************************************************************************)
EXTENDS DataObjects, Itersalt

VARIABLE sample

Sample(what, values) == [what : {what}, value : values]

Do(tag, octets) == tag \o EncodeLength(Len(octets)) \o octets
Octets(n, first) == [i \in 1..n |-> (first + i) % 256]
Zeros(n) == [i \in 1..n |-> 0]

-----------------------------------------------------------------------------
(* Trees of TLVs: one and two octet tags, values on either side of the     *)
(* borders of the length field, empty ones and nested ones.                *)

\* A set of TLVs that can be sent: whole tags, which say which values are constructed,
\* values short enough for their length field, and with a TLV also those in it.
AreTlvs(T) ==
    \A t \in T :
        /\ t.tag \in Seq(Byte) /\ t.tag # <<>> /\ TagOctets(t.tag) = Len(t.tag)
        /\ t.octets \in Seq(Byte) /\ Len(t.octets) < 65536
        /\ t = IF IsConstructed(t.tag) THEN ConstructedTlv(t.tag, t.inner)
               ELSE SimpleTlv(t.tag, t.octets)
        /\ t.inner \in Seq(T)

Leaves == {SimpleTlv(tag, Octets(n, 0)) : tag \in {<<129>>, <<95, 82>>}, n \in {0, 1, 127, 128, 255, 256}}
Branches == {ConstructedTlv(<<127, 102>>, inner) : inner \in {<<>>} \cup {<<l>> : l \in Leaves}}
Trees == {ConstructedTlv(<<115>>, <<a, b, c>>) : a \in Leaves, b \in Branches, c \in Leaves}
Tlvs == Leaves \cup Branches \cup Trees

TreeIsRead(t) == TryTlv(SerializeTlv(t)) = {t}

-----------------------------------------------------------------------------
(* A card: what it holds, and the octets that it writes of it.  What it    *)
(* may lack is a set with one element or none.                             *)

Exactly(n) == [1..n -> Byte]
AtMostOne(s) == \A x \in s : s = {x}
The(s) == CHOOSE x \in s : TRUE

\* Attributes of a key, and with the format of an ECC key if a card gives one
IsAttributes(a) ==
    \/ a \in [kind : {"rsa"}, n : U16, e : U16, format : Byte]
    \/ /\ a \in [kind : {"ecc"}, type : EccType, curve : Curve, format : SUBSET Byte]
       /\ AtMostOne(a.format)

CardAttributesOctets(a) ==
    IF a.kind = "rsa" THEN <<1>> \o BE16(a.n) \o BE16(a.e) \o <<a.format>>
    ELSE <<EccId[a.type]>> \o Oid[a.curve] \o (IF a.format = {} THEN <<>> ELSE <<The(a.format)>>)

\* Historical bytes: the service data, the capabilities and the status, which one card
\* follows by zeros and has a status of its own; or, as a YubiKey Neo has it, capabilities
\* and then zeros, for a status as well.
IsHistory(h) ==
    /\ h \in [neo : BOOLEAN, padded : BOOLEAN, service : SUBSET Byte,
              caps : SUBSET Exactly(3), status : Byte]
    /\ AtMostOne(h.service) /\ AtMostOne(h.caps)
    /\ h.neo => h.service = {} /\ h.caps # {} /\ h.status = 0
    /\ \/ h.status \in {0, 3, 5}
       \/ h.status = 7 /\ h.service = {197} /\ h.caps = {<<192, 1, 128>>}

CardHistorical(h) ==
    IF h.neo THEN <<0, 115>> \o The(h.caps) \o Zeros(10)
    ELSE <<0>> \o (IF h.service = {} THEN <<>> ELSE <<49, The(h.service)>>)
         \o (IF h.caps = {} THEN <<>> ELSE <<115>> \o The(h.caps))
         \o <<h.status, 144, 0>> \o (IF h.padded THEN <<0, 0, 0, 0, 0>> ELSE <<>>)

\* Values of n octets for keys, and none for others
AreValues(v, keys, n) == v \in [keys -> SUBSET Exactly(n)] /\ \A k \in keys : AtMostOne(v[k])
NeverZero(v) == \A k \in DOMAIN v : \A o \in v[k] : \E i \in DOMAIN o : o[i] # 0

\* A card of version 2 says in its capabilities how long commands and responses are,
\* a later one has two modes in their place.  A card that attests has objects for the
\* key of the attestation, even if there is no such key.
IsContent(c) ==
    /\ c.aid \in [application : Byte, version : Exactly(2), manufacturer : Exactly(2),
                  serial : Exactly(4)]
    /\ c.aid.version[1] >= 2
    /\ IsHistory(c.history)
    /\ c.eli \in SUBSET [cmd : U16, rsp : U16] /\ AtMostOne(c.eli)
    /\ c.features \in Exactly(6) /\ c.modes \in [1..2 -> {0, 1}]
    /\ c.lengths \in [cmd : U16, rsp : U16]
    /\ c.status \in Exactly(7)
    /\ DOMAIN c.attributes = KeyType
    /\ \A kt \in KeyType :
        /\ \A a \in c.attributes[kt] : c.attributes[kt] = {a} /\ IsAttributes(a)
        /\ c.attributes[kt] = {} => kt = "Attestation"
    /\ AreValues(c.fingerprint, KeyType, 20) /\ NeverZero(c.fingerprint)
    /\ AreValues(c.time, KeyType, 4) /\ NeverZero(c.time)
    /\ AreValues(c.ca, Range(Basic), 20) /\ NeverZero(c.ca)
    /\ AreValues(c.uif, KeyType, 2)
    /\ c.wrapped \in BOOLEAN /\ c.attesting \in BOOLEAN
    /\ ~c.attesting => c.fingerprint["Attestation"] = {} /\ c.time["Attestation"] = {}

\* The value of a key, zeros if there is none; three of them
KeySlot(v, n) == IF v = {} THEN Zeros(n) ELSE The(v)
KeyInfo(v, n) ==
    KeySlot(v["Signing"], n) \o KeySlot(v["Decryption"], n) \o KeySlot(v["Authentication"], n)

CardAid(a) ==
    <<210, 118, 0, 1, 36, a.application>> \o a.version \o a.manufacturer \o a.serial \o <<0, 0>>
CardCapabilities(c) ==
    c.features \o BE16(c.lengths.cmd)
    \o IF c.aid.version[1] = 2 THEN BE16(c.lengths.rsp) ELSE c.modes
CardEli(e) == <<2, 2>> \o BE16(e.cmd) \o <<2, 2>> \o BE16(e.rsp)

\* The data objects of a card
CardData(c) ==
    LET attributes(kt)   == {CardAttributesOctets(a) : a \in c.attributes[kt]}
        attestation(v, n) == IF c.attesting THEN {KeySlot(v["Attestation"], n)} ELSE {}
    IN  [aid |-> {CardAid(c.aid)}, historical |-> {CardHistorical(c.history)},
         eli |-> {CardEli(e) : e \in c.eli},
         capabilities |-> {CardCapabilities(c)}, pwStatus |-> {c.status},
         fingerprints |-> {KeyInfo(c.fingerprint, 20)}, caFingerprints |-> {KeyInfo(c.ca, 20)},
         times |-> {KeyInfo(c.time, 4)},
         Signing |-> attributes("Signing"), Decryption |-> attributes("Decryption"),
         Authentication |-> attributes("Authentication"),
         Attestation |-> attributes("Attestation"),
         attestationFp |-> attestation(c.fingerprint, 20),
         attestationTime |-> attestation(c.time, 4),
         uifSigning |-> c.uif["Signing"], uifDecryption |-> c.uif["Decryption"],
         uifAuthentication |-> c.uif["Authentication"],
         uifAttestation |-> c.uif["Attestation"]]

\* ... one after the other, those which there are; some among the discretionary data.
Discretionary ==
    <<"capabilities", "Signing", "Decryption", "Authentication", "pwStatus", "fingerprints",
      "caFingerprints", "times", "Attestation", "attestationFp", "attestationTime",
      "uifSigning", "uifDecryption", "uifAuthentication", "uifAttestation">>
Object(d, f) == IF d[f] = {} THEN <<>> ELSE Do(TagOf[f], The(d[f]))
Objects(d) == FlattenSeq([i \in DOMAIN Discretionary |-> Object(d, Discretionary[i])])

\* Some cards repeat the tag 6E.
ArdOctets(d, wrapped) ==
    LET all == Object(d, "aid") \o Object(d, "historical") \o Object(d, "eli")
               \o Do(<<115>>, Objects(d))
    IN  IF wrapped THEN Do(<<110>>, all) ELSE all

\* What its CardCaps should be: a chip says more of itself with the extended
\* length information than with its capabilities; a padded or strange history
\* must not cost it the features it has.
CardCaps(c) ==
    LET lengths == IF c.eli # {} THEN The(c.eli)
                   ELSE IF c.aid.version[1] = 2 THEN c.lengths ELSE [cmd |-> 255, rsp |-> 255]
    IN  [chaining |-> \E o \in c.history.caps : o[3] >= 128,
         ext |-> \E o \in c.history.caps : o[3] % 128 >= 64,
         cmd |-> lengths.cmd, rsp |-> lengths.rsp,
         pw1 |-> c.status[2] % 128, pw3 |-> c.status[4] % 128]

DataAreRecovered(c) ==
    LET ard == The(ArdOf(ArdOctets(CardData(c), c.wrapped)))
    IN  /\ AidOf(ard) = {c.aid}
        /\ \A kt \in KeyType :
            /\ FingerprintOf(ard, kt) = c.fingerprint[kt]
            /\ TimeOf(ard, kt) = c.time[kt]
            /\ AttributesOf(ard, kt) = c.attributes[kt]
            /\ {TouchRequired(u) : u \in UifOf(ard, kt)} = {o[1] # 0 : o \in c.uif[kt]}
        /\ CaFingerprintsOf(ard) = {c.ca}
        /\ CapsOf(ard) = {CardCaps(c)}

\* Cards like those of the tests: with the keys and the objects that are given
CardKinds == {k \in [major : {2, 3}, keys : SUBSET KeyType, eli : BOOLEAN, attesting : BOOLEAN,
                     history : {"floss", "padded", "neo"}, wrapped : BOOLEAN] :
                "Attestation" \in k.keys => k.attesting}
CardOf(k) ==
    LET own(f) == [kt \in DOMAIN f |-> {f[kt] : x \in {kt} \cap k.keys}]
        print  == [Signing |-> Octets(20, 0), Decryption |-> Octets(20, 20),
                   Authentication |-> Octets(20, 40), Attestation |-> Octets(20, 60)]
        history(padded, service, caps, status) ==
            [neo |-> k.history = "neo", padded |-> padded, service |-> service, caps |-> caps,
             status |-> status]
    IN  [aid |-> [application |-> 1, version |-> <<k.major, 1>>, manufacturer |-> <<0, 6>>,
                  serial |-> <<1, 2, 3, 4>>],
         history |-> CASE k.history = "floss" -> history(FALSE, {245}, {<<192, 1, 96>>}, 5)
                       [] k.history = "padded" -> history(TRUE, {197}, {<<192, 1, 128>>}, 7)
                       [] OTHER -> history(FALSE, {}, {<<0, 0, 128>>}, 0),
         eli |-> {e \in {[cmd |-> 2047, rsp |-> 2048]} : k.eli},
         features |-> <<126, 0, 0, 64, 8, 0>>, modes |-> <<0, 1>>,
         lengths |-> [cmd |-> 2048, rsp |-> 254],
         status |-> <<0, 127, 127, 192, 3, 0, 3>>,
         attributes |-> [Signing |-> {Ecc("EdDSA", "Ed25519", {})},
                         Decryption |-> {Rsa(2048, 32, 0)},
                         Authentication |-> {Ecc("ECDSA", "BrainpoolP384r1", {255})},
                         Attestation |-> own([Attestation |-> Rsa(4096, 17, 2)]).Attestation],
         fingerprint |-> own(print),
         time |-> own([kt \in KeyType |-> SubSeq(print[kt], 1, 4)]),
         ca |-> own([kt \in Range(Basic) |-> print[kt]]),
         uif |-> [kt \in KeyType |-> IF kt = "Signing" THEN {<<0, 32>>}
                                     ELSE {<<1, 32>> : x \in {kt} \cap k.keys}],
         wrapped |-> k.wrapped, attesting |-> k.attesting]

-----------------------------------------------------------------------------
(* The list of algorithms.                                                 *)

\* Octets that begin no attributes the library knows
IsUnknown(octets) ==
    /\ octets \in Seq(Byte) /\ Len(octets) < 65536
    /\ \/ octets = <<>>
       \/ octets[1] # 1 /\ \A type \in EccType : octets[1] # EccId[type]
       \/ octets[1] # 1 /\ \A curve \in Curve : ~IsPrefix(Oid[curve], Tail(octets))

IsEntry(e) ==
    /\ e = [slot |-> e.slot, attributes |-> e.attributes] /\ e.slot \in KeyType
    /\ \/ IsAttributes(e.attributes)
       \/ e.attributes = Unknown(e.attributes.octets) /\ IsUnknown(e.attributes.octets)

EntryOctets(e) == Do(<<ListTag[e.slot]>>,
                     IF e.attributes.kind = "unknown" THEN e.attributes.octets
                     ELSE CardAttributesOctets(e.attributes))
ListOctets(list) == FlattenSeq([i \in DOMAIN list |-> EntryOctets(list[i])])
CardList(list, wrapped) ==
    IF wrapped THEN Do(<<250>>, ListOctets(list)) ELSE ListOctets(list)

\* A list that a card can send
IsList(l) ==
    /\ l.list \in Seq(Range(l.list)) /\ \A e \in Range(l.list) : IsEntry(e)
    /\ Len(ListOctets(l.list)) < 65536 /\ l.wrapped \in BOOLEAN

ListIsRecovered(l) == AlgorithmInformation(CardList(l.list, l.wrapped)) = {l.list}

\* Attributes in lists of real cards, of P-256 with a format, and of a curve
\* the library does not know.
ListedAttributes == {Rsa(2048, 32, 0), Ecc("ECDH", "Curve25519", {}),
                     Ecc("ECDSA", "NistP256r1", {255}), Unknown(<<19, 1, 2, 3>>)}
Listed == [slot : {"Signing", "Attestation"}, attributes : ListedAttributes]
ListKinds == [list : UNION {[1..n -> Listed] : n \in 0..3}, wrapped : BOOLEAN]

\* data.rs:44-281, mod.rs:142-208, data/*.rs: from the application related data,
\* whichever way the card writes them, the accessors give back every key's own
\* fingerprint, time, attributes and touch policy, none where there is no key,
\* and the transport the capabilities of the card; and algo_info.rs:40-95: from
\* the list of algorithms each entry in its order, whichever of the two forms a
\* card uses, and an entry nobody knows does not hide those behind it.
CardIsRecovered ==
    /\ sample.what = "card" => DataAreRecovered(sample.value)
    /\ sample.what = "list" => ListIsRecovered(sample.value)

-----------------------------------------------------------------------------
(* Objects that the library writes as well.                                *)

\* A KDF-DO, any field of which but the first may be missing
IsKdfDo(k) ==
    /\ k \in [Range(KdfFields) -> SUBSET Seq(Byte)]
    /\ k.algo # {}
    /\ \A f \in DOMAIN k : \A v \in k[f] :
        /\ k[f] = {v}
        /\ Len(v) < 65536
        /\ f \in DOMAIN KdfSize => Len(v) = KdfSize[f]

\* ... here with and without salts and an iteration count
KdfDos == {[f \in Range(KdfFields) |->
                CASE f = "algo" -> {<<algo>>}
                  [] f = "hash" -> {<<8>>}
                  [] f = "count" -> count
                  [] f \in salts -> {Octets(8, 5)}
                  [] OTHER -> {}] :
            algo \in {0, 3}, salts \in SUBSET {"Pw1", "Rc", "Pw3"}, count \in {{}, {<<3, 0, 0, 0>>}}}
KdfIsRead(k) == KdfDoOf(KdfOctets(k)) = {k}

\* PW status bytes: whether a PIN is good for one signature, three lengths, three counters
StatusBytes == {<<once, pw1, 127, pw3, 3, 0, 3>> : once \in {0, 1}, pw1 \in {32, 127, 160}, pw3 \in {64, 192}}
IsStatus(octets) == octets \in Seq(Byte) /\ Len(octets) = 7 /\ octets[1] \in {0, 1}
StatusIsRead(octets) ==
    \A long \in BOOLEAN :
        {PutPwStatus(p, long) : p \in PwStatus(octets)} = {Take(octets, IF long THEN 4 ELSE 1)}

\* Attributes that can be sent: of ECC without a format.
RsaAttributes(N, E, F) == {Rsa(n, e, format) : n \in N, e \in E, format \in F}
EccAttributes == {Ecc(type, curve, {}) : type \in EccType, curve \in Curve}
WrittenAttributes == RsaAttributes({2048, 4096}, {17, 32, 255}, 0..3) \cup EccAttributes
AttributesAreRead(a) == Complete(ParseAttributes(AttributesOctets(a))) = {a}

\* What the library writes, it reads: a tree of TLVs (tlv.rs:32-80), a KDF-DO
\* (kdf_do.rs; set_kdf_do sends it without its outer tag), the PW status bytes
\* (pw_status.rs) but for the counters, and algorithm attributes
\* (algorithm.rs:245-283) but for the format of an ECC key and for an RSA
\* exponent of more than eight bits.
WrittenObjectsAreRead ==
    /\ sample.what = "tree" => TreeIsRead(sample.value)
    /\ sample.what = "kdf" => KdfIsRead(sample.value)
    /\ sample.what = "status" => StatusIsRead(sample.value)
    /\ sample.what = "attributes" => AttributesAreRead(sample.value)

-----------------------------------------------------------------------------
(* Import of an RSA key: the attributes of the slot, and the lengths of    *)
(* the numbers of the key.                                                 *)

\* The primes have half the length of the modulus each, and the exponent fits into the
\* length that the card gives it, less than 128 octets (keys.rs:440 expects 3 or 4):
\* a longer one would need a length field of more than an octet.
IsImport(v) ==
    /\ v.a \in [kind : {"rsa"}, n : U16, e : 0..1016, format : Byte]
    /\ v.k \in [n : U16, e : Nat, p : Nat, q : Nat, pq : U16, dp1 : U16, dq1 : U16]
    /\ 16 * v.k.p \in (v.a.n - 15)..v.a.n /\ v.k.q = v.k.p
    /\ 8 * v.k.e <= v.a.e + 7

Imports ==
    {[a |-> Rsa(RsaBits(n), e, format),
      k |-> [n |-> n, e |-> len, p |-> RsaBits(n) \div 16, q |-> RsaBits(n) \div 16,
             pq |-> 128, dp1 |-> 127, dq1 |-> 128]] :
        n \in {253, 255, 256, 511, 512}, len \in 1..4, e \in {32, 33, 1016}, format \in 0..3}
        \cup {[a |-> Rsa(2048, 17, 0),
               k |-> [n |-> 256, e |-> 3, p |-> 128, q |-> 128, pq |-> 128, dp1 |-> 127, dq1 |-> 128]]}

\* keys.rs:418-513: whatever the format and the length of the exponent the card asks
\* for, the parts of an RSA key are sent in the order in which they are announced, and
\* a card that reads the octets of a length, in one, two or three octets, finds there
\* the length of what is sent, and nothing left over.
IsLengthField(octets, n) == ParseLength(octets) = [octets |-> Len(octets), value |-> n]
ImportFits(v) ==
    LET announced == RsaAnnounced(v.a, v.k)
        sent      == RsaSent(v.a, v.k)
    IN  /\ DOMAIN announced = DOMAIN sent
        /\ \A i \in DOMAIN sent : /\ announced[i].part = sent[i].part
                                  /\ IsLengthField(announced[i].length, sent[i].length)
ImportIsWellFormed == sample.what = "rsa" => ImportFits(sample.value)

-----------------------------------------------------------------------------
(* Hashing of PINs: lengths of the salt and of the PIN, and the count.     *)

\* itersalt refuses a count that does not cover salt and PIN once; without either of
\* them it would not end.
IsHash(k) ==
    /\ k \in [salt : Nat, pin : Nat, count : Nat]
    /\ k.salt + k.pin \in 1..k.count
Hashes == {k \in [salt : 0..3, pin : 0..3, count : 1..9] : IsHash(k)}

Repeated(s, p, c) == [i \in 1..c |-> (Salt(s) \o Word(p))[((i - 1) % (s + p)) + 1]]

\* kdf.rs:92-169: what itersalt hashes is salt and PIN repeated, cut off after
\* exactly `count` octets, wherever that is.
HashIsExact(k) == HashedOctets(k.salt, k.pin, k.count) = Repeated(k.salt, k.pin, k.count)
HashesExactly == sample.what = "hash" => HashIsExact(sample.value)

-----------------------------------------------------------------------------
NoSample == [what |-> "none", value |-> {}]

Samples ==
    Sample("card", {CardOf(k) : k \in CardKinds}) \cup Sample("list", ListKinds)
        \cup Sample("tree", Tlvs) \cup Sample("kdf", KdfDos)
        \cup Sample("status", StatusBytes) \cup Sample("attributes", WrittenAttributes)
        \cup Sample("rsa", Imports) \cup Sample("hash", Hashes)
=============================================================================
