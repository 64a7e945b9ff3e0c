----------------------------- MODULE Algorithms -----------------------------
(***************************************************************************)
(* Algorithm attributes and how the library chooses them: AlgoSimple and   *)
(* AlgorithmAttributes (openpgp-card/src/ocard/algorithm.rs), the list of  *)
(* algorithms (data/algo_info.rs), and determine_rsa_attrs,                *)
(* determine_ecc_attrs and the key import commands (ocard/keys.rs).        *)
(***************************************************************************)
EXTENDS TlvLength

KeyType == {"Signing", "Decryption", "Authentication", "Attestation"}

Oid == [NistP256r1 |-> <<42, 134, 72, 206, 61, 3, 1, 7>>,
        NistP384r1 |-> <<43, 129, 4, 0, 34>>,
        NistP521r1 |-> <<43, 129, 4, 0, 35>>,
        BrainpoolP256r1 |-> <<43, 36, 3, 3, 2, 8, 1, 1, 7>>,
        BrainpoolP384r1 |-> <<43, 36, 3, 3, 2, 8, 1, 1, 11>>,
        BrainpoolP512r1 |-> <<43, 36, 3, 3, 2, 8, 1, 1, 13>>,
        Secp256k1 |-> <<43, 129, 4, 0, 10>>,
        Ed25519 |-> <<43, 6, 1, 4, 1, 218, 71, 15, 1>>,
        Curve25519 |-> <<43, 6, 1, 4, 1, 151, 85, 1, 5, 1>>,
        Ed448 |-> <<43, 101, 113>>,
        X448 |-> <<43, 101, 111>>]
Curve == DOMAIN Oid
EccType == {"EdDSA", "ECDH", "ECDSA"}

\* AlgorithmAttributes; the format of an ECC key is None or one octet.
Rsa(n, e, format) == [kind |-> "rsa", n |-> n, e |-> e, format |-> format]
Ecc(type, curve, format) ==
    [kind |-> "ecc", type |-> type, curve |-> curve, format |-> format]
Unknown(octets) == [kind |-> "unknown", octets |-> octets]

\* What a key, or an AlgoSimple, asks for
WantRsa(bits) == [kind |-> "rsa", bits |-> bits]
WantEcc(type, curve) == [kind |-> "ecc", type |-> type, curve |-> curve]

-----------------------------------------------------------------------------
(* AlgoSimple.                                                             *)

Bits == [RSA1k |-> 1024, RSA2k |-> 2048, RSA3k |-> 3072, RSA4k |-> 4096]
Nist == [NIST256 |-> "NistP256r1", NIST384 |-> "NistP384r1", NIST521 |-> "NistP521r1"]
AlgoSimple == DOMAIN Bits \cup DOMAIN Nist \cup {"Curve25519"}

\* ecc_type, ecc_type_25519, curve_for_25519
SimpleEcc(slot, curve) ==
    IF curve # "Curve25519"
    THEN WantEcc(IF slot = "Decryption" THEN "ECDH" ELSE "ECDSA", curve)
    ELSE IF slot = "Decryption" THEN WantEcc("ECDH", "Curve25519")
    ELSE WantEcc("EdDSA", "Ed25519")

\* determine_algo_attributes, up to determine_rsa_attrs or determine_ecc_attrs
Simple(algo, slot) ==
    IF algo \in DOMAIN Bits THEN WantRsa(Bits[algo])
    ELSE SimpleEcc(slot, IF algo \in DOMAIN Nist THEN Nist[algo] ELSE algo)

-----------------------------------------------------------------------------
(* A list of algorithms: a sequence of a slot and attributes each.  What   *)
(* may be missing, the list, or an answer, is a set of one element or none.*)

\* for_keytype, as the places in the list.
ForKeyType(list, slot) == {i \in DOMAIN list : list[i].slot = slot}

\* card_algo_rsa takes the last match, check_card_algo_ecc the first.
\* Mutated form: the first, of RSA too.
CardAlgoRsaFirst(list, slot, bits) ==
    LET found == {i \in ForKeyType(list, slot) :
                    list[i].attributes.kind = "rsa" /\ list[i].attributes.n = bits}
    IN  {list[i].attributes : i \in {j \in found : \A k \in found : j <= k}}
CardAlgoRsa(list, slot, bits) ==
    LET found == {i \in ForKeyType(list, slot) :
                    list[i].attributes.kind = "rsa" /\ list[i].attributes.n = bits}
    IN  {list[i].attributes : i \in {j \in found : \A k \in found : k <= j}}
CardAlgoEcc(list, slot, curve) ==
    LET found == {i \in ForKeyType(list, slot) :
                    list[i].attributes.kind = "ecc" /\ list[i].attributes.curve = curve}
    IN  {list[i].attributes : i \in {j \in found : \A k \in found : j <= k}}

\* determine_rsa_attrs: without a list, the current attributes are adjusted, or,
\* if these are not of RSA, some are guessed.
DetermineRsa(bits, slot, current, lists) ==
    IF lists # {} THEN UNION {CardAlgoRsa(list, slot, bits) : list \in lists}
    ELSE IF current.kind = "rsa" THEN {Rsa(bits, current.e, current.format)}
    ELSE {Rsa(bits, 32, 0)}

\* determine_ecc_attrs: of the list, its curves and formats count.
DetermineEcc(type, curve, slot, lists) ==
    IF lists = {} THEN {Ecc(type, curve, {})}
    ELSE UNION {{Ecc(type, curve, a.format) : a \in CardAlgoEcc(list, slot, curve)} :
                    list \in lists}

Determine(want, slot, current, lists) ==
    IF want.kind = "rsa" THEN DetermineRsa(want.bits, slot, current, lists)
    ELSE DetermineEcc(want.type, want.curve, slot, lists)

-----------------------------------------------------------------------------
(* The key import commands: the parts that are announced, each with the    *)
(* octets of its length, and those that are sent, each with its length.    *)

\* The length of the modulus, in bits, of a modulus of so many octets.
RsaBits(octets) == (((octets * 8 + 31) \div 32) * 32) % 65536

\* The octets of the exponent, of u16 and then u8.
ExponentLength(a) == (((a.e + 7) % 65536) \div 8) % 256

\* Of k, an RSA key: the lengths of its numbers.  That of the exponent is an octet as
\* it is; a prime is announced with half the length of the modulus.
KeyPart(name, length) == [part |-> name, length |-> length]
RsaAnnounced(a, k) ==
    LET field(name) == KeyPart(name, EncodeLength(k[name] % 65536))
        half(name)  == KeyPart(name, EncodeLength(a.n \div 16))
    IN  <<KeyPart("e", <<ExponentLength(a)>>), half("p"), half("q")>>
        \o (IF a.format \in {2, 3} THEN <<field("pq"), field("dp1"), field("dq1")>> ELSE <<>>)
        \o (IF a.format \in {1, 3} THEN <<field("n")>> ELSE <<>>)

\* Mutated form: the exponent is not padded.
RsaSentUnpadded(a, k) ==
    LET sent(name) == KeyPart(name, k[name])
    IN  <<sent("e"), sent("p"), sent("q")>>
        \o (IF a.format \in {2, 3} THEN <<sent("pq"), sent("dp1"), sent("dq1")>> ELSE <<>>)
        \o (IF a.format \in {1, 3} THEN <<sent("n")>> ELSE <<>>)
RsaSent(a, k) ==
    LET sent(name) == KeyPart(name, k[name])
        e == IF ExponentLength(a) > k.e THEN ExponentLength(a) ELSE k.e
    IN  <<KeyPart("e", e), sent("p"), sent("q")>>
        \o (IF a.format \in {2, 3} THEN <<sent("pq"), sent("dp1"), sent("dq1")>> ELSE <<>>)
        \o (IF a.format \in {1, 3} THEN <<sent("n")>> ELSE <<>>)
=============================================================================
