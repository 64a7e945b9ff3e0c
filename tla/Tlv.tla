--------------------------------- MODULE Tlv ---------------------------------
(***************************************************************************)
(* TLV data structures (openpgp-card/src/ocard/tlv.rs, tlv/tag.rs,         *)
(* tlv/value.rs): a tag, and a value that is either simple (octets) or     *)
(* constructed (a list of TLVs).                                           *)
(*                                                                         *)
(* With a TLV goes what follows from it: the octets that its value is      *)
(* serialized to, and the TLVs below it in the order in which `find` comes *)
(* to them.  A result that may be missing, or an Err, is a set with one    *)
(* element or none.                                                        *)
(***************************************************************************)
EXTENDS TlvLength, SequencesExt

Bit(octet, n) == (octet \div 2^n) % 2 = 1
Drop(s, n) == SubSeq(s, n + 1, Len(s))
Take(s, n) == SubSeq(s, 1, n)

\* Tlv::serialize; the length is cut to sixteen bits.
SerializeTlv(t) == t.tag \o EncodeLength(Len(t.octets) % 65536) \o t.octets

\* Value::serialize of a constructed value
SerializeAll(inner) == FlattenSeq([i \in DOMAIN inner |-> SerializeTlv(inner[i])])

SimpleTlv(tag, octets) ==
    [tag |-> tag, simple |-> TRUE, octets |-> octets, inner |-> <<>>, below |-> <<>>]
ConstructedTlv(tag, inner) ==
    [tag |-> tag, simple |-> FALSE, octets |-> SerializeAll(inner), inner |-> inner,
     below |-> FlattenSeq([i \in DOMAIN inner |-> <<inner[i]>> \o inner[i].below])]

-----------------------------------------------------------------------------
\* The parser `tag`: how many octets it has, none if the input does not begin with one
TagOctets(in) ==
    IF in = <<>> THEN 0
    ELSE IF in[1] % 32 # 31 THEN 1
    ELSE LET last == {i \in 2..Len(in) : in[i] < 128}
         IN  IF Len(in) >= 2 /\ in[2] % 128 # 0 /\ last # {} THEN Min(last) ELSE 0

IsConstructed(tag) == tag # <<>> /\ Bit(tag[1], 5)

\* The tag at the head of the input, the octets of its value, and what follows.
Split(in) ==
    LET tag    == Take(in, TagOctets(in))
        length == ParseLength(Drop(in, Len(tag)))
        head   == Len(tag) + length.octets
    IN  IF tag = <<>> \/ length.octets = 0 \/ head + length.value > Len(in) THEN {}
        ELSE {[tag |-> tag, octets |-> SubSeq(in, head + 1, head + length.value),
               rest |-> Drop(in, head + length.value)]}

\* The TLV made of a part, `parse` being Value::parse of a constructed value.
TlvOf(part, parse) ==
    IF IsConstructed(part.tag)
    THEN {ConstructedTlv(part.tag, inner) : inner \in parse[part.octets]}
    ELSE {SimpleTlv(part.tag, part.octets)}

\* Value::parse of a constructed value
ParseList[in \in Seq(Byte)] ==
    IF in = <<>> THEN {<<>>}
    ELSE UNION {{<<t>> \o others : t \in TlvOf(part, ParseList), others \in ParseList[part.rest]} :
                    part \in Split(in)}

\* Tlv::try_from: nothing may follow.
TryTlv(in) == UNION {TlvOf(part, ParseList) : part \in {p \in Split(in) : p.rest = <<>>}}

\* Tlv::find: the first TLV with the tag, beginning with t itself
Find(t, tag) ==
    LET all == <<t>> \o t.below
        at  == {i \in DOMAIN all : all[i].tag = tag}
    IN  IF at = {} THEN {} ELSE {all[Min(at)]}
=============================================================================
