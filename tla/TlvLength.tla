------------------------------ MODULE TlvLength ------------------------------
(***************************************************************************)
(* The length field of a TLV: tlv_encode_length and the parser `length`    *)
(* (openpgp-card/src/ocard/tlv/length.rs).                                 *)
(***************************************************************************)
EXTENDS Integers, Sequences

Byte == 0..255
U16 == 0..65535

\* Mutated form: 128 is taken for a short length.
EncodeLengthLate(n) ==
    IF n > 255 THEN <<130, n \div 256, n % 256>>
    ELSE IF n > 128 THEN <<129, n>>
    ELSE <<n>>
EncodeLength(n) ==
    IF n > 255 THEN <<130, n \div 256, n % 256>>
    ELSE IF n > 127 THEN <<129, n>>
    ELSE <<n>>

\* How many octets the field has, none if there is no such field, and the length.
ParseLength(in) ==
    IF Len(in) >= 1 /\ in[1] < 128 THEN [octets |-> 1, value |-> in[1]]
    ELSE IF Len(in) >= 2 /\ in[1] = 129 THEN [octets |-> 2, value |-> in[2]]
    ELSE IF Len(in) >= 3 /\ in[1] = 130
    THEN [octets |-> 3, value |-> 256 * in[2] + in[3]]
    ELSE [octets |-> 0, value |-> 0]

=============================================================================
