------------------------------- MODULE MCApdu -------------------------------
(* Instances of module Apdu for TLC.                                       *)
EXTENDS ApduProps

C(e, c, maxCmd, maxRsp) == [ext |-> e, chain |-> c, cmd |-> maxCmd, rsp |-> maxRsp]

\* No CardCaps yet (the defaults); a card with short APDUs and chaining; one
\* with neither extended length nor chaining but room; one that chains extended
\* APDUs; one that has them but does not chain; one that announces little room;
\* all of them as ScdBackend limits them.
VariousCaps == {ScdLimit(c) : c \in {
    C(FALSE, FALSE, 255, 255), C(FALSE, TRUE, 255, 255), C(FALSE, FALSE, 512, 512),
    C(TRUE, TRUE, 1024, 1024), C(TRUE, FALSE, 1024, 1024), C(TRUE, TRUE, 100, 100)}}

\* A card that chains extended APDUs, on a PC/SC reader
ExtendedCaps == {C(TRUE, TRUE, 1024, 1024)}
=============================================================================
