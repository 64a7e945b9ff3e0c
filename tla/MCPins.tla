------------------------------- MODULE MCPins -------------------------------
(* Instances of module CardPins for TLC.                                   *)
EXTENDS PinsProps

CONSTANTS p1, p2

\* Every PIN of a new card
SamePin == [pt \in PinType |-> p1]

K(a, h, e, s) == [algo |-> a, hash |-> h, enough |-> e, salts |-> s]

\* None; a salt for each PIN; one salt only, or switched off but still there
KdfKinds == {NoKdf, K(3, "sha256", TRUE, PinType), K(3, "sha512", TRUE, {"Pw1"}),
             K(0, "sha256", TRUE, PinType)}
=============================================================================
