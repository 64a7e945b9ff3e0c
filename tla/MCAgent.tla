------------------------------ MODULE MCAgent ------------------------------
(* Instances of module Agent for TLC.                                      *)
EXTENDS AgentProps, TLC

CONSTANTS r1, r2, desktop, laptop, stranger, nDesktop, nLaptop, mainKey, p1, p2

AnyCardAnywhere == [r \in Reader |-> Card]
OwnReader == [r \in Reader |-> IF r = r1 THEN {desktop} ELSE {laptop}]
StrangerApart == [r \in Reader |-> IF r = r1 THEN {desktop} ELSE {stranger}]
TwoCards == [n \in Nick |-> IF n = nDesktop THEN desktop ELSE laptop]
DesktopFirst == [n \in Nick |-> IF n = nDesktop THEN 1 ELSE None]

\* config.yml: every card has the common_pin "main".
Shared == [n \in Nick |-> mainKey]
\* No common_pin: the PIN is cached under the ident.
Separate == [n \in Nick |-> None]

OnePinForAll == [c \in Card |-> p1]
PinsDiffer == [c \in Card |-> IF c = desktop THEN p1 ELSE p2]

\* Which client is which makes no difference to the agent.
ClientSymmetry == Permutations(Client)

ForOne == {{desktop}}
ForEither == {{desktop}, {laptop}}
=============================================================================
