----------------------------- MODULE MCMonitor -----------------------------
(* Instances of module Monitor for TLC.                                    *)
EXTENDS MonitorProps, TLC


CONSTANTS r1, r2, desktop, laptop, stranger, nDesktop, nSpare, nLaptop

\* Every card shows up under every reader name.
AnyCardAnywhere == [r \in Reader |-> Card]

\* Which reader is which then makes no difference.
ReaderSymmetry == Permutations(Reader)

\* Two products: each card has its own reader name.
OwnReader == [r \in Reader |-> IF r = r1 THEN {desktop} ELSE {laptop}]

\* The configured card has its own reader name, so has the unrelated one.
StrangerApart == [r \in Reader |-> IF r = r1 THEN {desktop} ELSE {stranger}]

TwoCards == [n \in Nick |-> IF n = nDesktop THEN desktop ELSE laptop]

\* The same, and a second nickname for the desktop card.
OneCardTwice == [n \in Nick |-> IF n = nLaptop THEN laptop ELSE desktop]

\* config.yml: the desktop card has priority 1, the other none.
DesktopFirst == [n \in Nick |-> IF n = nDesktop THEN 1 ELSE None]
=============================================================================
