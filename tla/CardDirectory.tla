--------------------------- MODULE CardDirectory ---------------------------
(***************************************************************************)
(* What known_cards promises to whoever asks it for a card: at every       *)
(* address at most one card is on offer and every card is on offer at most *)
(* once; an address that offers a card stops offering it before it offers  *)
(* another; and while a reader of the directory holds it, nothing moves.   *)
(***************************************************************************)
CONSTANTS
    Address,   \* where a card can be
    Ident,     \* the cards
    Nobody     \* no card: no member of Ident

VARIABLES
    offer,   \* offer[a]: the card on offer at address a, or Nobody
    held     \* somebody is reading the directory

dvars == <<offer, held>>

DirectoryInit ==
    /\ offer = [a \in Address |-> Nobody]
    /\ held = FALSE

\* A card is offered at an address that offers none; wherever it was on offer
\* before, it is not any more.
Appear(a, c) ==
    /\ ~held
    /\ offer[a] = Nobody
    /\ offer' = [b \in Address |-> IF b = a THEN c
                                   ELSE IF offer[b] = c THEN Nobody
                                   ELSE offer[b]]
    /\ UNCHANGED held

Vanish(a) ==
    /\ ~held
    /\ offer' = [offer EXCEPT ![a] = Nobody]
    /\ UNCHANGED held

Hold ==
    /\ ~held
    /\ held' = TRUE
    /\ UNCHANGED offer

Release ==
    /\ held
    /\ held' = FALSE
    /\ UNCHANGED offer

\* The process that keeps the directory ends.
Forget ==
    /\ offer' = [a \in Address |-> Nobody]
    /\ held' = FALSE

DirectoryNext ==
    \/ \E a \in Address : Vanish(a) \/ \E c \in Ident : Appear(a, c)
    \/ Hold \/ Release \/ Forget

DirectorySpec == DirectoryInit /\ [][DirectoryNext]_dvars
=============================================================================
