----------------------------- MODULE KnownCards -----------------------------
(***************************************************************************)
(* `known_cards`, the RwLock<Vec<Card>> both threads of the agent share:   *)
(* the configured cards, the reader each was last seen in and whether it   *)
(* is available there (src/src/lib.rs, config.rs, main.rs).                *)
(*                                                                         *)
(* A record is named by its nickname.  The vector is kept as the set of    *)
(* nicknames still in it and a rank for each: the order in which the       *)
(* HashMap of the configuration happened to be iterated.  Records only     *)
(* ever leave the vector, by Vec::retain, which keeps the order.           *)
(***************************************************************************)
EXTENDS PcscWorld

CONSTANTS
    Nick,        \* nicknames in config.yml
    ConfIdent,   \* ConfIdent[n]: the ident configured for n
    Priority     \* Priority[n]: the priority configured for n, or None

ASSUME ConfigAssumption ==
    /\ IsFiniteSet(Nick)
    /\ ConfIdent \in [Nick -> Card]
    /\ Priority \in [Nick -> Nat \cup {None}]
    /\ None \notin Nat

VARIABLES
    known,     \* nicknames of the records still in the vector
    rank,      \* rank[n]: position of n in the HashMap's iteration
    addr,      \* addr[n]: pcsc_address of the record (None outside known)
    cstate     \* cstate[n]: state of the record ("Unavailable" outside known)

dirVars == <<known, rank, addr, cstate>>

\* The orders in which a HashMap with these keys can be iterated.
Order == {f \in [Nick -> 1..Cardinality(Nick)] :
            \A m, n \in Nick : f[m] = f[n] => m = n}

DirTypeOK ==
    /\ known \subseteq Nick
    /\ rank \in Order
    /\ addr \in [Nick -> Reader \cup {None}]
    /\ cstate \in [Nick -> {"Unavailable", "Ready"}]

Ready(n) == n \in known /\ cstate[n] = "Ready"

\* init_known_cards: every configured card, none of them seen yet.
InitKnownCards ==
    /\ known = Nick
    /\ rank \in Order
    /\ addr = [n \in Nick |-> None]
    /\ cstate = [n \in Nick |-> "Unavailable"]

\* The first record of S in the order of the vector.
First(S) == CHOOSE n \in S : \A m \in S : rank[n] <= rank[m]
FirstOf(S) == IF S = {} THEN {} ELSE {First(S)}

\* add_card stops at the first record configured for ident c.
\* Mutated form: no break, so that every record of the ident is hit.
ArrivalHitsAll(c) == {n \in known : ConfIdent[n] = c}
ArrivalHits(c) == FirstOf({n \in known : ConfIdent[n] = c})

\* remove_card stops at the first record with the address r.
\* Mutated form: it does not compare addresses.
RemovalHitsAny(r) == FirstOf(known)
RemovalHits(r) == FirstOf({n \in known : addr[n] = r})

\* The retain of add_card, with the address a the record n has by then.
\* Mutated form: nothing is thrown out.
IsKeptAlways(n, a, c, r) == TRUE
IsKept(n, a, c, r) == ~(a = r /\ ConfIdent[n] # c)

\* add_card: the record becomes Ready at r, and every record at the address r
\* that is configured for another ident goes.
AddCard(c, r) ==
    LET hit   == ArrivalHits(c)
        addr1 == [n \in Nick |-> IF n \in hit THEN r ELSE addr[n]]
        kept  == {n \in known : IsKept(n, addr1[n], c, r)}
    IN  /\ known' = kept
        /\ addr' = [n \in Nick |-> IF n \in kept THEN addr1[n] ELSE None]
        /\ cstate' = [n \in Nick |->
                        IF n \notin kept THEN "Unavailable"
                        ELSE IF n \in hit THEN "Ready" ELSE cstate[n]]
        /\ UNCHANGED rank

\* remove_card: the record becomes Unavailable.  It keeps the address.
RemoveCard(r) ==
    /\ cstate' = [n \in Nick |->
                    IF n \in RemovalHits(r) THEN "Unavailable" ELSE cstate[n]]
    /\ UNCHANGED <<known, rank, addr>>

PriorityKey(n) == IF Priority[n] = None THEN 999 ELSE Priority[n]

\* best_card_for_decrypt: of the Ready records, the first of those with the
\* smallest priority; the choice is meaningful only if one is Ready.
BestCards ==
    {n \in known : /\ cstate[n] = "Ready"
                   /\ \A m \in known : cstate[m] = "Ready" =>
                        \/ PriorityKey(n) < PriorityKey(m)
                        \/ /\ PriorityKey(n) = PriorityKey(m)
                           /\ rank[n] <= rank[m]}
=============================================================================
