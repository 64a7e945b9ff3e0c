------------------------------ MODULE Itersalt ------------------------------
(***************************************************************************)
(* The octets that itersalt (openpgp-card/src/ocard/kdf.rs) feeds to the   *)
(* hash algorithm, for a salt of s octets, a PIN of p and a count of c.    *)
(***************************************************************************)
EXTENDS Integers, Sequences

Salt(s) == [i \in 1..s |-> <<"salt", i>>]
Word(p) == [i \in 1..p |-> <<"pin", i>>]

\* Salt and PIN once in full, then by turns until `left` octets are used up.
\* Mutated form: the last, partial piece is left out.
HashedOctetsWhole(s, p, c) ==
    LET rest[at \in (0..c) \X {"salt", "pin"}] ==
            LET left  == at[1]
                piece == IF at[2] = "salt" THEN Salt(s) ELSE Word(p)
                next  == IF at[2] = "salt" THEN "pin" ELSE "salt"
            IN  IF left >= Len(piece)
                THEN piece \o rest[<<left - Len(piece), next>>]
                ELSE <<>>
    IN  Salt(s) \o Word(p) \o rest[<<c - s - p, "salt">>]
HashedOctets(s, p, c) ==
    LET rest[at \in (0..c) \X {"salt", "pin"}] ==
            LET left  == at[1]
                piece == IF at[2] = "salt" THEN Salt(s) ELSE Word(p)
                next  == IF at[2] = "salt" THEN "pin" ELSE "salt"
            IN  IF left >= Len(piece)
                THEN piece \o rest[<<left - Len(piece), next>>]
                ELSE SubSeq(piece, 1, left)
    IN  Salt(s) \o Word(p) \o rest[<<c - s - p, "salt">>]
=============================================================================
