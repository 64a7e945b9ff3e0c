---------------------------- MODULE PcscSessions ----------------------------
(***************************************************************************)
(* One card, and the programs that use it through the PC/SC backend        *)
(* (pcsc/src/lib.rs) and OpenPGP::new and OpenPGP::transaction             *)
(* (openpgp-card/src/ocard/mod.rs): connecting, starting a transaction     *)
(* with a reconnect when the card was reset, selecting the OpenPGP         *)
(* application again, ending it, letting go of the card.  A foreign        *)
(* program takes transactions as well, selects an application of its own   *)
(* and may reset the card.                                                 *)
(*                                                                         *)
(* PC/SC tells every handle to the card once that the card was reset by    *)
(* somebody else; a card is reset by a reconnect with this disposition and *)
(* by the end of a connection (so the `pcsc` crate drops it).              *)
(***************************************************************************)
EXTENDS Integers

CONSTANTS
    Program,     \* processes that use the library
    MaxForeign   \* bound on the transactions of the foreign program

ASSUME SessionsAssumption ==
    /\ "foreign" \notin Program /\ "free" \notin Program
    /\ MaxForeign \in Nat

VARIABLES
    applet,      \* the application selected: "none", "openpgp", "other"
    holder,      \* who holds the transaction: a program, "foreign", "free"
    told,        \* programs whose next call gets SCARD_W_RESET_CARD
    at,          \* at[p]: where program p is
    purpose,     \* purpose[p]: of the transaction: "init", "new", "use"
    opened,      \* programs that have selected the application once
    wasReset,    \* programs whose transaction says it was_reset
    lost,        \* history: programs since whose last transaction the card was reset
    failed,      \* history: programs that could not select again after a reset
    left,        \* history: the foreign program left its application selected
    foreign      \* history: transactions of the foreign program

progVars == <<at, purpose, opened>>
sessionVars == <<applet, holder, told, progVars, wasReset, lost, failed, left, foreign>>

SessionsTypeOK ==
    /\ applet \in {"none", "openpgp", "other"}
    /\ holder \in Program \cup {"foreign", "free"}
    /\ at \in [Program -> {"away", "begin", "reconnect", "reselect", "in", "idle"}]
    /\ purpose \in [Program -> {"init", "new", "use"}]
    /\ told \subseteq Program /\ opened \subseteq Program /\ wasReset \subseteq Program
    /\ lost \subseteq Program /\ failed \subseteq Program
    /\ left \in BOOLEAN /\ foreign \in 0..MaxForeign
    /\ \A p \in Program : holder = p <=> at[p] \in {"reselect", "in"}
    /\ \A p \in told : at[p] # "away"

SessionsInit ==
    /\ applet \in {"none", "openpgp", "other"}
    /\ holder = "free"
    /\ at = [p \in Program |-> "away"] /\ purpose = [p \in Program |-> "init"]
    /\ told = {} /\ opened = {} /\ wasReset = {} /\ lost = {} /\ failed = {}
    /\ left = FALSE /\ foreign = 0

Connected == {p \in Program : at[p] # "away"}

\* The card is reset by p or the foreign program, who have not to be told.
ResetCard(who) ==
    /\ applet' = "none" /\ left' = FALSE
    /\ told' = (told \cup Connected) \ who
    /\ lost' = lost \cup Connected

-----------------------------------------------------------------------------
(* A transaction.                                                          *)

\* PcscTransaction::new
StartTransaction(p, why) ==
    /\ at' = [at EXCEPT ![p] = "begin"]
    /\ purpose' = [purpose EXCEPT ![p] = why]
    /\ wasReset' = wasReset \ {p}

\* raw_pcsc_cards, then initialize_card
Connect(p) ==
    /\ at[p] = "away"
    /\ StartTransaction(p, "init")
    /\ lost' = lost \ {p} /\ failed' = failed \ {p}
    /\ UNCHANGED <<applet, holder, told, opened, left, foreign>>

\* OpenPGP::transaction, for OpenPGP::new first
Transaction(p) ==
    /\ at[p] = "idle"
    /\ StartTransaction(p, IF p \in opened THEN "use" ELSE "new")
    /\ UNCHANGED <<applet, holder, told, opened, lost, failed, left, foreign>>

\* transaction2 succeeds; without an application to select, or a reset, that is all.
TransactionStarted(p) ==
    /\ at[p] = "begin" /\ p \notin told /\ holder = "free"
    /\ holder' = p
    /\ at' = [at EXCEPT ![p] =
                IF p \in wasReset /\ purpose[p] # "init" THEN "reselect" ELSE "in"]
    /\ UNCHANGED <<applet, told, purpose, opened, wasReset, lost, failed, left, foreign>>

\* transaction2 says ResetCard
CardWasReset(p) ==
    /\ at[p] = "begin" /\ p \in told
    /\ told' = told \ {p}
    /\ at' = [at EXCEPT ![p] = "reconnect"]
    /\ UNCHANGED <<applet, holder, purpose, opened, wasReset, lost, failed, left, foreign>>

\* The reconnect waits for the others' transactions; it resets the card again.
\* Mutated form: it is forgotten that there was a reset.
ReconnectForgetful(p) ==
    /\ at[p] = "reconnect" /\ holder = "free"
    /\ ResetCard({p})
    /\ at' = [at EXCEPT ![p] = "begin"]
    /\ UNCHANGED <<holder, purpose, opened, wasReset, failed, foreign>>
Reconnect(p) ==
    /\ at[p] = "reconnect" /\ holder = "free"
    /\ ResetCard({p})
    /\ wasReset' = wasReset \cup {p}
    /\ at' = [at EXCEPT ![p] = "begin"]
    /\ UNCHANGED <<holder, purpose, opened, failed, foreign>>

\* An error of PC/SC ends initialize_card and OpenPGP::new, and so the connection;
\* the reset is forgotten if it has been answered with a reconnect.
NoTransaction(p) ==
    /\ at[p] \in {"begin", "reconnect"}
    /\ IF purpose[p] = "use"
       THEN /\ at' = [at EXCEPT ![p] = "idle"]
            /\ failed' = IF p \in wasReset \/ at[p] = "reconnect"
                         THEN failed \cup {p} ELSE failed
            /\ UNCHANGED <<applet, told, lost, left>>
       ELSE /\ holder = "free" /\ ResetCard({p})
            /\ at' = [at EXCEPT ![p] = "away"] /\ UNCHANGED failed
    /\ UNCHANGED <<holder, purpose, opened, wasReset, foreign>>

\* Reselection, and its failure: the transaction is dropped.
Reselect(p) ==
    /\ at[p] = "reselect"
    /\ applet' = "openpgp" /\ left' = FALSE /\ failed' = failed \ {p}
    /\ at' = [at EXCEPT ![p] = "in"]
    /\ UNCHANGED <<holder, told, purpose, opened, wasReset, lost, foreign>>
ReselectFails(p) ==
    /\ at[p] = "reselect"
    /\ holder' = "free"
    /\ IF purpose[p] = "use"
       THEN /\ at' = [at EXCEPT ![p] = "idle"] /\ failed' = failed \cup {p}
            /\ UNCHANGED <<applet, told, lost, left>>
       ELSE /\ at' = [at EXCEPT ![p] = "away"] /\ UNCHANGED failed
            /\ ResetCard({p})
    /\ UNCHANGED <<purpose, opened, wasReset, foreign>>

\* OpenPGP::new selects in any case.
Select(p) ==
    /\ at[p] = "in" /\ purpose[p] = "new" /\ p \notin opened
    /\ applet' = "openpgp" /\ left' = FALSE
    /\ opened' = opened \cup {p}
    /\ UNCHANGED <<holder, told, at, purpose, wasReset, lost, failed, foreign>>

\* The transaction is dropped; the card is left as it is.
EndTransaction(p) ==
    /\ at[p] = "in" /\ (purpose[p] = "new" => p \in opened)
    /\ holder' = "free" /\ at' = [at EXCEPT ![p] = "idle"]
    /\ lost' = lost \ {p}
    /\ UNCHANGED <<applet, told, purpose, opened, wasReset, failed, left, foreign>>

\* The card object is dropped, or OpenPGP::new has failed in its transaction.
Close(p) ==
    /\ \/ at[p] = "idle" /\ holder = "free"
       \/ at[p] = "in" /\ purpose[p] = "new" /\ p \notin opened
    /\ ResetCard({p})
    /\ holder' = "free" /\ at' = [at EXCEPT ![p] = "away"]
    /\ opened' = opened \ {p}
    /\ UNCHANGED <<purpose, wasReset, failed, foreign>>

-----------------------------------------------------------------------------
(* The foreign program.                                                    *)

ForeignBegin ==
    /\ holder = "free" /\ foreign < MaxForeign
    /\ holder' = "foreign" /\ foreign' = foreign + 1
    /\ applet' \in {applet, "other"}
    /\ UNCHANGED <<told, progVars, wasReset, lost, failed, left>>

ForeignEnd ==
    /\ holder = "foreign" /\ holder' = "free"
    /\ \/ ResetCard({})
       \/ left' = (left \/ applet = "other") /\ UNCHANGED <<applet, told, lost>>
    /\ UNCHANGED <<progVars, wasReset, failed, foreign>>

SessionsNext ==
    \/ \E p \in Program :
        \/ Connect(p) \/ Transaction(p) \/ TransactionStarted(p) \/ CardWasReset(p)
        \/ Reconnect(p) \/ NoTransaction(p) \/ Reselect(p) \/ ReselectFails(p)
        \/ Select(p) \/ EndTransaction(p) \/ Close(p)
    \/ ForeignBegin \/ ForeignEnd

SessionsSpec == SessionsInit /\ [][SessionsNext]_sessionVars

-----------------------------------------------------------------------------
\* pcsc/src/lib.rs:88-116: a transaction that was started finds the OpenPGP
\* application selected, whatever other programs did to the card since the last
\* one: unless the foreign one left an application of its own selected without a
\* reset, or an earlier attempt of this program, after the reset, has failed.
AppletIsSelected ==
    \A p \in opened :
        at[p] = "in" => applet = "openpgp" \/ left \/ p \in failed

\* pcsc/src/lib.rs:119-141, card-backend/src/lib.rs:80: a transaction says that it
\* was reset if the card was reset since this program's last one, so that what
\* was verified in between is known to be gone, with the same exception.
ResetIsReported ==
    \A p \in opened :
        at[p] = "in" /\ p \in lost => p \in wasReset \/ p \in failed
=============================================================================
