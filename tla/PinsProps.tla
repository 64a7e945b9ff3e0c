----------------------------- MODULE PinsProps -----------------------------
(***************************************************************************)
(* What a user of the PINs can rely on.                                    *)
(***************************************************************************)
EXTENDS CardPins

\* A PIN that was set, by whichever of the five ways and with whatever reply
\* lost, is what the next session sends for it: one of the PINs the user has
\* reason to try, mapped as verify_user_pin, verify_admin_pin and
\* reset_user_pin map it (lib.rs:196-300).  It does not hold of a PIN that was
\* set while the cached KDF-DO was not the card's.
StoredPinIsTypable ==
    \A pt \in PinType :
        CanMap(kdf, pt) /\ known[pt] # {}
            => \E p \in known[pt] : secret[pt] = MapPin(kdf, pt, p)

\* A try is lost by a wrong PIN only: what the user typed, mapped by the KDF-DO
\* of the card, was not what the card holds.  A factory reset, a question for
\* the access, a cached KDF-DO that is not the card's any more and a PIN typed
\* at the reader of a card with KDF cost tries all the same.
OnlyWrongPinsCostTries ==
    [][\A pt \in PinType :
        tries'[pt] < tries[pt] =>
            \/ pc = "reset" \/ Misled \/ cmd.ins \in {"askUser", "askAdmin", "setKdf"}
            \/ pc = "activate"
            \/ secret[pt] # MapPin(kdf, pt, cmd.data[1].pin)]_pinVars

\* mod.rs:636-644: a card that knows TERMINATE DF and allows no more than four
\* attempts is blank after a reset that returned Ok, if the KDF-DO could be
\* read and the PINs were set by it: TERMINATE DF and ACTIVATE FILE cannot have been refused.
ResetIsComplete ==
    [][(/\ pc = "activate" /\ result' = "ok"
        /\ canReset /\ maxTries <= 4
        /\ ~unread /\ known["Pw1"] # {} /\ known["Pw3"] # {}) => Blank']_pinVars
=============================================================================
