------------------------------ MODULE CardPins ------------------------------
(***************************************************************************)
(* The PINs of an OpenPGP card and a session with them: Card<Transaction>, *)
(* its User, Sign and Admin views (openpgp-card/src/lib.rs), the cached    *)
(* KDF-DO (state.rs), the PIN commands and factory_reset (ocard/mod.rs)    *)
(* and the pinpad of the backends (pcsc/src/lib.rs, scdc/src/lib.rs).      *)
(*                                                                         *)
(* A call maps the PINs it was given, reading the KDF-DO when it is not    *)
(* cached, builds one command and sends it; the card may be taken away, or *)
(* a reply lost, before every command and after it.  The flags pw1,        *)
(* pw1_sign and pw3 of a transaction are left out: nothing reads them.     *)
(***************************************************************************)
EXTENDS Kdf

CONSTANTS
    Uncached,    \* the KDF-DO is not in the cache
    Kdfs,        \* contents the KDF-DO of a card may have, NoKdf included
    FactoryPin,  \* FactoryPin[pt]: the PIN of a card as it leaves the factory
    CardTries,   \* numbers of attempts a card may allow
    Pinpads,     \* how a PIN can be typed at the reader: "none", "pcsc", "scdc"
    MaxCalls     \* bound on the calls of the library

ASSUME PinsAssumption ==
    /\ Kdfs \subseteq KdfDo \cup {NoKdf}
    /\ NoKdf \in Kdfs /\ NoKdf \notin KdfDo
    /\ Uncached \notin Kdfs
    /\ Junk \notin Pin
    /\ FactoryPin \in [PinType -> Pin]
    /\ CardTries \subseteq Nat \ {0}
    /\ Pinpads \subseteq {"none", "pcsc", "scdc"}
    /\ MaxCalls \in Nat

VARIABLES
    maxTries,    \* the card: attempts it allows
    canReset,    \* the card: it knows TERMINATE DF
    pinpad,      \* the reader and its backend
    kdf,         \* the card: its KDF-DO
    secret,      \* the card: what it compares a PIN with
    tries,       \* the card: attempts left; none for a code that is not set
    verified,    \* the card: the accesses granted, "user", "sign", "admin"
    life,        \* the card: "active" or "terminated"
    pc,          \* where the library is
    cache,       \* kdf_do of the transaction: Uncached, or what it holds
    todo,        \* the PINs still to be mapped, each with its type
    cmd,         \* the command being built
    bad,         \* factory_reset: the number of bad attempts made
    badAs,       \* factory_reset: the digest whose length the attempts have
    result,      \* how the last call ended
    unread,      \* history: this reset could not read the KDF-DO
    known,       \* history: PINs the card may have, as far as the user knows
    calls        \* history: calls made

NoCommand == [ins |-> "none", data |-> <<>>, pad |-> FALSE]

traits == <<maxTries, canReset, pinpad>>
cardVars == <<kdf, secret, tries, verified, life>>
callVars == <<todo, cmd, bad, badAs, unread>>
pinVars == <<traits, cardVars, pc, cache, callVars, result, known, calls>>

Instructions == {"none", "user", "sign", "admin", "askUser", "askAdmin",
                 "changeUser", "changeAdmin", "resetByCode", "resetByAdmin",
                 "setCode", "setKdf", "reset"}

PinsTypeOK ==
    /\ maxTries \in CardTries /\ canReset \in BOOLEAN /\ pinpad \in Pinpads
    /\ kdf \in Kdfs
    /\ secret \in [PinType -> Secret]
    /\ tries \in [PinType -> 0..maxTries]
    /\ verified \subseteq {"user", "sign", "admin"}
    /\ life \in {"active", "terminated"}
    /\ pc \in {"closed", "idle", "map", "send", "resetKdf", "reset",
               "terminate", "activate", "panicked"}
    /\ cache \in Kdfs \cup {Uncached}
    /\ todo \in Seq(PinType \X Pin)
    /\ cmd.ins \in Instructions /\ cmd.data \in Seq(Secret \cup Kdfs)
    /\ cmd.pad \in BOOLEAN
    /\ bad \in 0..8
    /\ badAs \in {"raw", "sha256", "sha512"}
    /\ result \in {"none", "ok", "error", "refused"}
    /\ unread \in BOOLEAN
    /\ known \in [PinType -> SUBSET Pin]
    /\ calls \in 0..MaxCalls

\* What the card stores for its first PINs under KDF-DO k.  If that has one salt
\* only, the card uses it for all.
FirstSecret(k) ==
    [pt \in PinType |-> MapPin(k, IF CanMap(k, pt) THEN pt ELSE "Pw1", FactoryPin[pt])]
FirstTries == [pt \in PinType |-> IF pt = "Rc" THEN 0 ELSE maxTries]
FirstKnown == [pt \in PinType |-> {FactoryPin[pt]}]

PinsInit ==
    /\ maxTries \in CardTries /\ canReset \in BOOLEAN /\ pinpad \in Pinpads
    /\ kdf \in Kdfs
    /\ secret = FirstSecret(kdf) /\ tries = FirstTries /\ known = FirstKnown
    /\ verified = {} /\ life = "active"
    /\ pc = "closed" /\ cache = Uncached
    /\ todo = <<>> /\ cmd = NoCommand /\ bad = 0 /\ badAs = "raw"
    /\ result = "none" /\ unread = FALSE /\ calls = 0

-----------------------------------------------------------------------------
(* The session.                                                            *)

\* SELECT has been answered 9000, the application related data are read, and
\* nothing else is.  A reset of the card in between ends what was verified.
Begin ==
    /\ pc = "closed" /\ life = "active"
    /\ pc' = "idle" /\ cache' = Uncached /\ result' = "none"
    /\ verified' \in {verified, {}}
    /\ UNCHANGED <<traits, kdf, secret, tries, life, callVars, known, calls>>

End ==
    /\ pc = "idle" /\ pc' = "closed"
    /\ UNCHANGED <<traits, cardVars, cache, callVars, result, known, calls>>

\* invalidate_cache
InvalidateCache ==
    /\ pc = "idle" /\ cache # Uncached /\ cache' = Uncached
    /\ UNCHANGED <<traits, cardVars, pc, callVars, result, known, calls>>

\* A call that maps `pins` and builds instruction `ins` from them.
Ask(ins, pins) ==
    /\ pc = "idle" /\ calls < MaxCalls
    /\ pc' = "map" /\ todo' = pins
    /\ cmd' = [ins |-> ins, data |-> <<>>, pad |-> FALSE]
    /\ calls' = calls + 1 /\ result' = "none"
    /\ UNCHANGED <<traits, cardVars, cache, bad, badAs, unread, known>>

\* A call without a PIN to map.
AskRaw(ins, data, pad) ==
    /\ pc = "idle" /\ calls < MaxCalls
    /\ pc' = "send" /\ cmd' = [ins |-> ins, data |-> data, pad |-> pad]
    /\ calls' = calls + 1 /\ result' = "none"
    /\ UNCHANGED <<traits, cardVars, cache, todo, bad, badAs, unread, known>>

VerifyUser(p) == Ask("user", <<<<"Pw1", p>>>>)
\* Mutated form: as an Admin PIN
VerifySigningAsAdmin(p) == Ask("sign", <<<<"Pw3", p>>>>)
VerifySigning(p) == Ask("sign", <<<<"Pw1", p>>>>)
VerifyAdmin(p) == Ask("admin", <<<<"Pw3", p>>>>)
CheckUser == AskRaw("askUser", <<>>, FALSE)
CheckAdmin == AskRaw("askAdmin", <<>>, FALSE)
ChangeUser(p, q) == Ask("changeUser", <<<<"Pw1", p>>, <<"Pw1", q>>>>)
ChangeAdmin(p, q) == Ask("changeAdmin", <<<<"Pw3", p>>, <<"Pw3", q>>>>)

\* Card<Transaction>::reset_user_pin, with the resetting code
\* Mutated form: the new PIN is mapped like the code.
ResetByCodeAsCode(p, q) == Ask("resetByCode", <<<<"Rc", p>>, <<"Rc", q>>>>)
ResetByCode(p, q) == Ask("resetByCode", <<<<"Rc", p>>, <<"Pw1", q>>>>)

\* Card<Admin>::reset_user_pin and set_resetting_code
ResetByAdmin(q) == Ask("resetByAdmin", <<<<"Pw1", q>>>>)
SetCode(q) == Ask("setCode", <<<<"Rc", q>>>>)

\* ocard's set_kdf_do, reached through Card<Transaction>::card
SetKdf(k) == AskRaw("setKdf", <<k>>, FALSE)

\* The PINs are typed at the reader, which sends them as they are.
VerifyByPad(ins, p) ==
    /\ pinpad = "pcsc" /\ ins \in {"user", "sign", "admin"}
    /\ AskRaw(ins, <<Raw(p)>>, TRUE)

ChangeByPad(ins, p, q) ==
    /\ pinpad = "pcsc" /\ ins \in {"changeUser", "changeAdmin"}
    /\ AskRaw(ins, <<Raw(p), Raw(q)>>, TRUE)

\* PcscTransaction returns an error if the reader does not offer it, and
\* ScdBackend has only an unimplemented!() for it.
NoPinpad ==
    /\ pc = "idle" /\ calls < MaxCalls /\ pinpad # "pcsc"
    /\ pc' = IF pinpad = "scdc" THEN "panicked" ELSE "idle"
    /\ result' = "error" /\ calls' = calls + 1
    /\ UNCHANGED <<traits, cardVars, cache, callVars, known>>

\* Card<Transaction>::factory_reset
FactoryReset ==
    /\ pc = "idle" /\ calls < MaxCalls
    /\ pc' = "resetKdf" /\ cmd' = [NoCommand EXCEPT !.ins = "reset"]
    /\ bad' = 0 /\ badAs' = "raw" /\ unread' = FALSE
    /\ calls' = calls + 1 /\ result' = "none"
    /\ UNCHANGED <<traits, cardVars, cache, todo, known>>

-----------------------------------------------------------------------------
(* Mapping of the PINs.                                                    *)

\* Transaction::kdf_do: an error is cached as if there were no KDF-DO.
ReadKdf ==
    /\ pc = "map" /\ cache = Uncached
    /\ cache' \in {kdf, NoKdf}
    /\ UNCHANGED <<traits, cardVars, pc, callVars, result, known, calls>>

MapNext ==
    /\ pc = "map" /\ cache # Uncached
    /\ CanMap(cache, Head(todo)[1])
    /\ todo' = Tail(todo)
    /\ cmd' = [cmd EXCEPT !.data =
                    Append(@, MapPin(cache, Head(todo)[1], Head(todo)[2]))]
    /\ pc' = IF todo' = <<>> THEN "send" ELSE "map"
    /\ UNCHANGED <<traits, cardVars, cache, bad, badAs, unread, result, known, calls>>

Return(r) == pc' = "idle" /\ result' = r /\ cmd' = NoCommand

MapFails ==
    /\ pc = "map" /\ cache # Uncached
    /\ ~CanMap(cache, Head(todo)[1])
    /\ Return("error") /\ todo' = <<>>
    /\ UNCHANGED <<traits, cardVars, cache, bad, badAs, unread, known, calls>>

-----------------------------------------------------------------------------
(* The card.                                                               *)

PinOf(ins) == IF ins \in {"admin", "askAdmin", "changeAdmin"} THEN "Pw3"
              ELSE IF ins = "resetByCode" THEN "Rc" ELSE "Pw1"
SetBy(ins) == IF ins = "changeAdmin" THEN "Pw3"
              ELSE IF ins = "setCode" THEN "Rc" ELSE "Pw1"

Verifies == {"user", "sign", "admin"}
Changes == {"changeUser", "changeAdmin", "resetByCode"}
Administers == {"resetByAdmin", "setCode"}

Access(pt) == IF pt = "Pw3" THEN {"admin"}
              ELSE IF pt = "Pw1" THEN {"user", "sign"} ELSE {}

\* A card with KDF knows how long a digest is.
LengthFits(pt, s) == secret[pt].hash \in {"raw", s.hash}

\* A wrong attempt ends what the PIN had granted and costs a try; whether it
\* costs one if it has not even the right length is up to the card.
Wrong(pt, s) ==
    /\ tries' \in {[tries EXCEPT ![pt] = @ - 1]} \cup
                  (IF LengthFits(pt, s) THEN {} ELSE {tries})
    /\ verified' = verified \ Access(pt)
    /\ UNCHANGED <<kdf, secret, life>>

Usable(pt) == life = "active" /\ tries[pt] > 0

CardTakesPin ==
    LET pt == PinOf(cmd.ins)
    IN  /\ cmd.ins \in Verifies \cup Changes
        /\ Usable(pt) /\ cmd.data[1] = secret[pt]
        /\ tries' = [tries EXCEPT ![pt] = maxTries, ![SetBy(cmd.ins)] =
                        IF cmd.ins \in Changes THEN maxTries ELSE @]
        /\ secret' = IF cmd.ins \in Changes
                     THEN [secret EXCEPT ![SetBy(cmd.ins)] = cmd.data[2]]
                     ELSE secret
        /\ verified' = verified \cup (Verifies \cap {cmd.ins})
        /\ UNCHANGED <<kdf, life>>

CardRefusesPin ==
    LET pt == PinOf(cmd.ins)
    IN  /\ cmd.ins \in Verifies \cup Changes
        /\ Usable(pt) /\ cmd.data[1] # secret[pt]
        /\ Wrong(pt, cmd.data[1])

\* VERIFY without a PIN asks for the access; some cards take it for a wrong PIN.
CardConfirms ==
    /\ \/ cmd.ins = "askUser" /\ "user" \in verified
       \/ cmd.ins = "askAdmin" /\ "admin" \in verified
    /\ life = "active"
    /\ UNCHANGED cardVars

CardDenies ==
    /\ cmd.ins \in {"askUser", "askAdmin"} /\ Usable(PinOf(cmd.ins))
    /\ tries' \in {tries, [tries EXCEPT ![PinOf(cmd.ins)] = @ - 1]}
    /\ UNCHANGED <<kdf, secret, verified, life>>

\* What the Admin PIN allows.
CardSetsPin ==
    /\ cmd.ins \in Administers /\ life = "active" /\ "admin" \in verified
    /\ secret' = [secret EXCEPT ![SetBy(cmd.ins)] = cmd.data[1]]
    /\ tries' = [tries EXCEPT ![SetBy(cmd.ins)] = maxTries]
    /\ UNCHANGED <<kdf, verified, life>>

\* A KDF-DO brings the first PINs with it.
CardSetsKdf ==
    /\ cmd.ins = "setKdf" /\ life = "active" /\ "admin" \in verified
    /\ kdf' = cmd.data[1]
    /\ secret' = FirstSecret(kdf') /\ tries' = FirstTries /\ verified' = {}
    /\ UNCHANGED life

\* Terminated, blocked, or not allowed
CardDoesNothing ==
    /\ \/ life = "terminated"
       \/ cmd.ins \in Verifies \cup Changes /\ tries[PinOf(cmd.ins)] = 0
       \/ cmd.ins \in {"askUser", "askAdmin"} /\ tries[PinOf(cmd.ins)] = 0
       \/ cmd.ins \in Administers \cup {"setKdf"} /\ "admin" \notin verified
    /\ UNCHANGED cardVars

CardTakes == CardTakesPin \/ CardConfirms \/ CardSetsPin \/ CardSetsKdf
CardRefuses == CardRefusesPin \/ CardDenies \/ CardDoesNothing

-----------------------------------------------------------------------------
(* The command on its way.                                                 *)

\* The PINs were mapped by something else than the card's KDF-DO: it was
\* changed since it was read, it could not be read, or the reader mapped none.
Misled == IF cmd.pad THEN ~UsesRawPin(kdf) ELSE cache \notin {Uncached, kdf}

\* The PINs of type pt that the command is to set
NewPin(pt) ==
    IF cmd.ins = "setKdf" THEN {FactoryPin[pt]}
    ELSE IF cmd.ins \in Changes \cup Administers /\ pt = SetBy(cmd.ins)
    THEN {cmd.data[Len(cmd.data)].pin} ELSE {}

\* What the user knows after a command that was done, or that may have been:
\* nothing any more of a PIN that was mapped in a way the card does not expect.
KnownAfter(certain) ==
    [pt \in PinType |->
        IF NewPin(pt) = {} THEN known[pt]
        ELSE IF cmd.ins = "setKdf" /\ certain THEN NewPin(pt)
        ELSE IF Misled \/ (known[pt] = {} /\ ~certain) THEN {}
        ELSE IF certain THEN NewPin(pt) ELSE known[pt] \cup NewPin(pt)]

CommandSucceeds ==
    /\ pc = "send" /\ CardTakes
    /\ Return("ok") /\ known' = KnownAfter(TRUE)
    /\ UNCHANGED <<traits, cache, todo, bad, badAs, unread, calls>>

CommandRefused ==
    /\ pc = "send" /\ CardRefuses
    /\ Return("refused")
    /\ UNCHANGED <<traits, cache, todo, bad, badAs, unread, known, calls>>

\* The connection ends: what was sent last may have been done or not.
Lose(r) ==
    /\ pc' = "closed" /\ result' = r /\ cmd' = NoCommand /\ todo' = <<>>
    /\ known' = IF pc = "send" THEN KnownAfter(FALSE) ELSE known
    /\ UNCHANGED <<traits, cache, bad, badAs, unread, calls>>

ReplyLost ==
    /\ pc = "send" /\ (CardTakes \/ CardRefuses)
    /\ Lose("error")

CardGone ==
    /\ pc \notin {"closed", "panicked"}
    /\ Lose("error")
    /\ UNCHANGED cardVars

-----------------------------------------------------------------------------
(* factory_reset.                                                          *)

\* The bad PINs get the length of a digest, if the KDF-DO names its hash.
\* Mutated form: they are eight octets long whatever the KDF-DO says.
BadLengthShort(k) == "raw"
BadLength(k) == IF k # NoKdf /\ k.hash \in {"sha256", "sha512"} THEN k.hash ELSE "raw"

ResetReadKdf ==
    /\ pc = "resetKdf" /\ pc' = "reset"
    /\ badAs' = BadLength(kdf)
    /\ UNCHANGED <<traits, cardVars, cache, todo, cmd, bad, unread, result, known, calls>>

\* An error is taken for a card without KDF.
ResetReadFails ==
    /\ pc = "resetKdf" /\ pc' = "reset" /\ kdf # NoKdf
    /\ badAs' = BadLength(NoKdf) /\ unread' = TRUE
    /\ UNCHANGED <<traits, cardVars, cache, todo, cmd, bad, result, known, calls>>

BadPin == [pin |-> Junk, hash |-> badAs, salt |-> "none"]
BadType == IF bad < 4 THEN "Pw1" ELSE "Pw3"
\* Mutated form: one attempt more
BadDoneLate == bad' = 9
BadDone == bad' = 8

CardGetsBadPin ==
    \/ Usable(BadType) /\ Wrong(BadType, BadPin)
    \/ life = "active" /\ tries[BadType] = 0 /\ UNCHANGED cardVars

\* Four times VERIFY for pw1 (81), four times for pw3, each refused
ResetAttempt ==
    /\ pc = "reset" /\ CardGetsBadPin
    /\ bad' = bad + 1
    /\ pc' = IF BadDone THEN "terminate" ELSE "reset"
    /\ UNCHANGED <<traits, cache, todo, cmd, badAs, unread, result, known, calls>>

\* Another status: of a terminated card, or for the length of the PIN
ResetGivesUp ==
    /\ pc = "reset"
    /\ life = "terminated" \/ ~LengthFits(BadType, BadPin)
    /\ Return("error")
    /\ UNCHANGED <<traits, cardVars, cache, todo, bad, badAs, unread, known, calls>>

\* The card lets itself be terminated by the admin, or when nobody can get in.
CardTerminates ==
    life' = IF canReset /\ (\/ "admin" \in verified
                            \/ tries["Pw1"] = 0 /\ tries["Pw3"] = 0)
            THEN "terminated" ELSE life

\* TERMINATE DF, whose status nobody looks at
ResetTerminate ==
    /\ pc = "terminate" /\ CardTerminates /\ pc' = "activate"
    /\ UNCHANGED <<traits, kdf, secret, tries, verified, cache, callVars, result, known, calls>>

\* A card as it leaves the factory
Blank == /\ kdf = NoKdf /\ secret = FirstSecret(NoKdf) /\ tries = FirstTries
         /\ verified = {} /\ life = "active"

CardActivates ==
    IF life = "terminated"
    THEN /\ kdf' = NoKdf /\ secret' = FirstSecret(NoKdf) /\ tries' = FirstTries
         /\ verified' = {} /\ life' = "active" /\ known' = FirstKnown
    ELSE UNCHANGED <<cardVars, known>>

\* ACTIVATE FILE; the cached KDF-DO stays.
ResetActivate ==
    /\ pc = "activate" /\ CardActivates /\ Return("ok")
    /\ UNCHANGED <<traits, cache, todo, bad, badAs, unread, calls>>

\* A reply is lost on the way.
ResetReplyLost ==
    /\ \/ pc = "reset" /\ CardGetsBadPin /\ known' = known
       \/ /\ pc = "terminate" /\ CardTerminates
          /\ UNCHANGED <<kdf, secret, tries, verified, known>>
       \/ pc = "activate" /\ CardActivates
    /\ pc' = "closed" /\ result' = "error" /\ cmd' = NoCommand
    /\ UNCHANGED <<traits, cache, todo, bad, badAs, unread, calls>>

-----------------------------------------------------------------------------
PinsCall ==
    \/ \E p \in Pin : VerifyUser(p) \/ VerifySigning(p) \/ VerifyAdmin(p)
    \/ CheckUser \/ CheckAdmin
    \/ \E p, q \in Pin : ChangeUser(p, q) \/ ChangeAdmin(p, q) \/ ResetByCode(p, q)
    \/ \E q \in Pin : ResetByAdmin(q) \/ SetCode(q)
    \/ \E k \in Kdfs : SetKdf(k)
    \/ \E p \in Pin, ins \in Verifies : VerifyByPad(ins, p)
    \/ \E p, q \in Pin, ins \in Changes : ChangeByPad(ins, p, q)
    \/ NoPinpad
    \/ FactoryReset

PinsNext ==
    \/ Begin \/ End \/ InvalidateCache
    \/ PinsCall
    \/ ReadKdf \/ MapNext \/ MapFails
    \/ CommandSucceeds \/ CommandRefused \/ ReplyLost \/ CardGone
    \/ ResetReadKdf \/ ResetReadFails \/ ResetAttempt \/ ResetGivesUp
    \/ ResetTerminate \/ ResetActivate \/ ResetReplyLost

PinsSpec == PinsInit /\ [][PinsNext]_pinVars
=============================================================================
