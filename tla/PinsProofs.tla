----------------------------- MODULE PinsProofs -----------------------------
(***************************************************************************)
(* What holds of the PINs of a card in any session, for any PINs, any      *)
(* kinds of KDF-DO, any number of attempts and any number of calls.        *)
(***************************************************************************)
EXTENDS PinsProps, TLAPS

\* A mapped PIN names the PIN it was made from and the hash of the KDF-DO.
LEMMA MapPinGives ==
  ASSUME NEW k \in Kdfs, NEW pt \in PinType, NEW p \in Pin
  PROVE  /\ MapPin(k, pt, p) \in Secret
         /\ MapPin(k, pt, p).hash \in {"raw", BadLength(k)}
         /\ CanMap(k, pt) => MapPin(k, pt, p).pin = p
<1>1. k = NoKdf \/ k \in KdfDo
  BY PinsAssumption
<1>2. CASE UsesRawPin(k)
  BY <1>2 DEF MapPin, Raw, Secret
<1>3. CASE ~UsesRawPin(k) /\ CanMap(k, pt)
  BY <1>1, <1>3 DEF MapPin, Secret, CanMap, CanIterate, BadLength, UsesRawPin
<1>4. CASE ~UsesRawPin(k) /\ ~CanMap(k, pt)
  BY <1>4 DEF MapPin, NotMapped, Secret
<1>. QED
  BY <1>2, <1>3, <1>4

\* The first PINs of a card are typable where its KDF-DO maps them.
LEMMA FirstSecrets ==
  ASSUME NEW k \in Kdfs
  PROVE  /\ FirstSecret(k) \in [PinType -> Secret]
         /\ \A pt \in PinType : FirstSecret(k)[pt].hash \in {"raw", BadLength(k)}
         /\ \A pt \in PinType :
                CanMap(k, pt) => FirstSecret(k)[pt] = MapPin(k, pt, FactoryPin[pt])
<1> DEFINE By(pt) == IF CanMap(k, pt) THEN pt ELSE "Pw1"
<1>1. \A pt \in PinType : By(pt) \in PinType /\ FactoryPin[pt] \in Pin
  BY PinsAssumption DEF PinType
<1>2. \A pt \in PinType : /\ MapPin(k, By(pt), FactoryPin[pt]) \in Secret
                          /\ MapPin(k, By(pt), FactoryPin[pt]).hash \in {"raw", BadLength(k)}
  BY <1>1, MapPinGives
<1>3. FirstSecret(k) = [pt \in PinType |-> MapPin(k, By(pt), FactoryPin[pt])]
  BY DEF FirstSecret
<1> HIDE DEF By
<1>4. /\ FirstSecret(k) \in [PinType -> Secret]
      /\ \A pt \in PinType : FirstSecret(k)[pt].hash \in {"raw", BadLength(k)}
  BY <1>2, <1>3
<1>5. \A pt \in PinType :
        CanMap(k, pt) => FirstSecret(k)[pt] = MapPin(k, pt, FactoryPin[pt])
  BY <1>3 DEF By
<1>. QED
  BY <1>4, <1>5

-----------------------------------------------------------------------------
(* The card, the call and its command.                                     *)

TraitsOK == maxTries \in CardTries /\ canReset \in BOOLEAN /\ pinpad \in Pinpads

CardOK ==
    /\ kdf \in Kdfs
    /\ secret \in [PinType -> Secret]
    /\ tries \in [PinType -> 0..maxTries]
    /\ verified \subseteq {"user", "sign", "admin"}
    /\ life \in {"active", "terminated"}
    /\ known \in [PinType -> SUBSET Pin]

CallOK ==
    /\ pc \in {"closed", "idle", "map", "send", "resetKdf", "reset",
               "terminate", "activate", "panicked"}
    /\ cache \in Kdfs \cup {Uncached}
    /\ todo \in Seq(PinType \X Pin)
    /\ cmd.ins \in Instructions /\ cmd.data \in Seq(Secret \cup Kdfs)
    /\ cmd.pad \in BOOLEAN
    /\ bad \in 0..8
    /\ badAs \in {"raw", "sha256", "sha512"}
    /\ result \in {"none", "ok", "error", "refused"}
    /\ unread \in BOOLEAN
    /\ calls \in 0..MaxCalls

\* How many PINs an instruction has, and what they are
MapsPins == Verifies \cup Changes \cup Administers
Count(ins) == IF ins \in Changes THEN 2 ELSE 1
PinAt(ins, i) == IF ins \in Administers \/ i = 2 THEN SetBy(ins) ELSE PinOf(ins)

\* The PINs of the command so far are mapped by the cached KDF-DO.
MappedAs(d, pt) == cache # Uncached /\ CanMap(cache, pt) /\ \E p \in Pin : d = MapPin(cache, pt, p)
Mapped == \A i \in 1..Len(cmd.data) : MappedAs(cmd.data[i], PinAt(cmd.ins, i))

\* The PINs that are mapped and those still to be mapped are those of the call.
MapInv ==
    pc = "map" =>
        /\ cmd.ins \in MapsPins /\ ~cmd.pad /\ Mapped
        /\ todo # <<>> /\ Len(cmd.data) + Len(todo) = Count(cmd.ins)
        /\ \A i \in 1..Len(todo) : todo[i][1] = PinAt(cmd.ins, Len(cmd.data) + i)

\* A command that is sent has all of its PINs.
SendInv ==
    pc = "send" =>
        \/ cmd.ins \in MapsPins /\ ~cmd.pad /\ Mapped /\ Len(cmd.data) = Count(cmd.ins)
        \/ /\ cmd.ins \in Verifies \cup Changes /\ cmd.pad /\ Len(cmd.data) = Count(cmd.ins)
           /\ \A i \in 1..Len(cmd.data) : \E p \in Pin : cmd.data[i] = Raw(p)
        \/ cmd.ins \in {"askUser", "askAdmin"} /\ ~cmd.pad
        \/ cmd.ins = "setKdf" /\ ~cmd.pad /\ Len(cmd.data) = 1 /\ cmd.data[1] \in Kdfs

\* The user knows no PIN of another length than those of the card.
HashInv == \A pt \in PinType : known[pt] = {} \/ secret[pt].hash \in {"raw", BadLength(kdf)}

\* A reset that will empty the card
Doomed == /\ canReset /\ maxTries <= 4
          /\ ~unread /\ known["Pw1"] # {} /\ known["Pw3"] # {}

\* The bad attempts use up the tries of pw1, then those of pw3, and the card ends.
ResetInv ==
    /\ pc = "resetKdf" => bad = 0
    /\ pc = "reset" => bad < 8
    /\ Doomed =>
        /\ pc = "reset" =>
            /\ badAs = BadLength(kdf)
            /\ tries["Pw1"] = 0 \/ (bad < 4 /\ tries["Pw1"] + bad <= maxTries)
            /\ tries["Pw3"] = 0 \/ tries["Pw3"] + bad <= maxTries + 4
        /\ pc = "terminate" => tries["Pw1"] = 0 /\ tries["Pw3"] = 0
        /\ pc = "activate" => life = "terminated"

PinsInv == /\ TraitsOK /\ CardOK /\ CallOK
           /\ MapInv /\ SendInv
           /\ HashInv /\ StoredPinIsTypable
           /\ ResetInv

\* What both kinds of properties need of the card
CardInv == CardOK /\ HashInv /\ StoredPinIsTypable

LEMMA PinsInvTypes == PinsInv => PinsTypeOK
BY DEF PinsInv, TraitsOK, CardOK, CallOK, PinsTypeOK

-----------------------------------------------------------------------------
(* A call on its way to the card.                                          *)

LEMMA CallsBegin ==
  ASSUME PinsInv, PinsCall
  PROVE  PinsInv'
<1>0. /\ pc = "idle" /\ UNCHANGED <<traits, cardVars, cache, known>>
      /\ Verifies \cup Changes \cup Administers \subseteq Instructions \ {"none", "reset"}
  BY DEF PinsCall, VerifyUser, VerifySigning, VerifyAdmin, CheckUser, CheckAdmin, ChangeUser,
     ChangeAdmin, ResetByCode, ResetByAdmin, SetCode, SetKdf, VerifyByPad, ChangeByPad, NoPinpad,
     FactoryReset, Ask, AskRaw, Verifies, Changes, Administers, Instructions
<1>1. TraitsOK' /\ CardInv'
  BY <1>0 DEF PinsInv, CardInv, TraitsOK, CardOK, HashInv, StoredPinIsTypable, traits, cardVars
<1>2. ASSUME NEW ins \in MapsPins, NEW pins \in Seq(PinType \X Pin), Ask(ins, pins),
             pins # <<>>, Len(pins) = Count(ins),
             \A i \in 1..Len(pins) : pins[i][1] = PinAt(ins, i)
      PROVE  CallOK' /\ MapInv' /\ SendInv' /\ ResetInv'
  <2>1. /\ pc' = "map" /\ todo' = pins /\ cmd' = [ins |-> ins, data |-> <<>>, pad |-> FALSE]
        /\ calls' \in 0..MaxCalls /\ result' = "none" /\ UNCHANGED <<bad, badAs, unread, cache>>
    BY <1>2, PinsAssumption DEF Ask, PinsInv, CallOK
  <2>2. CallOK'
    BY <1>0, <2>1 DEF PinsInv, CallOK, MapsPins
  <2>3. MapInv'
    BY <1>2, <2>1 DEF MapInv, Mapped
  <2>. QED
    BY <2>1, <2>2, <2>3 DEF SendInv, ResetInv
<1>3. ASSUME NEW ins \in Instructions, NEW data \in Seq(Secret \cup Kdfs), NEW pad \in BOOLEAN,
             AskRaw(ins, data, pad)
      PROVE  /\ CallOK' /\ MapInv' /\ ResetInv' /\ pc' = "send"
             /\ cmd' = [ins |-> ins, data |-> data, pad |-> pad]
  <2>1. /\ pc' = "send" /\ cmd' = [ins |-> ins, data |-> data, pad |-> pad]
        /\ calls' \in 0..MaxCalls /\ result' = "none"
        /\ UNCHANGED <<bad, badAs, unread, cache, todo>>
    BY <1>3, PinsAssumption DEF AskRaw, PinsInv, CallOK
  <2>. QED
    BY <2>1 DEF PinsInv, CallOK, MapInv, ResetInv
<1>4. ASSUME NEW ins \in MapsPins, NEW p \in Pin, NEW pt, pt = PinAt(ins, 1), Count(ins) = 1,
             pt \in PinType, Ask(ins, <<<<pt, p>>>>)
      PROVE  CallOK' /\ MapInv' /\ SendInv' /\ ResetInv'
  <2> DEFINE pins == <<<<pt, p>>>>
  <2>1. pins \in Seq(PinType \X Pin) /\ Len(pins) = 1 /\ pins # <<>> /\ pins[1][1] = pt
    BY <1>4
  <2> HIDE DEF pins
  <2>2. Ask(ins, pins)
    BY <1>4 DEF pins
  <2>3. \A i \in 1..Len(pins) : pins[i][1] = PinAt(ins, i)
    BY <1>4, <2>1
  <2>. QED
    BY <1>2, <1>4, <2>1, <2>2, <2>3
<1>5. ASSUME NEW ins \in MapsPins, NEW p \in Pin, NEW q \in Pin, NEW pt, NEW qt,
             pt = PinAt(ins, 1), qt = PinAt(ins, 2), Count(ins) = 2,
             pt \in PinType, qt \in PinType, Ask(ins, <<<<pt, p>>, <<qt, q>>>>)
      PROVE  CallOK' /\ MapInv' /\ SendInv' /\ ResetInv'
  <2> DEFINE pins == <<<<pt, p>>, <<qt, q>>>>
  <2>1. /\ pins \in Seq(PinType \X Pin) /\ Len(pins) = 2 /\ pins # <<>>
        /\ pins[1][1] = pt /\ pins[2][1] = qt
    BY <1>5
  <2> HIDE DEF pins
  <2>2. Ask(ins, pins)
    BY <1>5 DEF pins
  <2>3. \A i \in 1..Len(pins) : pins[i][1] = PinAt(ins, i)
    BY <1>5, <2>1
  <2>. QED
    BY <1>2, <1>5, <2>1, <2>2, <2>3
<1>6. ASSUME NEW p \in Pin, VerifyUser(p) \/ VerifySigning(p) \/ VerifyAdmin(p)
      PROVE  CallOK' /\ MapInv' /\ SendInv' /\ ResetInv'
  BY <1>4, <1>6 DEF VerifyUser, VerifySigning, VerifyAdmin, MapsPins, Verifies, Changes,
     Administers, Count, PinAt, PinOf, SetBy, PinType
<1>7. ASSUME NEW q \in Pin, ResetByAdmin(q) \/ SetCode(q)
      PROVE  CallOK' /\ MapInv' /\ SendInv' /\ ResetInv'
  BY <1>4, <1>7 DEF ResetByAdmin, SetCode, MapsPins, Verifies, Changes, Administers, Count, PinAt,
     PinOf, SetBy, PinType
<1>8. ASSUME NEW p \in Pin, NEW q \in Pin, ChangeUser(p, q) \/ ChangeAdmin(p, q) \/ ResetByCode(p, q)
      PROVE  CallOK' /\ MapInv' /\ SendInv' /\ ResetInv'
  BY <1>5, <1>8 DEF ChangeUser, ChangeAdmin, ResetByCode, MapsPins, Verifies, Changes,
     Administers, Count, PinAt, PinOf, SetBy, PinType
<1>9. ASSUME CheckUser \/ CheckAdmin PROVE CallOK' /\ MapInv' /\ SendInv' /\ ResetInv'
  <2>1. PICK ins \in {"askUser", "askAdmin"} : AskRaw(ins, <<>>, FALSE)
    BY <1>9 DEF CheckUser, CheckAdmin
  <2>2. ins \in Instructions /\ <<>> \in Seq(Secret \cup Kdfs) /\ FALSE \in BOOLEAN
    BY DEF Instructions
  <2>3. CallOK' /\ MapInv' /\ ResetInv' /\ cmd' = [ins |-> ins, data |-> <<>>, pad |-> FALSE]
    BY <1>3, <2>1, <2>2
  <2>. QED
    BY <2>3 DEF SendInv
<1>10. ASSUME NEW k \in Kdfs, SetKdf(k) PROVE CallOK' /\ MapInv' /\ SendInv' /\ ResetInv'
  <2>1. "setKdf" \in Instructions /\ <<k>> \in Seq(Secret \cup Kdfs) /\ FALSE \in BOOLEAN
    BY DEF Instructions
  <2>2. /\ CallOK' /\ MapInv' /\ ResetInv'
        /\ cmd' = [ins |-> "setKdf", data |-> <<k>>, pad |-> FALSE]
    BY <1>3, <1>10, <2>1 DEF SetKdf
  <2>. QED
    BY <2>2 DEF SendInv
<1>11. ASSUME NEW p \in Pin, NEW ins \in Verifies, VerifyByPad(ins, p)
       PROVE  CallOK' /\ MapInv' /\ SendInv' /\ ResetInv'
  <2>1. Raw(p) \in Secret /\ ins \in Instructions /\ Count(ins) = 1
    BY DEF Raw, Secret, Verifies, Changes, Instructions, Count
  <2>2. <<Raw(p)>> \in Seq(Secret \cup Kdfs) /\ TRUE \in BOOLEAN
    BY <2>1
  <2>3. /\ CallOK' /\ MapInv' /\ ResetInv'
        /\ cmd' = [ins |-> ins, data |-> <<Raw(p)>>, pad |-> TRUE]
    BY <1>3, <1>11, <2>1, <2>2 DEF VerifyByPad
  <2>. QED
    BY <2>1, <2>3 DEF SendInv
<1>12. ASSUME NEW p \in Pin, NEW q \in Pin, NEW ins \in Changes, ChangeByPad(ins, p, q)
       PROVE  CallOK' /\ MapInv' /\ SendInv' /\ ResetInv'
  <2>1. Raw(p) \in Secret /\ Raw(q) \in Secret /\ ins \in Instructions
    BY DEF Raw, Secret, Changes, Instructions
  <2>2. <<Raw(p), Raw(q)>> \in Seq(Secret \cup Kdfs) /\ TRUE \in BOOLEAN
    BY <2>1
  <2>3. /\ CallOK' /\ MapInv' /\ ResetInv'
        /\ cmd' = [ins |-> ins, data |-> <<Raw(p), Raw(q)>>, pad |-> TRUE]
    BY <1>3, <1>12, <2>1, <2>2 DEF ChangeByPad
  <2>. QED
    BY <2>3 DEF SendInv, Count
<1>13. ASSUME NoPinpad \/ FactoryReset PROVE CallOK' /\ MapInv' /\ SendInv' /\ ResetInv'
  <2>1. CASE NoPinpad
    <3>1. calls' \in 0..MaxCalls /\ pc' \in {"panicked", "idle"}
      BY <2>1, PinsAssumption DEF NoPinpad, PinsInv, CallOK
    <3>. QED
      BY <2>1, <3>1 DEF NoPinpad, PinsInv, CallOK, MapInv, SendInv, ResetInv, callVars
  <2>2. CASE FactoryReset
    <3>1. calls' \in 0..MaxCalls /\ pc' = "resetKdf"
      BY <2>2, PinsAssumption DEF FactoryReset, PinsInv, CallOK
    <3>2. cmd' = [ins |-> "reset", data |-> <<>>, pad |-> FALSE]
      BY <2>2 DEF FactoryReset, NoCommand
    <3>3. cmd'.ins \in Instructions /\ cmd'.data \in Seq(Secret \cup Kdfs) /\ cmd'.pad \in BOOLEAN
      BY <3>2 DEF Instructions
    <3>4. unread' \in BOOLEAN /\ UNCHANGED <<todo, cache>>
      BY <2>2 DEF FactoryReset
    <3>5. bad' = 0 /\ badAs' = "raw" /\ result' = "none"
      BY <2>2 DEF FactoryReset
    <3>6. CallOK'
      BY <3>1, <3>3, <3>4, <3>5 DEF PinsInv, CallOK
    <3>. QED
      BY <3>1, <3>5, <3>6 DEF MapInv, SendInv, ResetInv
  <2>. QED
    BY <1>13, <2>1, <2>2
<1>14. CallOK' /\ MapInv' /\ SendInv' /\ ResetInv'
  BY <1>6, <1>7, <1>8, <1>9, <1>10, <1>11, <1>12, <1>13 DEF PinsCall
<1>. QED
  BY <1>1, <1>14 DEF PinsInv, CardInv

-----------------------------------------------------------------------------
(* The command at the card.                                                *)

\* Each PIN of a command that is sent is one the user gave, mapped as the card expects
\* it unless it was mapped by something else than the KDF-DO of the card.
LEMMA PinSent ==
  ASSUME PinsInv, pc = "send", cmd.ins \in MapsPins, NEW i \in 1..Count(cmd.ins)
  PROVE  /\ Len(cmd.data) = Count(cmd.ins)
         /\ cmd.data[i] \in Secret /\ cmd.data[i].pin \in Pin
         /\ ~Misled => /\ cmd.data[i] = MapPin(kdf, PinAt(cmd.ins, i), cmd.data[i].pin)
                       /\ cmd.data[i].hash \in {"raw", BadLength(kdf)}
<1> DEFINE pt == PinAt(cmd.ins, i)
<1>1. /\ pt \in PinType /\ kdf \in Kdfs /\ cache \in Kdfs \cup {Uncached}
      /\ Len(cmd.data) = Count(cmd.ins) /\ SendInv
  <2>1. Len(cmd.data) = Count(cmd.ins)
    BY DEF PinsInv, SendInv, MapsPins, Verifies, Changes, Administers
  <2>. QED
    BY <2>1 DEF PinsInv, CardOK, CallOK, PinAt, PinOf, SetBy, PinType
<1>2. CASE ~cmd.pad
  <2>1. MappedAs(cmd.data[i], pt)
    BY <1>1, <1>2 DEF SendInv, Mapped, MapsPins, Verifies, Changes, Administers
  <2>2. PICK p \in Pin : cmd.data[i] = MapPin(cache, pt, p)
    BY <2>1 DEF MappedAs
  <2>3. cache \in Kdfs /\ CanMap(cache, pt)
    BY <1>1, <2>1 DEF MappedAs
  <2>4. cmd.data[i] \in Secret /\ cmd.data[i].pin = p /\ cmd.data[i].hash \in {"raw", BadLength(cache)}
    BY <1>1, <2>2, <2>3, MapPinGives
  <2>5. ~Misled => cache = kdf
    BY <1>2, <2>1 DEF Misled, MappedAs
  <2>. QED
    BY <1>1, <2>2, <2>4, <2>5
<1>3. CASE cmd.pad
  <2>1. PICK p \in Pin : cmd.data[i] = Raw(p)
    BY <1>1, <1>3 DEF SendInv
  <2>2. cmd.data[i] \in Secret /\ cmd.data[i].pin = p /\ cmd.data[i].hash = "raw"
    BY <2>1 DEF Raw, Secret
  <2>3. ~Misled => cmd.data[i] = MapPin(kdf, pt, p)
    BY <1>3, <2>1 DEF Misled, MapPin
  <2>. QED
    BY <1>1, <2>2, <2>3
<1>. QED
  BY <1>2, <1>3

\* The PIN that a command sets
LEMMA NewPins ==
  ASSUME PinsInv, pc = "send", NEW pt \in PinType
  PROVE  /\ NewPin(pt) \subseteq Pin
         /\ NewPin(pt) # {} /\ cmd.ins # "setKdf" =>
                /\ cmd.ins \in Changes \cup Administers /\ pt = SetBy(cmd.ins)
                /\ NewPin(pt) = {cmd.data[Count(cmd.ins)].pin}
                /\ PinAt(cmd.ins, Count(cmd.ins)) = pt
<1>1. CASE cmd.ins \in Changes \cup Administers /\ pt = SetBy(cmd.ins)
  <2>1. Count(cmd.ins) \in 1..Count(cmd.ins) /\ cmd.ins \in MapsPins /\ cmd.ins # "setKdf"
    BY <1>1 DEF Count, MapsPins, Changes, Administers
  <2>2. Len(cmd.data) = Count(cmd.ins) /\ cmd.data[Count(cmd.ins)].pin \in Pin
    BY <2>1, PinSent
  <2>3. PinAt(cmd.ins, Count(cmd.ins)) = pt
    BY <1>1 DEF PinAt, Count, Changes, Administers, SetBy
  <2>. QED
    BY <1>1, <2>1, <2>2, <2>3 DEF NewPin
<1>2. CASE ~(cmd.ins \in Changes \cup Administers /\ pt = SetBy(cmd.ins))
  BY <1>2, PinsAssumption DEF NewPin
<1>. QED
  BY <1>1, <1>2

\* What the user knows afterwards
LEMMA KnownGives ==
  ASSUME PinsInv, pc = "send", NEW b \in BOOLEAN, NEW pt \in PinType
  PROVE  /\ KnownAfter(b)[pt] \subseteq Pin
         /\ NewPin(pt) = {} => KnownAfter(b)[pt] = known[pt]
         /\ NewPin(pt) # {} /\ KnownAfter(b)[pt] # {} =>
                /\ NewPin(pt) \subseteq KnownAfter(b)[pt]
                /\ cmd.ins = "setKdf" \/ ~Misled
         /\ ~b /\ KnownAfter(b)[pt] # {} =>
                known[pt] # {} /\ known[pt] \subseteq KnownAfter(b)[pt]
<1>1. known[pt] \subseteq Pin /\ NewPin(pt) \subseteq Pin
  BY NewPins DEF PinsInv, CardOK
<1>. QED
  BY <1>1 DEF KnownAfter

\* Attempts, of whatever kind, cost a try or none, and leave what the card compares.
LEMMA CardRefusing ==
  ASSUME PinsInv, CardRefuses
  PROVE  /\ UNCHANGED <<kdf, secret, life>>
         /\ tries' \in [PinType -> 0..maxTries] /\ verified' \subseteq {"user", "sign", "admin"}
<1>0. /\ tries \in [PinType -> 0..maxTries] /\ maxTries \in Nat \ {0}
      /\ verified \subseteq {"user", "sign", "admin"}
  BY PinsAssumption DEF PinsInv, TraitsOK, CardOK
<1>1. PinOf(cmd.ins) \in PinType
  BY DEF PinOf, PinType
<1>2. ASSUME NEW pt \in PinType, tries[pt] > 0
      PROVE  [tries EXCEPT ![pt] = @ - 1] \in [PinType -> 0..maxTries]
  BY <1>0, <1>2
<1>3. CASE CardRefusesPin
  BY <1>0, <1>1, <1>2, <1>3 DEF CardRefusesPin, Wrong, Usable
<1>4. CASE CardDenies
  BY <1>0, <1>1, <1>2, <1>4 DEF CardDenies, Usable
<1>5. CASE CardDoesNothing
  BY <1>0, <1>5 DEF CardDoesNothing, cardVars
<1>. QED
  BY <1>3, <1>4, <1>5 DEF CardRefuses

\* A card that kept its PINs: those the user knows, or now may know, are the same.
LEMMA PinsKept ==
  ASSUME PinsInv, pc = "send", UNCHANGED <<traits, kdf, secret, life>>,
         tries' \in [PinType -> 0..maxTries], verified' \subseteq {"user", "sign", "admin"},
         known' = known \/ known' = KnownAfter(FALSE)
  PROVE  CardInv'
<1>1. known' \in [PinType -> SUBSET Pin]
  BY KnownGives DEF PinsInv, CardOK, KnownAfter
<1>2. \A pt \in PinType : known'[pt] # {} => known[pt] # {} /\ known[pt] \subseteq known'[pt]
  BY KnownGives
<1>3. CardOK'
  BY <1>1 DEF PinsInv, CardOK, traits
<1>4. HashInv'
  BY <1>2 DEF PinsInv, HashInv
<1>5. StoredPinIsTypable'
  BY <1>2 DEF PinsInv, StoredPinIsTypable
<1>. QED
  BY <1>3, <1>4, <1>5 DEF CardInv

\* A card that did what it was asked: a PIN that is set is known, or none is.
LEMMA CardTaking ==
  ASSUME PinsInv, pc = "send", UNCHANGED traits, CardTakes,
         NEW b \in BOOLEAN, known' = KnownAfter(b)
  PROVE  CardInv'
<1>0. /\ CardOK /\ HashInv /\ StoredPinIsTypable /\ SendInv /\ maxTries \in Nat \ {0}
      /\ UNCHANGED maxTries
      /\ SetBy(cmd.ins) \in PinType /\ PinOf(cmd.ins) \in PinType
  BY PinsAssumption DEF PinsInv, TraitsOK, SetBy, PinOf, PinType, traits
<1>1. known' \in [PinType -> SUBSET Pin]
  BY KnownGives DEF KnownAfter
\* A PIN is set by the user.
<1>2. ASSUME NEW s \in Secret, UNCHANGED <<kdf, life>>,
             cmd.ins \in Changes \cup Administers, s = cmd.data[Count(cmd.ins)],
             secret' = [secret EXCEPT ![SetBy(cmd.ins)] = s],
             tries' \in [PinType -> 0..maxTries], verified' \subseteq {"user", "sign", "admin"}
      PROVE  CardInv'
  <2>1. CardOK'
    BY <1>0, <1>1, <1>2 DEF CardOK
  <2>2. cmd.ins \in MapsPins /\ Count(cmd.ins) \in 1..Count(cmd.ins) /\ cmd.ins # "setKdf"
    BY <1>2 DEF Count, MapsPins, Changes, Administers
  <2>3. ASSUME NEW pt \in PinType, known'[pt] # {}, pt = SetBy(cmd.ins)
        PROVE  /\ s.hash \in {"raw", BadLength(kdf)}
               /\ s.pin \in known'[pt] /\ s = MapPin(kdf, pt, s.pin)
    <3>1. NewPin(pt) = {s.pin}
      BY <1>2, <2>2, <2>3, NewPins, PinSent DEF NewPin
    <3>2. ~Misled /\ s.pin \in known'[pt]
      BY <2>2, <2>3, <3>1, KnownGives
    <3>. QED
      BY <1>2, <2>2, <2>3, <3>1, <3>2, NewPins, PinSent
  <2>4. ASSUME NEW pt \in PinType, pt # SetBy(cmd.ins)
        PROVE  known'[pt] = known[pt] /\ secret'[pt] = secret[pt]
    <3>1. NewPin(pt) = {}
      BY <2>2, <2>4 DEF NewPin
    <3>. QED
      BY <1>0, <1>2, <2>4, <3>1, KnownGives DEF CardOK
  <2>5. secret'[SetBy(cmd.ins)] = s
    BY <1>0, <1>2 DEF CardOK
  <2>6. HashInv'
    BY <1>0, <1>2, <2>3, <2>4, <2>5 DEF HashInv
  <2>7. StoredPinIsTypable'
    BY <1>0, <1>2, <2>3, <2>4, <2>5 DEF StoredPinIsTypable
  <2>. QED
    BY <2>1, <2>6, <2>7 DEF CardInv
\* No PIN is set.
<1>3. ASSUME UNCHANGED <<kdf, secret, life>>, cmd.ins \notin Changes \cup Administers,
             cmd.ins # "setKdf",
             tries' \in [PinType -> 0..maxTries], verified' \subseteq {"user", "sign", "admin"}
      PROVE  CardInv'
  <2>1. \A pt \in PinType : known'[pt] = known[pt]
    BY <1>3, KnownGives DEF NewPin
  <2>. QED
    BY <1>0, <1>1, <1>3, <2>1 DEF CardInv, CardOK, HashInv, StoredPinIsTypable
<1>4. CASE CardTakesPin
  <2>1. /\ UNCHANGED <<kdf, life>> /\ verified' \subseteq {"user", "sign", "admin"}
        /\ cmd.ins \in Verifies \cup Changes
    BY <1>0, <1>4 DEF CardTakesPin, Verifies, CardOK
  <2>2. tries' \in [PinType -> 0..maxTries]
    BY <1>0, <1>4 DEF CardTakesPin, CardOK
  <2>3. CASE cmd.ins \in Changes
    <3>1. Count(cmd.ins) = 2 /\ cmd.ins \in MapsPins /\ 2 \in 1..2
      BY <2>3 DEF Count, MapsPins
    <3>2. cmd.data[2] \in Secret
      BY <3>1, PinSent
    <3>. QED
      BY <1>2, <1>4, <2>1, <2>2, <2>3, <3>1, <3>2 DEF CardTakesPin
  <2>4. CASE cmd.ins \notin Changes
    BY <1>3, <1>4, <2>1, <2>2, <2>4 DEF CardTakesPin, Verifies, Administers
  <2>. QED
    BY <2>3, <2>4
<1>5. CASE CardConfirms
  BY <1>0, <1>3, <1>5 DEF CardConfirms, cardVars, Changes, Administers, CardOK
<1>6. CASE CardSetsPin
  <2>1. /\ UNCHANGED <<kdf, verified, life>> /\ cmd.ins \in Administers
        /\ tries' \in [PinType -> 0..maxTries]
    BY <1>0, <1>6 DEF CardSetsPin, CardOK
  <2>2. Count(cmd.ins) = 1 /\ cmd.ins \in MapsPins /\ 1 \in 1..1
    BY <2>1 DEF Count, MapsPins, Administers, Changes
  <2>3. cmd.data[1] \in Secret
    BY <2>2, PinSent
  <2>. QED
    BY <1>0, <1>2, <1>6, <2>1, <2>2, <2>3 DEF CardSetsPin, CardOK
<1>7. CASE CardSetsKdf
  <2>1. /\ cmd.ins = "setKdf" /\ kdf' = cmd.data[1] /\ secret' = FirstSecret(kdf')
        /\ tries' = FirstTries /\ verified' = {} /\ UNCHANGED life
    BY <1>7 DEF CardSetsKdf
  <2>2. kdf' \in Kdfs
    BY <1>0, <2>1 DEF SendInv, MapsPins, Verifies, Changes, Administers
  <2>3. tries' \in [PinType -> 0..maxTries]
    BY <1>0, <2>1 DEF FirstTries
  <2>4. CardOK'
    BY <1>0, <1>1, <2>1, <2>2, <2>3, FirstSecrets DEF CardOK
  <2>5. HashInv'
    BY <2>1, <2>2, FirstSecrets DEF HashInv
  <2>6. \A pt \in PinType : known'[pt] # {} => FactoryPin[pt] \in known'[pt]
    BY <2>1, KnownGives DEF NewPin
  <2>7. StoredPinIsTypable'
    BY <2>1, <2>2, <2>6, FirstSecrets DEF StoredPinIsTypable
  <2>. QED
    BY <2>4, <2>5, <2>7 DEF CardInv
<1>. QED
  BY <1>4, <1>5, <1>6, <1>7 DEF CardTakes

-----------------------------------------------------------------------------
(* The steps.                                                              *)

\* Between the calls
LEMMA SessionsKeep ==
  ASSUME PinsInv, Begin \/ End \/ InvalidateCache
  PROVE  PinsInv'
<1>0. /\ UNCHANGED <<traits, kdf, secret, tries, life, known, callVars, calls>>
      /\ pc' \in {"idle", "closed"} /\ verified' \subseteq {"user", "sign", "admin"}
      /\ cache' \in Kdfs \cup {Uncached} /\ result' \in {"none", "ok", "error", "refused"}
  BY DEF PinsInv, CardOK, CallOK, Begin, End, InvalidateCache, cardVars
<1>1. TraitsOK' /\ CardInv'
  BY <1>0 DEF PinsInv, CardInv, TraitsOK, CardOK, HashInv, StoredPinIsTypable, traits
<1>2. CallOK'
  BY <1>0 DEF PinsInv, CallOK, callVars
<1>3. MapInv' /\ SendInv' /\ ResetInv'
  BY <1>0 DEF MapInv, SendInv, ResetInv
<1>. QED
  BY <1>1, <1>2, <1>3 DEF PinsInv, CardInv

LEMMA MappingKeeps ==
  ASSUME PinsInv, ReadKdf \/ MapNext \/ MapFails
  PROVE  PinsInv'
<1>0. /\ pc = "map" /\ UNCHANGED <<traits, cardVars, known, bad, badAs, unread, calls>>
      /\ CallOK /\ MapInv /\ todo \in Seq(PinType \X Pin) /\ todo # <<>>
      /\ kdf \in Kdfs /\ NoKdf \in Kdfs /\ cmd.data \in Seq(Secret \cup Kdfs)
  BY PinsAssumption DEF ReadKdf, MapNext, MapFails, callVars, PinsInv, CardOK, CallOK, MapInv
<1>1. TraitsOK' /\ CardInv'
  BY <1>0 DEF PinsInv, CardInv, TraitsOK, CardOK, HashInv, StoredPinIsTypable, traits, cardVars
<1>2. CASE ReadKdf
  <2>1. CallOK'
    BY <1>0, <1>2 DEF ReadKdf, CallOK, callVars
  <2>2. Len(cmd.data) = 0
    <3>1. \A i \in 1..Len(cmd.data) : FALSE
      BY <1>0, <1>2 DEF ReadKdf, MapInv, Mapped, MappedAs
    <3>. QED
      BY <1>0, <3>1
  <2>3. MapInv'
    BY <1>0, <1>2, <2>2 DEF ReadKdf, MapInv, Mapped, callVars
  <2>. QED
    BY <1>0, <1>1, <1>2, <2>1, <2>3 DEF ReadKdf, PinsInv, CardInv, SendInv, ResetInv
<1>3. CASE MapNext
  <2> DEFINE d == MapPin(cache, Head(todo)[1], Head(todo)[2])
             n == Len(cmd.data)
  <2>1. /\ todo' = Tail(todo) /\ cmd' = [cmd EXCEPT !.data = Append(@, d)]
        /\ pc' = (IF todo' = <<>> THEN "send" ELSE "map") /\ UNCHANGED <<cache, result>>
        /\ cache # Uncached /\ CanMap(cache, Head(todo)[1]) /\ cache \in Kdfs
    BY <1>0, <1>3 DEF MapNext, CallOK
  <2>2. Head(todo) = todo[1] /\ Head(todo)[1] \in PinType /\ Head(todo)[2] \in Pin /\ 1 \in 1..Len(todo)
    BY <1>0
  <2>3. d \in Secret
    BY <2>1, <2>2, MapPinGives
  <2>4. Head(todo)[1] = PinAt(cmd.ins, n + 1)
    BY <1>0, <2>2 DEF MapInv
  <2>5. MappedAs(d, PinAt(cmd.ins, n + 1))
    BY <2>1, <2>2, <2>4 DEF MappedAs
  <2> HIDE DEF d
  <2>6. /\ cmd'.ins = cmd.ins /\ cmd'.pad = cmd.pad /\ cmd'.data = Append(cmd.data, d)
        /\ cmd.ins \in MapsPins /\ ~cmd.pad
    <3>1. cmd.ins \in MapsPins /\ ~cmd.pad
      BY <1>0 DEF MapInv
    <3>. QED
      BY <1>0, <2>1, <3>1 DEF CallOK
  <2>7. /\ cmd'.data \in Seq(Secret \cup Kdfs) /\ Len(cmd'.data) = n + 1 /\ n \in Nat
        /\ \A i \in 1..n : cmd'.data[i] = cmd.data[i]
        /\ cmd'.data[n + 1] = d
    BY <1>0, <2>3, <2>6
  <2>8. /\ todo' \in Seq(PinType \X Pin) /\ Len(todo') = Len(todo) - 1
        /\ \A i \in 1..Len(todo') : todo'[i] = todo[i + 1]
    BY <1>0, <2>1
  <2>9. Mapped'
    <3> SUFFICES ASSUME NEW i \in 1..(n + 1) PROVE MappedAs(cmd'.data[i], PinAt(cmd.ins, i))
      BY SMTT(60), <2>1, <2>6, <2>7 DEF Mapped, MappedAs
    <3>1. CASE i = n + 1
      BY <2>5, <2>7, <3>1
    <3>2. CASE i # n + 1
      BY SMTT(60), <1>0, <2>7, <3>2 DEF MapInv, Mapped
    <3>. QED
      BY <3>1, <3>2
  <2>10. Len(cmd'.data) + Len(todo') = Count(cmd'.ins)
    BY SMTT(60), <1>0, <2>6, <2>7, <2>8 DEF MapInv, Count
  <2>11. \A i \in 1..Len(todo') : todo'[i][1] = PinAt(cmd'.ins, Len(cmd'.data) + i)
    <3> SUFFICES ASSUME NEW i \in 1..Len(todo')
                 PROVE  todo'[i][1] = PinAt(cmd.ins, n + 1 + i)
      BY <2>6, <2>7
    <3>1. i + 1 \in 1..Len(todo) /\ todo'[i] = todo[i + 1]
      BY <1>0, <2>8
    <3>2. n + (i + 1) = n + 1 + i
      <4>1. n \in Nat /\ i \in Int
        BY <2>7
      <4> HIDE DEF n
      <4>. QED
        BY <4>1
    <3>3. todo[i + 1][1] = PinAt(cmd.ins, n + (i + 1))
      BY <1>0, <3>1 DEF MapInv
    <3>. QED
      BY <3>1, <3>2, <3>3
  <2>12. MapInv'
    BY <2>1, <2>6, <2>9, <2>10, <2>11 DEF MapInv
  <2>13. SendInv'
    <3>1. ASSUME pc' = "send" PROVE Len(cmd'.data) = Count(cmd'.ins)
      <4>1. todo' = <<>>
        BY <2>1, <3>1
      <4>2. Len(todo') = 0
        BY <4>1
      <4>3. Len(cmd'.data) \in Nat
        BY <2>7
      <4>. QED
        BY <2>10, <4>2, <4>3
    <3>. QED
      BY <2>6, <2>9, <3>1 DEF SendInv
  <2>14. CallOK'
    BY <1>0, <2>1, <2>6, <2>7, <2>8 DEF CallOK
  <2>. QED
    BY <1>1, <2>1, <2>12, <2>13, <2>14 DEF PinsInv, CardInv, ResetInv
<1>4. CASE MapFails
  <2>1. /\ pc' = "idle" /\ result' = "error" /\ cmd' = NoCommand /\ todo' = <<>>
        /\ UNCHANGED cache
    BY <1>4 DEF MapFails, Return
  <2>2. CallOK'
    BY <1>0, <2>1 DEF CallOK, NoCommand, Instructions
  <2>. QED
    BY <1>1, <2>1, <2>2 DEF PinsInv, CardInv, MapInv, SendInv, ResetInv
<1>. QED
  BY <1>2, <1>3, <1>4

\* The call ends.
LEMMA Ending ==
  ASSUME PinsInv, pc' \in {"idle", "closed"}, cmd' = NoCommand, todo' \in {todo, <<>>},
         result' \in {"ok", "error", "refused"},
         UNCHANGED <<traits, cache, bad, badAs, unread, calls>>
  PROVE  TraitsOK' /\ CallOK' /\ MapInv' /\ SendInv' /\ ResetInv'
<1>1. cmd'.ins \in Instructions /\ cmd'.data \in Seq(Secret \cup Kdfs) /\ cmd'.pad \in BOOLEAN
  BY DEF NoCommand, Instructions
<1>2. todo' \in Seq(PinType \X Pin)
  <2>1. todo \in Seq(PinType \X Pin)
    BY DEF PinsInv, CallOK
  <2>2. <<>> \in Seq(PinType \X Pin)
    OBVIOUS
  <2>. QED
    BY <2>1, <2>2
<1>3. CallOK'
  BY <1>1, <1>2 DEF PinsInv, CallOK
<1>4. TraitsOK'
  BY DEF PinsInv, TraitsOK, traits
<1>. QED
  BY <1>3, <1>4 DEF MapInv, SendInv, ResetInv

LEMMA CommandsKeep ==
  ASSUME PinsInv, CommandSucceeds \/ CommandRefused \/ ReplyLost \/ CardGone
  PROVE  PinsInv'
<1>0. /\ pc' \in {"idle", "closed"} /\ cmd' = NoCommand /\ todo' \in {todo, <<>>}
      /\ result' \in {"ok", "error", "refused"}
      /\ UNCHANGED <<traits, cache, bad, badAs, unread, calls>>
  BY DEF CommandSucceeds, CommandRefused, ReplyLost, CardGone, Return, Lose
<1>1. ASSUME CommandSucceeds PROVE CardInv'
  BY <1>0, <1>1, CardTaking DEF CommandSucceeds
<1>2. ASSUME pc = "send", CardRefuses, known' = known \/ known' = KnownAfter(FALSE)
      PROVE  CardInv'
  BY <1>0, <1>2, CardRefusing, PinsKept
<1>3. ASSUME ReplyLost PROVE CardInv'
  BY <1>0, <1>2, <1>3, CardTaking DEF ReplyLost, Lose
<1>4. ASSUME CardGone PROVE CardInv'
  <2>1. CASE pc = "send"
    BY <1>0, <1>4, <2>1, PinsKept DEF CardGone, Lose, cardVars, PinsInv, CardOK, traits
  <2>2. CASE pc # "send"
    BY <1>0, <1>4, <2>2 DEF CardGone, Lose, cardVars, traits, PinsInv, CardInv, CardOK, HashInv,
       StoredPinIsTypable
  <2>. QED
    BY <2>1, <2>2
<1>5. CardInv'
  BY <1>1, <1>2, <1>3, <1>4 DEF CommandRefused, Return
<1>. QED
  BY <1>0, <1>5, Ending DEF PinsInv, CardInv

-----------------------------------------------------------------------------
(* factory_reset.                                                          *)

\* A bad PIN costs a try that the card has, if it has the right length.
LEMMA BadPins ==
  ASSUME PinsInv, pc = "reset", CardGetsBadPin
  PROVE  /\ UNCHANGED <<kdf, secret, life>> /\ BadType \in {"Pw1", "Pw3"}
         /\ tries' \in [PinType -> 0..maxTries] /\ verified' \subseteq {"user", "sign", "admin"}
         /\ \A pt \in PinType : pt # BadType => tries'[pt] = tries[pt]
         /\ Doomed => tries'[BadType] = IF tries[BadType] = 0 THEN 0 ELSE tries[BadType] - 1
<1>0. /\ tries \in [PinType -> 0..maxTries] /\ maxTries \in Nat \ {0}
      /\ BadType \in {"Pw1", "Pw3"} /\ verified \subseteq {"user", "sign", "admin"}
  BY PinsAssumption DEF PinsInv, TraitsOK, CardOK, BadType
<1>1. CASE Usable(BadType) /\ Wrong(BadType, BadPin)
  <2>1. /\ UNCHANGED <<kdf, secret, life>> /\ verified' \subseteq {"user", "sign", "admin"}
        /\ tries[BadType] > 0
        /\ tries' \in {[tries EXCEPT ![BadType] = @ - 1]} \cup
                      (IF LengthFits(BadType, BadPin) THEN {} ELSE {tries})
    BY <1>0, <1>1 DEF Usable, Wrong
  <2>2. ASSUME Doomed PROVE LengthFits(BadType, BadPin)
    <3>1. known[BadType] # {} /\ badAs = BadLength(kdf)
      BY <1>0, <2>2 DEF Doomed, PinsInv, ResetInv
    <3>. QED
      BY <1>0, <3>1 DEF LengthFits, BadPin, PinsInv, HashInv, PinType
  <2>3. [tries EXCEPT ![BadType] = @ - 1] \in [PinType -> 0..maxTries]
    BY <1>0, <2>1 DEF PinType
  <2>4. Doomed => tries'[BadType] = tries[BadType] - 1
    BY <1>0, <2>1, <2>2 DEF PinType
  <2>. QED
    BY <1>0, <2>1, <2>3, <2>4 DEF PinType
<1>2. CASE life = "active" /\ tries[BadType] = 0 /\ UNCHANGED cardVars
  BY <1>0, <1>2 DEF cardVars
<1>. QED
  BY <1>1, <1>2 DEF CardGetsBadPin

\* TERMINATE DF and ACTIVATE FILE
LEMMA Activating ==
  ASSUME PinsInv, CardActivates, UNCHANGED traits
  PROVE  CardInv'
<1>1. CASE life = "terminated"
  <2>1. /\ kdf' = NoKdf /\ secret' = FirstSecret(NoKdf) /\ tries' = FirstTries
        /\ verified' = {} /\ life' = "active" /\ known' = FirstKnown
    BY <1>1 DEF CardActivates
  <2>2. NoKdf \in Kdfs /\ maxTries \in Nat \ {0} /\ maxTries' = maxTries
        /\ FactoryPin \in [PinType -> Pin]
    BY PinsAssumption DEF PinsInv, TraitsOK, traits
  <2>3. tries' \in [PinType -> 0..maxTries] /\ known' \in [PinType -> SUBSET Pin]
    BY <2>1, <2>2 DEF FirstTries, FirstKnown
  <2>4. CardOK'
    BY <2>1, <2>2, <2>3, FirstSecrets DEF CardOK
  <2>5. HashInv'
    BY <2>1, <2>2, FirstSecrets DEF HashInv
  <2>6. StoredPinIsTypable'
    BY <2>1, <2>2, FirstSecrets DEF StoredPinIsTypable, FirstKnown
  <2>. QED
    BY <2>4, <2>5, <2>6 DEF CardInv
<1>2. CASE life # "terminated"
  BY <1>2 DEF CardActivates, cardVars, traits, PinsInv, CardInv, CardOK, HashInv,
     StoredPinIsTypable
<1>. QED
  BY <1>1, <1>2

LEMMA ResetsKeep ==
  ASSUME PinsInv,
         \/ ResetReadKdf \/ ResetReadFails \/ ResetAttempt \/ ResetGivesUp
         \/ ResetTerminate \/ ResetActivate \/ ResetReplyLost
  PROVE  PinsInv'
<1>1. CASE ResetReadKdf \/ ResetReadFails
  <2>0. /\ pc = "resetKdf" /\ pc' = "reset" /\ UNCHANGED <<traits, cardVars, known>>
        /\ UNCHANGED <<cache, todo, cmd, bad, result, calls>>
        /\ unread' \/ badAs' = BadLength(kdf)
        /\ badAs' \in {"raw", "sha256", "sha512"}
    BY <1>1 DEF ResetReadKdf, ResetReadFails, BadLength
  <2>1. unread' \in BOOLEAN
    BY <1>1 DEF ResetReadKdf, ResetReadFails, PinsInv, CallOK
  <2>2. TraitsOK' /\ CardInv'
    BY <2>0 DEF PinsInv, CardInv, TraitsOK, CardOK, HashInv, StoredPinIsTypable, traits, cardVars
  <2>3. CallOK'
    BY <2>0, <2>1 DEF PinsInv, CallOK
  <2>4. ResetInv'
    <3>1. /\ tries'["Pw1"] \in 0..maxTries' /\ tries'["Pw3"] \in 0..maxTries'
          /\ maxTries' \in Nat /\ bad' = 0
      BY <2>0, <2>2, PinsAssumption DEF CardInv, CardOK, TraitsOK, PinsInv, ResetInv, PinType
    <3>. QED
      BY <2>0, <3>1 DEF ResetInv, Doomed, cardVars
  <2>. QED
    BY <2>0, <2>2, <2>3, <2>4 DEF PinsInv, CardInv, MapInv, SendInv
<1>2. CASE ResetAttempt
  <2>0. /\ pc = "reset" /\ CardGetsBadPin /\ bad' = bad + 1
        /\ pc' = (IF bad' = 8 THEN "terminate" ELSE "reset")
        /\ UNCHANGED <<traits, cache, todo, cmd, badAs, unread, result, known, calls>>
        /\ bad \in 0..7 /\ maxTries \in Nat
    BY <1>2, PinsAssumption DEF ResetAttempt, BadDone, PinsInv, CallOK, TraitsOK, ResetInv
  <2>1. TraitsOK' /\ CardInv'
    BY <2>0, BadPins DEF PinsInv, CardInv, TraitsOK, CardOK, HashInv, StoredPinIsTypable, traits
  <2>2. CallOK'
    BY <2>0 DEF PinsInv, CallOK
  <2>3. ASSUME Doomed
        PROVE  /\ badAs' = BadLength(kdf')
               /\ tries'["Pw1"] = 0 \/ (bad' < 4 /\ tries'["Pw1"] + bad' <= maxTries')
               /\ tries'["Pw3"] = 0 \/ tries'["Pw3"] + bad' <= maxTries' + 4
    <3>1. /\ badAs = BadLength(kdf) /\ maxTries' = maxTries /\ maxTries <= 4
          /\ tries["Pw1"] = 0 \/ (bad < 4 /\ tries["Pw1"] + bad <= maxTries)
          /\ tries["Pw3"] = 0 \/ tries["Pw3"] + bad <= maxTries + 4
          /\ tries["Pw1"] \in 0..maxTries /\ tries["Pw3"] \in 0..maxTries
      BY <2>0, <2>3 DEF Doomed, PinsInv, ResetInv, CardOK, PinType, traits
    <3>2. badAs' = BadLength(kdf')
      BY <2>0, <3>1, BadPins
    <3>3. CASE bad < 4
      <4>1. /\ tries'["Pw3"] = tries["Pw3"]
            /\ tries'["Pw1"] = IF tries["Pw1"] = 0 THEN 0 ELSE tries["Pw1"] - 1
        BY <2>0, <2>3, <3>3, BadPins DEF BadType, PinType
      <4>. QED
        BY <2>0, <3>1, <3>2, <3>3, <4>1
    <3>4. CASE bad >= 4
      <4>1. /\ tries'["Pw1"] = tries["Pw1"]
            /\ tries'["Pw3"] = IF tries["Pw3"] = 0 THEN 0 ELSE tries["Pw3"] - 1
        BY <2>0, <2>3, <3>4, BadPins DEF BadType, PinType
      <4>. QED
        BY <2>0, <3>1, <3>2, <3>4, <4>1
    <3>. QED
      BY <2>0, <3>3, <3>4
  <2>4. Doomed' = Doomed /\ (Doomed => maxTries' <= 4)
    BY <2>0 DEF Doomed, traits
  <2>5. /\ tries'["Pw1"] \in 0..maxTries' /\ tries'["Pw3"] \in 0..maxTries' /\ maxTries' = maxTries
    BY <2>0, <2>1 DEF CardInv, CardOK, PinType, traits
  <2>6. ResetInv'
    <3>1. CASE bad' = 8
      BY <2>0, <2>3, <2>4, <2>5, <3>1 DEF ResetInv
    <3>2. CASE bad' # 8
      BY <2>0, <2>3, <2>4, <3>2 DEF ResetInv
    <3>. QED
      BY <3>1, <3>2
  <2>. QED
    BY <2>0, <2>1, <2>2, <2>6 DEF PinsInv, CardInv, MapInv, SendInv
<1>3. CASE ResetGivesUp
  <2>1. CardInv'
    BY <1>3 DEF ResetGivesUp, PinsInv, CardInv, CardOK, HashInv, StoredPinIsTypable, traits,
       cardVars
  <2>. QED
    BY <1>3, <2>1, Ending DEF ResetGivesUp, Return, PinsInv, CardInv
<1>4. CASE ResetTerminate
  <2>0. /\ pc = "terminate" /\ pc' = "activate" /\ CardTerminates
        /\ UNCHANGED <<traits, kdf, secret, tries, verified, cache, callVars, result, known, calls>>
    BY <1>4 DEF ResetTerminate
  <2>1. TraitsOK' /\ CardInv'
    BY <2>0 DEF PinsInv, CardInv, TraitsOK, CardOK, HashInv, StoredPinIsTypable, traits,
       CardTerminates
  <2>2. CallOK'
    BY <2>0 DEF PinsInv, CallOK, callVars
  <2>3. Doomed' => life' = "terminated"
    BY <2>0 DEF PinsInv, ResetInv, Doomed, CardTerminates, traits, callVars
  <2>. QED
    BY <2>0, <2>1, <2>2, <2>3 DEF PinsInv, CardInv, MapInv, SendInv, ResetInv
<1>5. CASE ResetActivate
  <2>1. CardInv'
    BY <1>5, Activating DEF ResetActivate
  <2>. QED
    BY <1>5, <2>1, Ending DEF ResetActivate, Return, PinsInv, CardInv
<1>6. CASE ResetReplyLost
  <2>0. /\ pc' = "closed" /\ result' = "error" /\ cmd' = NoCommand
        /\ UNCHANGED <<traits, cache, todo, bad, badAs, unread, calls>>
    BY <1>6 DEF ResetReplyLost
  <2>1. ASSUME pc = "reset", CardGetsBadPin, known' = known PROVE CardInv'
    BY <2>0, <2>1, BadPins DEF PinsInv, CardInv, CardOK, HashInv, StoredPinIsTypable, traits
  <2>2. ASSUME CardTerminates, UNCHANGED <<kdf, secret, tries, verified, known>>
        PROVE  CardInv'
    BY <2>0, <2>2 DEF PinsInv, CardInv, CardOK, HashInv, StoredPinIsTypable, traits,
       CardTerminates
  <2>3. ASSUME CardActivates PROVE CardInv'
    BY <2>0, <2>3, Activating
  <2>4. CardInv'
    BY <1>6, <2>1, <2>2, <2>3 DEF ResetReplyLost
  <2>. QED
    BY <2>0, <2>4, Ending DEF PinsInv, CardInv
<1>. QED
  BY <1>1, <1>2, <1>3, <1>4, <1>5, <1>6

-----------------------------------------------------------------------------
(* What is proved.                                                         *)

\* Everything above, in every state
LEMMA PinsInvHolds == PinsSpec => []PinsInv
<1>1. PinsInit => PinsInv
  <2> SUFFICES ASSUME PinsInit PROVE PinsInv
    OBVIOUS
  <2>0. /\ kdf \in Kdfs /\ maxTries \in Nat \ {0} /\ FactoryPin \in [PinType -> Pin]
        /\ secret = FirstSecret(kdf) /\ tries = FirstTries /\ known = FirstKnown
    BY PinsAssumption DEF PinsInit
  <2>1. tries \in [PinType -> 0..maxTries] /\ known \in [PinType -> SUBSET Pin]
    BY <2>0 DEF FirstTries, FirstKnown
  <2>2. CardOK
    BY <2>0, <2>1, FirstSecrets DEF PinsInit, CardOK
  <2>3. HashInv /\ StoredPinIsTypable
    BY <2>0, FirstSecrets DEF HashInv, StoredPinIsTypable, FirstKnown
  <2>4. TraitsOK /\ CallOK
    <3>1. /\ cmd.ins \in Instructions /\ cmd.data \in Seq(Secret \cup Kdfs)
          /\ cmd.pad \in BOOLEAN
      BY DEF PinsInit, NoCommand, Instructions
    <3>2. unread \in BOOLEAN
      BY DEF PinsInit
    <3>4. calls \in 0..MaxCalls
      <4>1. calls = 0 /\ MaxCalls \in Nat
        BY PinsAssumption DEF PinsInit
      <4>. QED
        BY <4>1
    <3>3. todo \in Seq(PinType \X Pin)
      <4>1. <<>> \in Seq(PinType \X Pin)
        OBVIOUS
      <4>. QED
        BY <4>1 DEF PinsInit
    <3>. QED
      BY <3>1, <3>2, <3>3, <3>4 DEF PinsInit, TraitsOK, CallOK
  <2>. QED
    BY <2>2, <2>3, <2>4 DEF PinsInit, PinsInv, MapInv, SendInv, ResetInv
<1>2. PinsInv /\ [PinsNext]_pinVars => PinsInv'
  <2> SUFFICES ASSUME PinsInv, [PinsNext]_pinVars PROVE PinsInv'
    OBVIOUS
  <2>1. CASE UNCHANGED pinVars
    <3>1. TraitsOK' /\ CardInv'
      BY <2>1 DEF pinVars, traits, cardVars, PinsInv, TraitsOK, CardInv, CardOK, HashInv,
         StoredPinIsTypable
    <3>2. CallOK' /\ ResetInv'
      BY <2>1 DEF pinVars, traits, cardVars, callVars, PinsInv, CallOK, ResetInv, Doomed
    <3>3. MapInv' /\ SendInv'
      <4>1. Mapped' <=> Mapped
        BY <2>1 DEF pinVars, callVars, Mapped, MappedAs
      <4>. QED
        BY <2>1, <4>1 DEF pinVars, callVars, PinsInv, MapInv, SendInv
    <3>. QED
      BY <3>1, <3>2, <3>3 DEF PinsInv, CardInv
  <2>. QED
    BY <2>1, CallsBegin, SessionsKeep, MappingKeeps, CommandsKeep, ResetsKeep DEF PinsNext
<1>. QED
  BY <1>1, <1>2, PTL DEF PinsSpec

\* The type invariant, for any number of calls
THEOREM PinsTypes == PinsSpec => []PinsTypeOK
BY PinsInvHolds, PinsInvTypes, PTL

\* A PIN that was set is one of those the user has reason to try, mapped as the next
\* session maps it: for any PINs, any KDF-DO and any number of calls, refused or lost.
THEOREM StoredPinsAreTypable == PinsSpec => []StoredPinIsTypable
BY PinsInvHolds, PTL DEF PinsInv

\* No try is lost but by a wrong PIN, and by those calls that are known to cost tries.
THEOREM WrongPinsCostTries == PinsSpec => OnlyWrongPinsCostTries
<1> DEFINE Cheap(pt) ==
        tries'[pt] < tries[pt] =>
            \/ pc = "reset" \/ Misled \/ cmd.ins \in {"askUser", "askAdmin", "setKdf"}
            \/ pc = "activate"
            \/ secret[pt] # MapPin(kdf, pt, cmd.data[1].pin)
<1>1. PinsInv /\ [PinsNext]_pinVars => [\A pt \in PinType : Cheap(pt)]_pinVars
  <2> SUFFICES ASSUME PinsInv, PinsNext, NEW pt \in PinType PROVE Cheap(pt)
    OBVIOUS
  <2>0. /\ tries \in [PinType -> 0..maxTries] /\ maxTries \in Nat \ {0}
    BY PinsAssumption DEF PinsInv, CardOK, TraitsOK
  <2>1. CASE UNCHANGED tries
    BY <2>0, <2>1
  <2>2. CASE CommandSucceeds \/ CommandRefused \/ ReplyLost
    <3>0. pc = "send" /\ (CardTakes \/ CardRefuses)
      BY <2>2 DEF CommandSucceeds, CommandRefused, ReplyLost
    <3>1. CASE CardTakesPin
      BY <2>0, <3>1 DEF CardTakesPin
    <3>2. CASE CardSetsPin
      BY <2>0, <3>2 DEF CardSetsPin
    <3>3. CASE CardSetsKdf \/ CardDenies
      BY <3>3 DEF CardSetsKdf, CardDenies
    <3>4. CASE CardConfirms \/ CardDoesNothing
      BY <2>0, <3>4 DEF CardConfirms, CardDoesNothing, cardVars
    <3>5. CASE CardRefusesPin
      <4>1. /\ cmd.ins \in Verifies \cup Changes /\ cmd.data[1] # secret[PinOf(cmd.ins)]
            /\ tries' \in {[tries EXCEPT ![PinOf(cmd.ins)] = @ - 1], tries}
        BY <3>5 DEF CardRefusesPin, Wrong
      <4>2. /\ 1 \in 1..Count(cmd.ins) /\ cmd.ins \in MapsPins
            /\ PinAt(cmd.ins, 1) = PinOf(cmd.ins)
        BY <4>1 DEF Count, MapsPins, PinAt, Verifies, Changes, Administers
      <4>3. ~Misled => cmd.data[1] = MapPin(kdf, PinOf(cmd.ins), cmd.data[1].pin)
        BY <3>0, <4>2, PinSent
      <4>4. tries'[pt] < tries[pt] => pt = PinOf(cmd.ins)
        BY <2>0, <4>1
      <4>. QED
        BY <4>1, <4>3, <4>4
    <3>. QED
      BY <3>0, <3>1, <3>2, <3>3, <3>4, <3>5 DEF CardTakes, CardRefuses
  <2>3. CASE ResetAttempt \/ ResetActivate \/ ResetReplyLost
    BY <2>0, <2>3 DEF ResetAttempt, ResetActivate, ResetReplyLost
  <2>. QED
    BY <2>1, <2>2, <2>3 DEF PinsNext, Begin, End, InvalidateCache, PinsCall, VerifyUser,
       VerifySigning, VerifyAdmin, CheckUser, CheckAdmin, ChangeUser, ChangeAdmin, ResetByCode,
       ResetByAdmin, SetCode, SetKdf, VerifyByPad, ChangeByPad, NoPinpad, FactoryReset, Ask, AskRaw,
       ReadKdf, MapNext, MapFails, CardGone, ResetReadKdf, ResetReadFails, ResetGivesUp,
       ResetTerminate, cardVars
<1>. QED
  BY <1>1, PinsInvHolds, PTL DEF OnlyWrongPinsCostTries, PinsSpec

\* A reset that returned Ok has left the card blank: for any number of attempts up to
\* four, any KDF-DO that could be read and any PINs that were set by it.
THEOREM ResetsAreComplete == PinsSpec => ResetIsComplete
<1>1. PinsInv /\ [PinsNext]_pinVars
        => [(/\ pc = "activate" /\ result' = "ok"
             /\ canReset /\ maxTries <= 4
             /\ ~unread /\ known["Pw1"] # {} /\ known["Pw3"] # {}) => Blank']_pinVars
  <2> SUFFICES ASSUME PinsInv, PinsNext, pc = "activate", result' = "ok", Doomed
               PROVE  Blank'
    BY DEF Doomed
  <2>1. ResetActivate
    BY DEF PinsNext, Begin, End, InvalidateCache, PinsCall, VerifyUser,
       VerifySigning, VerifyAdmin, CheckUser, CheckAdmin, ChangeUser, ChangeAdmin, ResetByCode,
       ResetByAdmin, SetCode, SetKdf, VerifyByPad, ChangeByPad, NoPinpad, FactoryReset, Ask, AskRaw,
       ReadKdf, MapNext, MapFails, CommandSucceeds, CommandRefused, ReplyLost, CardGone, Lose,
       ResetReadKdf, ResetReadFails, ResetAttempt, ResetGivesUp, ResetTerminate, ResetReplyLost
  <2>2. life = "terminated"
    BY DEF PinsInv, ResetInv
  <2>. QED
    BY <2>1, <2>2 DEF ResetActivate, CardActivates, Blank, traits, FirstTries
<1>. QED
  BY <1>1, PinsInvHolds, PTL DEF ResetIsComplete, PinsSpec
=============================================================================
