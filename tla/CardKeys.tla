------------------------------ MODULE CardKeys ------------------------------
(***************************************************************************)
(* The key slots of an OpenPGP card and a session that imports, generates, *)
(* describes and attests keys: Card<Open>, Card<Transaction>, Card<Admin>  *)
(* and Card<Sign> (openpgp-card/src/lib.rs) with their cached application  *)
(* related data (state.rs), on ocard/mod.rs and ocard/keys.rs.             *)
(*                                                                         *)
(* A call is a sequence of tasks, most of them one command to the card,    *)
(* which may do it, refuse it, or be lost before or after it has done it.  *)
(* A key is named by the call that made it, and so are the fingerprint and *)
(* the creation time of this key.  While no transaction is open, another   *)
(* program may set a touch policy.                                         *)
(***************************************************************************)
EXTENDS Algorithms

CONSTANTS
    Slot,        \* the key slots in use
    Uncached,    \* a cache that is empty
    NoArd,       \* what a cache holds after a read that failed
    Cards,       \* kinds of cards: changeable, touch, list
    FirstAttrs,  \* FirstAttrs[s]: the attributes of slot s of a new card
    Imported,    \* what the keys to import are, as WantRsa and WantEcc
    Simples,     \* the AlgoSimple that are asked for
    MaxCalls     \* bound on the calls of the library

\* A card: whether its attributes can change, whether it has touch policies, its list.
Attributes == [kind : {"rsa"}, n : Nat, e : Nat, format : Nat]
                \cup [kind : {"ecc"}, type : EccType, curve : Curve, format : {{}, {255}}]
                \cup [kind : {"unknown"}, octets : Seq(Int)]
Want == [kind : {"rsa"}, bits : Nat] \cup [kind : {"ecc"}, type : EccType, curve : Curve]
Lists == Seq([slot : KeyType, attributes : Attributes])
IsCard(c) ==
    /\ c.changeable \in BOOLEAN /\ c.touch \in BOOLEAN
    /\ c.list = {} \/ \E l \in c.list : l \in Lists /\ c.list = {l}

ASSUME KeysAssumption ==
    /\ Slot \subseteq KeyType
    /\ \A c \in Cards : IsCard(c)
    /\ FirstAttrs \in [Slot -> Attributes]
    /\ \A u \in {Uncached, NoArd} : u \notin [attrs : [Slot -> Attributes], touch : SUBSET Slot]
    /\ Imported \subseteq Want /\ Simples \subseteq AlgoSimple
    /\ MaxCalls \in Nat

VARIABLES
    traits,      \* the card: attributes can change; it has touch policies; its list
    attrs,       \* the card: the algorithm attributes of each slot
    key,         \* the card: the key in each slot, 0 for none
    fp,          \* the card: the fingerprint of each slot
    time,        \* the card: the creation time of each slot
    touch,       \* the card: the slots whose key wants a touch
    once,        \* the card: the User PIN is good for one signature
    pc,          \* "closed", "open", "idle" and "busy" in a transaction, "panicked"
    ard,         \* the cached application related data
    ai,          \* the cached list of algorithms, of an opened card
    op,          \* the call: its name, its slot, what it wants
    todo,        \* its tasks
    read,        \* attributes this call has read, {} for none
    list,        \* the list this call has, {} for none
    chosen,      \* attributes this call has chosen, {} for none
    prompted,    \* this call has prompted for a touch
    answer,      \* attributes that a public key was read with, {} for none
    result,      \* how the last call ended
    stale,       \* history: a touch policy was set since the data were cached
    invalidated, \* history: the cache was emptied, and not filled since
    described,   \* history: slots the last call for which succeeded in describing
    calls        \* history: calls made; the name of the current one

cardVars == <<attrs, key, fp, time, touch, once>>
dataVars == <<read, list, chosen, prompted, answer>>
callVars == <<op, todo, dataVars, result>>
histVars == <<stale, invalidated, described, calls>>
keysVars == <<traits, cardVars, pc, ard, ai, callVars, histVars>>

NoCall == [name |-> "none", slot |-> "Signing", want |-> {}]

\* What a fingerprint is that was computed with attributes not of the key.
Wrong == MaxCalls + 1

Ids == 0..(MaxCalls + 1)
Tasks == {"list", "ard", "choose", "attributes", "key", "fingerprint", "time", "generate",
          "cached", "touch", "once", "prompt", "attest", "public"}
Names == {"none", "import", "generate", "set", "touch", "once", "attest", "public", "get"}

KeysTypeOK ==
    /\ traits \in Cards
    /\ attrs \in [Slot -> Attributes]
    /\ key \in [Slot -> Ids] /\ fp \in [Slot -> Ids] /\ time \in [Slot -> Ids]
    /\ touch \subseteq Slot /\ once \in BOOLEAN
    /\ ~traits.touch => touch = {}
    /\ pc \in {"closed", "open", "idle", "busy", "panicked"}
    /\ ard \in {Uncached, NoArd} \cup [attrs : [Slot -> Attributes], touch : SUBSET Slot]
    /\ ai \in {Uncached, {}, traits.list}
    /\ list \subseteq traits.list
    /\ op.name \in Names /\ op.slot \in KeyType
    /\ todo \in Seq(Tasks) /\ (pc = "busy" <=> todo # <<>>)
    /\ read \in SUBSET Attributes /\ chosen \in SUBSET Attributes
    /\ answer \in SUBSET Attributes /\ prompted \in BOOLEAN
    /\ result \in {"none", "ok", "error"}
    /\ stale \in BOOLEAN /\ invalidated \in BOOLEAN /\ described \subseteq Slot /\ calls \in 0..MaxCalls

-----------------------------------------------------------------------------
(* The application related data, as the card would send them now.          *)

Ard == [attrs |-> attrs, touch |-> touch]

KeysInit ==
    /\ traits \in Cards
    /\ attrs = FirstAttrs
    /\ key = [s \in Slot |-> 0] /\ fp = key /\ time = key
    /\ touch \in IF traits.touch THEN SUBSET Slot ELSE {{}}
    /\ once \in BOOLEAN
    /\ pc = "closed" /\ ard = Uncached /\ ai = Uncached
    /\ op = NoCall /\ todo = <<>>
    /\ read = {} /\ list = {} /\ chosen = {} /\ answer = {}
    /\ prompted = FALSE /\ result = "none"
    /\ stale = FALSE /\ invalidated = FALSE /\ described = {} /\ calls = 0

\* Card::new, OpenPGP::new: nothing is cached that may change.
Open ==
    /\ pc = "closed" /\ pc' = "open" /\ ai' = Uncached
    /\ UNCHANGED <<traits, cardVars, ard, callVars, histVars>>

NoData == read' = {} /\ list' = {} /\ chosen' = {} /\ answer' = {} /\ prompted' = FALSE

\* Card<Open>::transaction: fresh data, or no transaction.
\* Mutated forms: the data of the transaction before are good enough; the data
\* are left to be read when they are needed.
BeginCached ==
    /\ pc = "open" /\ pc' = "idle"
    /\ ard' = IF ard \in {Uncached, NoArd} THEN Ard ELSE ard
    /\ stale' = FALSE /\ invalidated' = FALSE
    /\ op' = NoCall /\ result' = "none" /\ NoData
    /\ UNCHANGED <<traits, cardVars, ai, todo, described, calls>>
BeginLazy ==
    /\ pc = "open" /\ pc' = "idle"
    /\ ard' = Uncached
    /\ stale' = FALSE /\ invalidated' = FALSE
    /\ op' = NoCall /\ result' = "none" /\ NoData
    /\ UNCHANGED <<traits, cardVars, ai, todo, described, calls>>
Begin ==
    /\ pc = "open" /\ pc' = "idle"
    /\ ard' = Ard
    /\ stale' = FALSE /\ invalidated' = FALSE
    /\ op' = NoCall /\ result' = "none" /\ NoData
    /\ UNCHANGED <<traits, cardVars, ai, todo, described, calls>>

End ==
    /\ pc = "idle" /\ pc' \in {"open", "closed"}
    /\ UNCHANGED <<traits, cardVars, ard, ai, callVars, histVars>>

InvalidateCache ==
    /\ pc = "idle" /\ ard # Uncached /\ ard' = Uncached /\ invalidated' = TRUE
    /\ UNCHANGED <<traits, cardVars, pc, ai, callVars, stale, described, calls>>

\* Another program
OtherTouch(s) ==
    /\ pc \in {"closed", "open"} /\ traits.touch
    /\ touch' \in {touch \cup {s}, touch \ {s}}
    /\ UNCHANGED <<traits, attrs, key, fp, time, once, pc, ard, ai, callVars, histVars>>

-----------------------------------------------------------------------------
(* The calls.                                                              *)

Call(name, s, want, tasks) ==
    /\ pc = "idle" /\ calls < MaxCalls /\ calls' = calls + 1
    /\ pc' = "busy" /\ result' = "none"
    /\ op' = [name |-> name, slot |-> s, want |-> want] /\ todo' = tasks
    /\ NoData
    /\ described' = IF name \in {"import", "generate", "set"} THEN described \ {s}
                    ELSE described
    /\ UNCHANGED <<traits, cardVars, ard, ai, stale, invalidated>>

\* import_key_set_metadata: the attributes, if they can change, and then
\* Mutated form: the fingerprint goes first.
StoreEarly == IF traits.changeable THEN <<"attributes", "fingerprint", "key", "time">>
              ELSE <<"fingerprint", "key", "time">>
Store == IF traits.changeable THEN <<"attributes", "key", "fingerprint", "time">>
         ELSE <<"key", "fingerprint", "time">>

\* key_import, of RSA and ECC keys
ImportKey(s, want) ==
    Call("import", s, want,
         (IF want.kind = "rsa" THEN <<"list", "ard", "choose">> ELSE <<"list", "choose">>) \o Store)

\* generate_key, gen_key_set_metadata
GenerateKey(s) == Call("generate", s, {}, <<"ard", "generate", "time", "fingerprint">>)

\* set_algorithm, matching_algorithm_attributes
SetAlgorithm(s, algo) ==
    Call("set", s, Simple(algo, s), <<"ard", "list", "choose", "attributes">>)

SetTouchPolicy(s, on) == Call("touch", s, on, <<"cached", "touch">>)
SetSigningValidity(b) == Call("once", "Signing", b, <<"cached", "once">>)
GenerateAttestation(s) == Call("attest", s, {}, <<"cached", "prompt", "attest">>)
PublicKey(s) == Call("public", s, {}, <<"ard", "public">>)

\* The getters that need the application related data, cached or not
ReadCached == Call("get", "Signing", {}, <<"cached">>)

-----------------------------------------------------------------------------
(* Tasks.  A call goes on, ends with an error, or loses the card.          *)

Task(t) == pc = "busy" /\ Head(todo) = t

Proceed ==
    /\ todo' = Tail(todo)
    /\ IF Tail(todo) = <<>>
       THEN /\ pc' = "idle" /\ result' = "ok"
            /\ described' = IF op.name \in {"import", "generate"}
                            THEN described \cup {op.slot} ELSE described
       ELSE UNCHANGED <<pc, result, described>>
\* Mutated form: the rest of the call stays behind.
AbortUnfinished(where) ==
    /\ todo' = todo /\ pc' = where /\ result' = "error" /\ UNCHANGED described
Abort(where) ==
    /\ todo' = <<>> /\ pc' = where /\ result' = "error" /\ UNCHANGED described
Fail == Abort("idle")
Lose == Abort("closed")

\* application_related_data, of a fresh kind
\* Mutated form: that which is cached will do.
ReadArdCached ==
    /\ Task("ard")
    /\ \/ read' = {IF ard \in {Uncached, NoArd} THEN attrs[op.slot] ELSE ard.attrs[op.slot]}
          /\ Proceed
       \/ UNCHANGED read /\ (Fail \/ Lose)
    /\ UNCHANGED <<traits, cardVars, ard, ai, op, list, chosen, prompted, answer, stale, invalidated, calls>>
ReadArd ==
    /\ Task("ard")
    /\ \/ read' = {attrs[op.slot]} /\ Proceed
       \/ UNCHANGED read /\ (Fail \/ Lose)
    /\ UNCHANGED <<traits, cardVars, ard, ai, op, list, chosen, prompted, answer, stale, invalidated, calls>>

\* Transaction::ard: read if not cached; if that fails, there is no way on.
EnsureArd ==
    /\ Task("cached")
    /\ \/ ard # Uncached /\ UNCHANGED <<ard, stale, invalidated>> /\ Proceed
       \/ /\ ard = Uncached /\ ard' = Ard /\ stale' = FALSE /\ invalidated' = FALSE
          /\ Proceed
       \/ /\ ard = Uncached /\ ard' = NoArd /\ pc' = "panicked"
          /\ todo' = <<>> /\ UNCHANGED <<result, described, stale, invalidated>>
    /\ UNCHANGED <<traits, cardVars, ai, op, dataVars, calls>>

\* algorithm_information_cached().ok().flatten(): a failure is not remembered, and
\* no list is an answer.
ReadList ==
    /\ Task("list")
    /\ \/ ai # Uncached /\ list' = ai /\ UNCHANGED ai /\ Proceed
       \/ ai = Uncached /\ ai' = traits.list /\ list' = traits.list /\ Proceed
       \/ ai = Uncached /\ UNCHANGED <<ai, list>> /\ (Proceed \/ Lose)
    /\ UNCHANGED <<traits, cardVars, ard, op, read, chosen, prompted, answer, stale, invalidated, calls>>

\* determine_rsa_attrs, determine_ecc_attrs
Choose ==
    /\ Task("choose")
    /\ chosen' = UNION {Determine(op.want, op.slot, current, list) :
                            current \in IF op.want.kind = "rsa" THEN read ELSE {op.want}}
    /\ IF chosen' = {} THEN Fail ELSE Proceed
    /\ UNCHANGED <<traits, cardVars, ard, ai, op, read, list, prompted, answer, stale, invalidated, calls>>

\* A command by which the card changes, its other variables aside
Send(task, change) ==
    /\ Task(task)
    /\ \/ change /\ (Proceed \/ Lose)
       \/ UNCHANGED cardVars /\ (Fail \/ Lose)
    /\ UNCHANGED <<traits, ard, ai, op, read, list, chosen, prompted, invalidated, calls>>

\* set_algorithm_attributes sends nothing to a card that cannot change them.  Of an
\* ECC key the card gets no format.  A key of other attributes is gone.
Stored(a) == IF a.kind = "ecc" THEN Ecc(a.type, a.curve, {}) ELSE Rsa(a.n, a.e % 256, a.format)
PutAttributes ==
    /\ traits.changeable
    /\ Send("attributes",
            /\ \E a \in chosen : attrs' = [attrs EXCEPT ![op.slot] = Stored(a)]
            /\ IF attrs' = attrs THEN UNCHANGED <<key, fp, time>>
               ELSE /\ key' = [key EXCEPT ![op.slot] = 0]
                    /\ \/ UNCHANGED <<fp, time>>
                       \/ /\ fp' = [fp EXCEPT ![op.slot] = 0]
                          /\ time' = [time EXCEPT ![op.slot] = 0]
            /\ UNCHANGED <<touch, once>>)
    /\ UNCHANGED <<answer, stale>>
KeepAttributes ==
    /\ Task("attributes") /\ ~traits.changeable /\ Proceed
    /\ UNCHANGED <<traits, cardVars, ard, ai, op, dataVars, stale, invalidated, calls>>

\* The card takes a key of its attributes only; those of the slot decide what a
\* generated key is.
Fits(want, a) ==
    /\ want.kind = a.kind
    /\ want.kind = "rsa" => want.bits = a.n
    /\ want.kind = "ecc" => want.type = a.type /\ want.curve = a.curve
NewKey ==
    /\ key' = [key EXCEPT ![op.slot] = calls]
    /\ UNCHANGED <<attrs, fp, time, touch, once>>
PutKey ==
    /\ Send("key", Fits(op.want, attrs[op.slot]) /\ NewKey)
    /\ UNCHANGED <<answer, stale>>

\* tlv_to_pubkey: a point is taken for one of the curve that was read before.
Decoded == IF attrs[op.slot].kind = "rsa" THEN {attrs[op.slot]} ELSE read
Generate ==
    /\ Send("generate", NewKey)
    /\ answer' = Decoded /\ UNCHANGED stale

\* set_fingerprint, set_creation_time: to the place of the slot.
\* Mutated form: that of the attestation key is the decryption key's.
PlaceDecryption(s) == IF s = "Attestation" THEN "Decryption" ELSE s
Place(s) == s
PutFingerprint ==
    /\ Send("fingerprint",
            /\ fp' = [fp EXCEPT ![Place(op.slot)] =
                        IF op.name = "generate" /\ answer # {attrs[op.slot]}
                        THEN Wrong ELSE calls]
            /\ UNCHANGED <<attrs, key, time, touch, once>>)
    /\ UNCHANGED <<answer, stale>>
PutTime ==
    /\ Send("time", time' = [time EXCEPT ![Place(op.slot)] = calls]
                    /\ UNCHANGED <<attrs, key, fp, touch, once>>)
    /\ UNCHANGED <<answer, stale>>

\* set_touch_policy: only if the data say that the card has it.
PutTouch ==
    /\ traits.touch
    /\ Send("touch",
            /\ touch' = IF op.want THEN touch \cup {op.slot} ELSE touch \ {op.slot}
            /\ UNCHANGED <<attrs, key, fp, time, once>>)
    /\ stale' = (stale \/ touch' # touch) /\ UNCHANGED answer
NoTouch ==
    /\ Task("touch") /\ ~traits.touch /\ Fail
    /\ UNCHANGED <<traits, cardVars, ard, ai, op, dataVars, stale, invalidated, calls>>

\* set_user_pin_signing_validity
PutOnce ==
    /\ Send("once", once' = op.want /\ UNCHANGED <<attrs, key, fp, time, touch>>)
    /\ UNCHANGED <<answer, stale>>

\* generate_attestation: the touch that is prompted for is that of the attestation
\* key; the card waits for it.  The attestation key itself cannot be attested.
Prompt ==
    /\ Task("prompt") /\ Proceed
    /\ prompted' = ("Attestation" \in ard.touch)
    /\ UNCHANGED <<traits, cardVars, ard, ai, op, read, list, chosen, answer, stale, invalidated, calls>>
Attest ==
    /\ Task("attest")
    /\ \/ op.slot # "Attestation" /\ Proceed
       \/ Fail
       \/ op.slot # "Attestation" /\ Lose
    /\ UNCHANGED <<traits, cardVars, ard, ai, op, dataVars, stale, invalidated, calls>>

\* public_key
ReadPublic ==
    /\ Task("public")
    /\ \/ key[op.slot] # 0 /\ answer' = Decoded /\ Proceed
       \/ UNCHANGED answer /\ (Fail \/ Lose)
    /\ UNCHANGED <<traits, cardVars, ard, ai, op, read, list, chosen, prompted, stale, invalidated, calls>>

KeysNext ==
    \/ Open \/ Begin \/ End \/ InvalidateCache
    \/ \E s \in Slot : OtherTouch(s)
    \/ \E s \in Slot, want \in Imported : ImportKey(s, want)
    \/ \E s \in Slot : GenerateKey(s)
    \/ \E s \in Slot, algo \in Simples : SetAlgorithm(s, algo)
    \/ \E s \in Slot, on \in BOOLEAN : SetTouchPolicy(s, on)
    \/ \E b \in BOOLEAN : SetSigningValidity(b)
    \/ \E s \in Slot : GenerateAttestation(s)
    \/ \E s \in Slot : PublicKey(s)
    \/ ReadCached
    \/ ReadArd \/ EnsureArd \/ ReadList \/ Choose
    \/ PutAttributes \/ KeepAttributes \/ PutKey \/ Generate
    \/ PutFingerprint \/ PutTime \/ PutTouch \/ NoTouch \/ PutOnce
    \/ Prompt \/ Attest \/ ReadPublic

KeysSpec == KeysInit /\ [][KeysNext]_keysVars
=============================================================================
