------------------------------ MODULE KeysProps ------------------------------
(***************************************************************************)
(* What a user of the key slots can rely on.                               *)
(***************************************************************************)
EXTENDS CardKeys

\* keys.rs:35-65, 233-254: after an import or a generation that returned Ok, the
\* slot's fingerprint and creation time are those of its key, computed with the
\* attributes it has, until a call for this slot begins: whatever fails, is lost
\* or is interrupted for other slots.  In other words, a slot that is described
\* wrongly has been reported as an error.
SlotIsDescribed ==
    \A s \in described : key[s] # 0 /\ fp[s] = key[s] /\ time[s] = key[s]

\* A slot has no fingerprint of a key that it never held: the fingerprint is
\* written when the card has accepted the key (keys.rs:246-251, 46-62), so a key
\* that is refused leaves none behind.
FingerprintFollowsKey ==
    [][\A s \in Slot : fp'[s] # fp[s] => fp'[s] \in {0, key[s]}]_keysVars

\* lib.rs:809-824: no attestation waits for a touch that was not announced, unless
\* a touch policy was set after the data were cached (FIXME in state.rs:39); a
\* policy that another program sets between two transactions is no exception.
TouchIsAnnounced ==
    (pc = "idle" /\ op.name = "attest" /\ result = "ok" /\ "Attestation" \in touch)
        => prompted \/ stale

\* keys.rs:68-91, 121-142, mod.rs:1324-1338: a public key that is returned was
\* read with the attributes the card has for it, although they may have changed
\* in the same transaction.
PublicKeyIsDecoded ==
    (pc = "idle" /\ op.name \in {"public", "generate"} /\ result = "ok")
        => answer = {attrs[op.slot]}

\* keys.rs:262-415: the attributes chosen for a key are of its algorithm.  If the
\* list could be read, now or earlier, they are what it says last of RSA keys of
\* this length in this slot (SmartPGP lists a variant that it does not support
\* first, keys.rs:373-376), or have the format it says first of the curve.  If not,
\* an RSA key goes in the import format and with the length of the exponent that
\* the slot has on the card, at each moment from the choice on: before the
\* attributes are sent, after that, and on a card where they cannot be changed.
ListedFor(l, want) ==
    {i \in DOMAIN l :
        /\ l[i].slot = op.slot /\ l[i].attributes.kind = want.kind
        /\ want.kind = "rsa" => l[i].attributes.n = want.bits
        /\ want.kind = "ecc" => l[i].attributes.curve = want.curve}
IsLast(i, places) == i \in places /\ \A j \in places : j <= i
IsFirst(i, places) == i \in places /\ \A j \in places : i <= j

ChosenAttributesFit ==
    \A a \in chosen :
        /\ Fits(op.want, a)
        /\ \A l \in list : \E i \in DOMAIN l :
            /\ a.kind = "rsa" => IsLast(i, ListedFor(l, op.want)) /\ l[i].attributes = a
            /\ a.kind = "ecc" => IsFirst(i, ListedFor(l, op.want))
                              /\ l[i].attributes.format = a.format
        /\ (list = {} /\ a.kind = "rsa" /\ attrs[op.slot].kind = "rsa") =>
            /\ attrs[op.slot].format = a.format
            /\ attrs[op.slot].e \in {a.e, a.e % 256}

\* state.rs:60-114: ard() runs into "unreachable!()" when the data cannot be read:
\* never in a transaction that keeps the data it was opened with, whatever fails
\* in it, but only after invalidate_cache.
OnlyInvalidationPanics == pc = "panicked" => invalidated
=============================================================================
