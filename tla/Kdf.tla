--------------------------------- MODULE Kdf ---------------------------------
(***************************************************************************)
(* The transformation of a PIN before it goes to the card: map_pin and     *)
(* itersalt (openpgp-card/src/ocard/kdf.rs), driven by the KDF-DO as       *)
(* KdfDo::try_from reads it (ocard/data/kdf_do.rs).                        *)
(*                                                                         *)
(* A hash is named by what went into it: the algorithm, the salt and the   *)
(* PIN.  What exactly the hash algorithm is fed with is module Itersalt.   *)
(***************************************************************************)
EXTENDS Integers, Sequences

CONSTANTS
    Pin,      \* PINs a user may type
    NoKdf,    \* there is no KDF-DO (or none that could be read)
    Junk      \* what factory_reset sends in place of a PIN

PinType == {"Pw1", "Rc", "Pw3"}

\* KdfDo: the algorithm (0: none, 3: KDF_ITERSALTED_S2K), the hash, whether the
\* iteration count is there and covers salt and PIN, and the salts it has.
KdfDo == [algo : {0, 3, 4}, hash : {"none", "sha256", "sha512", "other"},
          enough : BOOLEAN, salts : SUBSET PinType]

\* What the card gets for a PIN: the PIN, the hash and the salt; the length of
\* it tells a raw PIN from a digest.
Secret == [pin : Pin \cup {Junk}, hash : {"raw", "sha256", "sha512"},
           salt : PinType \cup {"none"}]

Raw(p) == [pin |-> p, hash |-> "raw", salt |-> "none"]
NotMapped == [pin |-> Junk, hash |-> "raw", salt |-> "none"]

\* itersalt: each of its parameters may be missing or unsuitable.
CanIterate(k, pt) ==
    /\ k.hash \in {"sha256", "sha512"}
    /\ k.enough
    /\ pt \in k.salts

UsesRawPin(k) == k # NoKdf => k.algo = 0

CanMap(k, pt) == ~UsesRawPin(k) => k.algo = 3 /\ CanIterate(k, pt)

\* map_pin
MapPin(k, pt, p) ==
    IF UsesRawPin(k) THEN Raw(p)
    ELSE IF CanMap(k, pt) THEN [pin |-> p, hash |-> k.hash, salt |-> pt]
    ELSE NotMapped
=============================================================================
