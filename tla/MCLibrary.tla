----------------------------- MODULE MCLibrary -----------------------------
(***************************************************************************)
(* Instances of the small models of the library for TLC, each for itself:  *)
(* a session that handles keys (CardKeys), programs that share a card      *)
(* through PC/SC (PcscSessions), the conversation with scdaemon (ScdPipe)  *)
(* and the codecs (CodecProps).  `part` says which one it is this time;    *)
(* the variables of the others stay as they are.                           *)
(***************************************************************************)
EXTENDS KeysProps, CodecProps, PcscSessions, ScdPipe

VARIABLE part

libraryVars == <<part, keysVars, sessionVars, pipeVars, sample>>

TwoSlots == {"Decryption", "Attestation"}

NewAttrs == [s \in TwoSlots |-> Rsa(2048, 32, 0)]

\* As SmartPGP has it: two variants of RSA, of which it supports the second only.
TheList == <<[slot |-> "Decryption", attributes |-> Rsa(2048, 32, 1)],
             [slot |-> "Decryption", attributes |-> Rsa(2048, 32, 3)],
             [slot |-> "Decryption", attributes |-> Rsa(4096, 32, 3)],
             [slot |-> "Attestation", attributes |-> Rsa(2048, 17, 0)],
             [slot |-> "Decryption", attributes |-> Ecc("EdDSA", "Curve25519", {255})]>>

SomeCards == {[changeable |-> TRUE, touch |-> TRUE, list |-> {TheList}],
              [changeable |-> FALSE, touch |-> TRUE, list |-> {}],
              [changeable |-> TRUE, touch |-> FALSE, list |-> {}]}

SomeKeys == {WantRsa(2048), WantEcc("ECDH", "Curve25519")}

\* The samples are of the kinds that module CodecProofs speaks of.
ASSUME SamplesAssumption ==
    /\ \A k \in CardKinds : IsContent(CardOf(k))
    /\ \A l \in ListKinds : IsList(l)
    /\ AreTlvs(Tlvs)
    /\ \A k \in KdfDos : IsKdfDo(k)
    /\ \A octets \in StatusBytes : IsStatus(octets)
    /\ \A v \in Imports : IsImport(v)

-----------------------------------------------------------------------------
KeysOff == KeysInit /\ traits = [changeable |-> TRUE, touch |-> FALSE, list |-> {}] /\ ~once
SessionsOff == SessionsInit /\ applet = "none"
SampleOff == sample = NoSample

LibraryInit ==
    \/ part = "keys" /\ KeysInit /\ SessionsOff /\ PipeInit /\ SampleOff
    \/ part = "pcsc" /\ KeysOff /\ SessionsInit /\ PipeInit /\ SampleOff
    \/ part = "scdc" /\ KeysOff /\ SessionsOff /\ PipeInit /\ SampleOff
    \/ part = "codec" /\ KeysOff /\ SessionsOff /\ PipeInit /\ sample \in Samples

LibraryNext ==
    \/ part = "keys" /\ KeysNext /\ UNCHANGED <<part, sessionVars, pipeVars, sample>>
    \/ part = "pcsc" /\ SessionsNext /\ UNCHANGED <<part, keysVars, pipeVars, sample>>
    \/ part = "scdc" /\ PipeNext /\ UNCHANGED <<part, keysVars, sessionVars, sample>>

LibrarySpec == LibraryInit /\ [][LibraryNext]_libraryVars

\* The type invariants of the parts, one for each kind of card and of reply.
LibraryTypeOK == KeysTypeOK /\ SessionsTypeOK /\ PipeTypeOK
=============================================================================
