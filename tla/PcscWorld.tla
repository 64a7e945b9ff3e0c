----------------------------- MODULE PcscWorld -----------------------------
(***************************************************************************)
(* The PC/SC service as the agent sees it: reader names that come and go,  *)
(* the cards in them, who is connected to a card, and who holds the one    *)
(* transaction a card can have open.  None of this is code of the          *)
(* repository: it is what src/src/monitoring.rs, identification.rs and     *)
(* decryption.rs rely on when they call the `pcsc` crate.                  *)
(*                                                                         *)
(* A reader name is an identity only as long as the reader is attached.    *)
(* A Yubikey is a reader with its card inside; when it is unplugged and    *)
(* another one of the same product is plugged in, PC/SC gives the new one  *)
(* the same name.                                                          *)
(***************************************************************************)
EXTENDS Naturals, FiniteSets

CONSTANTS
    Reader,      \* PC/SC reader names
    Card,        \* physical cards (named by their application identity)
    OpenPgp,     \* the cards that answer as OpenPGP cards
    Fits,        \* Fits[r]: cards that can show up under the reader name r
    Absent,      \* no reader of that name is attached
    Empty,       \* the reader is attached and has no card in it
    None,        \* the Rust value Option::None, wherever one is kept
    MaxPlugs,    \* bound: how often something is plugged in or inserted
    MayExclude   \* whether other applications may open a card exclusively

ASSUME WorldAssumption ==
    /\ OpenPgp \subseteq Card
    /\ Fits \in [Reader -> SUBSET Card]
    /\ Absent \notin Card /\ Empty \notin Card /\ Absent # Empty
    /\ None \notin Card /\ None \notin Reader
    /\ MaxPlugs \in Nat
    /\ MayExclude \in BOOLEAN

VARIABLES
    slot,     \* slot[r]: Absent, Empty, or the card in the reader named r
    conn,     \* conn[r]: threads of the agent with a live connection to slot[r]
    session,  \* session[r]: who holds the transaction (or exclusive access)
    plugs     \* how often something was plugged in (bounded by MaxPlugs)

worldVars == <<slot, conn, session, plugs>>

Thread == {"monitor", "main"}

WorldTypeOK ==
    /\ slot \in [Reader -> Card \cup {Absent, Empty}]
    /\ conn \in [Reader -> SUBSET Thread]
    /\ session \in [Reader -> {"free", "main", "other", "exclusive"}]
    /\ plugs \in 0..MaxPlugs

Attached(r) == slot[r] # Absent

WorldInit ==
    /\ slot = [r \in Reader |-> Absent]
    /\ conn = [r \in Reader |-> {}]
    /\ session = [r \in Reader |-> "free"]
    /\ plugs = 0

-----------------------------------------------------------------------------
(* Hardware events.                                                        *)

Somewhere(c) == \E r \in Reader : slot[r] = c

\* A reader is attached, with a card in it (x \in Card) or without (Empty).
Attach(r, x) ==
    /\ plugs < MaxPlugs
    /\ ~Attached(r)
    /\ x \in Fits[r] \cup {Empty}
    /\ ~Somewhere(x) \/ x = Empty
    /\ slot' = [slot EXCEPT ![r] = x]
    /\ plugs' = plugs + 1
    /\ UNCHANGED <<conn, session>>

\* A card is put into an attached, empty reader.
Insert(r, c) ==
    /\ plugs < MaxPlugs
    /\ slot[r] = Empty
    /\ c \in Fits[r]
    /\ ~Somewhere(c)
    /\ slot' = [slot EXCEPT ![r] = c]
    /\ plugs' = plugs + 1
    /\ UNCHANGED <<conn, session>>

\* The reader is detached (to = Absent) or its card withdrawn (to = Empty).
\* Every connection to the card is lost, and with it any transaction.
TakeAway(r, to) ==
    /\ \/ to = Absent /\ Attached(r)
       \/ to = Empty /\ slot[r] \in Card
    /\ slot' = [slot EXCEPT ![r] = to]
    /\ conn' = [conn EXCEPT ![r] = {}]
    /\ session' = [session EXCEPT ![r] = "free"]
    /\ UNCHANGED plugs

-----------------------------------------------------------------------------
(* Other applications.                                                     *)

OtherBegins(r) ==
    /\ slot[r] \in Card
    /\ session[r] = "free"
    /\ session' = [session EXCEPT ![r] = "other"]
    /\ UNCHANGED <<slot, conn, plugs>>

\* Exclusive access (as scdaemon asks for) needs that nobody is connected.
OtherExcludes(r) ==
    /\ MayExclude
    /\ slot[r] \in Card
    /\ session[r] = "free"
    /\ conn[r] = {}
    /\ session' = [session EXCEPT ![r] = "exclusive"]
    /\ UNCHANGED <<slot, conn, plugs>>

OtherEnds(r) ==
    /\ session[r] \in {"other", "exclusive"}
    /\ session' = [session EXCEPT ![r] = "free"]
    /\ UNCHANGED <<slot, conn, plugs>>

-----------------------------------------------------------------------------
(* What the agent calls.                                                   *)

\* Context::connect with ShareMode::Shared succeeds.
CanConnect(r) == slot[r] \in Card /\ session[r] # "exclusive"

Connect(t, r) ==
    /\ CanConnect(r)
    /\ conn' = [conn EXCEPT ![r] = @ \cup {t}]
    /\ UNCHANGED <<slot, session, plugs>>

\* A thread's handles are dropped: connections closed, transaction ended.
Disconnect(t) ==
    /\ conn' = [r \in Reader |-> conn[r] \ {t}]
    /\ session' = [r \in Reader |->
                     IF session[r] = t THEN "free" ELSE session[r]]
    /\ UNCHANGED <<slot, plugs>>
=============================================================================
