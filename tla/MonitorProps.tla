--------------------------- MODULE MonitorProps ---------------------------
(***************************************************************************)
(* What the monitor and known_cards are for: the properties of module      *)
(* Monitor, and the directory it implements.                               *)
(***************************************************************************)
EXTENDS Monitor

\* No two records of known_cards have the same address: add_card's retain
\* (main.rs:39) throws out whoever had it before.  remove_card, which stops
\* at the first record with the address (main.rs:51), depends on it.
DistinctAddresses ==
    \A m, n \in known : addr[m] # None /\ addr[m] = addr[n] => m = n

\* A record is Ready only at an address whose reader the monitor watches: a
\* card whose reader is gone cannot stay on offer because nobody is left to
\* notice (monitoring.rs:39-48).
ReadyIsTracked ==
    \A n \in Nick : Ready(n) => addr[n] \in tracked

\* A Ready record tells the truth about the card it is configured for, as
\* long as the card the monitor identified at its address has not left.  The
\* identification, the callback and the removal are separate steps, with
\* plugging and unplugging between any two of them.
ReadyCardIsThere ==
    \A n \in Nick :
        Ready(n) /\ ~stale[addr[n]] => slot[addr[n]] = ConfIdent[n]

\* Conversely a card that was identified and has stayed where it is, is on
\* offer, if a record for it is left: neither another card's arrival nor its
\* removal may take a card out that has not moved (main.rs:29-58).
IdentifiedCardIsReady ==
    \A r \in tracked, n \in known :
        /\ cur # r
        /\ ~stale[r]
        /\ ConfIdent[n] = slot[r]
        /\ \A m \in known : ConfIdent[m] = slot[r] => rank[n] <= rank[m]
        => Ready(n) /\ addr[n] = r

\* The two threads of the agent are never connected to the same reader, so
\* neither waits for a transaction of the other: the main thread goes to
\* Ready records only, the monitor only to readers it does not track yet,
\* and the lock keeps the one from becoming the other.
NoSharedReader ==
    \A r \in Reader : Cardinality(conn[r]) <= 1

\* The card on offer at address r.
Offer(r) ==
    LET here == {n \in known : cstate[n] = "Ready" /\ addr[n] = r}
    IN  IF here = {} THEN None ELSE ConfIdent[CHOOSE n \in here : TRUE]

\* known_cards implements the directory: an address never changes from one
\* card to another at once, no card is on offer twice, and nothing changes
\* while the main thread holds the read lock (main.rs:29-62, 97, 101, 115).
Directory == INSTANCE CardDirectory WITH
    Address <- Reader, Ident <- Card, Nobody <- None,
    offer <- [r \in Reader |-> Offer(r)],
    held <- reading

ImplementsDirectory == Directory!DirectorySpec

-----------------------------------------------------------------------------
(* The inductive invariant behind the safety properties.                   *)

Identifying == {"open", "ident", "report"}

\* cur and found hold a reader and an ident exactly while they are in use, and
\* a process that is not running has nothing in memory.
PhaseOK ==
    /\ mpc \in Identifying <=> cur # None
    /\ mpc = "report" <=> found # None
    /\ mpc = "off" => /\ ~reading
                      /\ \A n \in Nick : addr[n] = None /\ cstate[n] = "Unavailable"

\* Of two records for one ident only the first ever gets an address.
Shadowed ==
    \A m, n \in known :
        ConfIdent[m] = ConfIdent[n] /\ rank[m] < rank[n] => addr[n] = None

\* The reader being identified is tracked already and offers nothing yet.
PendingIsNew ==
    cur # None => /\ cur \in tracked
                  /\ \A n \in Nick : Ready(n) => addr[n] # cur

\* What is to be reported is still so, unless the card has left since.
FoundIsThere ==
    /\ mpc = "report" /\ ~stale[cur] => slot[cur] = found
    /\ \A r \in Reader : slot[r] \notin Card => stale[r]

\* Where the threads may have connections.
ConnectionsOK ==
    \A r \in Reader :
        /\ "main" \in conn[r] => reading /\ \E n \in Nick : Ready(n) /\ addr[n] = r
        /\ "monitor" \in conn[r] => cur = r /\ mpc \in {"open", "ident"}

MonitorInv ==
    /\ MonitorTypeOK /\ PhaseOK
    /\ DistinctAddresses /\ Shadowed
    /\ ReadyIsTracked /\ PendingIsNew
    /\ ReadyCardIsThere /\ FoundIsThere
    /\ ConnectionsOK

-----------------------------------------------------------------------------
(* Liveness.                                                               *)

Plugged(n) == \E r \in Reader : slot[r] = ConfIdent[n]

Monitoring == mpc \notin {"off", "stopped"}

\* A configured card that stays plugged in is, from some moment on, Ready, as
\* long as the monitor lives: no status change is missed between list_readers
\* and get_status_change, and no lock or session is waited for in vain.
PluggedCardBecomesReady ==
    \A n \in Nick : <>[](Plugged(n) /\ Monitoring) => <>[]Ready(n)

\* README.md:5: "SEAMLESSLY and EFFORTLESSLY switch between using two
\* different cards when the laptop is docked / undocked": a configured card
\* that the monitor has identified and that stays where it is, is Ready from
\* some moment on, also if another card was under the same reader name before.
SwitchingIsSeamless ==
    \A n \in Nick :
        <>[](/\ Monitoring
             /\ \E r \in Reader : slot[r] = ConfIdent[n] /\ ~stale[r])
        => <>[]Ready(n)

\* README.md:9: "without randomly blocking when an unrelated card has a
\* session open in a different application": the same promise, while another
\* application keeps its session with a card the agent is not configured for.
UnrelatedSessionIsHarmless == PluggedCardBecomesReady
=============================================================================
