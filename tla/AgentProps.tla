----------------------------- MODULE AgentProps -----------------------------
(***************************************************************************)
(* What the agent is for: the properties of module Agent.                  *)
(***************************************************************************)
EXTENDS Agent

\* From the choice of a card to the end of the request the chosen record stays
\* the best one in known_cards, whatever is plugged and unplugged meanwhile:
\* the read guard of main.rs:115 lives to the end of the loop body.
ServesBestCard ==
    apc \in Busy => target \in BestCards

\* One run of the agent never gets more than one wrong PIN to any of the
\* cards: neither a cached PIN that has become wrong, nor one that is right
\* for another card with the same common_pin, nor a typing error is sent a
\* second time (decryption.rs:77-86).
OneWrongPinPerRun ==
    wrong <= 1 /\ (wrong = 1 => apc = "down")

\* The user types a PIN at most once per cache key and run, however many cards
\* share the key (README.md:7, decryption.rs:76-86).
PromptOncePerKey ==
    \A k \in Key : prompts[k] <= 1

\* The agent holds a card's transaction only while it serves a request with
\* the record that names the card's reader; all the ways a request can end
\* give it back (decryption.rs:73, main.rs:114-122).
SessionsAreBounded ==
    \A r \in Reader :
        session[r] = "main" => /\ apc \in InTransaction
                               /\ r = At
                               /\ ~Lost

\* What the main thread does to known_cards, the lock and PC/SC is what module
\* Monitor allows a main thread to do; so all that is shown of the monitor
\* holds of the agent.
ImplementsMonitor == MonitorSpec

\* README.md:9: "without holding transactions open unnecessarily": while the
\* agent waits for the user to type or for the client to send its message,
\* no card has a transaction open.
NoTransactionWhileWaiting ==
    /\ apc = "prompt" => \A r \in Reader : session[r] # "main"
    /\ apc = "read" /\ msg[serving] = None
         => \A r \in Reader : session[r] # "main"

-----------------------------------------------------------------------------
(* Liveness.                                                               *)

\* Every client that connects comes to an end: it is answered, or its
\* connection is closed.  A client connects once, so that a time comes when
\* none is left.  No lock, session or queue is waited for forever, not even if
\* another application keeps its session with an unrelated card.
EveryRequestEnds ==
    (\E k \in Client : client[k] = "open") ~> (\A k \in Client : client[k] # "open")

\* The monitor gets its news through: a request being served delays either
\* callback, which needs the write lock, the removal of a card and the report
\* of one that was identified meanwhile, but does not hold it up forever.
NewsGetsThrough ==
    mpc \in {"remove", "report"} ~> mpc \notin {"remove", "report"}
=============================================================================
