------------------------------- MODULE Agent -------------------------------
(***************************************************************************)
(* The agent as a whole: the main thread (src/src/main.rs `main`, and      *)
(* decryption.rs), its clients on the Unix socket, the user at the prompt, *)
(* the PIN cache and the cards' retry counters, on top of module Monitor.  *)
(* Every step of the main thread that touches shared state is one of       *)
(* Monitor's Main... steps with the thread's own control around it.        *)
(*                                                                         *)
(* One request is served at a time, start to end, under the read lock:     *)
(*                                                                         *)
(*   idle -> chosen -> connected -> open -> pin -> (prompt ->) verify      *)
(*        -> read -> decipher -> reply -> data -> idle                     *)
(*                                                                         *)
(* Up to "verify" every failure is an .expect or .unwrap in main and takes *)
(* the process down; after it, decrypt returns an Err that main ignores.   *)
(***************************************************************************)
EXTENDS MonitorProps, Sequences

CONSTANTS
    Client,      \* connections to the socket, one request each
    Messages,    \* what clients may send: the set of cards it is encrypted to
    CommonPin,   \* CommonPin[n]: the common_pin configured for n, or None
    KeyName,     \* names used as common_pin
    Pin,         \* PINs users and cards know
    FirstPin,    \* FirstPin[c]: the PIN of card c in the beginning
    MaxTries,    \* wrong PINs a card takes before it blocks
    MaxChanges   \* bound: how often some application changes a PIN

ASSUME AgentAssumption ==
    /\ Messages \subseteq SUBSET Card
    /\ CommonPin \in [Nick -> KeyName \cup {None}]
    /\ FirstPin \in [Card -> Pin]
    /\ None \notin Pin /\ None \notin Client /\ None \notin Nick
    /\ None \notin KeyName /\ None \notin Messages
    /\ MaxTries \in Nat \ {0}
    /\ MaxChanges \in Nat

VARIABLES
    apc,       \* where the main thread is; "down": the process has ended
    target,    \* the record chosen for this request
    serving,   \* the client being served
    entered,   \* user_pin: the PIN found in the cache or typed
    cache,     \* PIN_CACHE
    queue,     \* connections in the listener's backlog
    client,    \* state of each client
    msg,       \* msg[k]: the message client k has sent, or None
    pin,       \* pin[c]: the user PIN of card c
    tries,     \* tries[c]: its retry counter
    changes,   \* how often a PIN was changed (bounded by MaxChanges)
    prompts,   \* history: prompts[k]: PINs typed for cache key k in this run
    wrong      \* history: verifications that failed in this run

mainVars == <<apc, target, serving, entered, cache>>
clientVars == <<queue, client, msg>>
cardVars == <<pin, tries, changes>>
histVars == <<prompts, wrong>>
agentVars == <<vars, mainVars, clientVars, cardVars, histVars>>

Key == KeyName \cup Card

\* pin_cache_key
PinCacheKey(n) == IF CommonPin[n] = None THEN ConfIdent[n] ELSE CommonPin[n]

InTransaction == {"pin", "prompt", "verify", "read", "decipher", "reply", "data"}
Busy == {"chosen", "connected", "open"} \cup InTransaction

AgentTypeOK ==
    /\ MonitorTypeOK
    /\ apc \in {"idle", "down"} \cup Busy
    /\ target \in Nick \cup {None}
    /\ serving \in Client \cup {None}
    /\ entered \in Pin \cup {None}
    /\ cache \in [Key -> Pin \cup {None}]
    /\ queue \in Seq(Client)
    /\ client \in [Client -> {"away", "open", "answered", "dropped", "gone"}]
    /\ msg \in [Client -> Messages \cup {None}]
    /\ pin \in [Card -> Pin]
    /\ tries \in [Card -> 0..MaxTries]
    /\ changes \in 0..MaxChanges
    /\ prompts \in [Key -> Nat]
    /\ wrong \in Nat

AgentInit ==
    /\ MonitorInit
    /\ apc = "idle"
    /\ target = None /\ serving = None /\ entered = None
    /\ cache = [k \in Key |-> None]
    /\ queue = <<>>
    /\ client = [k \in Client |-> "away"]
    /\ msg = [k \in Client |-> None]
    /\ pin = FirstPin
    /\ tries = [c \in Card |-> MaxTries]
    /\ changes = 0
    /\ prompts = [k \in Key |-> 0]
    /\ wrong = 0

-----------------------------------------------------------------------------
(* Clients, and other applications that change a PIN.                      *)

ClientConnects(k) ==
    /\ apc # "down"
    /\ client[k] = "away"
    /\ client' = [client EXCEPT ![k] = "open"]
    /\ queue' = Append(queue, k)
    /\ UNCHANGED <<vars, mainVars, msg, cardVars, histVars>>

ClientSends(k, m) ==
    /\ client[k] = "open"
    /\ msg[k] = None
    /\ msg' = [msg EXCEPT ![k] = m]
    /\ UNCHANGED <<vars, mainVars, queue, client, cardVars, histVars>>

\* What it sent before stays readable.
ClientHangsUp(k) ==
    /\ client[k] = "open"
    /\ client' = [client EXCEPT ![k] = "gone"]
    /\ UNCHANGED <<vars, mainVars, queue, msg, cardVars, histVars>>

OtherChangesPin(r, p) ==
    /\ session[r] \in {"other", "exclusive"}
    /\ slot[r] \in Card
    /\ changes < MaxChanges
    /\ pin' = [pin EXCEPT ![slot[r]] = p]
    /\ tries' = [tries EXCEPT ![slot[r]] = MaxTries]
    /\ changes' = changes + 1
    /\ UNCHANGED <<vars, mainVars, clientVars, histVars>>

-----------------------------------------------------------------------------
(* The ends a request can come to.                                         *)

\* The process dies: its memory is gone, every connection is closed.  The
\* counters of the run stay for the record.
Crash ==
    /\ ProcessExit
    /\ apc' = "down"
    /\ target' = None /\ serving' = None /\ entered' = None
    /\ cache' = [k \in Key |-> None]
    /\ queue' = <<>>
    /\ client' = [k \in Client |->
                    IF client[k] = "open" THEN "dropped" ELSE client[k]]
    /\ UNCHANGED <<msg, pin, changes, prompts>>

CrashHarmlessly == Crash /\ UNCHANGED <<tries, wrong>>

\* decrypt returns, everything acquired for the request is released, and the
\* client, if it is still there, sees the end of the connection.
Finish(outcome) ==
    /\ MainUnlock
    /\ apc' = "idle"
    /\ target' = None /\ serving' = None /\ entered' = None
    /\ client' = [client EXCEPT ![serving] =
                    IF @ = "open" THEN outcome ELSE @]
    /\ UNCHANGED <<cache, queue, msg, cardVars, histVars>>

\* The main thread goes on to the point `to`, nothing else of its own changes.
GoTo(to) ==
    /\ apc' = to
    /\ UNCHANGED <<target, serving, entered, cache, clientVars, cardVars,
                   histVars>>

-----------------------------------------------------------------------------
(* The main thread.                                                        *)

\* listener.incoming(), known_cards.read(), best_card_for_decrypt
Accept ==
    /\ apc = "idle"
    /\ queue # <<>>
    /\ BestCards # {}
    /\ MainLock
    /\ target' \in BestCards
    /\ serving' = Head(queue)
    /\ queue' = Tail(queue)
    /\ apc' = "chosen"
    /\ UNCHANGED <<entered, cache, client, msg, cardVars, histVars>>

\* best_card_for_decrypt(..).unwrap() with no card Ready
AcceptWithoutCard ==
    /\ apc = "idle"
    /\ queue # <<>>
    /\ BestCards = {}
    /\ CrashHarmlessly

\* accept returned an Err: main leaves its loop, and with it the process.
AcceptFails ==
    /\ apc = "idle"
    /\ CallsMayFail
    /\ CrashHarmlessly

At == addr[target]
Lost == "main" \notin conn[At]

\* get_card: connect to the reader the record names, whatever is in it now
ConnectCard ==
    /\ apc = "chosen"
    /\ MainConnect(target)
    /\ GoTo("connected")

\* get_card: Card::new selects the OpenPGP application and reads the card's
\* data in a transaction of its own, which it ends again.
OpenCard ==
    /\ apc = "connected"
    /\ ~Lost
    /\ session[At] = "free"
    /\ slot[At] \in OpenPgp
    /\ GoTo("open")
    /\ UNCHANGED vars

\* Mutated forms: a transaction taken from whoever holds it; a PIN that is not
\* put into the cache; a retry counter set back to one too many; a refused PIN
\* that only ends the request; a read that does not notice the end of file; a
\* lost card that is waited for.
BeginTransactionAnyway ==
    /\ apc = "open"
    /\ ~Lost
    /\ session' = [session EXCEPT ![At] = "main"]
    /\ GoTo("pin")
    /\ UNCHANGED <<slot, conn, plugs, dirVars, monVars, reading, stirred,
                   starts, stale>>

VerifyPinUncached ==
    /\ apc = "verify"
    /\ ~Lost
    /\ tries[slot[At]] > 0 /\ pin[slot[At]] = entered
    /\ apc' = "read"
    /\ UNCHANGED <<vars, target, serving, entered, cache, clientVars, cardVars,
                   histVars>>

VerifyPinOneMore ==
    /\ apc = "verify"
    /\ ~Lost
    /\ tries[slot[At]] > 0 /\ pin[slot[At]] = entered
    /\ tries' = [tries EXCEPT ![slot[At]] = MaxTries + 1]
    /\ apc' = "read"
    /\ UNCHANGED <<vars, target, serving, entered, cache, clientVars, pin,
                   changes, histVars>>

VerifyRefusedGently ==
    /\ apc = "verify"
    /\ ~Lost
    /\ tries[slot[At]] = 0 \/ pin[slot[At]] # entered
    /\ tries' = [tries EXCEPT ![slot[At]] = IF @ > 0 THEN @ - 1 ELSE 0]
    /\ wrong' = wrong + 1
    /\ MainUnlock
    /\ apc' = "idle"
    /\ target' = None /\ serving' = None /\ entered' = None
    /\ client' = [client EXCEPT ![serving] = IF @ = "open" THEN "dropped" ELSE @]
    /\ UNCHANGED <<cache, queue, msg, pin, changes, prompts>>

ReadFailsNever ==
    /\ apc = "read"
    /\ msg[serving] = None
    /\ client[serving] = "dropped"
    /\ Finish("dropped")

CardFailsUnnoticed ==
    /\ \/ apc = "chosen" /\ ~CanConnect(At)
       \/ apc = "connected" /\ ~Lost /\ session[At] = "free" /\ slot[At] \notin OpenPgp
       \/ apc \in {"chosen", "connected", "open", "verify"} /\ CallsMayFail
    /\ CrashHarmlessly

\* get_tx: open.transaction()
BeginTransaction ==
    /\ apc = "open"
    /\ MainBegin(At)
    /\ GoTo("pin")

\* get_tx: the PIN is in the cache, or else the user is asked for it.
LookUpPin ==
    /\ apc = "pin"
    /\ cache[PinCacheKey(target)] # None
    /\ entered' = cache[PinCacheKey(target)]
    /\ apc' = "verify"
    /\ UNCHANGED <<vars, target, serving, cache, clientVars, cardVars,
                   histVars>>

AskForPin ==
    /\ apc = "pin"
    /\ cache[PinCacheKey(target)] = None
    /\ GoTo("prompt")
    /\ UNCHANGED vars

UserTypes(p) ==
    /\ apc = "prompt"
    /\ entered' = p
    /\ prompts' = [prompts EXCEPT ![PinCacheKey(target)] = @ + 1]
    /\ apc' = "verify"
    /\ UNCHANGED <<vars, target, serving, cache, clientVars, cardVars, wrong>>

UserAborts ==
    /\ apc = "prompt"
    /\ CrashHarmlessly

\* verify_to_user: the card accepts the PIN, and only then it is cached.
CardAccepts(c) == tries[c] > 0 /\ pin[c] = entered

VerifyPin ==
    /\ apc = "verify"
    /\ ~Lost
    /\ CardAccepts(slot[At])
    /\ tries' = [tries EXCEPT ![slot[At]] = MaxTries]
    /\ cache' = [cache EXCEPT ![PinCacheKey(target)] = entered]
    /\ apc' = "read"
    /\ UNCHANGED <<vars, target, serving, entered, clientVars, pin, changes,
                   histVars>>

\* The card refuses it and counts down: verify_to_user(..).unwrap()
VerifyRefused ==
    /\ apc = "verify"
    /\ ~Lost
    /\ ~CardAccepts(slot[At])
    /\ tries' = [tries EXCEPT ![slot[At]] = IF @ > 0 THEN @ - 1 ELSE 0]
    /\ wrong' = wrong + 1
    /\ Crash

\* A PC/SC call of get_card or get_tx fails: no card in the reader, the card
\* opened exclusively or lost, no OpenPGP card, or a failure of its own.
CardFails ==
    /\ \/ apc = "chosen" /\ ~CanConnect(At)
       \/ apc \in {"connected", "open", "verify"} /\ Lost
       \/ apc = "connected" /\ session[At] = "free" /\ slot[At] \notin OpenPgp
       \/ apc \in {"chosen", "connected", "open", "verify"} /\ CallsMayFail
    /\ CrashHarmlessly

\* decrypt: only now the request is read from the client.
ReadMessage ==
    /\ apc = "read"
    /\ msg[serving] # None
    /\ GoTo("decipher")
    /\ UNCHANGED vars

ReadFails ==
    /\ apc = "read"
    /\ msg[serving] = None
    /\ client[serving] = "gone"
    /\ Finish("dropped")

\* decrypt: some session key of the message is one the card can decipher.
Decipher ==
    /\ apc = "decipher"
    /\ ~Lost
    /\ slot[At] \in msg[serving]
    /\ GoTo("reply")
    /\ UNCHANGED vars

DecipherFails ==
    /\ apc = "decipher"
    /\ Lost \/ slot[At] \notin msg[serving] \/ CallsMayFail
    /\ Finish("dropped")

\* write!(input, "OK\n").expect("write")
ReplyOk ==
    /\ apc = "reply"
    /\ client[serving] = "open"
    /\ GoTo("data")
    /\ UNCHANGED vars

\* The plaintext by write_all(..)?, the end mark by write!(..).expect
ReplyData ==
    /\ apc = "data"
    /\ client[serving] = "open"
    /\ Finish("answered")

\* The client has gone: write_all returns an Err, either write! panics.
ReplyDataFails ==
    /\ apc = "data"
    /\ client[serving] = "gone"
    /\ Finish("dropped")

WriteFails ==
    /\ apc \in {"reply", "data"}
    /\ client[serving] = "gone"
    /\ CrashHarmlessly

MainThread ==
    \/ Accept \/ AcceptWithoutCard
    \/ ConnectCard \/ OpenCard \/ BeginTransaction
    \/ LookUpPin \/ AskForPin
    \/ VerifyPin \/ VerifyRefused \/ CardFails
    \/ ReadMessage \/ ReadFails \/ Decipher \/ DecipherFails
    \/ ReplyOk \/ ReplyData \/ ReplyDataFails \/ WriteFails

\* The user starts the agent again; a stale socket file does not stop it.
Restart ==
    /\ apc = "down"
    /\ ProcessStart
    /\ apc' = "idle"
    /\ prompts' = [k \in Key |-> 0]
    /\ wrong' = 0
    /\ UNCHANGED <<target, serving, entered, cache, clientVars, cardVars>>

User == (\E p \in Pin : UserTypes(p)) \/ UserAborts

ClientStep(k) ==
    ClientConnects(k) \/ ClientHangsUp(k) \/ \E m \in Messages : ClientSends(k, m)

AgentNext ==
    \/ MainThread \/ AcceptFails \/ User \/ Restart
    \/ \E k \in Client : ClientStep(k)
    \/ \E r \in Reader, p \in Pin : OtherChangesPin(r, p)
    \/ /\ MonitorStep \/ MonitorWake \/ WorldStep
       /\ UNCHANGED <<mainVars, clientVars, cardVars, histVars>>

AgentSpec == AgentInit /\ [][AgentNext]_agentVars

(***************************************************************************)
(* Fairness.  The main thread is scheduled, and pcscd lets it have a       *)
(* transaction it keeps asking for.  The user answers the prompt or breaks *)
(* it off; a client that has sent nothing yet sends its message or hangs   *)
(* up; other applications end their sessions with the cards the agent is   *)
(* configured for, but may keep one with any other card.                   *)
(***************************************************************************)
AgentThreads == UNCHANGED <<mainVars, clientVars, cardVars, histVars>>

AgentFairSpec ==
    /\ AgentSpec
    /\ SF_agentVars(MainThread)
    /\ SF_agentVars(MonitorStep /\ AgentThreads)
    /\ SF_agentVars(stirred /\ MonitorWake /\ AgentThreads)
    /\ WF_agentVars(User)
    /\ \A k \in Client :
          WF_agentVars(msg[k] = None
                       /\ (ClientHangsUp(k) \/ \E m \in Messages : ClientSends(k, m)))
    /\ \A r \in Reader :
          WF_agentVars(ConfiguredIn(r) /\ SessionEnds(r) /\ AgentThreads)
=============================================================================
