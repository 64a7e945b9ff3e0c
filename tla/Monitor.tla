------------------------------ MODULE Monitor ------------------------------
(***************************************************************************)
(* The monitor thread of the agent (src/src/monitoring.rs `start` and the  *)
(* callbacks main.rs gives it), between the PC/SC world on one side and    *)
(* known_cards on the other.                                               *)
(*                                                                         *)
(* The main thread appears here only as far as the monitor can feel it:    *)
(* it takes the read lock on known_cards, uses the reader of a Ready card, *)
(* lets everything go, or takes the process down.  Module Agent gives the  *)
(* main thread its control and builds each of its steps on one of these.   *)
(*                                                                         *)
(* A panic (.expect, .unwrap) in the monitor ends the monitor alone:       *)
(* mpc = "stopped", and known_cards stays as it was.                       *)
(***************************************************************************)
EXTENDS KnownCards

CONSTANTS
    MaxStarts,   \* bound: how often the process is started
    CallsMayFail \* whether a PC/SC or socket call may fail by itself

ASSUME MonitorAssumption == MaxStarts \in Nat /\ CallsMayFail \in BOOLEAN

VARIABLES
    reading,   \* the main thread holds the RwLock's read guard
    mpc,       \* where the monitor thread is
    tracked,   \* names in reader_states, PNP_NOTIFICATION left out
    dead,      \* those of them the last get_status_change found gone
    names,     \* what list_readers returned
    cur,       \* the reader being identified
    found,     \* the ident read from it
    stirred,   \* something happened since get_status_change last returned
    starts,    \* how often the process was started (bounded by MaxStarts)
    stale      \* history: stale[r] = FALSE as long as the card this process
               \* last identified in r has not left it

monVars == <<mpc, tracked, dead, names, cur, found>>
vars == <<worldVars, dirVars, monVars, reading, stirred, starts, stale>>

MonitorTypeOK ==
    /\ WorldTypeOK
    /\ DirTypeOK
    /\ reading \in BOOLEAN
    /\ mpc \in {"off", "remove", "add", "open", "ident", "report", "wait",
                "stopped"}
    /\ tracked \subseteq Reader
    /\ dead \subseteq tracked
    /\ names \subseteq Reader
    /\ cur \in Reader \cup {None}
    /\ found \in Card \cup {None}
    /\ stirred \in BOOLEAN
    /\ starts \in 0..MaxStarts
    /\ stale \in [Reader -> BOOLEAN]

MonitorInit ==
    /\ WorldInit
    /\ InitKnownCards
    /\ reading = FALSE
    /\ mpc = "remove"
    /\ tracked = {} /\ dead = {} /\ names = {}
    /\ cur = None /\ found = None
    /\ stirred = TRUE
    /\ starts = 0
    /\ stale = [r \in Reader |-> TRUE]

-----------------------------------------------------------------------------
(* The world around the process.                                           *)

PlugIn(r, x) ==
    /\ Attach(r, x) \/ Insert(r, x)
    /\ stirred' = TRUE
    /\ UNCHANGED <<dirVars, monVars, reading, starts, stale>>

PullOut(r, to) ==
    /\ TakeAway(r, to)
    /\ stirred' = TRUE
    /\ stale' = [stale EXCEPT ![r] = TRUE]
    /\ UNCHANGED <<dirVars, monVars, reading, starts>>

OtherApp(r) ==
    /\ OtherBegins(r) \/ OtherExcludes(r) \/ OtherEnds(r)
    /\ UNCHANGED <<dirVars, monVars, reading, stirred, starts, stale>>

-----------------------------------------------------------------------------
(* The monitor loop.                                                       *)

\* Mutated forms: reader_states.retain before the loop over the dead readers;
\* no check whether the name is tracked; a callback without the write lock; a
\* wait that starts from the present state of the readers; a comparison of the
\* attached readers with all names there are.
MonitorRetainFirst(r) ==
    /\ mpc = "remove"
    /\ r \in dead
    /\ ~reading
    /\ dead' = dead \ {r}
    /\ tracked' = tracked \ {r}
    /\ UNCHANGED <<worldVars, dirVars, mpc, names, cur, found, reading,
                   stirred, starts, stale>>

MonitorPushAgain(r) ==
    /\ mpc = "add"
    /\ r \in names
    /\ Connect("monitor", r)
    /\ tracked' = tracked \cup {r}
    /\ cur' = r
    /\ stirred' = TRUE
    /\ mpc' = "open"
    /\ UNCHANGED <<dirVars, dead, names, found, reading, starts, stale>>

MonitorReportUnlocked ==
    /\ mpc = "report"
    /\ AddCard(found, cur)
    /\ cur' = None /\ found' = None
    /\ mpc' = "add"
    /\ UNCHANGED <<worldVars, tracked, dead, names, reading, stirred, starts,
                   stale>>

MonitorWaitAfresh ==
    /\ mpc = "add"
    /\ names \subseteq tracked
    /\ mpc' = "wait"
    /\ stirred' = FALSE
    /\ UNCHANGED <<worldVars, dirVars, tracked, dead, names, cur, found,
                   reading, starts, stale>>

MonitorWakeAll ==
    /\ mpc = "wait"
    /\ dead' = {r \in Reader : ~Attached(r)}
    /\ stirred' = FALSE
    /\ mpc' = "remove"
    /\ UNCHANGED <<worldVars, dirVars, tracked, names, cur, found, reading,
                   starts, stale>>

\* "Remove dead readers": card_unavailable for each, under the write lock.
\* The order does not matter, each call is about an address of its own.  The
\* retain that follows touches nothing another thread sees; it is taken here,
\* reader by reader.
MonitorRemove(r) ==
    /\ mpc = "remove"
    /\ r \in dead
    /\ ~reading
    /\ RemoveCard(r)
    /\ dead' = dead \ {r}
    /\ tracked' = tracked \ {r}
    /\ UNCHANGED <<worldVars, mpc, names, cur, found, reading, stirred,
                   starts, stale>>

\* list_readers.
MonitorList ==
    /\ mpc = "remove"
    /\ dead = {}
    /\ mpc' = "add"
    /\ names' = {r \in Reader : Attached(r)}
    /\ UNCHANGED <<worldVars, dirVars, tracked, dead, cur, found, reading,
                   stirred, starts, stale>>

\* A name not tracked yet is pushed to reader_states, as UNAWARE, so that the
\* next get_status_change returns at once; then try_identify_card connects.
MonitorPush(r) ==
    /\ mpc = "add"
    /\ r \in names \ tracked
    /\ Connect("monitor", r)
    /\ tracked' = tracked \cup {r}
    /\ cur' = r
    /\ stirred' = TRUE
    /\ mpc' = "open"
    /\ UNCHANGED <<dirVars, dead, names, found, reading, starts, stale>>

\* Each of Card::new and the ident request opens a transaction of its own, for
\* which it waits until nobody else holds one.
CanTransact(r) ==
    /\ "monitor" \in conn[r]
    /\ session[r] = "free"
    /\ slot[r] \in OpenPgp

MonitorOpen ==
    /\ mpc = "open"
    /\ CanTransact(cur)
    /\ mpc' = "ident"
    /\ UNCHANGED <<worldVars, dirVars, tracked, dead, names, cur, found,
                   reading, stirred, starts, stale>>

MonitorIdent ==
    /\ mpc = "ident"
    /\ CanTransact(cur)
    /\ found' = slot[cur]
    /\ Disconnect("monitor")
    /\ stale' = [stale EXCEPT ![cur] = FALSE]
    /\ mpc' = "report"
    /\ UNCHANGED <<dirVars, tracked, dead, names, cur, reading, stirred,
                   starts>>

\* card_available, under the write lock.
MonitorReport ==
    /\ mpc = "report"
    /\ ~reading
    /\ AddCard(found, cur)
    /\ cur' = None /\ found' = None
    /\ mpc' = "add"
    /\ UNCHANGED <<worldVars, tracked, dead, names, reading, stirred, starts,
                   stale>>

\* No new name is left: sync_current_state, then get_status_change.
MonitorWait ==
    /\ mpc = "add"
    /\ names \subseteq tracked
    /\ mpc' = "wait"
    /\ UNCHANGED <<worldVars, dirVars, tracked, dead, names, cur, found,
                   reading, stirred, starts, stale>>

\* get_status_change returns: certainly if something happened since it last
\* returned, but possibly for no reason the agent can see.  It finds gone
\* (State::UNKNOWN) what is not attached now; a reader that went and came back
\* in the meantime looks alive.
MonitorWake ==
    /\ mpc = "wait"
    /\ dead' = {r \in tracked : ~Attached(r)}
    /\ stirred' = FALSE
    /\ mpc' = "remove"
    /\ UNCHANGED <<worldVars, dirVars, tracked, names, cur, found, reading,
                   starts, stale>>

\* Where an .expect ends the thread: connecting to a new reader (no card, gone
\* again, or opened exclusively), talking to its card (gone, or no OpenPGP
\* card), or any PC/SC call if PC/SC itself fails.  The reader was pushed to
\* reader_states before it was connected to.
Fails(r) ==
    \/ "monitor" \notin conn[r]
    \/ session[r] = "free" /\ slot[r] \notin OpenPgp

MonitorStops ==
    /\ \/ /\ mpc = "add"
          /\ \E r \in names \ tracked :
                /\ ~CanConnect(r) \/ CallsMayFail
                /\ tracked' = tracked \cup {r}
       \/ /\ mpc \in {"open", "ident"}
          /\ Fails(cur) \/ CallsMayFail
          /\ UNCHANGED tracked
       \/ /\ mpc = "wait" \/ (mpc = "remove" /\ dead = {})
          /\ CallsMayFail
          /\ UNCHANGED tracked
    /\ mpc' = "stopped"
    /\ Disconnect("monitor")
    /\ cur' = None
    /\ UNCHANGED <<dirVars, dead, names, found, reading, stirred, starts,
                   stale>>

MonitorStep ==
    \/ \E r \in Reader : MonitorRemove(r) \/ MonitorPush(r)
    \/ MonitorList \/ MonitorOpen \/ MonitorIdent \/ MonitorReport
    \/ MonitorWait
    \/ MonitorStops

-----------------------------------------------------------------------------
(* What the main thread can do to the state it shares with the monitor.    *)

\* known_cards.read()
MainLock ==
    /\ mpc # "off"
    /\ ~reading
    /\ reading' = TRUE
    /\ UNCHANGED <<worldVars, dirVars, monVars, stirred, starts, stale>>

\* Connects to the reader a Ready record names.
MainConnect(n) ==
    /\ reading
    /\ Ready(n)
    /\ Connect("main", addr[n])
    /\ UNCHANGED <<dirVars, monVars, reading, stirred, starts, stale>>

MainBegin(r) ==
    /\ "main" \in conn[r]
    /\ session[r] = "free"
    /\ session' = [session EXCEPT ![r] = "main"]
    /\ UNCHANGED <<slot, conn, plugs, dirVars, monVars, reading, stirred,
                   starts, stale>>

\* Mutated form: the read guard goes, the card stays open.
MainUnlockOnly ==
    /\ reading
    /\ reading' = FALSE
    /\ UNCHANGED <<worldVars, dirVars, monVars, stirred, starts, stale>>

\* The read guard goes out of scope, with the card and the transaction.
MainUnlock ==
    /\ reading
    /\ reading' = FALSE
    /\ Disconnect("main")
    /\ UNCHANGED <<dirVars, monVars, stirred, starts, stale>>

\* A panic in the main thread, or the user, ends the process.  What it had in
\* memory is gone, PC/SC closes its connections.
ProcessExit ==
    /\ mpc # "off"
    /\ mpc' = "off"
    /\ known' = {} /\ UNCHANGED rank
    /\ addr' = [n \in Nick |-> None]
    /\ cstate' = [n \in Nick |-> "Unavailable"]
    /\ reading' = FALSE
    /\ tracked' = {} /\ dead' = {} /\ names' = {}
    /\ cur' = None /\ found' = None
    /\ conn' = [r \in Reader |-> {}]
    /\ session' = [r \in Reader |->
                     IF session[r] = "main" THEN "free" ELSE session[r]]
    /\ stale' = [r \in Reader |-> TRUE]
    /\ UNCHANGED <<slot, plugs, stirred, starts>>

\* main: known_cards from the configuration, then the monitor is spawned.
ProcessStart ==
    /\ mpc = "off"
    /\ starts < MaxStarts
    /\ starts' = starts + 1
    /\ known' = Nick
    /\ rank' \in Order
    /\ mpc' = "remove"
    /\ stirred' = TRUE
    /\ UNCHANGED <<worldVars, addr, cstate, tracked, dead, names, cur, found,
                   reading, stale>>

MainStep ==
    \/ MainLock \/ MainUnlock \/ ProcessExit \/ ProcessStart
    \/ \E n \in Nick : MainConnect(n)
    \/ \E r \in Reader : MainBegin(r)

WorldStep ==
    \E r \in Reader :
        \/ \E x \in Card \cup {Empty} : PlugIn(r, x)
        \/ PullOut(r, Absent) \/ PullOut(r, Empty)
        \/ OtherApp(r)

MonitorNext == MonitorStep \/ MonitorWake \/ MainStep \/ WorldStep

MonitorSpec == MonitorInit /\ [][MonitorNext]_vars

(***************************************************************************)
(* Fairness.  The operating system schedules the monitor thread, and       *)
(* std::sync::RwLock lets a waiting writer through between two readers;    *)
(* pcscd lets a waiting transaction through between two others: strong     *)
(* fairness of the thread.  get_status_change returns when something       *)
(* happened.  The main thread lets go of the lock again, which module      *)
(* Agent shows of it.  Other applications end their sessions, everywhere   *)
(* or only with the cards the agent is configured for.                     *)
(***************************************************************************)
ThreadFairness ==
    /\ SF_vars(MonitorStep)
    /\ SF_vars(stirred /\ MonitorWake)
    /\ WF_vars(MainUnlock)

SessionEnds(r) == OtherEnds(r) /\ OtherApp(r)

MonitorFairSpec ==
    MonitorSpec /\ ThreadFairness /\ \A r \in Reader : WF_vars(SessionEnds(r))

ConfiguredIn(r) == \E n \in Nick : slot[r] = ConfIdent[n]

ConfiguredFairSpec ==
    /\ MonitorSpec
    /\ ThreadFairness
    /\ \A r \in Reader : WF_vars(ConfiguredIn(r) /\ SessionEnds(r))
=============================================================================
