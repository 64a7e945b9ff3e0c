---------------------------- MODULE AgentProofs ----------------------------
(***************************************************************************)
(* Proofs about module Agent, for any clients, cards, PINs and any number  *)
(* of runs and requests: what the main thread does to the state it shares  *)
(* with the monitor is what module Monitor allows, so everything proved    *)
(* there holds of the agent; and the safety properties of AgentProps       *)
(* follow from the inductive invariant AgentInv below.                     *)
(***************************************************************************)
EXTENDS AgentProps, MonitorProofs

-----------------------------------------------------------------------------
(* The inductive invariant.                                                *)

\* The process runs exactly as long as its monitor thread was not taken down,
\* and the read guard is held exactly while a request is served; then there is
\* a client, and at "verify" a PIN to send.
ControlOK ==
    /\ apc = "down" <=> mpc = "off"
    /\ apc \in Busy <=> reading
    /\ apc \in Busy => serving \in Client
    /\ apc = "verify" => entered \in Pin

\* A key nobody typed a PIN for in this run is the only kind that can be asked
\* for: every typed PIN is in the cache, but for the one on its way to the card.
PromptsOK ==
    /\ apc # "down" =>
          \A k \in Key : cache[k] = None =>
              prompts[k] = 0 \/ (apc = "verify" /\ k = PinCacheKey(target))
    /\ apc = "prompt" => cache[PinCacheKey(target)] = None

AgentInv ==
    /\ MonitorInv /\ AgentTypeOK
    /\ ControlOK /\ ServesBestCard
    /\ SessionsAreBounded
    /\ OneWrongPinPerRun
    /\ PromptsOK /\ PromptOncePerKey

\* While a request is served, the chosen record is Ready at a reader.
LEMMA TargetIsReady ==
    ASSUME AgentInv, apc \in Busy
    PROVE  target \in Nick /\ Ready(target) /\ At \in Reader /\ reading /\ mpc # "off"
<1>1. target \in known /\ cstate[target] = "Ready" /\ reading
  BY DEF AgentInv, ServesBestCard, BestCards, ControlOK
<1>2. target \in Nick /\ Ready(target)
  BY <1>1 DEF AgentInv, MonitorInv, MonitorTypeOK, DirTypeOK, Ready
<1>3. At \in Reader
  BY <1>2 DEF AgentInv, MonitorInv, ReadyIsTracked, MonitorTypeOK, At
<1>4. mpc # "off"
  BY <1>1 DEF AgentInv, MonitorInv, PhaseOK
<1>5. QED
  BY <1>1, <1>2, <1>3, <1>4

\* Its PIN has a place in the cache.
LEMMA CacheKeyType ==
    ASSUME AgentInv, apc \in Busy
    PROVE  PinCacheKey(target) \in Key
BY TargetIsReady, AgentAssumption, ConfigAssumption DEF PinCacheKey, Key

-----------------------------------------------------------------------------
(* The agent is a monitor with a main thread.                              *)

\* The steps that leave everything the monitor shares as it is.
Quiet ==
    \/ OpenCard \/ LookUpPin \/ AskForPin \/ VerifyPin
    \/ ReadMessage \/ Decipher \/ ReplyOk
    \/ \E p \in Pin : UserTypes(p)
    \/ \E k \in Client : ClientStep(k)
    \/ \E r \in Reader, p \in Pin : OtherChangesPin(r, p)

\* The steps that end the process, and those that end a request.
Ending ==
    \/ AcceptWithoutCard \/ AcceptFails \/ VerifyRefused \/ CardFails
    \/ WriteFails \/ UserAborts

Finishing == ReadFails \/ DecipherFails \/ ReplyData \/ ReplyDataFails

Threads == MonitorStep \/ MonitorWake \/ WorldStep

\* A step of the agent is one of the monitor, one of the main loop or one of a
\* request.
LEMMA AgentSteps ==
    ASSUME AgentNext
    PROVE  \/ Quiet \/ Ending \/ Finishing
           \/ Accept \/ ConnectCard \/ BeginTransaction \/ Restart
           \/ Threads /\ AgentThreads
BY DEF AgentNext, MainThread, User, Quiet, Ending, Finishing, Threads, AgentThreads

\* The steps that only the agent sees leave the monitor's state alone;
LEMMA QuietEffect ==
    ASSUME Quiet
    PROVE  UNCHANGED vars
BY DEF Quiet, OpenCard, LookUpPin, AskForPin, VerifyPin, ReadMessage, Decipher, ReplyOk,
       UserTypes, ClientStep, ClientConnects, ClientHangsUp, ClientSends, OtherChangesPin

\* a step that ends the process is a crash to the monitor,
LEMMA EndingEffect ==
    ASSUME Ending
    PROVE  Crash
BY DEF Ending, AcceptWithoutCard, AcceptFails, VerifyRefused, CardFails, WriteFails,
       UserAborts, CrashHarmlessly

\* and the end of a request is the end of the call that the monitor knows of.
LEMMA FinishingEffect ==
    ASSUME Finishing
    PROVE  Finish("dropped") \/ Finish("answered")
BY DEF Finishing, ReadFails, DecipherFails, ReplyData, ReplyDataFails

\* Every step of the agent is a step of module Monitor, or leaves its variables
\* alone.
LEMMA AgentStepIsMonitorStep ==
    ASSUME AgentInv, [AgentNext]_agentVars
    PROVE  [MonitorNext]_vars
<1>1. CASE UNCHANGED agentVars
  BY <1>1 DEF agentVars
<1>2. CASE Quiet
  BY <1>2, QuietEffect
<1>3. CASE Ending
  BY <1>3, EndingEffect DEF Crash, MonitorNext, MainStep
<1>4. CASE Finishing
  BY <1>4, FinishingEffect DEF Finish, MonitorNext, MainStep
<1>5. CASE Accept
  BY <1>5 DEF Accept, MonitorNext, MainStep
<1>6. CASE ConnectCard
  <2>1. target \in Nick /\ MainConnect(target)
    BY <1>6, TargetIsReady DEF ConnectCard, Busy
  <2>2. QED
    BY <2>1 DEF MonitorNext, MainStep
<1>7. CASE BeginTransaction
  <2>1. At \in Reader /\ MainBegin(At)
    BY <1>7, TargetIsReady DEF BeginTransaction, Busy
  <2>2. QED
    BY <2>1 DEF MonitorNext, MainStep
<1>8. CASE Restart
  BY <1>8 DEF Restart, MonitorNext, MainStep
<1>9. CASE Threads
  BY <1>9 DEF Threads, MonitorNext
<1>10. QED
  BY <1>1, <1>2, <1>3, <1>4, <1>5, <1>6, <1>7, <1>8, <1>9, AgentSteps

\* So what holds of the monitor alone still holds within the agent.
LEMMA MonitorKept ==
    ASSUME AgentInv, [AgentNext]_agentVars
    PROVE  MonitorInv'
BY AgentStepIsMonitorStep, StepInv DEF AgentInv

-----------------------------------------------------------------------------
(* The inductive invariant holds in the beginning ...                      *)

\* The inductive invariant holds when the agent starts.
LEMMA AgentInitInv == AgentInit => AgentInv
<1> SUFFICES ASSUME AgentInit PROVE AgentInv
  OBVIOUS
<1>1. MonitorInv
  BY InitInv DEF AgentInit
<1>2. AgentTypeOK
  <2>1. MonitorTypeOK
    BY <1>1 DEF MonitorInv
  <2>2. queue \in Seq(Client)
    BY DEF AgentInit
  <2>3. pin \in [Card -> Pin] /\ tries \in [Card -> 0..MaxTries] /\ changes \in 0..MaxChanges
    BY AgentAssumption DEF AgentInit
  <2>4. /\ cache \in [Key -> Pin \cup {None}]
        /\ client \in [Client -> {"away", "open", "answered", "dropped", "gone"}]
        /\ msg \in [Client -> Messages \cup {None}]
        /\ prompts \in [Key -> Nat] /\ wrong \in Nat
    BY DEF AgentInit
  <2>5. QED
    BY <2>1, <2>2, <2>3, <2>4 DEF AgentInit, AgentTypeOK
<1>3. ControlOK /\ ServesBestCard
  BY DEF AgentInit, ControlOK, ServesBestCard, Busy, InTransaction, MonitorInit
<1>4. SessionsAreBounded
  BY DEF AgentInit, SessionsAreBounded, MonitorInit, WorldInit
<1>5. OneWrongPinPerRun /\ PromptsOK /\ PromptOncePerKey
  BY DEF AgentInit, OneWrongPinPerRun, PromptsOK, PromptOncePerKey
<1>6. QED
  BY <1>1, <1>2, <1>3, <1>4, <1>5 DEF AgentInv

-----------------------------------------------------------------------------
(* ... and is kept by every step, one conjunct after the other.            *)

\* Every step keeps the types,
LEMMA AgentTypesKept ==
    ASSUME AgentInv, AgentNext
    PROVE  AgentTypeOK'
<1> USE DEF AgentTypeOK
<1>1. MonitorTypeOK'
  BY MonitorKept DEF MonitorInv
<1>2. AgentTypeOK
  BY DEF AgentInv
<1>3. CASE Ending
  <2>1. Crash
    BY <1>3, EndingEffect
  <2>2. UNCHANGED <<tries, wrong>> \/ VerifyRefused
    BY <1>3 DEF Ending, AcceptWithoutCard, AcceptFails, CardFails, WriteFails, UserAborts,
       CrashHarmlessly
  <2>3. tries' \in [Card -> 0..MaxTries] /\ wrong' \in Nat
    <3>1. CASE UNCHANGED <<tries, wrong>>
      BY <1>2, <3>1
    <3>2. CASE VerifyRefused
      <4>1. \A c \in Card : (IF tries[c] > 0 THEN tries[c] - 1 ELSE 0) \in 0..MaxTries
        BY <1>2, AgentAssumption
      <4>2. tries' \in [Card -> 0..MaxTries]
        BY <1>2, <3>2, <4>1 DEF VerifyRefused
      <4>3. wrong' \in Nat
        BY <1>2, <3>2 DEF VerifyRefused
      <4>4. QED
        BY <4>2, <4>3
    <3>3. QED
      BY <2>2, <3>1, <3>2
  <2>4. queue' \in Seq(Client)
    BY <2>1 DEF Crash
  <2>5. QED
    BY <1>1, <1>2, <2>1, <2>3, <2>4 DEF Crash
<1>4. CASE Finishing
  BY <1>1, <1>2, <1>4, FinishingEffect DEF Finish, cardVars, histVars
<1>5. CASE Accept
  <2>1. target' \in Nick
    BY <1>1, <1>5 DEF Accept, BestCards, MainLock, MonitorTypeOK, DirTypeOK, dirVars
  <2>2. serving' \in Client /\ queue' \in Seq(Client)
    BY <1>2, <1>5 DEF Accept
  <2>3. QED
    BY <1>1, <1>2, <1>5, <2>1, <2>2 DEF Accept, Busy, cardVars, histVars
<1>6. CASE ConnectCard \/ BeginTransaction \/ OpenCard \/ AskForPin \/ ReadMessage \/ Decipher
           \/ ReplyOk
  BY <1>1, <1>2, <1>6 DEF ConnectCard, BeginTransaction, OpenCard, AskForPin, ReadMessage,
     Decipher, ReplyOk, GoTo, Busy, InTransaction, clientVars, cardVars, histVars
<1>7. CASE Restart
  BY <1>1, <1>2, <1>7 DEF Restart, clientVars, cardVars
<1>8. CASE Threads /\ AgentThreads
  BY <1>1, <1>2, <1>8 DEF AgentThreads, mainVars, clientVars, cardVars, histVars
<1>9. CASE LookUpPin \/ VerifyPin \/ \E p \in Pin : UserTypes(p)
  <2>1. CASE LookUpPin
    <3>1. entered' \in Pin \cup {None}
      BY <1>2, <2>1, CacheKeyType DEF LookUpPin, Busy, InTransaction
    <3>2. QED
      BY <1>1, <1>2, <2>1, <3>1 DEF LookUpPin, Busy, InTransaction, clientVars, cardVars, histVars
  <2>2. CASE VerifyPin
    <3>0. MaxTries \in 0..MaxTries
      BY AgentAssumption
    <3>1. tries' \in [Card -> 0..MaxTries]
      BY <1>2, <2>2, <3>0 DEF VerifyPin, AgentTypeOK
    <3>2. cache' \in [Key -> Pin \cup {None}]
      BY <1>2, <2>2 DEF VerifyPin
    <3>3. QED
      BY <1>1, <1>2, <2>2, <3>1, <3>2 DEF VerifyPin, Busy, InTransaction, clientVars, histVars
  <2>3. ASSUME NEW p \in Pin, UserTypes(p)
        PROVE  AgentTypeOK'
    <3>1. prompts' \in [Key -> Nat]
      BY <1>2, <2>3, CacheKeyType DEF UserTypes, Busy, InTransaction
    <3>2. QED
      BY <1>1, <1>2, <2>3, <3>1 DEF UserTypes, Busy, InTransaction, clientVars, cardVars
  <2>4. QED
    BY <1>9, <2>1, <2>2, <2>3
<1>10. ASSUME NEW k \in Client, ClientStep(k)
       PROVE  AgentTypeOK'
  <2>1. queue' \in Seq(Client)
    <3>1. queue \in Seq(Client) /\ Append(queue, k) \in Seq(Client)
      BY <1>2
    <3>2. queue' = queue \/ queue' = Append(queue, k)
      BY <1>10 DEF ClientStep, ClientConnects, ClientHangsUp, ClientSends
    <3>3. QED
      BY <3>1, <3>2
  <2>2. UNCHANGED <<mainVars, cardVars, histVars>>
    BY <1>10 DEF ClientStep, ClientConnects, ClientHangsUp, ClientSends
  <2>3. /\ client' \in [Client -> {"away", "open", "answered", "dropped", "gone"}]
        /\ msg' \in [Client -> Messages \cup {None}]
    BY <1>2, <1>10 DEF ClientStep, ClientConnects, ClientHangsUp, ClientSends
  <2>4. QED
    BY <1>1, <1>2, <2>1, <2>2, <2>3 DEF mainVars, cardVars, histVars
<1>11. ASSUME NEW r \in Reader, NEW p \in Pin, OtherChangesPin(r, p)
       PROVE  AgentTypeOK'
  BY <1>1, <1>2, <1>11, AgentAssumption DEF OtherChangesPin, mainVars, clientVars, histVars
<1>12. QED
  BY <1>3, <1>4, <1>5, <1>6, <1>7, <1>8, <1>9, <1>10, <1>11, AgentSteps DEF Quiet

\* what is known of a request at each of its points,
LEMMA ControlKept ==
    ASSUME AgentInv, AgentNext
    PROVE  ControlOK'
<1> USE DEF AgentInv, ControlOK, Busy, InTransaction
<1>1. CASE Ending
  BY <1>1, EndingEffect DEF Crash, ProcessExit
<1>2. CASE Finishing
  BY <1>2, FinishingEffect DEF Finish, MainUnlock, Finishing, ReadFails, DecipherFails,
     ReplyData, ReplyDataFails, monVars
<1>3. CASE Accept
  <2>1. serving' \in Client
    BY <1>3 DEF Accept, AgentTypeOK
  <2>2. QED
    BY <1>3, <2>1 DEF Accept, MainLock, monVars
<1>4. CASE ConnectCard \/ BeginTransaction
  BY <1>4 DEF ConnectCard, BeginTransaction, MainConnect, MainBegin, GoTo, monVars
<1>5. CASE Restart
  BY <1>5 DEF Restart, ProcessStart, MonitorInv, PhaseOK
<1>6. CASE Threads /\ AgentThreads
  <2>1. reading' = reading
    BY <1>6 DEF Threads, MonitorStep, MonitorWake, WorldStep, MonitorRemove, MonitorPush,
       MonitorList, MonitorOpen, MonitorIdent, MonitorReport, MonitorWait, MonitorStops,
       PlugIn, PullOut, OtherApp
  <2>2. mpc' = "off" <=> mpc = "off"
    BY <1>6 DEF Threads, MonitorStep, MonitorWake, WorldStep, MonitorRemove, MonitorPush,
       MonitorList, MonitorOpen, MonitorIdent, MonitorReport, MonitorWait, MonitorStops,
       PlugIn, PullOut, OtherApp, monVars
  <2>3. QED
    BY <1>6, <2>1, <2>2 DEF AgentThreads, mainVars
<1>7. CASE Quiet
  <2>1. reading' = reading /\ mpc' = mpc
    BY <1>7, QuietEffect DEF vars, monVars
  <2>2. CASE OpenCard \/ AskForPin \/ ReadMessage \/ Decipher \/ ReplyOk \/ VerifyPin
    BY <2>1, <2>2 DEF OpenCard, AskForPin, ReadMessage, Decipher, ReplyOk, VerifyPin, GoTo
  <2>3. CASE LookUpPin
    <3>1. entered' \in Pin
      BY <2>3, CacheKeyType DEF LookUpPin, AgentTypeOK
    <3>2. QED
      BY <2>1, <2>3, <3>1 DEF LookUpPin
  <2>4. ASSUME NEW p \in Pin, UserTypes(p)
        PROVE  ControlOK'
    BY <2>1, <2>4 DEF UserTypes
  <2>5. ASSUME UNCHANGED mainVars
        PROVE  ControlOK'
    BY <2>1, <2>5 DEF mainVars
  <2>6. QED
    BY <1>7, <2>2, <2>3, <2>4, <2>5 DEF Quiet, ClientStep, ClientConnects, ClientHangsUp,
       ClientSends, OtherChangesPin
<1>8. QED
  BY <1>1, <1>2, <1>3, <1>4, <1>5, <1>6, <1>7, AgentSteps

\* What a step of another thread, or of the world, can do to known_cards while
\* the main thread holds the read guard: nothing.
LEMMA GuardKeepsCards ==
    ASSUME reading, Threads
    PROVE  UNCHANGED dirVars
BY DEF Threads, MonitorStep, MonitorWake, WorldStep, MonitorRemove, MonitorPush, MonitorList,
   MonitorOpen, MonitorIdent, MonitorReport, MonitorWait, MonitorStops, PlugIn, PullOut, OtherApp

\* that the card served is the best of those that could be,
LEMMA BestKept ==
    ASSUME AgentInv, AgentNext
    PROVE  ServesBestCard'
<1> USE DEF ServesBestCard, Busy, InTransaction
<1>1. ASSUME UNCHANGED <<dirVars, target>>, apc' \in Busy => apc \in Busy
      PROVE  ServesBestCard'
  BY <1>1 DEF AgentInv, BestCards, dirVars
<1>2. CASE Ending
  BY <1>2, EndingEffect DEF Crash
<1>3. CASE Finishing
  BY <1>3, FinishingEffect DEF Finish
<1>4. CASE Accept
  BY <1>4 DEF Accept, MainLock, BestCards, dirVars
<1>5. CASE ConnectCard \/ BeginTransaction
  BY <1>1, <1>5 DEF ConnectCard, BeginTransaction, MainConnect, MainBegin, GoTo
<1>6. CASE Restart
  BY <1>6 DEF Restart
<1>7. CASE Threads /\ AgentThreads
  BY <1>1, <1>7, GuardKeepsCards DEF AgentInv, ControlOK, AgentThreads, mainVars
<1>8. CASE Quiet
  <2>1. UNCHANGED dirVars
    BY <1>8, QuietEffect DEF vars
  <2>2. target' = target /\ (apc' \in Busy => apc \in Busy)
    BY <1>8 DEF Quiet, OpenCard, LookUpPin, AskForPin, VerifyPin, ReadMessage, Decipher,
       ReplyOk, UserTypes, ClientStep, ClientConnects, ClientHangsUp, ClientSends,
       OtherChangesPin, GoTo, mainVars
  <2>3. QED
    BY <1>1, <2>1, <2>2
<1>9. QED
  BY <1>2, <1>3, <1>4, <1>5, <1>6, <1>7, <1>8, AgentSteps

\* the bound on the sessions that are open,
LEMMA SessionsKept ==
    ASSUME AgentInv, AgentNext
    PROVE  SessionsAreBounded'
<1> USE DEF SessionsAreBounded, Busy, InTransaction
<1>0. SessionsAreBounded /\ WorldTypeOK
  BY DEF AgentInv, MonitorInv, MonitorTypeOK
<1>1. CASE Ending
  BY <1>0, <1>1, EndingEffect DEF Crash, ProcessExit
<1>2. CASE Finishing
  BY <1>0, <1>2, FinishingEffect DEF Finish, MainUnlock, Disconnect
<1>3. CASE Accept
  BY <1>0, <1>3 DEF Accept, MainLock, worldVars
<1>4. CASE ConnectCard
  BY <1>0, <1>4 DEF ConnectCard, MainConnect, Connect, GoTo
<1>5. CASE BeginTransaction
  <2>1. At \in Reader /\ At' = At
    BY <1>5, TargetIsReady DEF BeginTransaction, MainBegin, GoTo, At, dirVars
  <2>2. QED
    BY <1>0, <1>5, <2>1 DEF BeginTransaction, MainBegin, GoTo, Lost
<1>6. CASE Restart
  BY <1>0, <1>6 DEF Restart, ProcessStart, worldVars
<1>7. CASE Threads /\ AgentThreads
  <2> SUFFICES ASSUME NEW r \in Reader, session'[r] = "main"
               PROVE  apc' \in InTransaction /\ r = At' /\ ~Lost'
    OBVIOUS
  <2>1. session[r] = "main" /\ ("main" \in conn[r] => "main" \in conn'[r])
    BY <1>0, <1>7 DEF Threads, MonitorStep, MonitorWake, WorldStep, MonitorRemove,
       MonitorPush, MonitorList, MonitorOpen, MonitorIdent, MonitorReport, MonitorWait,
       MonitorStops, PlugIn, PullOut, OtherApp, Attach, Insert, TakeAway, OtherBegins,
       OtherExcludes, OtherEnds, Connect, Disconnect, WorldTypeOK, worldVars
  <2>2. apc \in InTransaction /\ r = At /\ "main" \in conn[At]
    BY <1>0, <2>1 DEF Lost
  <2>3. At' = At /\ apc' = apc
    BY <1>7, <2>2, GuardKeepsCards DEF AgentInv, ControlOK, AgentThreads, mainVars, At, dirVars
  <2>4. QED
    BY <2>1, <2>2, <2>3 DEF Lost
<1>8. CASE Quiet
  <2>1. UNCHANGED <<conn, session, addr>>
    BY <1>8, QuietEffect DEF vars, worldVars, dirVars
  <2>2. target' = target /\ (apc \in InTransaction => apc' \in InTransaction)
    BY <1>8 DEF Quiet, OpenCard, LookUpPin, AskForPin, VerifyPin, ReadMessage, Decipher,
       ReplyOk, UserTypes, ClientStep, ClientConnects, ClientHangsUp, ClientSends,
       OtherChangesPin, GoTo, mainVars
  <2>3. QED
    BY <1>0, <2>1, <2>2 DEF At, Lost
<1>9. QED
  BY <1>1, <1>2, <1>3, <1>4, <1>5, <1>6, <1>7, <1>8, AgentSteps

\* and what a run of the agent does only once.
LEMMA HistoryKept ==
    ASSUME AgentInv, AgentNext
    PROVE  OneWrongPinPerRun' /\ PromptsOK' /\ PromptOncePerKey'
<1> USE DEF OneWrongPinPerRun, PromptsOK, PromptOncePerKey
<1>0. /\ AgentTypeOK /\ OneWrongPinPerRun /\ PromptsOK /\ PromptOncePerKey
  BY DEF AgentInv
<1>1. CASE Ending
  <2>1. apc' = "down" /\ prompts' = prompts
    BY <1>1, EndingEffect DEF Crash
  <2>2. wrong' <= 1
    <3>1. CASE VerifyRefused
      BY <1>0, <3>1 DEF VerifyRefused, AgentTypeOK
    <3>2. CASE wrong' = wrong
      BY <1>0, <3>2
    <3>3. QED
      BY <1>1, <3>1, <3>2 DEF Ending, AcceptWithoutCard, AcceptFails, CardFails, WriteFails,
         UserAborts, CrashHarmlessly
  <2>3. QED
    BY <1>0, <2>1, <2>2
<1>2. ASSUME UNCHANGED <<cache, prompts, wrong>>, apc # "down", apc # "verify", apc # "pin",
             apc' # "prompt"
      PROVE  OneWrongPinPerRun' /\ PromptsOK' /\ PromptOncePerKey'
  BY <1>0, <1>2
<1>3. CASE Finishing \/ Accept \/ ConnectCard \/ BeginTransaction \/ OpenCard \/ ReadMessage
           \/ Decipher \/ ReplyOk
  <2>1. /\ UNCHANGED <<cache, prompts, wrong>> /\ apc # "down" /\ apc # "verify" /\ apc # "pin"
        /\ apc' # "prompt"
    BY <1>3 DEF Finishing, ReadFails, DecipherFails, ReplyData, ReplyDataFails, Finish, Accept,
       ConnectCard, BeginTransaction, OpenCard, ReadMessage, Decipher, ReplyOk, GoTo, histVars
  <2>2. QED
    BY <1>2, <2>1
<1>4. CASE Restart
  BY <1>0, <1>4 DEF Restart
<1>5. CASE LookUpPin
  BY <1>0, <1>5 DEF LookUpPin, histVars
<1>6. CASE AskForPin
  <2>1. PinCacheKey(target)' = PinCacheKey(target)
    BY <1>6 DEF AskForPin, GoTo, PinCacheKey
  <2>2. QED
    BY <1>0, <1>6, <2>1 DEF AskForPin, GoTo, histVars
<1>7. ASSUME NEW p \in Pin, UserTypes(p)
      PROVE  OneWrongPinPerRun' /\ PromptsOK' /\ PromptOncePerKey'
  <2> DEFINE key == PinCacheKey(target)
  <2>1. key \in Key
    BY <1>7, CacheKeyType DEF UserTypes, Busy, InTransaction
  <2>2. key' = key
    BY <1>7 DEF UserTypes, PinCacheKey
  <2>3. cache[key] = None /\ prompts[key] = 0
    BY <1>0, <1>7, <2>1 DEF UserTypes
  <2>4. prompts' = [prompts EXCEPT ![key] = 1]
    BY <1>7, <2>3 DEF UserTypes
  <2> HIDE DEF key
  <2>5. QED
    BY <1>0, <1>7, <2>1, <2>2, <2>3, <2>4 DEF UserTypes, AgentTypeOK, key
<1>8. CASE VerifyPin
  <2>1. PinCacheKey(target) \in Key
    BY <1>8, CacheKeyType DEF VerifyPin, Busy, InTransaction
  <2>2. entered # None
    BY <1>8, AgentAssumption DEF VerifyPin, AgentInv, ControlOK
  <2>3. QED
    BY <1>0, <1>8, <2>1, <2>2 DEF VerifyPin, AgentTypeOK, histVars
<1>9. ASSUME UNCHANGED <<mainVars, histVars>>
      PROVE  OneWrongPinPerRun' /\ PromptsOK' /\ PromptOncePerKey'
  <2>1. PinCacheKey(target)' = PinCacheKey(target)
    BY <1>9 DEF mainVars, PinCacheKey
  <2>2. QED
    BY <1>0, <1>9, <2>1 DEF mainVars, histVars
<1>10. CASE Threads /\ AgentThreads
  BY <1>9, <1>10 DEF AgentThreads
<1>11. CASE (\E k \in Client : ClientStep(k)) \/ \E r \in Reader, p \in Pin : OtherChangesPin(r, p)
  BY <1>9, <1>11 DEF ClientStep, ClientConnects, ClientHangsUp, ClientSends, OtherChangesPin
<1>12. QED
  BY <1>1, <1>3, <1>4, <1>5, <1>6, <1>7, <1>8, <1>10, <1>11, AgentSteps DEF Quiet

\* So every step keeps the inductive invariant.
LEMMA AgentStepInv == AgentInv /\ [AgentNext]_agentVars => AgentInv'
<1> SUFFICES ASSUME AgentInv, [AgentNext]_agentVars
             PROVE  AgentInv'
  OBVIOUS
<1>1. CASE AgentNext
  BY <1>1, MonitorKept, AgentTypesKept, ControlKept, BestKept, SessionsKept, HistoryKept
     DEF AgentInv
<1>2. CASE UNCHANGED agentVars
  <2>1. MonitorInv'
    BY MonitorKept
  <2>2. UNCHANGED <<known, rank, addr, cstate, conn, session, reading, mpc>>
    BY <1>2 DEF agentVars, vars, worldVars, dirVars, monVars
  <2>3. UNCHANGED <<mainVars, clientVars, cardVars, histVars>>
    BY <1>2 DEF agentVars
  <2>4. AgentTypeOK'
    BY <2>1, <2>3 DEF AgentInv, AgentTypeOK, MonitorInv, mainVars, clientVars, cardVars, histVars
  <2>5. ControlOK' /\ ServesBestCard' /\ SessionsAreBounded'
    BY <2>2, <2>3 DEF AgentInv, ControlOK, ServesBestCard, SessionsAreBounded, BestCards, At,
       Lost, mainVars
  <2>6. OneWrongPinPerRun' /\ PromptsOK' /\ PromptOncePerKey'
    BY <2>3 DEF AgentInv, OneWrongPinPerRun, PromptsOK, PromptOncePerKey, PinCacheKey,
       mainVars, histVars
  <2>7. QED
    BY <2>1, <2>4, <2>5, <2>6 DEF AgentInv
<1>3. QED
  BY <1>1, <1>2

-----------------------------------------------------------------------------
(* What it is for.                                                         *)

\* The inductive invariant holds in every reachable state of the agent.
THEOREM AgentInvariance == AgentSpec => []AgentInv
<1>1. AgentInit => AgentInv
  BY AgentInitInv
<1>2. AgentInv /\ [AgentNext]_agentVars => AgentInv'
  BY AgentStepInv
<1>3. QED
  BY <1>1, <1>2, PTL DEF AgentSpec

\* The agent's variables keep their types: no retry counter leaves its range,
\* no prompt is for a key the cache has no place for.
THEOREM AgentTypes == AgentSpec => []AgentTypeOK
<1>1. AgentInv => AgentTypeOK
  BY DEF AgentInv
<1>2. QED
  BY <1>1, AgentInvariance, PTL

\* Every behaviour of the agent is one of module Monitor: its main thread
\* connects only to readers a Ready record names while it holds the read lock,
\* and takes a session only over a connection of its own.
THEOREM AgentIsAMonitor == AgentSpec => ImplementsMonitor
<1>1. AgentInit => MonitorInit
  BY DEF AgentInit
<1>2. AgentInv /\ [AgentNext]_agentVars => [MonitorNext]_vars
  BY AgentStepIsMonitorStep
<1>3. QED
  BY <1>1, <1>2, AgentInvariance, PTL DEF AgentSpec, ImplementsMonitor, MonitorSpec

\* So known_cards stays a directory whatever the main thread does.
THEOREM AgentKeepsTheDirectory == AgentSpec => ImplementsDirectory
BY AgentIsAMonitor, KnownCardsAreADirectory, PTL DEF ImplementsMonitor

\* From its choice to the end of the request the served record stays the best
\* one, whatever the monitor and the users of the readers do.
THEOREM BestCardServed == AgentSpec => []ServesBestCard
<1>1. AgentInv => ServesBestCard
  BY DEF AgentInv
<1>2. QED
  BY <1>1, AgentInvariance, PTL

\* The agent holds a session only inside a request, with the reader it chose,
\* and never over a connection it has lost.
THEOREM SessionsBounded == AgentSpec => []SessionsAreBounded
<1>1. AgentInv => SessionsAreBounded
  BY DEF AgentInv
<1>2. QED
  BY <1>1, AgentInvariance, PTL

\* However many cards, PIN changes and requests: one run of the agent costs
\* all cards together at most one try.
THEOREM OneWrongPin == AgentSpec => []OneWrongPinPerRun
<1>1. AgentInv => OneWrongPinPerRun
  BY DEF AgentInv
<1>2. QED
  BY <1>1, AgentInvariance, PTL

\* The user is asked for each PIN at most once in a run.
THEOREM OnePromptPerKey == AgentSpec => []PromptOncePerKey
<1>1. AgentInv => PromptOncePerKey
  BY DEF AgentInv
<1>2. QED
  BY <1>1, AgentInvariance, PTL

=============================================================================
