----------------------------- MODULE ApduProofs -----------------------------
(***************************************************************************)
(* The transport's safety properties hold for every capability of a card,  *)
(* every length of command and reply and every way to give it in parts.    *)
(***************************************************************************)
EXTENDS ApduProps, TLAPS

\* An answer that brings a reply or a part of it
Bringing == rsp.sw \in {"ok", "more"}

\* The command has been run, on what it should be run on.
HasRun == ran = 1 /\ ranOn = n /\ straight
NotRun == ran = 0 /\ straight

\* Idle: nothing is left at the card, and the call did what its outcome says.
IdleInv == pc = "idle" =>
    /\ held = 0
    /\ ran > 0 => HasRun
    /\ outcome = "reply" => HasRun /\ resp = reply
    /\ outcome = "length" => ran = 0

\* The command is on its way: the card has what was sent of it.
SendInv == pc = "send" /\ stage # "get" =>
    NotRun /\ held = sent /\ sent <= n /\ (sent > 0 => Chained /\ sent < n)

CardInv == pc = "card" /\ stage # "get" =>
    /\ NotRun
    /\ apdu.lo = held /\ apdu.hi <= n
    /\ apdu.last => apdu.hi = n
    /\ ~apdu.last => Chained /\ 0 < apdu.hi /\ apdu.hi < n

ChunkInv == pc = "received" /\ ~apdu.last =>
    /\ stage # "get" /\ NotRun
    /\ Chained /\ 0 < apdu.hi /\ apdu.hi < n
    /\ rsp.sw \in {"ok", "lastExpected", "error"}
    /\ held = IF rsp.sw = "error" THEN 0 ELSE apdu.hi

ReplyInv == pc = "received" /\ apdu.last /\ stage # "get" =>
    /\ held = 0
    /\ Bringing => HasRun /\ rsp.lo = 0 /\ rsp.hi = given
    /\ rsp.sw = "ok" => given = reply
    /\ ~Bringing => NotRun

\* GET RESPONSE: the parts so far are what the card has given.
GetInv == stage = "get" /\ pc # "idle" =>
    /\ HasRun /\ held = 0
    /\ expect = "short"
    /\ pc = "card" => apdu.last
    /\ pc = "received" => apdu.last
    /\ pc \in {"send", "card"} => resp = given
    /\ pc = "received" /\ Bringing => rsp.lo = resp /\ rsp.hi = given
                                      /\ rsp.lo <= rsp.hi
    /\ pc = "received" /\ rsp.sw = "ok" => given = reply

PanicInv == pc = "panicked" => NotRun \/ HasRun

FlowInv ==
    /\ outcome # "none" => pc = "idle"
    /\ IdleInv /\ SendInv /\ CardInv /\ ChunkInv /\ ReplyInv /\ GetInv /\ PanicInv

ApduInv == ApduTypeOK /\ FlowInv

\* The inductive invariant holds before the first command.
LEMMA InitInv == ApduInit => ApduInv
<1> SUFFICES ASSUME ApduInit PROVE ApduInv
  OBVIOUS
<1>1. ApduTypeOK
  BY DEF ApduInit, ApduTypeOK, NoApdu, Expects, Status, Byte, MaxByte, Size, MaxSize
<1>2. IdleInv /\ outcome = "none"
  BY DEF ApduInit, IdleInv
<1>3. SendInv /\ CardInv /\ ChunkInv /\ ReplyInv /\ GetInv /\ PanicInv
  BY DEF ApduInit, SendInv, CardInv, ChunkInv, ReplyInv, GetInv, PanicInv
<1>. QED
  BY <1>1, <1>2, <1>3 DEF ApduInv, FlowInv

-----------------------------------------------------------------------------
(* Types.                                                                  *)

\* What the backend says of itself has its types,
LEMMA CapsTyped ==
  ASSUME ApduTypeOK
  PROVE  /\ caps.ext \in BOOLEAN
         /\ caps.chain \in BOOLEAN
         /\ caps.cmd \in Nat /\ 5 <= caps.cmd
<1>1. caps \in Caps
  BY ApduAssumption DEF ApduAssumption, ApduTypeOK
<1>. QED
  BY <1>1 DEF Caps, Size

\* and the lengths of a command and of its parts are natural numbers.
LEMMA LengthsTyped ==
  ASSUME ApduTypeOK
  PROVE  /\ DataLen \in Nat
         /\ ChunkEnd \in Nat
         /\ \A d \in Int, e \in Expects : ApduLen(d, e) \in Int
<1>1. DataLen \in Nat
  BY DEF ApduTypeOK, DataLen, Size
<1>2. ChunkSize \in Nat
  BY CapsTyped DEF ChunkSize
<1>3. ChunkEnd \in Nat
  BY <1>1, <1>2 DEF ApduTypeOK, ChunkEnd, Least
<1>4. ASSUME NEW d \in Int, NEW e \in Expects PROVE ApduLen(d, e) \in Int
  <2>1. LcLen(d) \in Int /\ LeLen(d, e) \in Int
    BY DEF LcLen, LeLen
  <2>. QED
    BY <2>1 DEF ApduLen
<1>. QED
  BY <1>1, <1>3, <1>4

\* Every step keeps the types,
LEMMA TypeStep == ApduInv /\ [ApduNext]_vars => ApduTypeOK'
<1> SUFFICES ASSUME ApduTypeOK, GetInv, [ApduNext]_vars PROVE ApduTypeOK'
  BY DEF ApduInv, FlowInv
<1> USE DEF ApduTypeOK, hostVars, cardVars, Same, ChunkStart, ChunkIsOk, MayTryAgain,
            NextLe, Gathered
<1>1. ASSUME NEW d \in Lengths, NEW e \in {"empty", "some"}, Call(d, e)
      PROVE  ApduTypeOK'
  BY <1>1, ApduAssumption DEF ApduAssumption, Call, Expects, Byte, MaxByte
<1>2. ASSUME NEW lo \in Nat, NEW hi \in Nat, NEW last \in BOOLEAN,
             Transmit(lo, hi, last)
      PROVE  ApduTypeOK'
  <2>1. ApduLen(hi - lo, expect) \in Int
    BY LengthsTyped
  <2>. QED
    BY <1>2, <2>1 DEF Transmit
<1>3. ASSUME SendChunk \/ SendWhole PROVE ApduTypeOK'
  BY <1>2, <1>3, LengthsTyped DEF SendChunk, SendWhole
<1>4. ASSUME SendRefused PROVE ApduTypeOK'
  BY <1>4, CapsTyped DEF SendRefused, Return, cardVars
<1>5. ASSUME Panic PROVE ApduTypeOK'
  BY <1>5 DEF Panic
<1>6. ASSUME ChunkAccepted PROVE ApduTypeOK'
  BY <1>6 DEF ChunkAccepted
<1>7. ASSUME ChunkRefused PROVE ApduTypeOK'
  BY <1>7 DEF ChunkRefused, Return
<1>8. ASSUME WrongLe PROVE ApduTypeOK'
  BY <1>8 DEF WrongLe, Expects
<1>9. ASSUME TakeReply PROVE ApduTypeOK'
  BY <1>9 DEF TakeReply, Expects
<1>10. ASSUME TakeWholeReply PROVE ApduTypeOK'
  BY <1>10 DEF TakeWholeReply
<1>11. ASSUME TakeStatus PROVE ApduTypeOK'
  BY <1>11 DEF TakeStatus, Return
<1>12. ASSUME TakePart PROVE ApduTypeOK'
  BY <1>12 DEF TakePart, GetInv, Bringing
<1>13. ASSUME NEW sw \in {"ok", "lastExpected"}, CardTakesChunk(sw) PROVE ApduTypeOK'
  BY <1>13 DEF CardTakesChunk, Answer, Status, Byte, MaxByte
<1>14. ASSUME CardRefuses PROVE ApduTypeOK'
  BY <1>14 DEF CardRefuses, Answer, Status, Byte, MaxByte
<1>15. ASSUME NEW r \in Nat, NEW p \in Nat, CardRuns(r, p) PROVE ApduTypeOK'
  BY <1>15 DEF CardRuns, Gives, Answer, Left, Status, Byte, MaxByte
<1>16. ASSUME NEW r \in Nat, CardWantsLe(r) PROVE ApduTypeOK'
  BY <1>16 DEF CardWantsLe, Answer, Status, Byte, MaxByte
<1>17. ASSUME NEW p \in Nat, CardGoesOn(p) PROVE ApduTypeOK'
  BY <1>17 DEF CardGoesOn, Gives, Answer, Left, Status, Byte, MaxByte
<1>18. ASSUME CardLost PROVE ApduTypeOK'
  BY <1>18 DEF CardLost
<1>19. CASE UNCHANGED vars
  BY <1>19 DEF vars
<1>20. Replies \subseteq Nat /\ Parts \subseteq Nat
  BY ApduAssumption DEF ApduAssumption
<1>21. ASSUME Card PROVE ApduTypeOK'
  <2>1. ASSUME NEW p \in Parts \cup {reply - given}, CardGoesOn(p)
        PROVE  p \in Nat
    BY <2>1, <1>20 DEF CardGoesOn
  <2>. QED
    BY <1>21, <2>1, <1>13, <1>14, <1>15, <1>16, <1>17, <1>18, <1>20 DEF Card
<1>22. ASSUME Host PROVE ApduTypeOK'
  BY <1>22, <1>3, <1>4, <1>5, <1>6, <1>7, <1>8, <1>9, <1>10, <1>11, <1>12 DEF Host
<1>. QED
  BY <1>1, <1>19, <1>21, <1>22 DEF ApduNext

-----------------------------------------------------------------------------
(* The flow of the data.                                                   *)

\* and what is known of a command at each point of its transmission.
LEMMA FlowStep == ApduInv /\ [ApduNext]_vars => FlowInv'
<1> SUFFICES ASSUME ApduTypeOK, FlowInv, [ApduNext]_vars PROVE FlowInv'
  BY DEF ApduInv
<1> USE DEF FlowInv, IdleInv, SendInv, CardInv, ChunkInv, ReplyInv, GetInv, PanicInv,
            HasRun, NotRun, Bringing, Chained, DataLen, hostVars, cardVars, Same,
            ChunkStart, ChunkIsOk, MayTryAgain, NextLe, Gathered
<1>1. ASSUME NEW d \in Lengths, NEW e \in {"empty", "some"}, Call(d, e) PROVE FlowInv'
  BY <1>1, ApduAssumption DEF ApduAssumption, Size, Call
<1>2. ASSUME SendChunk PROVE FlowInv'
  <2>1. stage # "get" /\ 0 < n /\ n \in Nat /\ sent \in Nat /\ ~(outcome # "none")
    BY <1>2 DEF ApduTypeOK, Size, SendChunk
  <2>2. ChunkSize \in Nat /\ 0 < ChunkSize
    BY CapsTyped DEF ChunkSize
  <2>3. ChunkEnd \in Nat /\ 0 < ChunkEnd /\ ChunkEnd <= n
    BY <2>1, <2>2 DEF ChunkEnd, Least
  <2>4. /\ NotRun /\ held = sent
        /\ apdu'.lo = sent /\ apdu'.hi = ChunkEnd /\ (apdu'.last <=> ChunkEnd = n)
        /\ pc' = "card" /\ Chained'
    BY <1>2, <2>1 DEF SendChunk, Transmit
  <2>5. UNCHANGED <<n, stage, outcome, held, ran, straight>>
    BY <1>2 DEF SendChunk, Transmit
  <2>6. CardInv'
    <3>1. apdu'.lo = held' /\ apdu'.hi <= n' /\ 0 < apdu'.hi /\ NotRun'
      BY <2>3, <2>4, <2>5
    <3>2. apdu'.last => apdu'.hi = n'
      BY <2>4, <2>5
    <3>3. ~apdu'.last => apdu'.hi < n'
      BY <2>1, <2>3, <2>4, <2>5
    <3>. QED
      BY <3>1, <3>2, <3>3, <2>4
  <2>. QED
    BY <2>1, <2>4, <2>5, <2>6
<1>3. ASSUME SendWhole PROVE FlowInv'
  BY <1>3 DEF ApduTypeOK, Size, SendWhole, Transmit
<1>4. ASSUME SendRefused PROVE FlowInv'
  <2>1. stage # "get"
    BY <1>4, CapsTyped DEF ApduTypeOK, SendRefused, TooLongForLc, ApduLen, LcLen,
                           LeLen, NoSuchLe
  <2>2. sent = 0
    BY <1>4, <2>1, CapsTyped DEF ApduTypeOK, Size, SendRefused, TooLongForLc, ChunkEnd,
                                 ChunkSize, ExtLen, Least
  <2>. QED
    BY <1>4, <2>1, <2>2 DEF ApduTypeOK, SendRefused, Return
<1>5. ASSUME Panic PROVE FlowInv'
  BY <1>5 DEF ApduTypeOK, Panic
<1>6. ASSUME ChunkAccepted PROVE FlowInv'
  BY <1>6 DEF ApduTypeOK, Size, ChunkAccepted
<1>7. ASSUME ChunkRefused PROVE FlowInv'
  BY <1>7 DEF ApduTypeOK, ChunkRefused, Return
<1>8. ASSUME WrongLe PROVE FlowInv'
  BY <1>8 DEF ApduTypeOK, Size, WrongLe
<1>9. ASSUME TakeReply PROVE FlowInv'
  BY <1>9 DEF ApduTypeOK, TakeReply
<1>10. ASSUME TakeWholeReply PROVE FlowInv'
  BY <1>10 DEF ApduTypeOK, TakeWholeReply
<1>11. ASSUME TakeStatus PROVE FlowInv'
  BY <1>11 DEF ApduTypeOK, TakeStatus, Return
<1>12. ASSUME TakePart PROVE FlowInv'
  BY <1>12 DEF ApduTypeOK, TakePart
<1>13. ASSUME NEW sw \in {"ok", "lastExpected"}, CardTakesChunk(sw) PROVE FlowInv'
  BY <1>13 DEF ApduTypeOK, CardTakesChunk, Answer
<1>14. ASSUME CardRefuses PROVE FlowInv'
  BY <1>14 DEF ApduTypeOK, CardRefuses, Answer
<1>15. ASSUME NEW r \in Nat, NEW p \in Nat, CardRuns(r, p) PROVE FlowInv'
  BY <1>15 DEF ApduTypeOK, CardRuns, Gives, Answer
<1>16. ASSUME NEW r \in Nat, CardWantsLe(r) PROVE FlowInv'
  BY <1>16 DEF ApduTypeOK, CardWantsLe, Answer
<1>17. ASSUME NEW p \in Nat, CardGoesOn(p) PROVE FlowInv'
  BY <1>17 DEF ApduTypeOK, CardGoesOn, Gives, Answer
<1>18. ASSUME CardLost PROVE FlowInv'
  BY <1>18 DEF ApduTypeOK, CardLost
<1>19. CASE UNCHANGED vars
  BY <1>19 DEF vars
<1>20. Replies \subseteq Nat /\ Parts \subseteq Nat
  BY ApduAssumption DEF ApduAssumption
<1>21. ASSUME Card PROVE FlowInv'
  <2>1. ASSUME NEW p \in Parts \cup {reply - given}, CardGoesOn(p)
        PROVE  p \in Nat
    BY SMTT(60), <2>1, <1>20 DEF ApduTypeOK, CardGoesOn
  <2>. QED
    BY <1>21, <2>1, <1>13, <1>14, <1>15, <1>16, <1>17, <1>18, <1>20 DEF Card
<1>22. ASSUME Host PROVE FlowInv'
  BY <1>22, <1>2, <1>3, <1>4, <1>5, <1>6, <1>7, <1>8, <1>9, <1>10, <1>11, <1>12 DEF Host
<1>. QED
  BY <1>1, <1>19, <1>21, <1>22 DEF ApduNext

-----------------------------------------------------------------------------

\* The inductive invariant holds of every command that send_command carries.
THEOREM ApduInvariant == ApduSpec => []ApduInv
<1>1. ApduInit => ApduInv
  BY InitInv
<1>2. ApduInv /\ [ApduNext]_vars => ApduInv'
  BY TypeStep, FlowStep DEF ApduInv
<1>. QED
  BY <1>1, <1>2, PTL DEF ApduSpec

\* The model's variables keep their types: apdu.rs, for all card capabilities.
THEOREM ApduTypes == ApduSpec => []ApduTypeOK
<1>1. ApduInv => ApduTypeOK
  BY DEF ApduInv
<1>. QED
  BY <1>1, ApduInvariant, PTL

\* While a call is under way the caller has nothing, and what was sent and fetched so
\* far fits together,
Going == pc # "idle" /\ outcome = "none" /\ straight /\ ran \in {0, 1} /\ (ran = 1 => ranOn = n)

\* wherever send_command is.
LEMMA GoingOn ==
  ASSUME ApduInv, pc # "idle"
  PROVE  Going
<1> USE DEF ApduInv, FlowInv, NotRun, HasRun
<1>1. outcome = "none"
  OBVIOUS
<1>2. NotRun \/ HasRun
  <2>1. CASE pc = "send"
    BY <2>1 DEF SendInv, GetInv
  <2>2. CASE pc = "card"
    BY <2>2 DEF CardInv, GetInv
  <2>3. CASE pc = "received"
    BY <2>3 DEF ChunkInv, ReplyInv, GetInv
  <2>4. CASE pc = "panicked"
    BY <2>4 DEF PanicInv
  <2>. QED
    BY <2>1, <2>2, <2>3, <2>4 DEF ApduTypeOK
<1>. QED
  BY <1>1, <1>2 DEF Going

\* However a command is cut into chunks, sent again after 6Cxx and its reply
\* fetched, the card runs it once, on exactly its data (apdu.rs:28-231).
THEOREM CommandRunsOnce == ApduSpec => []RunsOnceOnAllData
<1>1. ApduInv => RunsOnceOnAllData
  <2> SUFFICES ASSUME ApduInv, ran > 0 PROVE HasRun
    BY DEF RunsOnceOnAllData, HasRun
  <2>1. CASE pc = "idle"
    BY <2>1 DEF ApduInv, FlowInv, IdleInv
  <2>2. CASE pc # "idle"
    BY <2>2, GoingOn DEF Going, HasRun
  <2>. QED
    BY <2>1, <2>2
<1>. QED
  BY <1>1, ApduInvariant, PTL

\* send_command gives up by itself only where the card holds no part of the
\* command (apdu.rs:171, 209).
THEOREM NothingLeftBehind == ApduSpec => []NoChainIsLeftBehind
<1>1. ApduInv => NoChainIsLeftBehind
  BY DEF ApduInv, FlowInv, IdleInv, NoChainIsLeftBehind
<1>. QED
  BY <1>1, ApduInvariant, PTL

-----------------------------------------------------------------------------
(* send_command as one command.                                            *)

\* Most steps in it cannot be seen from outside.
Hidden ==
    /\ Going /\ Going'
    /\ UNCHANGED <<n, ran, ranOn>>
    /\ ReplyIsThere' <=> ReplyIsThere
    /\ ReplyIsThere => reply' = reply

\* ... and leave the command as it is.
LEMMA HiddenStep == Hidden => UNCHANGED Command!commandVars
BY DEF Hidden, Going, Command!commandVars

\* What is known before and after a step
CommandInv ==
    /\ ApduTypeOK /\ IdleInv /\ CardInv /\ ChunkInv /\ ReplyInv /\ GetInv
    /\ outcome # "none" => pc = "idle"
    /\ pc # "idle" => Going

\* ... is part of the invariant.
LEMMA CommandInvHolds == ApduInv => CommandInv
BY GoingOn DEF ApduInv, FlowInv, CommandInv

\* A call returns the whole reply if it returns one, and it is refused only before
\* anything was run.
LEMMA ReturnStep ==
  ASSUME CommandInv, CommandInv', pc # "idle", pc' = "idle", UNCHANGED <<n, ran, ranOn>>,
         outcome' \notin {"none", "reply"} => straight' = straight,
         outcome' # "none", outcome' = "reply" => ReplyIsThere /\ reply' = reply
  PROVE  Command!CommandNext
<1>1. Going /\ straight' \in BOOLEAN
  BY DEF CommandInv, ApduTypeOK
<1>2. CASE outcome' = "reply"
  <2>1. resp' = reply' /\ straight' /\ ReplyIsThere'
    BY <1>2 DEF CommandInv, IdleInv, HasRun, ReplyIsThere
  <2>2. Command!Deliver
    BY <1>1, <1>2, <2>1 DEF Going, Command!Deliver
  <2>. QED
    BY <2>2 DEF Command!CommandNext
<1>3. CASE outcome' = "length"
  <2>1. ran = 0 /\ ~ReplyIsThere /\ ~ReplyIsThere'
    BY <1>3 DEF CommandInv, IdleInv, Going, ReplyIsThere
  <2>2. Command!Refuse
    BY <1>1, <1>3, <2>1 DEF Going, Command!Refuse
  <2>. QED
    BY <2>2 DEF Command!CommandNext
<1>4. CASE outcome' \notin {"reply", "length"}
  <2>1. ~ReplyIsThere'
    BY <1>4 DEF ReplyIsThere
  <2>2. Command!Fail
    BY <1>1, <1>4, <2>1 DEF Going, Command!Fail
  <2>. QED
    BY <2>2 DEF Command!CommandNext
<1>. QED
  BY <1>2, <1>3, <1>4

\* Each step is one of CardCommand, or cannot be seen.
LEMMA CommandStep ==
  ASSUME CommandInv, CommandInv', [ApduNext]_vars
  PROVE  [Command!CommandNext]_(Command!commandVars)
<1> USE DEF hostVars, cardVars, Same
<1>1. ASSUME NEW d \in Lengths, NEW e \in {"empty", "some"}, Call(d, e)
      PROVE  Command!CommandNext
  <2>1. ~ReplyIsThere'
    BY <1>1 DEF Call, ReplyIsThere
  <2>2. Command!Call(d)
    BY <1>1, <2>1 DEF Call, Command!Call
  <2>. QED
    BY <2>2 DEF Command!CommandNext
<1>2. ASSUME SendChunk \/ SendWhole \/ Panic \/ ChunkAccepted \/ WrongLe \/ TakeReply
      PROVE  Hidden
  <2>1. pc # "idle" /\ pc' # "idle" /\ UNCHANGED <<n, ran, ranOn, reply>>
    BY <1>2 DEF SendChunk, SendWhole, Transmit, Panic, ChunkAccepted, WrongLe, TakeReply
  <2>2. CASE SendChunk \/ SendWhole \/ Panic
    <3>1. pc = "send" /\ pc' \in {"card", "panicked"}
      BY <2>2 DEF SendChunk, SendWhole, Transmit, Panic
    <3>2. ReplyIsThere' <=> ReplyIsThere
      BY <2>1, <3>1 DEF ReplyIsThere
    <3>. QED
      BY <2>1, <3>2 DEF Hidden, CommandInv
  <2>3. CASE ChunkAccepted \/ WrongLe
    <3>1. ran = 0
      BY <2>3 DEF ChunkAccepted, WrongLe, MayTryAgain, CommandInv, ChunkInv, ReplyInv, Bringing, NotRun
    <3>2. ~ReplyIsThere /\ ~ReplyIsThere'
      BY <2>1, <3>1 DEF ReplyIsThere
    <3>. QED
      BY <2>1, <3>2 DEF Hidden, CommandInv
  <2>4. CASE TakeReply
    <3>1. pc = "received" /\ pc' = "send" /\ rsp.sw = "more" /\ ran = 1
      BY <2>4 DEF TakeReply, CommandInv, ReplyInv, Bringing, HasRun
    <3>2. ReplyIsThere /\ ReplyIsThere'
      BY <2>1, <3>1 DEF ReplyIsThere
    <3>. QED
      BY <2>1, <3>2 DEF Hidden, CommandInv
  <2>. QED
    BY <1>2, <2>2, <2>3, <2>4
<1>3. ASSUME SendRefused \/ ChunkRefused \/ TakeWholeReply \/ TakeStatus
      PROVE  Command!CommandNext
  <2>1. /\ pc # "idle" /\ pc' = "idle" /\ UNCHANGED <<n, ran, ranOn, straight>>
        /\ outcome' # "none"
    BY <1>3 DEF SendRefused, ChunkRefused, TakeWholeReply, TakeStatus, Return
  <2>2. outcome' = "reply" => ReplyIsThere /\ reply' = reply
    BY <1>3 DEF SendRefused, ChunkRefused, TakeWholeReply, TakeStatus, Return,
                ReplyIsThere, CommandInv, ReplyInv, Bringing, HasRun
  <2>. QED
    BY <2>1, <2>2, ReturnStep
<1>4. ASSUME TakePart
      PROVE  Hidden \/ Command!CommandNext
  <2>1. /\ pc = "received" /\ stage = "get" /\ rsp.sw \in {"ok", "more"} /\ UNCHANGED <<n, rsp, ran, ranOn, reply>>
        /\ \/ pc' = "idle" /\ outcome' = "reply"
           \/ pc' = "send"
    BY <1>4 DEF TakePart
  <2>2. ReplyIsThere
    BY <2>1 DEF ReplyIsThere, CommandInv, GetInv, HasRun
  <2>3. CASE pc' = "idle" /\ outcome' = "reply"
    BY <2>1, <2>2, <2>3, ReturnStep
  <2>4. CASE pc' = "send"
    <3>1. ReplyIsThere'
      BY <2>1, <2>2, <2>4 DEF ReplyIsThere
    <3>. QED
      BY <2>1, <2>2, <2>4, <3>1 DEF Hidden, CommandInv
  <2>. QED
    BY <2>1, <2>3, <2>4
<1>5. ASSUME NEW sw \in {"ok", "lastExpected"}, CardTakesChunk(sw)
      PROVE  Hidden
  <2>1. pc = "card" /\ pc' = "received" /\ UNCHANGED <<n, ran, ranOn, reply>>
    BY <1>5 DEF CardTakesChunk, Answer
  <2>2. ran = 0
    BY <1>5 DEF CardTakesChunk, CommandInv, CardInv, GetInv, NotRun
  <2>. QED
    BY <2>1, <2>2 DEF Hidden, ReplyIsThere, CommandInv
<1>6. ASSUME CardRefuses \/ \E r \in Nat : CardWantsLe(r)
      PROVE  Hidden \/ Command!CommandNext
  <2>1. /\ pc = "card" /\ pc' = "received" /\ UNCHANGED <<n, ran, ranOn, straight, outcome>>
        /\ rsp'.sw \in {"error", "wrongLe"}
    BY <1>6 DEF CardRefuses, CardWantsLe, Answer
  <2>2. ~ReplyIsThere'
    BY <2>1 DEF ReplyIsThere
  <2>3. CASE ReplyIsThere
    <3>1. Command!Forget
      BY <2>1, <2>2, <2>3 DEF Command!Forget, CommandInv, Going
    <3>. QED
      BY <3>1 DEF Command!CommandNext
  <2>4. CASE ~ReplyIsThere
    BY <2>1, <2>2, <2>4 DEF Hidden, CommandInv
  <2>. QED
    BY <2>3, <2>4
<1>7. ASSUME NEW r \in Replies \cup {0}, NEW p, CardRuns(r, p)
      PROVE  Command!CommandNext
  <2>1. /\ pc = "card" /\ pc' = "received" /\ UNCHANGED <<n, outcome>>
        /\ ran' = ran + 1 /\ reply' = r /\ rsp'.sw \in {"ok", "more"}
    BY <1>7 DEF CardRuns, Gives, Answer
  <2>2. ran = 0 /\ ranOn' = n /\ straight'
    BY <1>7 DEF CardRuns, Gives, Answer, CommandInv, CardInv, NotRun, ApduTypeOK
  <2>3. ReplyIsThere' /\ ~ReplyIsThere
    BY <2>1, <2>2 DEF ReplyIsThere
  <2>4. Command!Run(r)
    BY <2>1, <2>2, <2>3 DEF Command!Run, CommandInv, Going
  <2>. QED
    BY <2>4 DEF Command!CommandNext
<1>8. ASSUME NEW p, CardGoesOn(p)
      PROVE  Hidden
  <2>1. /\ pc = "card" /\ pc' = "received" /\ UNCHANGED <<n, ran, ranOn, reply>>
        /\ rsp'.sw \in {"ok", "more"}
    BY <1>8 DEF CardGoesOn, Gives, Answer
  <2>2. ReplyIsThere' <=> ReplyIsThere
    BY <2>1 DEF ReplyIsThere
  <2>. QED
    BY <2>1, <2>2 DEF Hidden, CommandInv
<1>9. ASSUME CardLost
      PROVE  Command!CommandNext
  <2>1. /\ pc # "idle" /\ pc' = "idle" /\ UNCHANGED <<n, ran, ranOn, straight>>
        /\ outcome' = "lost"
    BY <1>9 DEF CardLost
  <2>. QED
    BY <2>1, ReturnStep
<1>10. CASE UNCHANGED vars
  BY <1>10 DEF vars, Command!commandVars, ReplyIsThere
<1>11. Replies \subseteq Nat
  BY ApduAssumption
<1>12. Host => Hidden \/ Command!CommandNext
  BY <1>2, <1>3, <1>4 DEF Host
<1>13. Card => Hidden \/ Command!CommandNext
  BY <1>5, <1>6, <1>7, <1>8, <1>9, <1>11 DEF Card
<1>14. Hidden => UNCHANGED Command!commandVars
  BY HiddenStep
<1>. QED
  BY <1>1, <1>10, <1>12, <1>13, <1>14 DEF ApduNext

\* However it cuts a command up, sends it again and fetches the reply in parts, to its
\* callers send_command is a command that the card runs once, on what it was called
\* with, and whose whole reply they get (apdu.rs:28-231).
THEOREM ApduIsACommand == ApduSpec => ImplementsCommand
<1>1. ApduInit => Command!CommandInit
  BY DEF ApduInit, Command!CommandInit, ReplyIsThere
<1>2. CommandInv /\ CommandInv' /\ [ApduNext]_vars
        => [Command!CommandNext]_(Command!commandVars)
  BY CommandStep
<1>. QED
  BY <1>1, <1>2, CommandInvHolds, ApduInvariant, PTL
     DEF ApduSpec, ImplementsCommand, Command!CommandSpec

-----------------------------------------------------------------------------
(* scdaemon's line.  This needs the size of what is sent, nothing else.    *)

Limited == \A c \in AllCaps : c.cmd <= 482

\* The limit that the scdaemon backend sets is its line's, whatever the card
\* says;
LEMMA LimitedIfScd ==
  ASSUME NEW S \in SUBSET Caps
  PROVE  \A c \in {ScdLimit(c) : c \in S} : c.cmd <= 482
<1> SUFFICES ASSUME NEW c \in S PROVE ScdLimit(c).cmd <= 482
  OBVIOUS
<1>1. c \in Caps
  OBVIOUS
<1>2. c.cmd \in Int
  BY <1>1 DEF Caps
<1>3. ScdLimit(c).cmd = Least(482, c.cmd)
  BY <1>1 DEF ScdLimit, Caps
<1>. QED
  BY <1>2, <1>3 DEF Least

LineInv == apdu.len <= 491

\* so no step makes a command too long for that line.
LEMMA LineStep == Limited /\ ApduTypeOK /\ LineInv /\ [ApduNext]_vars => LineInv'
<1> SUFFICES ASSUME Limited, ApduTypeOK, LineInv, [ApduNext]_vars PROVE LineInv'
  OBVIOUS
<1>0. caps.cmd <= 482
  BY DEF Limited, ApduTypeOK
<1>1. CASE SendChunk
  <2> DEFINE d == ChunkEnd - sent
  <2>1. d \in Int /\ d <= ChunkSize
    BY CapsTyped, LengthsTyped DEF ApduTypeOK, ChunkEnd, ChunkSize, Least
  <2>2. LcLen(d) \in 0..(IF ExtLen THEN 3 ELSE 1)
    BY DEF LcLen
  <2>3. LeLen(d, expect) \in 0..3 /\ (d # 0 => LeLen(d, expect) \in 0..2)
    BY DEF LeLen
  <2>4. ApduLen(d, expect) <= 491
    BY <1>0, <2>1, <2>2, <2>3, CapsTyped DEF ApduLen, ChunkSize
  <2>. QED
    BY <1>1, <2>4 DEF SendChunk, ChunkStart, Transmit, LineInv
<1>2. CASE SendWhole
  BY <1>0, <1>2, CapsTyped, LengthsTyped DEF SendWhole, Transmit, LineInv, ApduTypeOK
<1>3. ASSUME ~SendChunk, ~SendWhole PROVE apdu' = apdu
  <2>1. CASE Host
    BY <2>1, <1>3 DEF Host, SendRefused, Panic, ChunkAccepted, ChunkRefused, WrongLe,
       TakeReply, TakeWholeReply, TakeStatus, TakePart, Return, Same
  <2>2. CASE Card
    BY <2>2 DEF Card, CardTakesChunk, CardRefuses, CardRuns, CardWantsLe, CardGoesOn,
       CardLost, Gives, Answer
  <2>3. ASSUME NEW d \in Lengths, NEW e \in {"empty", "some"}, Call(d, e)
        PROVE  apdu' = apdu
    BY <2>3 DEF Call
  <2>4. CASE UNCHANGED vars
    BY <2>4 DEF vars, hostVars
  <2>. QED
    BY <2>1, <2>2, <2>3, <2>4 DEF ApduNext
<1>. QED
  BY <1>1, <1>2, <1>3 DEF LineInv

\* With the capabilities ScdBackend::limit_card_caps leaves, no command is too
\* long for a line to scdaemon (scdc/src/lib.rs:215-226, 258).
THEOREM LineIsNeverTooLong ==
  ASSUME NEW S \in SUBSET Caps, AllCaps = {ScdLimit(c) : c \in S}
  PROVE  ApduSpec => []LineFits
<1>1. Limited
  BY LimitedIfScd DEF Limited
<1>2. ApduInit => LineInv
  BY DEF ApduInit, NoApdu, LineInv
<1>3. ApduTypeOK /\ LineInv /\ [ApduNext]_vars => LineInv'
  BY <1>1, LineStep
<1>4. ApduTypeOK /\ LineInv => LineFits
  BY DEF ApduTypeOK, LineInv, LineFits
<1>. QED
  BY <1>2, <1>3, <1>4, ApduTypes, PTL DEF ApduSpec
=============================================================================
