-------------------------------- MODULE Apdu --------------------------------
(***************************************************************************)
(* openpgp-card's transport (openpgp-card/src/ocard/apdu.rs, apdu/): one   *)
(* call of send_command takes a command to the card, in one piece or       *)
(* chained, and brings the whole reply back, by GET RESPONSE if the card   *)
(* has more of it than it gave.                                            *)
(*                                                                         *)
(* Data is counted, not represented: a piece of data is the bytes from     *)
(* `lo` (excluded) to `hi` of the command or of the reply.  The numbers    *)
(* are the real ones, bytes of short and of extended APDUs.                *)
(***************************************************************************)
EXTENDS Integers

CONSTANTS
    AllCaps,    \* the CardCaps that may be in force
    Lengths,    \* lengths of the data of a command
    Replies,    \* lengths of the reply to one
    Parts       \* how many bytes of it a card may give at a time

\* u8::MAX and u16::MAX
MaxByte == 255
MaxSize == 65535
Byte == 0..MaxByte
Size == 0..MaxSize

\* CardCaps; a command as short as GET RESPONSE is taken by every card.
Caps == [ext : BOOLEAN, chain : BOOLEAN, cmd : 5..MaxSize, rsp : Size]

ASSUME ApduAssumption ==
    /\ AllCaps \subseteq Caps
    /\ Lengths \subseteq Size
    /\ Replies \subseteq Nat
    /\ Parts \subseteq Nat

VARIABLES
    caps,      \* the card's capabilities, as limited by the backend
    pc,        \* where send_command is
    n,         \* length of the command's data
    expect,    \* Le asked for: "empty", "some" or "short"
    le,        \* the number in Expect::Short
    stage,     \* "first", "again" (after 6Cxx) or "get" (GET RESPONSE)
    sent,      \* bytes of data sent in this chain
    apdu,      \* what is being transmitted
    rsp,       \* what the card answered
    resp,      \* bytes of the reply gathered so far
    outcome,   \* how the call ended
    held,      \* card: bytes of the chain it has got so far
    reply,     \* card: length of the reply to the command
    given,     \* card: bytes of the reply it has given
    ran,       \* history: how often the card ran the command of this call
    ranOn,     \* history: on how many bytes
    straight   \* history: every piece began where the one before it ended

hostVars == <<pc, n, expect, le, stage, sent, apdu, resp, outcome>>
cardVars == <<held, reply, given, ran, ranOn>>
vars == <<caps, hostVars, rsp, cardVars, straight>>

Expects == {"empty", "some", "short"}
Status == {"ok", "more", "wrongLe", "lastExpected", "error"}
NoApdu == [lo |-> 0, hi |-> 0, last |-> TRUE, len |-> 0]

ApduTypeOK ==
    /\ caps \in AllCaps
    /\ pc \in {"idle", "send", "card", "received", "panicked"}
    /\ n \in Size
    /\ expect \in Expects
    /\ le \in Byte
    /\ stage \in {"first", "again", "get"}
    /\ sent \in Nat
    /\ apdu \in [lo : Nat, hi : Nat, last : BOOLEAN, len : Int]
    /\ rsp \in [sw : Status, x : Byte, lo : Nat, hi : Nat]
    /\ resp \in Nat
    /\ outcome \in {"none", "reply", "status", "length", "chain", "lost"}
    /\ held \in Nat /\ reply \in Nat /\ given \in Nat
    /\ ran \in Nat /\ ranOn \in Nat
    /\ straight \in BOOLEAN

ApduInit ==
    /\ caps \in AllCaps
    /\ pc = "idle"
    /\ n = 0 /\ expect = "empty" /\ le = 0 /\ stage = "first" /\ sent = 0
    /\ apdu = NoApdu
    /\ rsp = [sw |-> "ok", x |-> 0, lo |-> 0, hi |-> 0]
    /\ resp = 0 /\ outcome = "none"
    /\ held = 0 /\ reply = 0 /\ given = 0
    /\ ran = 0 /\ ranOn = 0 /\ straight = TRUE

-----------------------------------------------------------------------------
(* Lengths.                                                                *)

Least(a, b) == IF a < b THEN a ELSE b

\* Extended length fields are used if the card has them and room for them.
ExtLen == caps.ext /\ caps.cmd > 255
BufSize == IF ExtLen THEN caps.rsp ELSE 264
ChunkSize == IF caps.ext THEN caps.cmd ELSE 255

\* ScdBackend::limit_card_caps
ScdLimit(c) == [c EXCEPT !.cmd = Least(482, c.cmd)]

LcLen(d) == IF d = 0 THEN 0 ELSE IF ExtLen THEN 3 ELSE 1

\* Mutated form: an extended Le of three bytes, also after an extended Lc.
LongLe(d, e) == IF e = "empty" THEN 0 ELSE IF ~ExtLen THEN 1 ELSE 3

LeLen(d, e) == IF e = "empty" THEN 0
               ELSE IF ~ExtLen THEN 1
               ELSE IF d = 0 THEN 3 ELSE 2

\* Command::serialize: CLA, INS, P1, P2, Lc, data, Le
ApduLen(d, e) == 4 + LcLen(d) + d + LeLen(d, e)

\* make_lc refuses data that a short Lc cannot count.
TooLongForLc(d) == ~ExtLen /\ d > 255

\* make_le has no form for a short Le in an extended APDU: unreachable!()
NoSuchLe == ExtLen /\ expect = "short"

\* GET RESPONSE has no data, so it is never chained.
DataLen == IF stage = "get" THEN 0 ELSE n
Chained == caps.chain /\ DataLen > 0

-----------------------------------------------------------------------------
(* The host.                                                               *)

\* send_command is called.
Call(d, e) ==
    /\ pc = "idle"
    /\ pc' = "send" /\ n' = d /\ expect' = e /\ le' = 0 /\ stage' = "first"
    /\ sent' = 0 /\ resp' = 0 /\ outcome' = "none"
    /\ ran' = 0 /\ ranOn' = 0 /\ straight' = TRUE
    /\ UNCHANGED <<caps, apdu, rsp, held, reply, given>>

\* What a step of the host between two calls leaves alone
Same == UNCHANGED <<caps, n, rsp, cardVars>>

\* The call returns.  Only "reply" is a success for the caller.
Return(o) ==
    /\ pc' = "idle"
    /\ outcome' = o
    /\ Same /\ UNCHANGED <<expect, le, stage, sent, apdu, resp, straight>>

Transmit(lo, hi, last) ==
    /\ apdu' = [lo |-> lo, hi |-> hi, last |-> last,
                len |-> ApduLen(hi - lo, expect)]
    /\ pc' = "card"
    /\ Same /\ UNCHANGED <<expect, le, stage, sent, resp, outcome, straight>>

\* The chunks of a chained command.
\* Mutated form: they overlap in a byte.
ChunkStartOneBack == IF sent = 0 THEN 0 ELSE sent - 1
ChunkStart == sent
ChunkEnd == Least(sent + ChunkSize, DataLen)

SendChunk ==
    /\ pc = "send"
    /\ Chained /\ ~NoSuchLe
    /\ ~TooLongForLc(ChunkEnd - ChunkStart)
    /\ Transmit(ChunkStart, ChunkEnd, ChunkEnd = DataLen)

\* The command in one piece.
SendWhole ==
    /\ pc = "send"
    /\ ~Chained /\ ~NoSuchLe
    /\ ~TooLongForLc(DataLen)
    /\ ApduLen(DataLen, expect) <= caps.cmd
    /\ Transmit(0, DataLen, TRUE)

\* Error::InternalError from make_lc, or Error::CommandTooLong
SendRefused ==
    /\ pc = "send"
    /\ \/ TooLongForLc(IF Chained THEN ChunkEnd - ChunkStart ELSE DataLen)
       \/ ~Chained /\ ~NoSuchLe /\ ApduLen(DataLen, expect) > caps.cmd
    /\ Return("length")

\* The unreachable!() of make_le
Panic ==
    /\ pc = "send"
    /\ NoSuchLe
    /\ pc' = "panicked"
    /\ Same /\ UNCHANGED <<expect, le, stage, sent, apdu, resp, outcome, straight>>

\* The answer to a chunk that is not the last one.
\* Mutated form: 6883, "last command of the chain expected", is an error.
ChunkIsOkOnly == rsp.sw = "ok"
ChunkIsOk == rsp.sw \in {"ok", "lastExpected"}

ChunkAccepted ==
    /\ pc = "received" /\ ~apdu.last
    /\ ChunkIsOk
    /\ pc' = "send" /\ sent' = apdu.hi
    /\ Same /\ UNCHANGED <<expect, le, stage, apdu, resp, outcome, straight>>

ChunkRefused ==
    /\ pc = "received" /\ ~apdu.last
    /\ ~ChunkIsOk
    /\ Return("chain")

\* 6Cxx to the first attempt: the whole command once more, with Le = xx.
\* Mutated form: as often as the card answers so.
MayTryAgainAlways == stage # "get"
MayTryAgain == stage = "first"

\* Mutated form: SW2 = 00, "256 or more", is taken for 256.
NextLeDecoded == IF rsp.x = 0 THEN 256 ELSE rsp.x
NextLe == rsp.x

WrongLe ==
    /\ pc = "received" /\ apdu.last
    /\ MayTryAgain /\ rsp.sw = "wrongLe"
    /\ pc' = "send" /\ stage' = "again" /\ sent' = 0
    /\ expect' = "short" /\ le' = NextLe
    /\ Same /\ UNCHANGED <<apdu, resp, outcome, straight>>

\* The answer to the command: complete, or the first part (61xx), or an error,
\* which the caller finds in the status.
TakeReply ==
    /\ pc = "received" /\ stage # "get" /\ apdu.last
    /\ rsp.sw = "more"
    /\ pc' = "send" /\ stage' = "get"
    /\ expect' = "short" /\ le' = NextLe
    /\ resp' = rsp.hi
    /\ Same /\ UNCHANGED <<sent, apdu, outcome, straight>>

TakeWholeReply ==
    /\ pc = "received" /\ stage # "get" /\ apdu.last
    /\ rsp.sw = "ok"
    /\ pc' = "idle" /\ outcome' = "reply"
    /\ resp' = rsp.hi
    /\ Same /\ UNCHANGED <<expect, le, stage, sent, apdu, straight>>

TakeStatus ==
    /\ pc = "received" /\ apdu.last
    /\ rsp.sw \notin {"ok", "more"}
    /\ ~(MayTryAgain /\ rsp.sw = "wrongLe")
    /\ Return("status")

\* The answer to GET RESPONSE is appended, its status replaces the first one's.
\* Mutated form: the parts replace each other.
GatheredAnew == rsp.hi - rsp.lo
Gathered == resp + (rsp.hi - rsp.lo)

TakePart ==
    /\ pc = "received" /\ stage = "get"
    /\ rsp.sw \in {"ok", "more"}
    /\ resp' = Gathered
    /\ straight' = (straight /\ rsp.lo = resp)
    /\ \/ rsp.sw = "ok" /\ pc' = "idle" /\ outcome' = "reply" /\ UNCHANGED le
       \/ rsp.sw = "more" /\ pc' = "send" /\ le' = NextLe /\ UNCHANGED outcome
    /\ Same /\ UNCHANGED <<expect, stage, sent, apdu>>

Host ==
    \/ SendChunk \/ SendWhole \/ SendRefused \/ Panic
    \/ ChunkAccepted \/ ChunkRefused \/ WrongLe
    \/ TakeReply \/ TakeWholeReply \/ TakeStatus \/ TakePart

-----------------------------------------------------------------------------
(* The card and the way to it.                                             *)

Answer(sw, x, lo, hi) ==
    /\ rsp' = [sw |-> sw, x |-> x, lo |-> lo, hi |-> hi]
    /\ pc' = "received"
    /\ UNCHANGED <<caps, n, expect, le, stage, sent, apdu, resp, outcome>>

CardTakesChunk(sw) ==
    /\ pc = "card" /\ ~apdu.last
    /\ held' = apdu.hi
    /\ straight' = (straight /\ apdu.lo = held)
    /\ Answer(sw, 0, 0, 0)
    /\ UNCHANGED <<reply, given, ran, ranOn>>

\* Any error; a chain or a reply in progress is dropped.
CardRefuses ==
    /\ pc = "card"
    /\ held' = 0 /\ reply' = 0 /\ given' = 0
    /\ Answer("error", 0, 0, 0)
    /\ UNCHANGED <<ran, ranOn, straight>>

\* How much of a reply fits the Le the host sent.
Room == IF expect = "empty" THEN 0
        ELSE IF expect = "short" THEN (IF le = 0 THEN 256 ELSE le)
        ELSE IF ExtLen THEN BufSize - 2 ELSE 256

\* SW2 of 61xx: how many bytes are left, 00 for 256 or more
Left(k) == IF k > 255 THEN 0 ELSE k

\* The card gives p bytes of a reply of r bytes, from byte `from` on.
Gives(r, from, p) ==
    /\ p <= Room
    /\ from + p <= r
    /\ given' = from + p
    /\ IF from + p = r THEN Answer("ok", 0, from, from + p)
       ELSE Answer("more", Left(r - (from + p)), from, from + p)

\* The command, complete now, is run.
CardRuns(r, p) ==
    /\ pc = "card" /\ apdu.last /\ stage # "get"
    /\ expect = "empty" => r = 0
    /\ held' = 0
    /\ reply' = r
    /\ ran' = ran + 1
    /\ ranOn' = apdu.hi
    /\ straight' = (straight /\ apdu.lo = held)
    /\ Gives(r, 0, p)

\* 6Cxx instead: nothing is run, Le should be xx.
CardWantsLe(r) ==
    /\ pc = "card" /\ apdu.last /\ stage # "get"
    /\ expect # "empty"
    /\ r \in 1..255
    /\ held' = 0 /\ reply' = 0 /\ given' = 0
    /\ Answer("wrongLe", r, 0, 0)
    /\ UNCHANGED <<ran, ranOn, straight>>

CardGoesOn(p) ==
    /\ pc = "card" /\ stage = "get"
    /\ p > 0
    /\ Gives(reply, given, p)
    /\ UNCHANGED <<held, reply, ran, ranOn, straight>>

\* transmit fails: the card has gone, or was reset, before it got the command or
\* before its answer was read.
CardLost ==
    /\ pc \in {"card", "received"}
    /\ held' = 0 /\ reply' = 0 /\ given' = 0
    /\ pc' = "idle" /\ outcome' = "lost"
    /\ UNCHANGED <<caps, n, expect, le, stage, sent, apdu, rsp, resp, ran,
                   ranOn, straight>>

Card ==
    \/ \E sw \in {"ok", "lastExpected"} : CardTakesChunk(sw)
    \/ CardRefuses
    \/ \E r \in Replies \cup {0}, p \in Parts \cup Replies \cup {0} :
          CardRuns(r, p)
    \/ \E r \in Replies : CardWantsLe(r)
    \/ \E p \in Parts \cup {reply - given} : CardGoesOn(p)
    \/ CardLost

ApduNext ==
    \/ \E d \in Lengths, e \in {"empty", "some"} : Call(d, e)
    \/ Host \/ Card

ApduSpec == ApduInit /\ [][ApduNext]_vars

\* The host runs on; the card answers.
ApduFairSpec == ApduSpec /\ WF_vars(Host) /\ WF_vars(Card)
=============================================================================
