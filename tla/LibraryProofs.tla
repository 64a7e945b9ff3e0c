---------------------------- MODULE LibraryProofs ----------------------------
(***************************************************************************)
(* What the two backends promise: a program that shares a card through     *)
(* PC/SC, with any number of programs, however often each of them resets   *)
(* the card, finds its application selected and learns of resets; and what *)
(* transmit of the scdaemon backend returns belongs to its own command,    *)
(* however many commands are sent.                                         *)
(*                                                                         *)
(* And that the instance of the whole library runs its parts as they are:  *)
(* each of them behaves as its own specification says, so that whatever is *)
(* proved of a part alone holds of it there; and that its samples of codes *)
(* are among those that the theorems on the codecs are about.              *)
(***************************************************************************)
EXTENDS MCLibrary, KeysProofs, CardProofs

-----------------------------------------------------------------------------
(* Programs at one card (PcscSessions).                                    *)

\* Where a program has a connection, and the application has been selected.
Places ==
    \A p \in Program :
        /\ p \in opened => at[p] # "away" /\ purpose[p] # "init"
        /\ p \in opened /\ at[p] \in {"begin", "reconnect", "reselect"} => purpose[p] = "use"
        /\ at[p] = "reselect" => p \in wasReset
        /\ at[p] \in {"reselect", "in"} => p \notin told

\* p finds the application selected, as far as it can know.
Selected(p) ==
    \/ applet = "openpgp" \/ left \/ p \in failed
    \/ holder = "foreign" /\ applet = "other"

\* Between its transactions, p will be told of a reset, knows of it or has failed.
Unnoticed(p) ==
    /\ at[p] \in {"idle", "begin", "in"} /\ p \notin told
    /\ at[p] = "begin" => p \notin wasReset

SelectedInv == \A p \in opened : Unnoticed(p) => Selected(p)

ReportedInv ==
    \A p \in lost :
        /\ at[p] = "idle" => p \in told \cup failed
        /\ at[p] = "begin" => p \in told \cup wasReset \cup failed
        /\ at[p] = "in" => p \in wasReset \cup failed

SessionsInv == SessionsTypeOK /\ Places /\ SelectedInv /\ ReportedInv

\* Connecting and beginning a transaction
LEMMA ConnectStep ==
  ASSUME SessionsInv, NEW p \in Program, Connect(p) \/ Transaction(p)
  PROVE  SessionsInv'
<1>1. CASE Connect(p)
  <2>1. SessionsTypeOK'
    BY <1>1 DEF SessionsInv, SessionsTypeOK, Connect, StartTransaction
  <2>2. Places' /\ SelectedInv' /\ ReportedInv'
    BY <1>1 DEF SessionsInv, SessionsTypeOK, Connect, StartTransaction, Places, SelectedInv,
       ReportedInv, Unnoticed, Selected
  <2>. QED
    BY <2>1, <2>2 DEF SessionsInv
<1>2. CASE Transaction(p)
  <2>1. SessionsTypeOK'
    BY <1>2 DEF SessionsInv, SessionsTypeOK, Transaction, StartTransaction
  <2>2. Places' /\ SelectedInv' /\ ReportedInv'
    BY <1>2 DEF SessionsInv, SessionsTypeOK, Transaction, StartTransaction, Places,
       SelectedInv, ReportedInv, Unnoticed, Selected
  <2>. QED
    BY <2>1, <2>2 DEF SessionsInv
<1>. QED
  BY <1>1, <1>2

\* The transaction is there, or the card was reset.
LEMMA BeginStep ==
  ASSUME SessionsInv, SessionsAssumption, NEW p \in Program, TransactionStarted(p) \/ CardWasReset(p)
  PROVE  SessionsInv'
<1>1. CASE TransactionStarted(p)
  <2>1. SessionsTypeOK'
    BY <1>1, SessionsAssumption DEF SessionsInv, SessionsTypeOK, TransactionStarted
  <2>2. Places' /\ SelectedInv' /\ ReportedInv'
    BY <1>1, SessionsAssumption DEF SessionsInv, SessionsTypeOK, TransactionStarted, Places,
       SelectedInv, ReportedInv, Unnoticed, Selected
  <2>. QED
    BY <2>1, <2>2 DEF SessionsInv
<1>2. CASE CardWasReset(p)
  <2>1. SessionsTypeOK'
    BY <1>2 DEF SessionsInv, SessionsTypeOK, CardWasReset
  <2>2. Places' /\ SelectedInv' /\ ReportedInv'
    BY <1>2 DEF SessionsInv, SessionsTypeOK, CardWasReset, Places,
       SelectedInv, ReportedInv, Unnoticed, Selected
  <2>. QED
    BY <2>1, <2>2 DEF SessionsInv
<1>. QED
  BY <1>1, <1>2

\* Every step keeps the invariant.
LEMMA SessionsStep == SessionsInv /\ [SessionsNext]_sessionVars => SessionsInv'
<1> SUFFICES ASSUME SessionsInv, [SessionsNext]_sessionVars
             PROVE  SessionsInv'
  OBVIOUS
<1> USE SessionsAssumption DEF SessionsInv
<1>1. ASSUME NEW p \in Program, Reconnect(p) PROVE SessionsInv'
  <2>1. SessionsTypeOK'
    BY ZenonT(60), <1>1 DEF SessionsTypeOK, Reconnect, ResetCard, Connected
  <2>2. Places' /\ SelectedInv' /\ ReportedInv'
    BY <1>1 DEF SessionsTypeOK, Reconnect, ResetCard, Connected, Places,
       SelectedInv, ReportedInv, Unnoticed, Selected
  <2>. QED
    BY <2>1, <2>2
<1>2. ASSUME NEW p \in Program, NoTransaction(p) PROVE SessionsInv'
  <2>1. SessionsTypeOK'
    <3>1. CASE purpose[p] = "use"
      BY <1>2, <3>1 DEF SessionsTypeOK, NoTransaction
    <3>2. CASE purpose[p] # "use"
      <4>1. at' = [at EXCEPT ![p] = "away"] /\ holder' = "free" /\ left' = FALSE
        BY <1>2, <3>2 DEF SessionsTypeOK, NoTransaction, ResetCard
      <4>2. /\ told' \subseteq Program /\ lost' \subseteq Program
            /\ \A q \in told' : at'[q] # "away"
        BY ZenonT(60), <1>2, <3>2, <4>1 DEF SessionsTypeOK, NoTransaction, ResetCard, Connected
      <4>3. \A q \in Program : holder' = q <=> at'[q] \in {"reselect", "in"}
        BY <1>2, <3>2, <4>1 DEF SessionsTypeOK, NoTransaction
      <4>. QED
        BY <1>2, <3>2, <4>1, <4>2, <4>3 DEF SessionsTypeOK, NoTransaction, ResetCard
    <3>. QED
      BY <3>1, <3>2
  <2>2. Places' /\ SelectedInv' /\ ReportedInv'
    BY <1>2 DEF SessionsTypeOK, NoTransaction, ResetCard, Connected, Places,
       SelectedInv, ReportedInv, Unnoticed, Selected
  <2>. QED
    BY <2>1, <2>2
<1>3. ASSUME NEW p \in Program, Reselect(p) PROVE SessionsInv'
  <2>1. SessionsTypeOK'
    BY <1>3 DEF SessionsTypeOK, Reselect
  <2>2. Places' /\ SelectedInv' /\ ReportedInv'
    BY <1>3 DEF SessionsTypeOK, Reselect, Places, SelectedInv, ReportedInv, Unnoticed, Selected
  <2>. QED
    BY <2>1, <2>2
<1>4. ASSUME NEW p \in Program, ReselectFails(p) PROVE SessionsInv'
  <2>1. SessionsTypeOK'
    <3>1. CASE purpose[p] = "use"
      BY <1>4, <3>1 DEF SessionsTypeOK, ReselectFails
    <3>2. CASE purpose[p] # "use"
      <4>1. at' = [at EXCEPT ![p] = "away"] /\ holder' = "free" /\ left' = FALSE
        BY <1>4, <3>2 DEF SessionsTypeOK, ReselectFails, ResetCard
      <4>2. /\ told' \subseteq Program /\ lost' \subseteq Program
            /\ \A q \in told' : at'[q] # "away"
        BY <1>4, <3>2, <4>1 DEF SessionsTypeOK, ReselectFails, ResetCard, Connected
      <4>3. \A q \in Program : holder' = q <=> at'[q] \in {"reselect", "in"}
        BY <1>4, <3>2, <4>1 DEF SessionsTypeOK, ReselectFails
      <4>. QED
        BY <1>4, <3>2, <4>1, <4>2, <4>3 DEF SessionsTypeOK, ReselectFails, ResetCard
    <3>. QED
      BY <3>1, <3>2
  <2>2. Places' /\ SelectedInv' /\ ReportedInv'
    BY <1>4 DEF SessionsTypeOK, ReselectFails, ResetCard, Connected, Places,
       SelectedInv, ReportedInv, Unnoticed, Selected
  <2>. QED
    BY <2>1, <2>2
<1>5. ASSUME NEW p \in Program, Select(p) PROVE SessionsInv'
  <2>1. SessionsTypeOK'
    BY <1>5 DEF SessionsTypeOK, Select
  <2>2. Places' /\ SelectedInv' /\ ReportedInv'
    BY <1>5 DEF SessionsTypeOK, Select, Places, SelectedInv, ReportedInv, Unnoticed, Selected
  <2>. QED
    BY <2>1, <2>2
<1>6. ASSUME NEW p \in Program, EndTransaction(p) PROVE SessionsInv'
  <2>1. SessionsTypeOK'
    BY <1>6 DEF SessionsTypeOK, EndTransaction
  <2>2. Places' /\ SelectedInv' /\ ReportedInv'
    BY <1>6 DEF SessionsTypeOK, EndTransaction, Places, SelectedInv, ReportedInv, Unnoticed,
       Selected
  <2>. QED
    BY <2>1, <2>2
<1>7. ASSUME NEW p \in Program, Close(p) PROVE SessionsInv'
  <2>1. SessionsTypeOK'
    BY <1>7 DEF SessionsTypeOK, Close, ResetCard, Connected
  <2>2. Places' /\ SelectedInv' /\ ReportedInv'
    BY <1>7 DEF SessionsTypeOK, Close, ResetCard, Connected, Places,
       SelectedInv, ReportedInv, Unnoticed, Selected
  <2>. QED
    BY <2>1, <2>2
<1>8. CASE ForeignBegin
  <2>1. SessionsTypeOK'
    BY <1>8 DEF SessionsTypeOK, ForeignBegin, progVars
  <2>2. Places' /\ SelectedInv' /\ ReportedInv'
    BY <1>8 DEF SessionsTypeOK, ForeignBegin, progVars, Places, SelectedInv, ReportedInv,
       Unnoticed, Selected
  <2>. QED
    BY <2>1, <2>2
<1>9. CASE ForeignEnd
  <2>1. SessionsTypeOK'
    BY <1>9 DEF SessionsTypeOK, ForeignEnd, ResetCard, Connected, progVars
  <2>2. Places' /\ SelectedInv' /\ ReportedInv'
    BY ZenonT(60), <1>9 DEF SessionsTypeOK, ForeignEnd, ResetCard, Connected, progVars, Places,
       SelectedInv, ReportedInv, Unnoticed, Selected
  <2>. QED
    BY <2>1, <2>2
<1>10. CASE UNCHANGED sessionVars
  BY <1>10 DEF SessionsTypeOK, sessionVars, progVars, Places, SelectedInv, ReportedInv,
     Unnoticed, Selected
<1>. QED
  BY <1>1, <1>2, <1>3, <1>4, <1>5, <1>6, <1>7, <1>8, <1>9, <1>10, ConnectStep, BeginStep
     DEF SessionsNext

\* The invariant holds from the beginning.
LEMMA SessionsInvariant == SessionsSpec => []SessionsInv
<1>1. SessionsInit => SessionsTypeOK
  <2> SUFFICES ASSUME SessionsInit PROVE SessionsTypeOK
    OBVIOUS
  <2>1. /\ applet \in {"none", "openpgp", "other"} /\ holder = "free" /\ holder \notin Program
        /\ foreign \in 0..MaxForeign
    BY SessionsAssumption DEF SessionsInit
  <2>3. left \in BOOLEAN
    BY DEF SessionsInit
  <2>2. /\ at \in [Program -> {"away", "begin", "reconnect", "reselect", "in", "idle"}]
        /\ purpose \in [Program -> {"init", "new", "use"}]
        /\ \A p \in Program : at[p] = "away"
    BY DEF SessionsInit
  <2>. QED
    BY <2>1, <2>2, <2>3 DEF SessionsInit, SessionsTypeOK
<1>2. SessionsInit => Places /\ SelectedInv /\ ReportedInv
  BY DEF SessionsInit, Places, SelectedInv, ReportedInv
<1>3. SessionsInit => SessionsInv
  BY <1>1, <1>2 DEF SessionsInv
<1>. QED
  BY <1>3, SessionsStep, PTL DEF SessionsSpec

\* A transaction that was started finds the OpenPGP application selected
\* (pcsc/src/lib.rs:88-116), for every number of programs.
THEOREM TransactionsFindApplet == SessionsSpec => []AppletIsSelected
<1>1. SessionsInv => AppletIsSelected
  <2> SUFFICES ASSUME SessionsInv, NEW p \in opened, at[p] = "in"
               PROVE  applet = "openpgp" \/ left \/ p \in failed
    BY DEF AppletIsSelected
  <2>1. p \in Program /\ holder = p /\ holder # "foreign" /\ p \notin told
    BY SessionsAssumption DEF SessionsInv, SessionsTypeOK, Places
  <2>. QED
    BY <2>1 DEF SessionsInv, SelectedInv, Unnoticed, Selected
<1>. QED
  BY <1>1, SessionsInvariant, PTL

\* A transaction says was_reset if the card was reset since the last one
\* (pcsc/src/lib.rs:119-141), for every number of programs.
THEOREM ResetsAreReported == SessionsSpec => []ResetIsReported
<1>1. SessionsInv => ResetIsReported
  BY DEF SessionsInv, ReportedInv, ResetIsReported, SessionsTypeOK
<1>. QED
  BY <1>1, SessionsInvariant, PTL

-----------------------------------------------------------------------------
(* The dialogue with scdaemon (ScdPipe).                                   *)

\* The unread lines are the rest of one reply, which is that to the current command.
RestOfReply ==
    /\ \A i \in DOMAIN lines : /\ lines[i].of = sent
                               /\ lines[i].kind \in {"ok", "err"} <=> i = Len(lines)
    /\ ended <=> lines = <<>>

\* Between two commands nothing is left to be read, unless one returned early.
PipeInv ==
    ~garbled =>
        /\ pipe # "closed" => RestOfReply
        /\ pipe = "open" => ended
        /\ reply # 0 => reply = sent

\* A reply with one line that ends it
EndsOnce(r) == /\ r \in Seq(Kind) /\ r # <<>>
               /\ \A i \in DOMAIN r : r[i] \in {"ok", "err"} <=> i = Len(r)

\* gpg-agent ends every reply with the one line that says OK or ERR.
LEMMA RepliesEnd ==
  ASSUME NEW c \in Commands, NEW r \in Replies[c]
  PROVE  EndsOnce(r)
<1>1. \/ r \in {<<"ok">>, <<"err">>, <<"bad", "err">>, <<"status", "ok">>, <<"bad", "ok">>,
                 <<"data", "ok">>}
      \/ r \in {<<"status", "status", "ok">>, <<"bad", "status", "ok">>,
                 <<"data", "data", "ok">>, <<"status", "data", "ok">>, <<"bad", "data", "ok">>}
  BY DEF Replies, Executes, Commands, Opening, Executed
<1>2. EndsOnce(<<"ok">>)
  BY DEF EndsOnce, Kind
<1>3. EndsOnce(<<"err">>)
  BY DEF EndsOnce, Kind
<1>4. EndsOnce(<<"bad", "err">>)
  BY DEF EndsOnce, Kind
<1>5. EndsOnce(<<"status", "ok">>)
  BY DEF EndsOnce, Kind
<1>6. EndsOnce(<<"bad", "ok">>)
  BY DEF EndsOnce, Kind
<1>7. EndsOnce(<<"data", "ok">>)
  BY DEF EndsOnce, Kind
<1>8. EndsOnce(<<"status", "status", "ok">>)
  BY DEF EndsOnce, Kind
<1>9. EndsOnce(<<"bad", "status", "ok">>)
  BY DEF EndsOnce, Kind
<1>10. EndsOnce(<<"data", "data", "ok">>)
  BY DEF EndsOnce, Kind
<1>11. EndsOnce(<<"status", "data", "ok">>)
  BY DEF EndsOnce, Kind
<1>12. EndsOnce(<<"bad", "data", "ok">>)
  BY DEF EndsOnce, Kind
<1>. QED
  BY <1>1, <1>2, <1>3, <1>4, <1>5, <1>6, <1>7, <1>8, <1>9, <1>10, <1>11, <1>12

\* The lines of a reply carry the name of its command.
LEMMA LinesOfReply ==
  ASSUME NEW c \in Commands, NEW r \in Replies[c], NEW n \in 1..MaxCommands
  PROVE  /\ LinesOf(n, r) \in Seq(Line)
         /\ LinesOf(n, r) # <<>>
         /\ Len(LinesOf(n, r)) = Len(r) /\ DOMAIN LinesOf(n, r) = DOMAIN r
         /\ \A i \in DOMAIN r : /\ LinesOf(n, r)[i].of = n
                                /\ LinesOf(n, r)[i].kind = r[i]
<1>1. r \in Seq(Kind) /\ r # <<>>
  BY RepliesEnd DEF EndsOnce
<1>2. DOMAIN r = 1..Len(r) /\ Len(r) \in Nat /\ \A i \in 1..Len(r) : r[i] \in Kind
  BY <1>1
<1>3. LinesOf(n, r) \in [1..Len(r) -> Line]
  BY <1>2 DEF LinesOf, Line
<1>4. LinesOf(n, r) \in Seq(Line)
  BY <1>2, <1>3, SeqDef
<1>5. Len(LinesOf(n, r)) = Len(r)
  BY <1>2, <1>3, <1>4
<1>. QED
  BY <1>1, <1>2, <1>3, <1>4, <1>5 DEF LinesOf

\* A new connection has nothing to read but the reply to its command.
LEMMA NewStep ==
  ASSUME PipeTypeOK, PipeInv, NEW c \in Commands, NEW r \in Replies[c], New(c, r)
  PROVE  PipeTypeOK' /\ PipeInv'
<1>1. sent + 1 \in 1..MaxCommands /\ sent' = sent + 1
  BY PipeAssumption DEF New, Sent, PipeTypeOK
<1>2. lines' = LinesOf(sent', r) /\ ended' = FALSE /\ garbled' = FALSE
  BY <1>1 DEF New, Sent
<1>3. PipeTypeOK'
  <2>1. lines' \in Seq(Line)
    BY <1>1, <1>2, LinesOfReply
  <2>2. ended' \in BOOLEAN /\ garbled' \in BOOLEAN
    BY <1>2
  <2>3. command' \in Commands
    BY DEF New, Sent, Commands, Opening, Executed
  <2>4. /\ pipe' = "read" /\ reply' = 0 /\ outcome' = "none" /\ command' = c
        /\ sent' \in 0..MaxCommands
    BY <1>1, PipeAssumption DEF New, Sent
  <2>. QED
    BY <2>1, <2>2, <2>3, <2>4, PipeAssumption DEF PipeTypeOK
<1>4. RestOfReply'
  BY <1>1, <1>2, LinesOfReply, RepliesEnd DEF RestOfReply, EndsOnce
<1>. QED
  BY <1>1, <1>3, <1>4 DEF PipeInv, New, Sent

\* A command on a connection from which everything was read is answered by its
\* own lines.
LEMMA SendStep ==
  ASSUME PipeTypeOK, PipeInv, NEW c \in Commands, NEW r \in Replies[c], SendCommand(c, r)
  PROVE  PipeTypeOK' /\ PipeInv'
<1>1. sent + 1 \in 1..MaxCommands /\ sent' = sent + 1
  BY PipeAssumption DEF SendCommand, Sent, PipeTypeOK
<1>2. lines' = lines \o LinesOf(sent', r) /\ ended' = FALSE /\ garbled' = garbled
  BY <1>1 DEF SendCommand, Sent
<1>3. PipeTypeOK'
  <2>1. lines' \in Seq(Line)
    BY <1>1, <1>2, LinesOfReply, ConcatProperties DEF PipeTypeOK
  <2>2. ended' \in BOOLEAN /\ garbled' \in BOOLEAN
    BY <1>2 DEF PipeTypeOK
  <2>4. /\ pipe' = "read" /\ reply' = 0 /\ outcome' = "none" /\ command' = c
        /\ sent' \in 0..MaxCommands
    BY <1>1, PipeAssumption DEF SendCommand, Sent
  <2>. QED
    BY <2>1, <2>2, <2>4, PipeAssumption DEF PipeTypeOK
<1>4. ASSUME ~garbled PROVE RestOfReply'
  <2>1. lines = <<>>
    BY <1>4 DEF PipeInv, RestOfReply, SendCommand
  <2>2. lines' = LinesOf(sent', r)
    BY <1>1, <1>2, <2>1, LinesOfReply
  <2>. QED
    BY <1>1, <1>2, <2>2, LinesOfReply, RepliesEnd DEF RestOfReply, EndsOnce
<1>. QED
  BY <1>1, <1>2, <1>3, <1>4 DEF PipeInv, SendCommand, Sent

\* Taking a line leaves the rest of the reply, and nothing after its last line.
LEMMA TakeStep ==
  ASSUME PipeTypeOK, TakeLine
  PROVE  /\ lines' \in Seq(Line) /\ ended' \in BOOLEAN
         /\ Head(lines) \in Line
         /\ RestOfReply /\ sent' = sent => RestOfReply' /\ Head(lines).of = sent
<1>1. lines \in Seq(Line) /\ lines # <<>>
  BY DEF PipeTypeOK, TakeLine
<1>2. /\ lines' \in Seq(Line)
      /\ Len(lines') = Len(lines) - 1 /\ Len(lines) \in Nat \ {0}
      /\ \A i \in 1..Len(lines') : lines'[i] = lines[i + 1]
      /\ DOMAIN lines' = 1..Len(lines') /\ DOMAIN lines = 1..Len(lines)
      /\ Head(lines) = lines[1]
  BY <1>1 DEF TakeLine
<1>3. lines' = <<>> <=> Len(lines) = 1
  BY <1>2
<1>4. ASSUME RestOfReply, sent' = sent PROVE RestOfReply' /\ Head(lines).of = sent
  <2>1. \A i \in DOMAIN lines : /\ lines[i].of = sent
                                /\ lines[i].kind \in {"ok", "err"} <=> i = Len(lines)
    BY <1>4 DEF RestOfReply
  <2>2. ended' <=> lines' = <<>>
    <3>1. lines[1].kind \in {"ok", "err"} <=> Len(lines) = 1
      BY <1>2, <2>1
    <3>2. ended' <=> lines[1].kind \in {"ok", "err"}
      BY <1>2 DEF TakeLine
    <3>. QED
      BY <1>3, <3>1, <3>2
  <2>3. \A i \in DOMAIN lines' : /\ lines'[i].of = sent'
                                 /\ lines'[i].kind \in {"ok", "err"} <=> i = Len(lines')
    <3> TAKE i \in DOMAIN lines'
    <3>1. i + 1 \in DOMAIN lines /\ lines'[i] = lines[i + 1]
      BY <1>2
    <3>. QED
      BY <1>2, <1>4, <2>1, <3>1
  <2>. QED
    BY <1>2, <2>1, <2>2, <2>3 DEF RestOfReply
<1>. QED
  BY <1>1, <1>2, <1>4 DEF TakeLine, PipeTypeOK

\* The lines that are read of a reply keep what is known of the pipe,
LEMMA ReadStep ==
  ASSUME PipeTypeOK, PipeInv, ReadWanted \/ ReadBad \/ ReadOther \/ NoAnswer \/ Drain
  PROVE  PipeTypeOK' /\ PipeInv'
<1>1. CASE ReadWanted
  <2>1. reply' \in 0..MaxCommands
    <3>1. Head(lines) \in Line
      BY <1>1, TakeStep DEF ReadWanted
    <3>2. Head(lines).of \in 1..MaxCommands
      BY <3>1 DEF Line
    <3>. QED
      BY <1>1, <3>2, PipeAssumption DEF ReadWanted
  <2>. QED
    BY <1>1, <2>1, TakeStep DEF ReadWanted, PipeTypeOK, PipeInv
<1>2. CASE ReadBad
  BY <1>2, TakeStep DEF ReadBad, Finish, PipeTypeOK, PipeInv
<1>3. CASE ReadOther
  BY <1>3, TakeStep DEF ReadOther, PipeTypeOK, PipeInv
<1>4. CASE NoAnswer
  BY <1>4 DEF NoAnswer, Finish, PipeTypeOK, PipeInv, RestOfReply
<1>5. CASE Drain /\ TakeLine /\ UNCHANGED <<pipe, outcome>>
  BY <1>5, TakeStep DEF Drain, PipeTypeOK, PipeInv
<1>6. CASE Drain /\ ended /\ Finish("ok") /\ UNCHANGED <<lines, ended>>
  BY <1>6 DEF Drain, Finish, PipeTypeOK, PipeInv, RestOfReply
<1>. QED
  BY <1>1, <1>2, <1>3, <1>4, <1>5, <1>6 DEF Drain

\* and so does every step of the pipe.
LEMMA PipeStep == PipeTypeOK /\ PipeInv /\ [PipeNext]_pipeVars => PipeTypeOK' /\ PipeInv'
<1> SUFFICES ASSUME PipeTypeOK, PipeInv, [PipeNext]_pipeVars
             PROVE  PipeTypeOK' /\ PipeInv'
  OBVIOUS
<1>1. ASSUME NEW c \in {"serialno", "restart"}, NEW r \in Replies[c], New(c, r)
      PROVE  PipeTypeOK' /\ PipeInv'
  BY <1>1, NewStep DEF Commands, Opening, Executed
<1>2. ASSUME NEW c \in {"demand", "bye", "transmit"}, NEW r \in Replies[c], SendCommand(c, r)
      PROVE  PipeTypeOK' /\ PipeInv'
  BY <1>2, SendStep DEF Commands, Opening, Executed
<1>3. CASE NotSent
  <2>1. PipeTypeOK'
    <3>1. ended' \in BOOLEAN /\ garbled' \in BOOLEAN
      BY <1>3 DEF NotSent, PipeTypeOK
    <3>2. command' \in Commands /\ reply' \in 0..MaxCommands
      BY <1>3, PipeAssumption DEF NotSent, Commands
    <3>. QED
      BY <1>3, <3>1, <3>2 DEF NotSent, PipeTypeOK
  <2>2. PipeInv'
    BY <1>3 DEF NotSent, PipeInv, RestOfReply
  <2>. QED
    BY <2>1, <2>2
<1>4. CASE DropBackend
  BY <1>4 DEF DropBackend, PipeTypeOK, PipeInv
<1>5. CASE ReadWanted \/ ReadBad \/ ReadOther \/ NoAnswer \/ Drain
  BY <1>5, ReadStep
<1>6. CASE UNCHANGED pipeVars
  BY <1>6 DEF pipeVars, PipeTypeOK, PipeInv, RestOfReply
<1>. QED
  BY <1>1, <1>2, <1>3, <1>4, <1>5, <1>6 DEF PipeNext, SelectBySerial, Bye, Transmit

\* The types of the connection, for any number of commands
THEOREM PipeTypes == PipeSpec => [](PipeTypeOK /\ PipeInv)
<1>1. PipeInit => PipeTypeOK
  <2> SUFFICES ASSUME PipeInit PROVE PipeTypeOK
    OBVIOUS
  <2>1. ended \in BOOLEAN /\ garbled \in BOOLEAN
    BY DEF PipeInit
  <2>2. command \in Commands /\ sent \in 0..MaxCommands /\ reply \in 0..MaxCommands
    BY PipeAssumption DEF PipeInit, Commands, Opening
  <2>. QED
    BY <2>1, <2>2 DEF PipeInit, PipeTypeOK
<1>2. PipeInit => PipeInv
  BY PipeAssumption DEF PipeInit, PipeInv, RestOfReply
<1>. QED
  BY <1>1, <1>2, PipeStep, PTL DEF PipeSpec

\* A transmit returns data of the reply to its own command: the loops of
\* scdc/src/lib.rs:136-183, 269-286 leave no line for the next command to find,
\* unless one has returned at a line that cannot be parsed.
THEOREM RepliesMatch == PipeSpec => []ReplyIsOfItsCommand
<1>1. PipeTypeOK /\ PipeInv => ReplyIsOfItsCommand
  BY DEF PipeTypeOK, PipeInv, ReplyIsOfItsCommand
<1>. QED
  BY <1>1, PipeTypes, PTL

-----------------------------------------------------------------------------
(* The whole library.                                                      *)

\* No step of one part is a step of another.
LEMMA PartsAreSeparate ==
  ASSUME [LibraryNext]_libraryVars
  PROVE  [KeysNext]_keysVars /\ [SessionsNext]_sessionVars /\ [PipeNext]_pipeVars
BY DEF LibraryNext, libraryVars

\* The whole library does nothing but what its parts do.
THEOREM LibraryRunsItsParts == LibrarySpec => KeysSpec /\ SessionsSpec /\ PipeSpec
<1>1. LibraryInit => KeysInit /\ SessionsInit /\ PipeInit
  BY DEF LibraryInit, KeysOff, SessionsOff
<1>2. [LibraryNext]_libraryVars => [KeysNext]_keysVars /\ [SessionsNext]_sessionVars /\ [PipeNext]_pipeVars
  BY PartsAreSeparate
<1>. QED
  BY <1>1, <1>2, PTL DEF LibrarySpec, KeysSpec, SessionsSpec, PipeSpec

\* Every variable of the library keeps its type, whichever of its parts moves.
THEOREM LibraryTypes == LibrarySpec => []LibraryTypeOK
<1>1. SessionsSpec => []SessionsTypeOK
  <2>1. SessionsInv => SessionsTypeOK
    BY DEF SessionsInv
  <2>. QED
    BY <2>1, SessionsInvariant, PTL
<1>2. LibraryTypeOK <=> KeysTypeOK /\ SessionsTypeOK /\ PipeTypeOK
  BY DEF LibraryTypeOK
<1>. QED
  BY <1>1, <1>2, LibraryRunsItsParts, KeysTypes, PipeTypes, PTL

\* What is coded is of a kind that the codecs are proved right for.
SampleIsKnown ==
    /\ sample.what = "card" => IsContent(sample.value)
    /\ sample.what = "list" => IsList(sample.value)
    /\ sample.what = "tree" => sample.value \in Tlvs
    /\ sample.what = "kdf" => IsKdfDo(sample.value)
    /\ sample.what = "status" => IsStatus(sample.value)
    /\ sample.what = "attributes" =>
           sample.value \in RsaAttributes(U16, Byte, Byte) \cup EccAttributes
    /\ sample.what = "rsa" => IsImport(sample.value)
    /\ sample.what = "hash" => IsHash(sample.value)

\* Every value that the library is given to write and to read back is one that
\* the theorems about the codecs cover.
LEMMA SamplesAreKnown == sample \in Samples \cup {NoSample} => SampleIsKnown
<1> SUFFICES ASSUME sample \in Samples \cup {NoSample}
             PROVE  SampleIsKnown
  OBVIOUS
<1>1. WrittenAttributes \subseteq RsaAttributes(U16, Byte, Byte) \cup EccAttributes
  <2>1. {2048, 4096} \subseteq U16 /\ {17, 32, 255} \subseteq Byte /\ 0..3 \subseteq Byte
    BY DEF U16, Byte
  <2>2. RsaAttributes({2048, 4096}, {17, 32, 255}, 0..3) \subseteq RsaAttributes(U16, Byte, Byte)
    BY <2>1 DEF RsaAttributes
  <2>. QED
    BY <2>2 DEF WrittenAttributes
<1>2. /\ \A v \in {CardOf(k) : k \in CardKinds} : IsContent(v)
      /\ \A v \in ListKinds : IsList(v)
      /\ \A v \in KdfDos : IsKdfDo(v)
      /\ \A v \in StatusBytes : IsStatus(v)
      /\ \A v \in Imports : IsImport(v)
      /\ \A v \in Hashes : IsHash(v)
  BY Zenon, SamplesAssumption DEF Hashes
<1>3. ASSUME NEW what, NEW values, sample \in Sample(what, values)
      PROVE  sample.what = what /\ sample.value \in values
  BY <1>3 DEF Sample
<1>4. \/ sample.what = "card" /\ sample.value \in {CardOf(k) : k \in CardKinds}
      \/ sample.what = "list" /\ sample.value \in ListKinds
      \/ sample.what = "tree" /\ sample.value \in Tlvs
      \/ sample.what = "kdf" /\ sample.value \in KdfDos
      \/ sample.what = "status" /\ sample.value \in StatusBytes
      \/ sample.what = "attributes" /\ sample.value \in WrittenAttributes
      \/ sample.what = "rsa" /\ sample.value \in Imports
      \/ sample.what = "hash" /\ sample.value \in Hashes
      \/ sample.what = "none"
  <2>1. sample = NoSample => sample.what = "none"
    BY DEF NoSample
  <2>2. \/ sample \in Sample("card", {CardOf(k) : k \in CardKinds})
        \/ sample \in Sample("list", ListKinds)
        \/ sample \in Sample("tree", Tlvs)
        \/ sample \in Sample("kdf", KdfDos)
        \/ sample \in Sample("status", StatusBytes)
        \/ sample \in Sample("attributes", WrittenAttributes)
        \/ sample \in Sample("rsa", Imports)
        \/ sample \in Sample("hash", Hashes)
        \/ sample = NoSample
    BY Zenon DEF Samples
  <2>. QED
    BY Zenon, <1>3, <2>1, <2>2
<1>. QED
  BY <1>1, <1>2, <1>4 DEF SampleIsKnown

\* The codecs of the library are right for all that the instance codes: the theorems of
\* CodecProofs and CardProofs (which have no bounds) are about it.
THEOREM LibraryCodes ==
  LibrarySpec => [](CardIsRecovered /\ WrittenObjectsAreRead /\ ImportIsWellFormed /\ HashesExactly)
<1>1. LibraryInit => sample \in Samples \cup {NoSample}
  BY DEF LibraryInit, SampleOff
<1>2. ASSUME sample \in Samples \cup {NoSample}, [LibraryNext]_libraryVars
      PROVE  (sample \in Samples \cup {NoSample})'
  <2>1. sample' = sample
    BY <1>2 DEF LibraryNext, libraryVars
  <2>2. (Samples \cup {NoSample})' = Samples \cup {NoSample}
    OBVIOUS
  <2>. QED
    BY <1>2, <2>1, <2>2
<1>3. ASSUME sample \in Samples \cup {NoSample}
      PROVE  CardIsRecovered /\ WrittenObjectsAreRead /\ ImportIsWellFormed /\ HashesExactly
  <2>1. SampleIsKnown
    BY <1>3, SamplesAreKnown
  <2>2. CardIsRecovered
    BY <2>1, CardsRecovered DEF SampleIsKnown
  <2>3. WrittenObjectsAreRead
    BY <2>1, SamplesAssumption, WrittenObjects DEF SampleIsKnown
  <2>4. ImportIsWellFormed
    BY <2>1, ImportsWellFormed DEF SampleIsKnown
  <2>5. HashesExactly
    BY <2>1, HashedExactly DEF SampleIsKnown
  <2>. QED
    BY <2>2, <2>3, <2>4, <2>5
<1>. QED
  BY <1>1, <1>2, <1>3, PTL DEF LibrarySpec
=============================================================================
