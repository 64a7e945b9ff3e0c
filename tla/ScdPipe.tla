------------------------------- MODULE ScdPipe -------------------------------
(***************************************************************************)
(* The connection of the scdaemon backend to gpg-agent (scdc/src/lib.rs):  *)
(* commands go out, and lines come in that end with OK or ERR.             *)
(*                                                                         *)
(* The client of sequoia-ipc gives lines one by one, a line that it cannot *)
(* parse as an Err, an ERR line as an Ok(Response::Error), and None after  *)
(* the line that ends a reply.                                             *)
(***************************************************************************)
EXTENDS Integers, Sequences

CONSTANT MaxCommands   \* bound on the commands sent

ASSUME PipeAssumption == MaxCommands \in Nat

VARIABLES
    lines,     \* lines sent by gpg-agent on this connection and not yet read
    ended,     \* the client has given the last line of a reply
    pipe,      \* "closed", "open", "read", "drain"
    command,   \* the last one: "serialno", "demand", "restart", "bye", "transmit"
    sent,      \* commands sent; the name of the current one
    reply,     \* the command whose data transmit has returned, 0 for none
    outcome,   \* how the last command ended
    garbled    \* history: a command returned at a line that cannot be parsed

pipeVars == <<lines, ended, pipe, command, sent, reply, outcome, garbled>>

Kind == {"status", "data", "ok", "err", "bad"}
Opening == {"serialno", "demand"}
Executed == {"restart", "bye"}
Commands == Opening \cup Executed \cup {"transmit"}

\* What gpg-agent may say to a command
Executes == {<<"ok">>, <<"err">>, <<"bad", "err">>}
Replies == [serialno |-> {<<"status", "ok">>, <<"status", "status", "ok">>, <<"bad", "status", "ok">>,
                          <<"err">>},
            demand |-> {<<"status", "ok">>, <<"err">>, <<"bad", "ok">>},
            restart |-> Executes, bye |-> Executes,
            transmit |-> {<<"data", "ok">>, <<"data", "data", "ok">>, <<"status", "data", "ok">>,
                          <<"err">>, <<"ok">>, <<"bad", "data", "ok">>}]

Line == [of : 1..MaxCommands, kind : Kind]

PipeTypeOK ==
    /\ lines \in Seq(Line)
    /\ ended \in BOOLEAN /\ garbled \in BOOLEAN
    /\ pipe \in {"closed", "open", "read", "drain"}
    /\ command \in Commands
    /\ sent \in 0..MaxCommands /\ reply \in 0..MaxCommands
    /\ outcome \in {"none", "ok", "error"}

PipeInit ==
    /\ lines = <<>> /\ ended = TRUE
    /\ pipe = "closed" /\ command = "serialno" /\ sent = 0
    /\ reply = 0 /\ outcome = "none" /\ garbled = FALSE

-----------------------------------------------------------------------------
LinesOf(n, r) == [i \in DOMAIN r |-> [of |-> n, kind |-> r[i]]]

Sent(c) ==
    /\ sent < MaxCommands /\ sent' = sent + 1
    /\ ended' = FALSE /\ pipe' = "read" /\ command' = c
    /\ reply' = 0 /\ outcome' = "none"

\* ScdBackend::new makes a connection, for SCD SERIALNO or, in shutdown_scd, for
\* SCD RESTART.
New(c, r) ==
    /\ pipe = "closed" /\ c \in {"serialno", "restart"}
    /\ Sent(c) /\ lines' = LinesOf(sent + 1, r) /\ garbled' = FALSE

\* send_cmd: what has been left in the connection comes first.
SendCommand(c, r) ==
    /\ pipe = "open" /\ Sent(c)
    /\ lines' = lines \o LinesOf(sent + 1, r)
    /\ UNCHANGED garbled

SelectBySerial(r) == command = "serialno" /\ SendCommand("demand", r)
Bye(r) == command = "restart" /\ SendCommand("bye", r)
Transmit(r) == command \in Opening \cup {"transmit"} /\ SendCommand("transmit", r)

\* The line is too long for Assuan, or cannot be sent.
NotSent ==
    /\ pipe = "open" /\ command \in Opening \cup {"transmit"}
    /\ command' = "transmit" /\ reply' = 0 /\ outcome' = "error"
    /\ UNCHANGED <<lines, ended, pipe, sent, garbled>>

\* The backend, and its connection with it, is dropped.
DropBackend ==
    /\ pipe = "open" /\ command \notin Executed
    /\ pipe' = "closed"
    /\ UNCHANGED <<lines, ended, command, sent, reply, outcome, garbled>>

\* A command is over; a backend that could not be made, and that of shutdown_scd,
\* is given up.
Finish(o) ==
    /\ outcome' = o
    /\ pipe' = IF command = "bye" \/ (o = "error" /\ command # "transmit") THEN "closed" ELSE "open"

TakeLine ==
    /\ lines # <<>> /\ ~ended
    /\ lines' = Tail(lines)
    /\ ended' = (Head(lines).kind \in {"ok", "err"})

\* The line that each of the loops waits for
Wanted(kind) ==
    \/ command \in Opening /\ kind = "status"
    \/ command \in Executed /\ kind # "bad"
    \/ command = "transmit" /\ kind = "data"

ReadWanted ==
    /\ pipe = "read" /\ TakeLine /\ Wanted(Head(lines).kind)
    /\ reply' = IF command = "transmit" THEN Head(lines).of ELSE 0
    /\ pipe' = "drain"
    /\ UNCHANGED <<command, sent, outcome, garbled>>

\* All but serialno return at a line that cannot be parsed.
ReadBad ==
    /\ pipe = "read" /\ TakeLine /\ Head(lines).kind = "bad" /\ command # "serialno"
    /\ Finish("error") /\ garbled' = TRUE
    /\ UNCHANGED <<command, sent, reply>>

ReadOther ==
    /\ pipe = "read" /\ TakeLine /\ ~Wanted(Head(lines).kind)
    /\ Head(lines).kind = "bad" => command = "serialno"
    /\ UNCHANGED <<pipe, command, sent, reply, outcome, garbled>>

\* No more lines, and none of those that were there was the wanted one.
NoAnswer ==
    /\ pipe = "read" /\ ended
    /\ Finish("error")
    /\ UNCHANGED <<lines, ended, command, sent, reply, garbled>>

\* "drop remaining lines"
\* Mutated form: they stay.
DrainNothing ==
    /\ pipe = "drain" /\ Finish("ok")
    /\ UNCHANGED <<lines, ended, command, sent, reply, garbled>>
Drain ==
    /\ pipe = "drain"
    /\ \/ TakeLine /\ UNCHANGED <<pipe, outcome>>
       \/ ended /\ Finish("ok") /\ UNCHANGED <<lines, ended>>
    /\ UNCHANGED <<command, sent, reply, garbled>>

PipeNext ==
    \/ \E c \in {"serialno", "restart"} : \E r \in Replies[c] : New(c, r)
    \/ \E r \in Replies.demand : SelectBySerial(r)
    \/ \E r \in Replies.bye : Bye(r)
    \/ \E r \in Replies.transmit : Transmit(r)
    \/ NotSent \/ DropBackend
    \/ ReadWanted \/ ReadBad \/ ReadOther \/ NoAnswer \/ Drain

PipeSpec == PipeInit /\ [][PipeNext]_pipeVars

-----------------------------------------------------------------------------
\* scdc/src/lib.rs:136-183, 269-286: what transmit returns is of the reply to its
\* own command, although replies come in several lines and the loops stop reading
\* in the middle of one; unless an earlier command of this connection returned at a
\* line that it could not parse, without reading on.
ReplyIsOfItsCommand ==
    reply # 0 => reply = sent \/ garbled
=============================================================================
