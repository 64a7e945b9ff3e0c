----------------------------- MODULE ApduProps -----------------------------
(***************************************************************************)
(* What the transport is for: the card runs what it was sent, once, and    *)
(* the caller gets all of what it replied.                                 *)
(***************************************************************************)
EXTENDS Apdu

\* The card runs a command on exactly the data it was called with, however it
\* was cut into chunks (apdu.rs:149-204), and at most once per call, although
\* it may be sent twice (6Cxx, apdu.rs:50-57) and fetched from repeatedly.
RunsOnceOnAllData ==
    ran > 0 => ran = 1 /\ ranOn = n /\ straight

\* The card is not left with the beginning of a chain, which it would put in
\* front of the next command's data: a call gives up by itself only before it
\* has sent anything (apdu.rs:154, command.rs:102).
NoChainIsLeftBehind ==
    /\ pc = "idle" => held = 0
    /\ outcome = "length" => ran = 0

\* What a chunk is limited to is chosen so that its line for scdaemon fits
\* into Assuan's 1000 characters: "SCD APDU --exlen " and two for each byte
\* (scdc/src/lib.rs:34-52, 216, 258).
LineFits ==
    pc = "card" => 17 + 2 * apdu.len <= 1000

\* The card has the reply, or what is left of it.
ReplyIsThere ==
    /\ ran > 0
    /\ pc = "received" => rsp.sw \in {"ok", "more"}
    /\ pc = "idle" => outcome = "reply"

\* -1 where pieces were not put together as they should.
Command == INSTANCE CardCommand WITH
    Data <- Lengths, Answers <- Replies \cup {0},
    busy <- pc # "idle", data <- n,
    runs <- ran, on <- IF straight THEN ranOn ELSE -1,
    reply <- IF ReplyIsThere THEN {reply} ELSE {},
    result <- CASE outcome = "reply" -> "ok"
                [] outcome = "length" -> "refused"
                [] outcome = "none" -> "none"
                [] OTHER -> "failed",
    got <- IF outcome = "reply" THEN {IF straight THEN resp ELSE -1} ELSE {}

\* To its callers send_command is one command (apdu.rs:28-90): run at most once and
\* on its data, whatever was chained, repeated and fetched in parts; if it returns
\* a reply, then the whole one to this command; and refused for its length only
\* before the card has run it.
ImplementsCommand == Command!CommandSpec

\* command.rs:146: unreachable!("This should not happen"): a short Le is never
\* asked for in an APDU with extended length.
ShortLeOnlyInShortApdu ==
    pc = "send" => ~NoSuchLe

-----------------------------------------------------------------------------
\* Every call comes to an end, if the card answers and goes on with its reply.
CallEnds == pc # "idle" ~> pc \in {"idle", "panicked"}
=============================================================================
