---------------------------- MODULE CardCommand ----------------------------
(***************************************************************************)
(* What send_command promises to its callers (openpgp-card/src/ocard/      *)
(* apdu.rs:28): the card runs the command of a call once or not at all, on *)
(* the data of the call and nothing else; the caller gets the whole reply  *)
(* or an error.  From an error it cannot tell whether the command was run, *)
(* unless the call was refused for its length.                             *)
(*                                                                         *)
(* A step of the models above the transport is a whole call: Run and       *)
(* Deliver are a command that succeeds, Fail without Run one that the card *)
(* refuses, Run and Fail one whose reply is lost.                          *)
(***************************************************************************)
EXTENDS Integers

CONSTANTS
    Data,     \* what a command may be called with
    Answers   \* what the card may reply to it

VARIABLES
    busy,     \* a call is under way
    data,     \* what it was called with
    runs,     \* how often the card has run its command
    on,       \* on what
    reply,    \* the reply, as long as the card has it
    result,   \* "none", "ok", "refused" or "failed"
    got       \* the reply that the call returned

commandVars == <<busy, data, runs, on, reply, result, got>>

CommandInit ==
    /\ ~busy /\ data = 0
    /\ runs = 0 /\ on = 0 /\ reply = {}
    /\ result = "none" /\ got = {}

Call(d) ==
    /\ ~busy
    /\ busy' = TRUE /\ data' = d
    /\ runs' = 0 /\ on' = 0 /\ reply' = {}
    /\ result' = "none" /\ got' = {}

Run(a) ==
    /\ busy /\ runs = 0
    /\ runs' = 1 /\ on' = data /\ reply' = {a}
    /\ UNCHANGED <<busy, data, result, got>>

\* The card drops the reply before it was fetched.
Forget ==
    /\ busy /\ reply # {}
    /\ reply' = {}
    /\ UNCHANGED <<busy, data, runs, on, result, got>>

Deliver ==
    /\ busy /\ reply # {}
    /\ busy' = FALSE /\ result' = "ok" /\ got' = reply
    /\ UNCHANGED <<data, runs, on, reply>>

Refuse ==
    /\ busy /\ runs = 0
    /\ busy' = FALSE /\ result' = "refused"
    /\ UNCHANGED <<data, runs, on, reply, got>>

Fail ==
    /\ busy
    /\ busy' = FALSE /\ result' = "failed" /\ reply' = {}
    /\ UNCHANGED <<data, runs, on, got>>

CommandNext ==
    \/ \E d \in Data : Call(d)
    \/ \E a \in Answers : Run(a)
    \/ Forget \/ Deliver \/ Refuse \/ Fail

CommandSpec == CommandInit /\ [][CommandNext]_commandVars
=============================================================================
