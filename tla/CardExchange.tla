---------------------------- MODULE CardExchange ----------------------------
(***************************************************************************)
(* What rfid_protocol_transceive promises an application, whatever the     *)
(* radio link does: the card executes the command of a call at most once   *)
(* and only while the call is in progress, and every byte the call returns *)
(* is a byte of the response to that very execution.  Nothing is promised  *)
(* about the return value, nor that the card executes the command at all.  *)
(***************************************************************************)
EXTENDS Integers, Sequences

VARIABLES
    calls,   \* number of transceive calls so far; also the current call
    busy,    \* a call is in progress
    log,     \* the calls whose commands the card executed, in order
    got      \* for each run of bytes received, the call it answers

xvars == <<calls, busy, log, got>>

Executed == log # <<>> /\ log[Len(log)] = calls

Init == calls = 0 /\ busy = FALSE /\ log = <<>> /\ got = <<>>

Begin == /\ ~busy
         /\ calls' = calls + 1
         /\ busy' \in BOOLEAN       \* a call may also be refused at once
         /\ got' = <<>>
         /\ UNCHANGED log

Execute == /\ busy /\ \A i \in 1..Len(log) : log[i] # calls
           /\ log' = Append(log, calls)
           /\ UNCHANGED <<calls, busy, got>>

Receive == /\ busy /\ Executed
           /\ got' = Append(got, calls)
           /\ busy' \in BOOLEAN     \* the last run of bytes ends the call
           /\ UNCHANGED <<calls, log>>

Finish == busy /\ busy' = FALSE /\ UNCHANGED <<calls, log, got>>

Next == Begin \/ Execute \/ Receive \/ Finish

Spec == Init /\ [][Next]_xvars
=============================================================================
