--------------------------- MODULE RegisterAccess ---------------------------
(***************************************************************************)
(* What a transport promises the RC632 driver about its register and FIFO  *)
(* accesses, whatever times out: the chip executes an access at most once  *)
(* and never behind a later one, and a reply is handed to the driver at    *)
(* most once, in order, and after its access was executed.  Not promised   *)
(* is that the reply handed over belongs to the access that returns.       *)
(***************************************************************************)
EXTENDS Integers, Sequences

VARIABLES
    issued,     \* number of accesses begun
    log,        \* accesses the chip executed, in order
    last        \* the access whose reply was handed over last

rvars == <<issued, log, last>>

Init == issued = 0 /\ log = <<>> /\ last = 0

Issue == issued' = issued + 1 /\ UNCHANGED <<log, last>>

Execute == \E r \in 1..issued :
              /\ \A i \in 1..Len(log) : log[i] < r
              /\ log' = Append(log, r)
              /\ UNCHANGED <<issued, last>>

HandOver == \E i \in 1..Len(log) :
               /\ log[i] > last
               /\ last' = log[i]
               /\ UNCHANGED <<issued, log>>

Next == Issue \/ Execute \/ HandOver

Spec == Init /\ [][Next]_rvars
=============================================================================
