------------------------------ MODULE Transport ------------------------------
(***************************************************************************)
(* Register and FIFO accesses over USB: the OpenPCD transport              *)
(* (src/src/rfid_reader_openpcd.c) and that of the CardMan 5121, whose     *)
(* accesses are CCID escape commands (src/src/rfid_reader_cm5121.c and the *)
(* escape path of src/src/ccid/ccid-driver.c).                             *)
(*                                                                         *)
(* An access is a bulk write followed by one bulk read, each with a time   *)
(* limit.  A request whose write or read failed may be executed, and       *)
(* answered, later; the answer then waits in the pipe for whoever reads    *)
(* next.  CCID messages carry a sequence number, those of OpenPCD nothing  *)
(* that tells them apart.  The device executes requests in order; it is    *)
(* not code of the library.  Access number r stands for its contents.      *)
(***************************************************************************)
EXTENDS Integers, Sequences

CONSTANTS
    Drivers,     \* the transports looked at
    SeqMod,      \* number of CCID sequence numbers (256: an unsigned char)
    MaxCalls,    \* bound: number of accesses
    MaxWtx       \* bound: number of time extensions the device asks for

ASSUME DriversAssumption == Drivers \subseteq {"openpcd", "ccid"}
ASSUME SeqModAssumption  == SeqMod \in Nat \ {0}
ASSUME LimitsAssumption  == MaxCalls \in Nat /\ MaxWtx \in Nat

VARIABLES
    \* the host
    drv,         \* the transport
    pc,          \* "ready", or "read": waits in the bulk read of an access
    n,           \* number of accesses begun
    seqno,       \* sequence number of access n (seqno of ccid_driver_s)
    out,         \* of the last access: its return value; got: the access
                 \* whose reply was taken last
    \* USB and the device
    devq,        \* requests the device has yet to execute
    inq,         \* messages of the device that were not read yet
    log,         \* history: requests executed, in order
    \* ghosts
    base,        \* the access after which the pipe was last found empty
    wtx          \* number of time extensions asked for

host   == <<drv, pc, n, seqno, out>>
device == <<devq, inq, log, wtx>>
vars   == <<host, device, base>>

Request == [req : Nat, seq : Nat]
Message == [req : Nat, seq : Nat, more : BOOLEAN]

Init ==
    /\ drv \in Drivers /\ pc = "ready" /\ n = 0
    /\ seqno = SeqMod - 1                       \* the first access uses 0
    /\ out = [ret |-> "ok", got |-> 0]
    /\ devq = <<>> /\ inq = <<>> /\ log = <<>>
    /\ base = 0 /\ wtx = 0

---------------------------------------------------------------------------
(* The host.                                                               *)

(* Faulty variant: the int is compared without being cut down to a byte. *)
NextSeqnoWide(s) == s + 1

(* msg[6] = seqno = handle->seqno++, an unsigned char. *)
NextSeqno(s) == IF s + 1 = SeqMod THEN 0 ELSE s + 1

Return(r) == pc' = "ready" /\ out' = [out EXCEPT !.ret = r]

(* Faulty variant: a write that failed is repeated. *)
BulkWriteTwice ==
    /\ pc = "ready" /\ n < MaxCalls
    /\ n' = n + 1 /\ seqno' = NextSeqno(seqno)
    /\ base' = IF devq = <<>> /\ inq = <<>> THEN n ELSE base
    /\ LET r == [req |-> n', seq |-> seqno']
       IN devq' \in {Append(devq, r), devq \o <<r, r>>}
    /\ pc' = "read"
    /\ UNCHANGED <<drv, out, inq, log, wtx>>

(* openpcd_send_command, bulk_out: a request is written, or the write      *)
(* fails (or is short), and then may have reached the device all the same. *)
BulkWrite ==
    /\ pc = "ready" /\ n < MaxCalls
    /\ n' = n + 1 /\ seqno' = NextSeqno(seqno)
    /\ base' = IF devq = <<>> /\ inq = <<>> THEN n ELSE base
    /\ LET written == Append(devq, [req |-> n', seq |-> seqno'])
       IN \/ devq' = written /\ pc' = "read" /\ UNCHANGED out
          \/ devq' \in {devq, written} /\ Return("err")
    /\ UNCHANGED <<drv, inq, log, wtx>>

(* Faulty variant: an expired time limit starts the read again. *)
BulkReadAgain == pc = "read" /\ UNCHANGED vars

(* usb_bulk_read returns after 1000 or 5000 ms, whatever the device does. *)
BulkReadTimeout ==
    /\ pc = "read"
    /\ Return("err")
    /\ UNCHANGED <<drv, n, seqno, device, base>>

(* Faulty variant: the sequence number is not looked at. *)
AcceptsAll(m) == TRUE

(* bulk_in refuses a message with another sequence number;                 *)
(* openpcd_recv_reply looks at nothing.                                    *)
Accepts(m) == drv = "ccid" => m.seq = seqno

(* The rest of openpcd_xcv, or of bulk_in and send_escape_cmd: a message   *)
(* is taken out of the pipe.  One that asks for more time makes bulk_in    *)
(* read on, with a new time limit.                                         *)
BulkRead ==
    /\ pc = "read" /\ inq # <<>>
    /\ inq' = Tail(inq)
    /\ LET m == Head(inq)
       IN \/ ~Accepts(m) /\ Return("err")
          \/ Accepts(m) /\ m.more /\ UNCHANGED <<pc, out>>
          \/ /\ Accepts(m) /\ ~m.more
             /\ pc' = "ready" /\ out' = [ret |-> "ok", got |-> m.req]
    /\ UNCHANGED <<drv, n, seqno, devq, log, wtx, base>>

(* openpcd_close and openpcd_open: the configuration is set anew, and      *)
(* what was in the pipe may or may not survive it.  cm5121_close leaves    *)
(* the CCID handle open.                                                   *)
openpcd_reopen ==
    /\ drv = "openpcd" /\ pc = "ready"
    /\ \/ devq' = <<>> /\ inq' = <<>>
       \/ UNCHANGED <<devq, inq>>
    /\ UNCHANGED <<host, log, wtx, base>>

---------------------------------------------------------------------------
(* The device.                                                             *)

Execute ==
    /\ devq # <<>>
    /\ devq' = Tail(devq)
    /\ log' = Append(log, Head(devq).req)
    /\ inq' = Append(inq, [req |-> Head(devq).req, seq |-> Head(devq).seq, more |-> FALSE])
    /\ UNCHANGED <<host, wtx, base>>

AskForTime ==
    /\ drv = "ccid" /\ devq # <<>> /\ wtx < MaxWtx
    /\ wtx' = wtx + 1
    /\ inq' = Append(inq, [req |-> Head(devq).req, seq |-> Head(devq).seq, more |-> TRUE])
    /\ UNCHANGED <<host, devq, log, base>>

---------------------------------------------------------------------------
Host   == BulkWrite \/ BulkReadTimeout \/ BulkRead \/ openpcd_reopen
Device == Execute \/ AskForTime
Next   == Host \/ Device

Spec == Init /\ [][Next]_vars

(* A bulk read returns: with a message, or when its time limit is over.    *)
(* The device owes nothing.                                                *)
FairSpec == Spec /\ WF_vars(BulkRead \/ BulkReadTimeout)

---------------------------------------------------------------------------
(* Properties.                                                             *)

(* The variables keep their types: the sequence number is one byte. *)
TypeOK ==
    /\ drv \in Drivers /\ pc \in {"ready", "read"} /\ n \in Nat
    /\ seqno \in 0..SeqMod - 1
    /\ out \in [ret : {"ok", "err"}, got : Nat]
    /\ devq \in Seq(Request) /\ inq \in Seq(Message) /\ log \in Seq(Nat)
    /\ base \in Nat /\ wtx \in Nat

(* For how many accesses a transport is safe after the pipe was empty:     *)
(* until the sequence numbers come round, or for a single one.             *)
Window == IF drv = "ccid" THEN SeqMod ELSE 1

(* An access that succeeds returns the reply to itself, never that of an   *)
(* earlier access whose time limit expired: over CCID for as many accesses *)
(* as there are sequence numbers, however many of them failed, over        *)
(* OpenPCD only when the pipe was empty at its beginning.                  *)
OwnReply ==
    pc = "ready" /\ out.ret = "ok" /\ n - base \in 1..Window => out.got = n

Access == INSTANCE RegisterAccess WITH issued <- n, last <- out.got

(* The transports keep the promise of RegisterAccess: the chip executes    *)
(* accesses in order and at most once, and no reply is taken twice or out  *)
(* of order, although requests are abandoned at any point.                 *)
AccessSpec == Access!Spec

(* Every access returns, also when the device asks for more time. *)
AccessReturns == (pc = "read") ~> (pc = "ready")
=============================================================================
