------------------------------- MODULE RC632 -------------------------------
(***************************************************************************)
(* The RC632 reader chip as src/src/rfid_asic_rc632.c drives it: the host  *)
(* side of one exchange with a card (rc632_transceive, rc632_timer_set,    *)
(* best_prescaler, rc632_wait_idle_timer, and the callers                  *)
(* rc632_iso14443ab_transceive, rc632_iso14443a_transceive_acf and         *)
(* rc632_iso14443a_transceive_sf), the loading of a Mifare key             *)
(* (rc632_mifare_set_key, rc632_mifare_set_key_ee) and the authentication  *)
(* with it (rc632_mifare_auth), register access by register access, beside *)
(* a chip that transmits, waits, receives and counts down its timer in the *)
(* meantime.                                                               *)
(*                                                                         *)
(* A register access is a message over USB and may fail; a write that      *)
(* fails may or may not have reached the chip.  The chip and the card are  *)
(* not code of the library.                                                *)
(*                                                                         *)
(* Byte i of the command of exchange number n, or of the answer to the     *)
(* frame sent in it, is [of |-> n, dir |-> "cmd" or "rsp", i |-> i].       *)
(***************************************************************************)
EXTENDS Integers, Sequences

CONSTANTS
    FIFO,        \* size of the chip's FIFO (64 bytes)
    TxLens,      \* command lengths passed by the callers
    RespLens,    \* answer lengths, 0 when no card answers
    Rooms,       \* room for the answer in the callers' buffers
    Errors,      \* reception errors that happen
    Kinds,       \* the functions that are called
    Timeouts,    \* time limits, in microseconds, passed by the callers
    MaxCalls,    \* bound: number of exchanges
    MaxFaults    \* bound: number of failing register accesses

ASSUME SizeAssumption == FIFO \in Nat \ {0}
ASSUME LensAssumption == /\ TxLens \subseteq Nat \ {0}
                         /\ RespLens \subseteq Nat
                         /\ Rooms \subseteq Nat \ {0}
ASSUME ErrorsAssumption == Errors \subseteq {"COL", "PARITY", "CRC"}
ASSUME KindsAssumption == Kinds \subseteq {"ab", "acf", "sf", "key", "auth"}
\* (u_int64_t in microseconds: 13560000 times ten times any that the callers
\* pass, seconds or minutes, is below 2^64.)
ASSUME TimeoutsAssumption == Timeouts \subseteq Nat \ {0}
ASSUME LimitsAssumption == MaxCalls \in Nat /\ MaxFaults \in Nat

VARIABLES
    \* the host: locals of the functions in progress
    pc,          \* the register access to come; "ready" between exchanges
    call,        \* the call: its number, kind, tx_len, *rx_len and time limit;
                 \* of an authentication, the second command
    sent,        \* cur_tx_buf - tx_buf
    cur,         \* cur_tx_len
    stat,        \* the last PRIMARY_STATUS read
    load,        \* prescaler and divisor in rc632_timer_set
    out,         \* what the last exchange returned
    \* the chip
    cmd,         \* COMMAND register
    modem,       \* modem state
    fifo,        \* contents of the FIFO
    irq,         \* INTERRUPT_RQ
    err,         \* ERROR_FLAG
    timer,       \* TIMER_CONTROL: start at the end of transmission, stop when
                 \* reception begins; and whether the timer is running
    \* the card
    air,         \* the frame being transmitted: by which exchange, its bytes
    answer,      \* bytes of the answer still to come
    \* ghosts
    past,        \* of this exchange: its timer expired while no answer had
                 \* begun, the length of the answer and the errors in it,
                 \* an access failed; and its timer's request was cleared or
                 \* is hidden by an old RX request, or its timer was not set
                 \* up at the end of transmission
    faults       \* number of failed accesses

host  == <<pc, call, sent, cur, stat, load, out>>
chip  == <<cmd, modem, fifo, irq, err, timer>>
card  == <<air, answer>>
vars  == <<host, chip, card, past, faults>>

---------------------------------------------------------------------------
Byte == [of : Nat, dir : {"cmd", "rsp"}, i : Nat]

Bytes(n, d, from, len) ==
    [k \in 1..len |-> [of |-> n, dir |-> d, i |-> from + k]]

Least(m, n) == IF m < n THEN m ELSE n

(* The FIFO takes what fits, and the rest is lost. *)
Pushed(s) == LET all == fifo \o s IN SubSeq(all, 1, Least(FIFO, Len(all)))

NoFrame == [by |-> 0, bytes |-> <<>>]

NoPast == [expired |-> FALSE, len |-> 0, errs |-> {}, fault |-> FALSE, lost |-> FALSE]

(* stat is not initialised. *)
Unset == [set |-> FALSE, err |-> FALSE, irq |-> FALSE]
Status == [set : {TRUE}, err : BOOLEAN, irq : BOOLEAN]

NoLoad == [prescaler |-> 0, divisor |-> 0]

NoCall == [n |-> 0, kind |-> "ab", tx_len |-> 1, room |-> 1, timeout |-> 0, second |-> FALSE]

Init ==
    /\ pc = "ready"
    /\ call = NoCall
    /\ sent = 0 /\ cur = 0 /\ load = NoLoad
    /\ stat = Unset
    /\ out = [ret |-> "ok", rx |-> <<>>, boc |-> FALSE]
    /\ cmd = "IDLE" /\ modem = "idle" /\ fifo = <<>> /\ irq = {} /\ err = {}
    /\ timer = [start |-> FALSE, stop |-> FALSE, running |-> FALSE]
    /\ air = NoFrame /\ answer = <<>>
    /\ past = NoPast /\ faults = 0

---------------------------------------------------------------------------
(* Outcomes of a register access.                                          *)

(* Return from the exchange; the buffer and the position of a collision    *)
(* are the out-parameters.                                                 *)
Return(r) == pc' = "ready" /\ out' = [out EXCEPT !.ret = r]

Works == UNCHANGED <<faults, past>>

Fails == /\ faults < MaxFaults
         /\ faults' = faults + 1
         /\ past' = [past EXCEPT !.fault = TRUE]

(* An access that reached the chip.  When its answer is lost, the host     *)
(* sees it fail: it returns, or, where the code drops the return value,    *)
(* goes on.                                                                *)
Checks(next) == \/ Works /\ pc' = next /\ UNCHANGED out
                \/ Fails /\ Return("fault")
Drops(next)  == (Works \/ Fails) /\ pc' = next /\ UNCHANGED out

(* An access that never reached the chip. *)
Aborts(p) ==
    /\ pc = p /\ Fails
    /\ Return("fault")
    /\ UNCHANGED <<call, sent, cur, stat, load, chip, card>>

(* (The same, where the return value is dropped.) *)
Ignored(p, next) ==
    /\ pc = p /\ Fails
    /\ pc' = next
    /\ UNCHANGED <<call, sent, cur, stat, load, out, chip, card>>

---------------------------------------------------------------------------
(* The host.                                                               *)

(* rc632_transceive's callers, and those that load a key or use it.        *)
Transceives == {"ab", "acf", "sf"}

(* tx_len and room that each passes.  The 12 bytes of a coded key (the 2   *)
(* of its address in the EEPROM), or of an authentication command, count   *)
(* as one byte.                                                            *)
Arguments(kind) ==
    CASE kind \in {"ab", "acf"} -> TxLens \X Rooms
      [] kind = "sf"            -> {<<1, 2>>}
      [] OTHER                  -> {<<1, 1>>}

(* Its time limit, which is looked at only in rc632_timer_set. *)
Limits(kind) ==
    CASE kind = "ab" -> Timeouts [] kind = "acf" -> {50} [] kind = "sf" -> {92} [] OTHER -> {140}

Enters(kind, len, room) ==
    /\ pc = "ready" /\ call.n < MaxCalls
    /\ call' = [n |-> call.n + 1, kind |-> kind, tx_len |-> len, room |-> room,
                timeout |-> 0, second |-> FALSE]
    /\ sent' = 0
    /\ out' = [ret |-> "ok", rx |-> <<>>, boc |-> FALSE]
    /\ stat' = Unset
    /\ UNCHANGED <<load, chip, card, faults>>

(* Faulty variant: the first filling is not limited to the FIFO. *)
EnterUnlimited(kind, len, room) ==
    /\ Enters(kind, len, room)
    /\ pc' = "idle" /\ cur' = len /\ past' = NoPast

(* rc632_iso14443ab_transceive, rc632_iso14443a_transceive_acf and         *)
(* rc632_iso14443a_transceive_sf up to rc632_transceive: they set          *)
(* CHANNEL_REDUNDANCY, BIT_FRAMING and CONTROL, and clear the buffer and   *)
(* *bit_of_col.  rc632_mifare_set_key starts with COMMAND too.             *)
Enter(kind, len, room) ==
    /\ Enters(kind, len, room)
    /\ pc' = "idle" /\ cur' = Least(len, FIFO) /\ past' = NoPast

(* rc632_mifare_auth: it stops no command and clears no interrupt request, *)
(* an RX request that the key load failed to clear included.  Its callers  *)
(* have set a key just before.                                             *)
EnterAuth(kind, len, room) ==
    /\ call.kind = "key" /\ out.ret = "ok"
    /\ Enters(kind, len, room)
    /\ pc' = "fill" /\ cur' = len
    /\ past' = [NoPast EXCEPT !.lost = "RX" \in irq]

(* Leaving TRANSCEIVE stops the modem; an answer under way is not received.*)
StopModem == /\ cmd' = "IDLE" /\ modem' = "idle"
             /\ air' = NoFrame /\ answer' = <<>>

(* rc632_reg_write(COMMAND, IDLE); rc632_transceive drops the return value,*)
(* rc632_mifare_set_key does not.                                          *)
CommandIdle ==
    /\ pc = "idle"
    /\ IF call.kind = "key" THEN Checks("fill") ELSE Drops("clear")
    /\ StopModem
    /\ UNCHANGED <<call, sent, cur, stat, load, fifo, irq, err, timer>>

(* rc632_reg_write(INTERRUPT_RQ, 0x7f); the return value is dropped. *)
ClearInterrupts ==
    /\ pc = "clear"
    /\ Drops("control")
    /\ irq' = {}
    /\ UNCHANGED <<call, sent, cur, stat, load, cmd, modem, fifo, err, timer, card>>

(* clk * t / 1000000, where the product does not fit the model checker's   *)
(* integers: t is taken apart at 10^6 and both factors at 10^3.            *)
Micro(clk, t) ==
    LET q == t \div 1000000
        r1 == (t % 1000000) \div 1000
        r0 == t % 1000
        c2 == clk \div 1000000
        c1 == (clk % 1000000) \div 1000
        c0 == clk % 1000
    IN clk * q + c2 * (r1 * 1000 + r0) + c1 * r1
       + (((c1 * r0 + c0 * r1) * 1000 + c0 * r0) \div 1000000)

Clk(i) == 13560000 \div 2^i
Divisor(t, i) == Micro(Clk(i), t) + 1
Excess(t, i) == (1000000 \div (Clk(i) \div Divisor(t, i))) - t

(* The prescaler with the least excess, the first of several; with none,   *)
(* prescaler 0 and a divisor that is never initialised (the least and the  *)
(* greatest stand for all).                                                *)
Chosen(t, ok) ==
    IF ok = {} THEN [prescaler : {0}, divisor : {0, 255}]
    ELSE LET i == CHOOSE i \in ok : \A j \in ok : /\ Excess(t, i) <= Excess(t, j)
                                                  /\ Excess(t, i) = Excess(t, j) => i <= j
         IN {[prescaler |-> i, divisor |-> Divisor(t, i) % 256]}

(* Faulty variant: a divisor of more than 8 bits is cut off. *)
best_prescaler_wide(t) ==
    Chosen(t, {i \in 0..20 : Divisor(t, i) <= Clk(i) /\ Excess(t, i) >= 0})

best_prescaler(t) ==
    Chosen(t, {i \in 0..20 : /\ Divisor(t, i) <= 255 /\ Divisor(t, i) <= Clk(i)
                             /\ Excess(t, i) >= 0})

TIMER_RELAX_FACTOR == 10

(* The values of best_prescaler for the time limits. *)
Prescaled == [t \in Timeouts \cup {50, 92, 140} |-> best_prescaler(t * TIMER_RELAX_FACTOR)]

TimerSet ==
    \E t \in Limits(call.kind) :
        load' \in Prescaled[t] /\ call' = [call EXCEPT !.timeout = t]

(* Faulty variants: the timer runs on when the answer begins; it is never  *)
(* started.                                                                *)
TimerControlStart ==
    /\ pc = "control"
    /\ Drops("reload")
    /\ timer' = [timer EXCEPT !.start = TRUE]
    /\ TimerSet
    /\ UNCHANGED <<sent, cur, stat, cmd, modem, fifo, irq, err, card>>

TimerControlStop ==
    /\ pc = "control"
    /\ Drops("reload")
    /\ timer' = [timer EXCEPT !.stop = TRUE]
    /\ TimerSet
    /\ UNCHANGED <<sent, cur, stat, cmd, modem, fifo, irq, err, card>>

(* rc632_timer_set: TIMER_CLOCK (checked) and TIMER_CONTROL (dropped): the *)
(* timer starts at the end of transmission and stops when reception        *)
(* begins...                                                               *)
TimerControl ==
    /\ pc = "control"
    /\ Drops("reload")
    /\ timer' = [timer EXCEPT !.start = TRUE, !.stop = TRUE]
    /\ TimerSet
    /\ UNCHANGED <<sent, cur, stat, cmd, modem, fifo, irq, err, card>>

TimerControlLost ==
    /\ pc = "control" /\ Fails
    /\ pc' = "reload"
    /\ TimerSet
    /\ UNCHANGED <<sent, cur, stat, out, chip, card>>

(* ... then the timer's interrupt request, its enable bit and              *)
(* TIMER_RELOAD, whose return values are combined.  The timer of an        *)
(* authentication's first command may have run out already.                *)
AfterTimer == CASE call.kind \in Transceives -> "fill"
                [] call.kind = "auth" /\ call.second -> "start"
                [] OTHER -> "status"

TimerReload ==
    /\ pc = "reload"
    /\ \/ pc' = AfterTimer /\ UNCHANGED <<out, faults>>
          /\ past' = [past EXCEPT !.lost = @ \/ (past.expired /\ "TIMER" \in irq)]
       \/ Fails /\ Return("fault")
    /\ irq' = irq \ {"TIMER"}
    /\ call' = [call EXCEPT !.timeout = 0] /\ load' = NoLoad
    /\ UNCHANGED <<sent, cur, stat, cmd, modem, fifo, err, timer, card>>

(* rc632_fifo_write: cur_tx_len bytes from cur_tx_buf, also from behind    *)
(* the end of tx_buf when the length is not bounded by what is left.       *)
FifoWrite ==
    /\ pc = "fill"
    /\ Checks(IF sent = 0 THEN "start" ELSE "more")
    /\ fifo' = Pushed(Bytes(call.n, "cmd", sent, cur))
    /\ UNCHANGED <<call, sent, cur, stat, load, cmd, modem, irq, err, timer, card>>

(* rc632_reg_write(COMMAND, ...): TRANSCEIVE, after the first filling      *)
(* only; LOAD_KEY (or LOAD_KEY_E2) and AUTHENT1, before the timer is set,  *)
(* and AUTHENT2 after it.                                                  *)
StartCommand ==
    /\ pc = "start"
    /\ LET transceive == call.kind \in Transceives
       IN /\ Checks(CASE transceive -> "more" [] call.second -> "status" [] OTHER -> "control")
          /\ cmd' = CASE transceive -> "TRANSCEIVE" [] call.kind = "key" -> "LOAD_KEY"
                      [] call.second -> "AUTHENT2" [] OTHER -> "AUTHENT1"
    /\ modem' = IF call.kind = "key" THEN modem ELSE "tx"
    /\ err' = {}
    /\ air' = [by |-> call.n, bytes |-> <<>>] /\ answer' = <<>>
    /\ UNCHANGED <<call, sent, cur, stat, load, fifo, irq, timer>>

(* The end of the loop: FIFO_LENGTH is read only when bytes are left, and  *)
(* the next filling is as long as the FIFO has room.                       *)
FillMore ==
    /\ pc = "more"
    /\ Works
    /\ sent' = sent + cur
    /\ cur' = IF sent + cur < call.tx_len THEN FIFO - Len(fifo) ELSE 0
    /\ pc' = IF cur' = 0 THEN "status" ELSE "fill"
    /\ UNCHANGED <<call, stat, load, out, chip, card>>

(* rc632_wait_idle_timer.  After PRIMARY_STATUS the host looks at the      *)
(* ERROR_FLAG and at INTERRUPT_RQ only when the status says so.  A failed  *)
(* read of the status leaves the old value.                                *)
AfterError(s) == IF s.irq THEN "irqrq" ELSE "command"
AfterStatus(s) == IF s.err THEN "errflag" ELSE AfterError(s)

ReadStatus ==
    /\ pc = "status"
    /\ Works
    /\ stat' = [set |-> TRUE, err |-> err # {}, irq |-> irq # {}]
    /\ pc' = AfterStatus(stat')
    /\ UNCHANGED <<call, sent, cur, load, out, chip, card>>

StatusLost ==
    /\ pc = "status" /\ Fails
    /\ stat' \in IF stat.set THEN {stat} ELSE Status
    /\ pc' = AfterStatus(stat')
    /\ UNCHANGED <<call, sent, cur, load, out, chip, card>>

ReadErrorFlag ==
    /\ pc = "errflag"
    /\ Works
    /\ IF err \cap {"COL", "PARITY"} # {}
       THEN Return("EIO")
       ELSE pc' = AfterError(stat) /\ UNCHANGED out
    /\ UNCHANGED <<call, sent, cur, stat, load, chip, card>>

(* A TIMER request without an RX request is a timeout: the request is      *)
(* cleared, or not (the result is dropped), and the command not stopped.   *)
ReadInterruptRq ==
    /\ pc = "irqrq"
    /\ Works
    /\ pc' = IF "TIMER" \in irq /\ "RX" \notin irq THEN "cleartimer" ELSE "command"
    /\ UNCHANGED <<call, sent, cur, stat, load, out, chip, card>>

ClearTimer ==
    /\ pc = "cleartimer"
    /\ Works \/ Fails
    /\ irq' = irq \ {"TIMER"}
    /\ Return("ETIMEDOUT")
    /\ UNCHANGED <<call, sent, cur, stat, load, cmd, modem, fifo, err, timer, card>>

ClearTimerLost ==
    /\ pc = "cleartimer" /\ Fails
    /\ Return("ETIMEDOUT")
    /\ UNCHANGED <<call, sent, cur, stat, load, chip, card>>

(* The access that follows the wait. *)
AfterWait == CASE call.kind \in Transceives -> "length"
               [] call.kind = "key" -> "keyerr"
               [] call.kind = "auth" -> IF call.second THEN "crypto" ELSE "bitframe"

(* Faulty variant: the wait ends while the command still runs. *)
ReadCommandRunning ==
    /\ pc = "command"
    /\ Works
    /\ pc' = "clearrx"
    /\ UNCHANGED <<call, sent, cur, stat, load, out, chip, card>>

ReadCommand ==
    /\ pc = "command"
    /\ Works
    /\ pc' = IF cmd = "IDLE" THEN "clearrx" ELSE "status"
    /\ UNCHANGED <<call, sent, cur, stat, load, out, chip, card>>

(* The RX request is cleared; the result is dropped again. *)
ClearRx ==
    /\ pc = "clearrx"
    /\ Drops(AfterWait)
    /\ irq' = irq \ {"RX"}
    /\ UNCHANGED <<call, sent, cur, stat, load, cmd, modem, fifo, err, timer, card>>

(* rc632_transceive after the wait: FIFO_LENGTH, *rx_len, fifo_read.       *)
ReadLength ==
    /\ pc = "length"
    /\ Works
    /\ IF fifo = <<>>
       THEN Return("EIO") /\ UNCHANGED call
       ELSE /\ pc' = "read"
            /\ call' = [call EXCEPT !.room = Least(@, Len(fifo))]
            /\ UNCHANGED out
    /\ UNCHANGED <<sent, cur, stat, load, chip, card>>

FifoRead ==
    /\ pc = "read"
    /\ Works
    /\ LET got == Least(call.room, Len(fifo))
       IN /\ fifo' = SubSeq(fifo, got + 1, Len(fifo))
          /\ out' = [out EXCEPT !.rx = SubSeq(fifo, 1, got)]
    /\ pc' = IF call.kind = "ab" THEN "ready" ELSE "collision"
    /\ UNCHANGED <<call, sent, cur, stat, load, cmd, modem, irq, err, timer, card>>

(* Faulty variant: the frame is taken as it is. *)
ReadCollisionNever ==
    /\ pc = "collision"
    /\ Works
    /\ pc' = "ready"
    /\ UNCHANGED <<call, sent, cur, stat, load, out, chip, card>>

(* ERROR_FLAG again, and COLL_POS: rc632_iso14443a_transceive_acf hands    *)
(* them on, rc632_iso14443a_transceive_sf only wants two bytes.            *)
ReadCollision ==
    /\ pc = "collision"
    /\ Works
    /\ IF call.kind = "acf"
       THEN pc' = "ready" /\ out' = [out EXCEPT !.boc = "COL" \in err]
       ELSE Return(IF call.room = 2 THEN "ok" ELSE "short")
    /\ UNCHANGED <<call, sent, cur, stat, load, chip, card>>

(* The end of rc632_mifare_set_key. *)
ReadKeyError ==
    /\ pc = "keyerr"
    /\ Works
    /\ Return(IF "KEY" \in err THEN "EINVAL" ELSE "ok")
    /\ UNCHANGED <<call, sent, cur, stat, load, chip, card>>

(* rc632_mifare_auth: an answer with odd bits is refused; the CRC of the   *)
(* transmitter is switched off and the second command follows.             *)
ReadSecondaryStatus ==
    /\ pc = "bitframe"
    /\ Works
    /\ \/ Return("EIO") /\ UNCHANGED call
       \/ /\ pc' = "control" /\ UNCHANGED out
          /\ call' = [call EXCEPT !.second = TRUE]
    /\ UNCHANGED <<sent, cur, stat, load, chip, card>>

(* CRYPTO1_ON says whether the card has the key. *)
ReadControl ==
    /\ pc = "crypto"
    /\ Works
    /\ Return("ok") \/ Return("EACCES")
    /\ UNCHANGED <<call, sent, cur, stat, load, chip, card>>

(* Failing accesses: those whose return value aborts the exchange, those   *)
(* whose return value is dropped, and writes that fail on the way back.    *)
Checked == {"control", "reload", "fill", "start", "more", "errflag", "irqrq",
            "command", "length", "read", "collision", "keyerr", "bitframe", "crypto"}

AccessFails ==
    \/ \E p \in Checked : Aborts(p)
    \/ call.kind = "key" /\ Aborts("idle")
    \/ call.kind # "key" /\ Ignored("idle", "clear")
    \/ Ignored("clear", "control") \/ Ignored("clearrx", AfterWait)
    \/ TimerControlLost \/ ClearTimerLost \/ StatusLost

---------------------------------------------------------------------------
(* The chip and the card.                                                  *)

(* The second authentication command sends a token of the chip's own. *)
ChipTransmits ==
    /\ modem = "tx" /\ fifo # <<>> /\ cmd # "AUTHENT2"
    /\ air' = [air EXCEPT !.bytes = Append(@, Head(fifo))]
    /\ fifo' = Tail(fifo)
    /\ UNCHANGED <<host, cmd, modem, irq, err, timer, answer, past, faults>>

(* The FIFO has run empty: the frame is complete, the timer starts, and    *)
(* the card makes up its answer.                                           *)
ChipTxEnd ==
    /\ modem = "tx" /\ (fifo = <<>> \/ cmd = "AUTHENT2")
    /\ modem' = "await"
    /\ timer' = [timer EXCEPT !.running = timer.start]
    /\ air' = NoFrame
    /\ \E n \in RespLens :
          /\ answer' = Bytes(air.by, "rsp", 0, n)
          /\ past' = [past EXCEPT !.len = n, !.errs = {}, !.expired = FALSE,
                                !.lost = @ \/ (cmd = "AUTHENT1" /\ ~timer.start)]
    /\ UNCHANGED <<host, cmd, fifo, irq, err, faults>>

TimerExpires ==
    /\ timer.running
    /\ timer' = [timer EXCEPT !.running = FALSE]
    /\ irq' = irq \cup {"TIMER"}
    /\ past' = [past EXCEPT !.expired = modem = "await"]
    /\ UNCHANGED <<host, cmd, modem, fifo, err, card, faults>>

ChipRxBegin ==
    /\ modem = "await" /\ answer # <<>>
    /\ modem' = "recv"
    /\ timer' = [timer EXCEPT !.running = @ /\ ~timer.stop]
    /\ UNCHANGED <<host, cmd, fifo, irq, err, card, past, faults>>

ChipReceives ==
    /\ modem = "recv" /\ answer # <<>>
    /\ fifo' = IF cmd = "TRANSCEIVE" THEN Pushed(<<Head(answer)>>) ELSE fifo
    /\ answer' = Tail(answer)
    /\ \E e \in {{}} \cup {{x} : x \in Errors} :
          err' = err \cup e /\ past' = [past EXCEPT !.errs = @ \cup e]
    /\ UNCHANGED <<host, cmd, modem, irq, timer, air, faults>>

(* The key is in the FIFO, with its complements, or the chip refuses it. *)
ChipLoadsKey ==
    /\ cmd = "LOAD_KEY"
    /\ cmd' = "IDLE" /\ irq' = irq \cup {"IDLE"} /\ fifo' = <<>>
    /\ err' = IF fifo = Bytes(call.n, "cmd", 0, 1) THEN err ELSE err \cup {"KEY"}
    /\ UNCHANGED <<host, modem, timer, card, past, faults>>

ChipRxEnd ==
    /\ modem = "recv" /\ answer = <<>>
    /\ modem' = "idle" /\ cmd' = "IDLE"
    /\ irq' = irq \cup {"RX", "IDLE"}
    /\ UNCHANGED <<host, fifo, err, timer, card, past, faults>>

---------------------------------------------------------------------------
Access ==
    \/ CommandIdle \/ ClearInterrupts \/ TimerControl \/ TimerReload
    \/ FifoWrite \/ StartCommand \/ FillMore
    \/ ReadStatus \/ ReadErrorFlag \/ ReadInterruptRq \/ ClearTimer
    \/ ReadCommand \/ ClearRx
    \/ ReadLength \/ FifoRead \/ ReadCollision
    \/ ReadKeyError \/ ReadSecondaryStatus \/ ReadControl

Host ==
    \/ \E kind \in Kinds \ {"auth"} :
          \E a \in Arguments(kind) : Enter(kind, a[1], a[2])
    \/ \E kind \in Kinds \cap {"auth"} :
          \E a \in Arguments(kind) : EnterAuth(kind, a[1], a[2])
    \/ Access
    \/ AccessFails

Chip ==
    \/ ChipTransmits \/ ChipTxEnd \/ TimerExpires
    \/ ChipRxBegin \/ ChipReceives \/ ChipRxEnd \/ ChipLoadsKey

Next == Host \/ Chip

Spec == Init /\ [][Next]_vars

(* The host executes on; the chip's transmitter, receiver and timer run.   *)
(* A card that has begun to answer goes on (or its frame ends), but        *)
(* whether it begins to is its own affair.                                 *)
Fairness ==
    /\ WF_vars(Access)
    /\ WF_vars(ChipTransmits \/ ChipTxEnd \/ ChipLoadsKey)
    /\ WF_vars(TimerExpires)
    /\ WF_vars(ChipReceives \/ ChipRxEnd)

FairSpec == Spec /\ Fairness

---------------------------------------------------------------------------
(* Properties.                                                             *)

(* The variables keep their types, and the FIFO its size. *)
TypeOK ==
    /\ pc \in Checked \cup {"ready", "idle", "clear", "status", "cleartimer", "clearrx"}
    /\ call \in [n : Nat, kind : Kinds \cup {"ab"}, tx_len : Nat, room : Nat, timeout : Nat,
                 second : BOOLEAN]
    /\ load \in [prescaler : 0..20, divisor : 0..255]
    /\ sent \in Nat /\ cur \in 0..FIFO
    /\ stat \in Status \cup {Unset}
    /\ out \in [ret : {"ok", "EIO", "ETIMEDOUT", "EINVAL", "EACCES", "short", "fault"}, rx : Seq(Byte), boc : BOOLEAN]
    /\ cmd \in {"IDLE", "TRANSCEIVE", "LOAD_KEY", "AUTHENT1", "AUTHENT2"}
    /\ modem \in {"idle", "tx", "await", "recv"}
    /\ fifo \in Seq(Byte) /\ Len(fifo) <= FIFO
    /\ irq \subseteq {"TIMER", "RX", "IDLE"} /\ err \subseteq {"COL", "PARITY", "CRC", "KEY"}
    /\ timer \in [start : BOOLEAN, stop : BOOLEAN, running : BOOLEAN]
    /\ air \in [by : Nat, bytes : Seq(Byte)]
    /\ answer \in Seq(Byte)
    /\ past \in [expired : BOOLEAN, len : Nat, errs : SUBSET Errors, fault : BOOLEAN,
                 lost : BOOLEAN]
    /\ faults \in Nat

Returned(r) == pc = "ready" /\ call.n > 0 /\ out.ret = r

Command == Bytes(call.n, "cmd", 0, call.tx_len)

(* An exchange that returns success, whose command fits the FIFO and in    *)
(* which no access failed, has read the beginning of the answer to the     *)
(* frame that was sent in it, and what it did not read is still in the     *)
(* FIFO: neither an answer that came after an earlier timeout, nor         *)
(* interrupt requests, a running timer or a command left over from         *)
(* exchanges that failed halfway, is taken for it.  An authentication that *)
(* succeeds had an answer to its second command.                           *)
AnswerIsOurs ==
    Returned("ok") /\ ~past.fault /\ call.tx_len <= FIFO =>
        /\ call.kind \in Transceives =>
              /\ out.rx # <<>>
              /\ out.rx \o fifo = Bytes(call.n, "rsp", 0, Least(FIFO, past.len))
        /\ call.kind = "auth" => past.len > 0

(* If every access works, a timeout is reported only when the chip's timer *)
(* ran out in this exchange before the card began to answer.               *)
TimeoutIsReal == Returned("ETIMEDOUT") /\ faults = 0 => past.expired

(* A collision in an anticollision frame never goes unnoticed, even when   *)
(* it happens between the host's look at the status and its look at the    *)
(* command register: the frame is refused, or its position is read.        *)
CollisionNotMissed ==
    Returned("ok") /\ call.kind = "acf" => (out.boc <=> "COL" \in past.errs)

(* Every exchange returns, whether or not a card answers and whatever the  *)
(* exchanges before it left in the chip, unless one of its own accesses    *)
(* fails: the wait has no limit of its own, and a dropped failure (of      *)
(* TIMER_CONTROL: the timer never starts; of COMMAND: a late RX request    *)
(* hides the timer's) leaves it without an end; or unless the timer of     *)
(* AUTHENT1, which is sent before the timer is set up, runs out before     *)
(* rc632_timer_set clears its request, or is not started, or is hidden by  *)
(* an RX request that the key load before it failed to clear.              *)
ExchangeReturns == (pc # "ready") ~> (pc = "ready" \/ past.fault \/ past.lost)

(* The timer is loaded with ten times what the caller asked for, up to a   *)
(* tenth more or less.                                                     *)
Covered ==
    pc = "reload" =>
        LET ticks == 2^load.prescaler * load.divisor             \* of 1/13.56 us
        IN /\ ticks >= 9 * ((call.timeout * 1356) \div 100)
           /\ ticks <= 11 * ((call.timeout * 1356) \div 100)

(* best_prescaler finds such a time for every limit below 100 ms. *)
TimerCovers == call.timeout < 100000 => Covered

---------------------------------------------------------------------------
(* What comments of the code say of it and the code does not do.           *)

(* rc632_iso14443a_transceive_acf: "determine whether there was a          *)
(* collission", "retrieve bit of collission".  After a collision the       *)
(* caller gets the position of it.                                         *)
CollisionLocated ==
    pc = "ready" /\ call.kind = "acf" /\ ~past.fault /\ "COL" \in past.errs =>
        out.ret = "ok" /\ out.boc

(* best_prescaler: "calculate best 8bit prescaler and divisor for given    *)
(* usec timeout".  The timer covers every limit that a caller asks for.    *)
(* (From 100 ms on no prescaler passes, and the divisor is whatever the    *)
(* stack holds; a T=CL card of FWI 9 is given 155 ms.)                     *)
AnyLimitCovered == Covered
=============================================================================
