-------------------------------- MODULE TCL --------------------------------
(***************************************************************************)
(* The reader (PCD) side of ISO 14443-4, T=CL, over type A cards:          *)
(* src/src/rfid_proto_tcl.c.  The operations of the protocol handle are    *)
(* tcl_init, tcl_connect (RATS, ATS, PPS), tcl_transceive (block chaining  *)
(* in both directions, block numbers, waiting time extension),             *)
(* tcl_deselect and tcl_fini.                                              *)
(*                                                                         *)
(* At the other end of the radio link is a card (PICC).  It is not code of *)
(* the library: it follows the block rules the protocol code relies on.    *)
(* The link is half duplex, loses blocks in either direction, and never    *)
(* duplicates or delays one beyond its exchange.                           *)
(*                                                                         *)
(* A run of bytes is a segment: `len' bytes from offset `off' of the       *)
(* command, or of the response, of transceive call number `src'.           *)
(***************************************************************************)
EXTENDS Integers, Sequences, ISO14443Common

CONSTANTS
    MTU,          \* asic handle: maximum transmit unit (the FIFO, 64 bytes)
    MRU,          \* asic handle: maximum receive unit
    ReaderDI,     \* divisors of the reader's speed mask, as 0..3 (PPS_DIV_x)
    BeyondTable,  \* what the word behind fsdi_table may hold
    ATSs,         \* answers to select the cards in the field may give
    TxLens,       \* command lengths the application passes
    RespLens,     \* response lengths the card produces
    WTXMs,        \* waiting time multipliers the card asks for
    ForeignCid,   \* TRUE: the card may answer with a CID that is not ours
    OpensFirst,   \* TRUE: the application transceives on opened handles only
    MaxCalls,     \* bound: number of tcl_transceive calls
    MaxLoss,      \* bound: number of lost blocks, failed register writes and
                  \* foreign CIDs
    MaxWtx        \* bound: waiting time extensions per command

(* An ATS: `len' 0 is malformed, 1 is TL alone, 2 stands for TL, T0, ...;  *)
(* dr and ds are the divisors offered in TA for the two directions, fwi is *)
(* transmitted only when tb holds.                                         *)
ATSRecord == [len : 0..2, fsci : 0..15, dr : SUBSET (1..3), ds : SUBSET (1..3),
              tb : BOOLEAN, fwi : 0..15]

ASSUME SizesAssumption == MTU \in Nat /\ MTU >= 32 /\ MRU \in Nat
ASSUME ReaderDIAssumption == ReaderDI \subseteq 1..3
ASSUME CardAssumption == /\ ATSs \subseteq ATSRecord
                         /\ BeyondTable \subseteq Nat
                         /\ RespLens \subseteq Nat
                         /\ WTXMs \subseteq Nat
                         /\ ForeignCid \in BOOLEAN
ASSUME AppAssumption == TxLens \subseteq Nat /\ OpensFirst \in BOOLEAN
ASSUME BoundsAssumption == MaxCalls \in Nat /\ MaxLoss \in Nat /\ MaxWtx \in Nat

VARIABLES
    \* struct tcl_handle
    state,        \* protocol state; "FREE" when there is no handle
    toggle,       \* block number of the last block built
    fsc, fwt,     \* frame size of the card, frame waiting time
    ta,           \* divisors offered by the card: [dr, ds]
    \* the operation in progress
    op,           \* whose answer the PCD waits for, "none" between calls
    ctx,          \* struct tcl_tx_context of the current or last transceive
    timeout,      \* timeout of the exchange in progress
    ret,          \* return value of the last operation: "ok" or "err"
    rate,         \* divisors the reader is set to: [rx, tx]
    \* the link and the card
    air,          \* the block on the radio link
    card,         \* the card's state
    executed,     \* history: commands the card executed, in order
    \* ghosts
    paired,       \* the card was activated by the RATS of this handle
    skew,         \* parity of the I- and R-blocks of this handle that no card took
    losses        \* number of these losses so far

handle == <<state, toggle, fsc, fwt, ta>>
app    == <<op, ctx, timeout, ret>>
vars   == <<handle, app, rate, air, card, executed, paired, skew, losses>>

---------------------------------------------------------------------------
(* Segments, blocks and the types of the variables.                        *)

Seg   == [src : Nat, off : Nat, len : Nat]
NoSeg == [src |-> 0, off |-> 0, len |-> 0]
Bit   == {0, 1}

(* A block.  kind "none" going up is an expired timer or a reception       *)
(* error; `inf' is the WTXM of an S(WTX) or the divisors of a PPS.         *)
Block == [dir : {"down", "up", "quiet"},
          kind : {"RATS", "ATS", "PPS", "I", "R", "WTX", "DESELECT", "none"},
          num : Bit, more : BOOLEAN, seg : Seg, inf : Nat, foreign : BOOLEAN]

Frame(d, k, n, m, s, i) ==
    [dir |-> d, kind |-> k, num |-> n, more |-> m, seg |-> s, inf |-> i,
     foreign |-> FALSE]

Quiet   == Frame("quiet", "none", 0, FALSE, NoSeg, 0)
Silence == Frame("up", "none", 0, FALSE, NoSeg, 0)

Ctx  == [call : Nat, tx_len : Nat, next_tx : Nat, rx : Seq(Seg)]
NoTA == [dr |-> {}, ds |-> {}]

States == {"FREE", "INITIAL", "RATS_SENT", "ATS_RCVD", "ESTABLISHED",
           "DESELECTED"}

---------------------------------------------------------------------------
(* Helpers of rfid_proto_tcl.c.                                            *)

Lesser(m, n) == IF m < n THEN m ELSE n

(* fwi_to_fwt: 1000000 * 256 * 16 / 13560000 is 302 microseconds, times    *)
(* two to the power of fwi, which is capped at 14.                         *)
PowersOfTwo == <<1, 2, 4, 8, 16, 32, 64, 128, 256, 512, 1024, 2048, 4096, 8192, 16384>>
fwi_to_fwt(fwi) == 302 * PowersOfTwo[Lesser(fwi, 14) + 1]

ActivationFwt == 4833   \* activation_fwt: 1000000 * 65536 / 13560000

(* The frame size the reader announces in RATS: tcl_init. *)
FSD == iso14443_fsd_approx(MRU)

(* d_to_di: the largest divisor that the card offers and the reader has.   *)
d_to_di(D) ==
    IF D \cap ReaderDI = {} THEN 0
    ELSE CHOOSE d \in D \cap ReaderDI : \A e \in D \cap ReaderDI : e <= d

(* Ds of tcl_do_pps: `ta & 0x70 >> 4' is `ta & (0x70 >> 4)', the bits of   *)
(* Dr, so that both directions get the divisor of one.                     *)
PpsDs(offer) == offer.dr

(* ta & 0x77 of tcl_connect *)
OffersDivisors(offer) == offer.dr \cup offer.ds # {}

(* Faulty variant: the frame size is not clamped to the FIFO. *)
ParsedFscUnclamped(ats) ==
    IF ats.len = 1 THEN {32} ELSE iso14443_fsdi_to_fsd(ats.fsci, fsc, BeyondTable)

(* tcl_parse_ats: the frame size and the waiting time it leaves in the     *)
(* handle.  The frame size is clamped to the FIFO; without TB the waiting  *)
(* time keeps the 0 of the memset in tcl_init.                             *)
ParsedFsc(ats) ==
    IF ats.len = 1 THEN {32}
    ELSE {Lesser(v, MTU) : v \in iso14443_fsdi_to_fsd(ats.fsci, fsc, BeyondTable)}

ParsedFwt(ats) ==
    IF ats.len = 1 THEN fwi_to_fwt(4)
    ELSE IF ats.tb THEN fwi_to_fwt(ats.fwi)
    ELSE fwt

ParsedTa(ats) == IF ats.len = 1 THEN NoTA ELSE [dr |-> ats.dr, ds |-> ats.ds]

(* Faulty variants: the number is not reduced to one bit; only I-blocks    *)
(* flip it.                                                                *)
PrologueCounts(kind) == IF kind \in {"I", "R"} THEN toggle + 1 ELSE toggle
PrologueIOnly(kind)  == IF kind = "I" THEN 1 - toggle ELSE toggle

(* tcl_build_prologue2: I- and R-blocks flip the toggle and carry its new  *)
(* value, S-blocks leave it alone.                                         *)
tcl_build_prologue2(kind) == IF kind \in {"I", "R"} THEN 1 - toggle ELSE toggle

(* Information bytes of the next I-block: tcl_refill_xcvb compares with    *)
(* the unsigned fsc - 1, which wraps to the largest integer when fsc is 0. *)
NetLen(todo) == IF fsc >= 1 /\ todo > fsc - 1 THEN fsc - 1 ELSE todo

(* tcl_transceive drops an I- or R-block whose number is not the toggle,   *)
(* and any block that carries a CID other than the handle's (check_cid).   *)
WrongToggle(b) == b.num # toggle
check_cid(b)   == ~b.foreign

(* WTXM 0 and 60..63 are reserved; only six bits code it. *)
BadWtxm(inf) == LET w == inf % 64 IN w = 0 \/ w >= 60

(* Faulty variant: the extension is acknowledged but not waited for. *)
WtxTimeoutPlain(inf) == fwt

(* fill_xcvb_wtxm: the timeout of the exchange that acknowledges a WTX. *)
WtxTimeout(inf) == fwt * (inf % 64)

---------------------------------------------------------------------------
(* The operations of the PCD.                                              *)

Card == [st : {"ACTIVE", "PROTOCOL", "HALT"}, num : Bit, dri : 0..3, dsi : 0..3,
         ats : ATSRecord, chain : Seq(Seg), resp : Seg, wtx : Nat]

FreshCard(ats) == [st |-> "ACTIVE", num |-> 1, dri |-> 0, dsi |-> 0, ats |-> ats,
                   chain |-> <<>>, resp |-> NoSeg, wtx |-> 0]

Init ==
    /\ state = "FREE" /\ toggle = 0 /\ fsc = 0 /\ fwt = 0 /\ ta = NoTA
    /\ op = "none"
    /\ ctx = [call |-> 0, tx_len |-> 0, next_tx |-> 0, rx |-> <<>>]
    /\ timeout = 0
    /\ ret = [of |-> "none", val |-> "ok"]
    /\ rate = [rx |-> 0, tx |-> 0]
    /\ air = Quiet
    /\ card \in {FreshCard(ats) : ats \in ATSs}
    /\ executed = <<>>
    /\ paired = FALSE /\ skew = 0 /\ losses = 0

Return(o, v) == op' = "none" /\ air' = Quiet /\ ret' = [of |-> o, val |-> v]
Transmit(o, k, n, m, s, i, t) ==
    /\ op' = o
    /\ air' = Frame("down", k, n, m, s, i)
    /\ timeout' = t
    /\ UNCHANGED ret

(* A layer 2 handle is made and opened again (rfid_layer2_init, then       *)
(* rfid_layer2_open): the init of the layer puts the reader back to 106    *)
(* kbit/s, the open selects a card of the field, ready for RATS.           *)
rfid_layer2_init ==
    /\ state = "FREE" /\ op = "none"
    /\ \E ats \in ATSs : card' = FreshCard(ats)
    /\ rate' = [rx |-> 0, tx |-> 0]
    /\ paired' = FALSE
    /\ UNCHANGED <<handle, app, air, executed, skew, losses>>

(* Faulty variant: the toggle keeps the 0 of the memset. *)
InitToggleZero ==
    /\ state = "FREE" /\ op = "none"
    /\ state' = "INITIAL" /\ toggle' = 0
    /\ fsc' = 0 /\ fwt' = 0 /\ ta' = NoTA
    /\ paired' = FALSE /\ skew' = 0
    /\ UNCHANGED <<app, rate, air, card, executed, losses>>

tcl_init ==
    /\ state = "FREE" /\ op = "none"
    /\ state' = "INITIAL" /\ toggle' = 1
    /\ fsc' = 0 /\ fwt' = 0 /\ ta' = NoTA
    /\ paired' = FALSE /\ skew' = 0
    /\ UNCHANGED <<app, rate, air, card, executed, losses>>

(* tcl_connect, tcl_request_ats: only an INITIAL handle gets as far as     *)
(* sending RATS (a DESELECTED one passes tcl_connect's own check).         *)
tcl_connect ==
    /\ state # "FREE" /\ op = "none"
    /\ IF state = "INITIAL"
       THEN Transmit("rats", "RATS", 0, FALSE, NoSeg, 0, ActivationFwt)
       ELSE Return("connect", "err") /\ UNCHANGED timeout
    /\ UNCHANGED <<handle, ctx, rate, card, executed, paired, skew, losses>>

RatsFails ==
    /\ op = "rats" /\ air = Silence
    /\ state' = "RATS_SENT"
    /\ Return("connect", "err")
    /\ UNCHANGED <<toggle, fsc, fwt, ta, ctx, timeout, rate, card, executed,
                   paired, skew, losses>>

(* The rest of tcl_request_ats with tcl_parse_ats, and what tcl_connect    *)
(* does next: PPS (tcl_do_pps up to its transceive) or ESTABLISHED.        *)
RatsAnswered ==
    /\ op = "rats" /\ air.kind = "ATS"
    /\ LET ats == card.ats
           dri == d_to_di(ParsedTa(ats).dr)
           dsi == d_to_di(PpsDs(ParsedTa(ats)))
       IN IF ats.len = 0
          THEN /\ state' = "ATS_RCVD"
               /\ Return("connect", "err")
               /\ UNCHANGED <<fsc, fwt, ta, timeout>>
          ELSE /\ fsc' \in ParsedFsc(ats)
               /\ fwt' = ParsedFwt(ats)
               /\ ta' = ParsedTa(ats)
               /\ IF OffersDivisors(ParsedTa(ats))
                  THEN /\ state' = "ATS_RCVD"
                       /\ Transmit("pps", "PPS", 0, FALSE, NoSeg,
                                   dri + 4 * dsi, ParsedFwt(ats))
                  ELSE /\ state' = "ESTABLISHED"
                       /\ Return("connect", "ok")
                       /\ UNCHANGED timeout
    /\ UNCHANGED <<toggle, ctx, rate, card, executed, paired, skew, losses>>

PpsFails ==
    /\ op = "pps" /\ air = Silence
    /\ Return("connect", "err")
    /\ UNCHANGED <<handle, ctx, timeout, rate, card, executed, paired, skew, losses>>

(* Faulty variant: only the receive speed is set. *)
SetSpeedsRxOnly(ok, di) ==
    rate' = [rx |-> IF ok >= 1 THEN di ELSE rate.rx, tx |-> rate.tx]

(* After the PPS response tcl_do_pps sets the receive speed, then the      *)
(* transmit speed, both to the divisor of Dr; each register write may fail *)
(* (ok = 0 or 1 tells how many succeed) and then the handle stays ATS_RCVD.*)
SetSpeeds(ok, di) ==
    rate' = [rx |-> IF ok >= 1 THEN di ELSE rate.rx,
             tx |-> IF ok = 2 THEN di ELSE rate.tx]

PpsAnswered ==
    /\ op = "pps" /\ air.kind = "PPS" /\ air.dir = "up"
    /\ \E ok \in 0..2 :
          /\ ok < 2 => losses < MaxLoss
          /\ SetSpeeds(ok, d_to_di(ta.dr))
          /\ losses' = IF ok < 2 THEN losses + 1 ELSE losses
          /\ state' = IF ok < 2 THEN state ELSE "ESTABLISHED"
          /\ Return("connect", IF ok < 2 THEN "err" ELSE "ok")
    /\ UNCHANGED <<toggle, fsc, fwt, ta, ctx, timeout, card, executed, paired, skew>>

(* Faulty variant: hdr_len is added before the pointer is moved. *)
RefillHeaderFirst(c) ==
    LET n == NetLen(c.tx_len - c.next_tx)
    IN IF c.next_tx >= c.tx_len
       THEN /\ Return("xchg", "err")
            /\ ctx' = c
            /\ UNCHANGED <<toggle, timeout>>
       ELSE /\ toggle' = tcl_build_prologue2("I")
            /\ ctx' = [c EXCEPT !.next_tx = @ + n + 1]
            /\ Transmit("xchg", "I", tcl_build_prologue2("I"), c.next_tx + n + 1 < c.tx_len,
                        [src |-> c.call, off |-> c.next_tx, len |-> n], 0, fwt)

(* tcl_refill_xcvb on context c: the next I-block of the command, or an    *)
(* error when there is nothing left to send.                               *)
tcl_refill_xcvb(c) ==
    LET n == NetLen(c.tx_len - c.next_tx)
    IN IF c.next_tx >= c.tx_len
       THEN /\ Return("xchg", "err")
            /\ ctx' = c
            /\ UNCHANGED <<toggle, timeout>>
       ELSE /\ toggle' = tcl_build_prologue2("I")
            /\ ctx' = [c EXCEPT !.next_tx = @ + n]
            /\ Transmit("xchg", "I", tcl_build_prologue2("I"), c.next_tx + n < c.tx_len,
                        [src |-> c.call, off |-> c.next_tx, len |-> n], 0, fwt)

(* tcl_transceive itself never looks at the protocol state: an application *)
(* may call it on any handle, or, with OpensFirst, as the tools do, only   *)
(* after rfid_protocol_open succeeded.                                     *)
tcl_transceive(len) ==
    /\ state # "FREE" /\ op = "none" /\ ctx.call < MaxCalls
    /\ OpensFirst => state = "ESTABLISHED"
    /\ tcl_refill_xcvb([call |-> ctx.call + 1, tx_len |-> len, next_tx |-> 0,
                        rx |-> <<>>])
    /\ UNCHANGED <<state, fsc, fwt, ta, rate, card, executed, paired, skew, losses>>

(* Faulty variant: an error starts the command over. *)
XchgFailsRestarts ==
    /\ op = "xchg" /\ air = Silence
    /\ tcl_refill_xcvb([ctx EXCEPT !.next_tx = 0])
    /\ UNCHANGED <<state, fsc, fwt, ta, rate, card, executed, paired, skew, losses>>

(* The branches of tcl_transceive on the block received.  Every error of   *)
(* the layer below ends the call; so does, with success, a block that has  *)
(* the wrong number or a foreign CID.                                      *)
XchgFails ==
    /\ op = "xchg" /\ air = Silence
    /\ Return("xchg", "err")
    /\ UNCHANGED <<handle, ctx, timeout, rate, card, executed, paired, skew, losses>>

XchgRBlock ==
    /\ op = "xchg" /\ air.dir = "up" /\ air.kind = "R"
    /\ IF WrongToggle(air) \/ ~check_cid(air)
       THEN Return("xchg", "ok") /\ UNCHANGED <<toggle, ctx, timeout>>
       ELSE tcl_refill_xcvb(ctx)
    /\ UNCHANGED <<state, fsc, fwt, ta, rate, card, executed, paired, skew, losses>>

(* fill_xcvb_wtxm: the S(WTX) response, with the extended timeout *)
XchgSBlock ==
    /\ op = "xchg" /\ air.dir = "up" /\ air.kind = "WTX"
    /\ IF ~check_cid(air) \/ BadWtxm(air.inf)
       THEN Return("xchg", IF check_cid(air) THEN "err" ELSE "ok") /\ UNCHANGED timeout
       ELSE Transmit("xchg", "WTX", 0, FALSE, NoSeg, air.inf % 64, WtxTimeout(air.inf))
    /\ UNCHANGED <<handle, ctx, rate, card, executed, paired, skew, losses>>

XchgIBlock ==
    /\ op = "xchg" /\ air.dir = "up" /\ air.kind = "I"
    /\ IF WrongToggle(air) \/ ~check_cid(air)
       THEN Return("xchg", "ok") /\ UNCHANGED <<toggle, ctx, timeout>>
       ELSE /\ ctx' = [ctx EXCEPT !.rx = Append(@, air.seg)]
            /\ IF air.more
               THEN /\ toggle' = tcl_build_prologue2("R")
                    /\ Transmit("xchg", "R", tcl_build_prologue2("R"), FALSE, NoSeg, 0, fwt)
               ELSE /\ Return("xchg", "ok")
                    /\ UNCHANGED <<toggle, timeout>>
    /\ UNCHANGED <<state, fsc, fwt, ta, rate, card, executed, paired, skew, losses>>

(* tcl_deselect sends S(DESELECT) in whatever state the handle is. *)
tcl_deselect ==
    /\ state # "FREE" /\ op = "none"
    /\ Transmit("deselect", "DESELECT", 0, FALSE, NoSeg, 0, ActivationFwt)
    /\ UNCHANGED <<handle, ctx, rate, card, executed, paired, skew, losses>>

DeselectFails ==
    /\ op = "deselect" /\ air = Silence
    /\ Return("deselect", "err")
    /\ UNCHANGED <<handle, ctx, timeout, rate, card, executed, paired, skew, losses>>

DeselectAnswered ==
    /\ op = "deselect" /\ air.dir = "up" /\ air.kind # "none"
    /\ state' = "DESELECTED"
    /\ Return("deselect", "ok")
    /\ UNCHANGED <<toggle, fsc, fwt, ta, ctx, timeout, rate, card, executed,
                   paired, skew, losses>>

tcl_fini ==
    /\ state # "FREE" /\ op = "none"
    /\ state' = "FREE"
    /\ UNCHANGED <<toggle, fsc, fwt, ta, app, rate, air, card, executed, paired,
                   skew, losses>>

---------------------------------------------------------------------------
(* The link and the card.                                                  *)

Numbered == air.kind \in {"I", "R"}

(* A block the card never takes still flipped the PCD's toggle. *)
Untaken == skew' = IF Numbered THEN 1 - skew ELSE skew

LoseDown ==
    /\ air.dir = "down" /\ losses < MaxLoss
    /\ air' = Silence
    /\ losses' = losses + 1
    /\ Untaken
    /\ UNCHANGED <<handle, app, rate, card, executed, paired>>

LoseUp ==
    /\ air.dir = "up" /\ air.kind # "none" /\ losses < MaxLoss
    /\ air' = Silence
    /\ losses' = losses + 1
    /\ UNCHANGED <<handle, app, rate, card, executed, paired, skew>>

(* The card hears blocks sent at its own speed, and obeys RATS when it is  *)
(* freshly selected, everything else from then on until S(DESELECT).       *)
InTune  == rate.tx = card.dri
Offered(di, offer) == di \in offer \cup {0}
PpsAcceptable == /\ Offered(air.inf % 4, card.ats.dr)
                 /\ Offered(air.inf \div 4, card.ats.ds)
Obeys ==
    /\ InTune
    /\ CASE air.kind = "RATS" -> card.st = "ACTIVE"
         [] air.kind = "PPS"  -> card.st = "PROTOCOL" /\ PpsAcceptable
         [] OTHER             -> card.st = "PROTOCOL"

CardMute ==
    /\ air.dir = "down" /\ ~Obeys
    /\ air' = Silence
    /\ Untaken
    /\ UNCHANGED <<handle, app, rate, card, executed, paired, losses>>

(* The PCD receives at its own speed.  An answer with a CID that is not    *)
(* the handle's counts as a loss.                                          *)
CardAnswers(f) ==
    \E b \in {FALSE, ForeignCid /\ losses < MaxLoss} :
        /\ air' = IF rate.rx = card.dsi THEN [f EXCEPT !.foreign = b] ELSE Silence
        /\ losses' = IF b THEN losses + 1 ELSE losses

CardRats ==
    /\ air.dir = "down" /\ air.kind = "RATS" /\ Obeys
    /\ card' = [card EXCEPT !.st = "PROTOCOL", !.num = 1]
    /\ paired' = TRUE
    /\ air' = Frame("up", "ATS", 0, FALSE, NoSeg, 0)
    /\ UNCHANGED <<handle, app, rate, executed, skew, losses>>

CardPps ==
    /\ air.dir = "down" /\ air.kind = "PPS" /\ Obeys
    /\ card' = [card EXCEPT !.dri = air.inf % 4, !.dsi = air.inf \div 4]
    /\ air' = Frame("up", "PPS", 0, FALSE, NoSeg, 0)
    /\ UNCHANGED <<handle, app, rate, executed, paired, skew, losses>>

(* The card, in state c, answers with the next I-block of its response, or *)
(* first asks for more time.                                               *)
SendResponse(c) ==
    LET n == Lesser(c.resp.len, FSD - 3)
    IN /\ card' = [c EXCEPT !.resp = [src |-> c.resp.src, off |-> c.resp.off + n,
                                      len |-> c.resp.len - n]]
       /\ CardAnswers(Frame("up", "I", c.num, n < c.resp.len,
                            [src |-> c.resp.src, off |-> c.resp.off, len |-> n], 0))

AskForTime(c) ==
    /\ c.wtx < MaxWtx
    /\ card' = [c EXCEPT !.wtx = @ + 1]
    /\ \E m \in WTXMs : CardAnswers(Frame("up", "WTX", 0, FALSE, NoSeg, m))

(* An I-block flips the card's number whatever number it carries.  With    *)
(* the chaining bit it is kept and acknowledged, otherwise it completes a  *)
(* command, which the card executes.                                       *)
CardIBlock ==
    /\ air.dir = "down" /\ air.kind = "I" /\ Obeys
    /\ LET got == Append(card.chain, air.seg)
           c   == [card EXCEPT !.num = 1 - @, !.chain = IF air.more THEN got ELSE <<>>]
       IN IF air.more
          THEN /\ card' = c
               /\ CardAnswers(Frame("up", "R", c.num, FALSE, NoSeg, 0))
               /\ UNCHANGED executed
          ELSE \E n \in RespLens :
                  /\ executed' = Append(executed, [call |-> ctx.call, cmd |-> got,
                                                   asked |-> ctx.tx_len, resp |-> n])
                  /\ LET d == [c EXCEPT !.wtx = 0,
                                        !.resp = [src |-> ctx.call, off |-> 0, len |-> n]]
                     IN SendResponse(d) \/ AskForTime(d)
    /\ UNCHANGED <<handle, app, rate, paired, skew>>

(* An R(ACK) that carries the other number acknowledges the last I-block   *)
(* of the response; with the card's own number it asks for a repetition,   *)
(* which RAckIsFresh shows never happens.                                  *)
CardRBlock ==
    /\ air.dir = "down" /\ air.kind = "R" /\ Obeys /\ air.num # card.num
    /\ SendResponse([card EXCEPT !.num = 1 - @])
    /\ UNCHANGED <<handle, app, rate, executed, paired, skew>>

CardWtx ==
    /\ air.dir = "down" /\ air.kind = "WTX" /\ Obeys
    /\ SendResponse(card) \/ AskForTime(card)
    /\ UNCHANGED <<handle, app, rate, executed, paired, skew>>

CardDeselect ==
    /\ air.dir = "down" /\ air.kind = "DESELECT" /\ Obeys
    /\ card' = [card EXCEPT !.st = "HALT"]
    /\ air' = Frame("up", "DESELECT", 0, FALSE, NoSeg, 0)
    /\ UNCHANGED <<handle, app, rate, executed, paired, skew, losses>>

---------------------------------------------------------------------------
Application ==
    \/ rfid_layer2_init
    \/ tcl_init
    \/ tcl_connect
    \/ \E len \in TxLens : tcl_transceive(len)
    \/ tcl_deselect
    \/ tcl_fini

Reader ==
    \/ RatsFails \/ RatsAnswered
    \/ PpsFails \/ PpsAnswered
    \/ XchgFails \/ XchgRBlock \/ XchgSBlock \/ XchgIBlock
    \/ DeselectFails \/ DeselectAnswered

CardStep ==
    \/ CardMute \/ CardRats \/ CardPps \/ CardIBlock \/ CardRBlock \/ CardWtx
    \/ CardDeselect

Loss == LoseDown \/ LoseUp

Next == Application \/ Reader \/ CardStep \/ Loss

Spec == Init /\ [][Next]_vars

(* The reader's code runs on once the exchange below it has returned, and  *)
(* that exchange always ends: the card answers, or the chip's timer fires. *)
(* The application owes nothing.                                           *)
Fairness == WF_vars(Reader) /\ WF_vars(CardStep)

FairSpec == Spec /\ Fairness

---------------------------------------------------------------------------
(* Properties.                                                             *)

(* The variables keep their types: what the C declarations and the enum of *)
(* protocol states allow, and blocks are well formed.                      *)
TypeOK ==
    /\ state \in States /\ toggle \in Bit /\ fsc \in Nat /\ fwt \in Nat
    /\ ta \in [dr : SUBSET (1..3), ds : SUBSET (1..3)]
    /\ op \in {"none", "rats", "pps", "xchg", "deselect"}
    /\ ctx \in Ctx /\ timeout \in Nat
    /\ ret \in [of : {"none", "connect", "xchg", "deselect"}, val : {"ok", "err"}]
    /\ rate \in [rx : 0..3, tx : 0..3]
    /\ air \in Block /\ card \in Card
    /\ executed \in Seq([call : Nat, cmd : Seq(Seg), asked : Nat, resp : Nat])
    /\ paired \in BOOLEAN /\ skew \in Bit /\ losses \in Nat

(* The skew once the block on its way to the card is taken. *)
Due == IF air.dir = "down" /\ Numbered THEN 1 - skew ELSE skew

(* Block numbers never drift by themselves: between the PCD's toggle and   *)
(* the number of the card that this handle activated lies exactly the      *)
(* parity of the blocks no card took, however calls, chains, waiting time  *)
(* extensions and errors interleave.                                       *)
ToggleParity ==
    paired => ((toggle = card.num) <=> (Due = 0))

(* An R(ACK) of tcl_transceive always acknowledges the last block of the   *)
(* card: it never carries the card's own number, which would make the card *)
(* repeat a block the PCD already has in its buffer.                       *)
RAckIsFresh == air.dir = "down" /\ air.kind = "R" => air.num # card.num

(* An I-block never exceeds the frame size taken from the ATS, nor the     *)
(* FIFO, once tcl_parse_ats has found a frame size.                        *)
FrameFits ==
    air.dir = "down" /\ air.kind = "I" /\ fsc > 0 =>
        air.seg.len + 1 <= fsc /\ fsc <= MTU

(* A handle that became ESTABLISHED talks at the card's speed in both      *)
(* directions, whichever step of the PPS run was lost or failed.           *)
SpeedAgreement ==
    state = "ESTABLISHED" /\ paired => rate = [rx |-> card.dsi, tx |-> card.dri]

(* segs is, in order and without a gap, all n bytes of buffer src. *)
Covers(segs, src, n) ==
    /\ segs # <<>> /\ segs[1].off = 0
    /\ \A i \in 1..Len(segs) : segs[i].src = src
    /\ \A i \in 1..Len(segs) - 1 : segs[i + 1].off = segs[i].off + segs[i].len
    /\ segs[Len(segs)].off + segs[Len(segs)].len = n

(* segs ends with all n bytes of buffer src. *)
EndsWith(segs, src, n) ==
    \E k \in 1..Len(segs) : Covers(SubSeq(segs, k, Len(segs)), src, n)

LastExecuted == executed[Len(executed)]

(* The current call's command was executed, and the application has all of *)
(* the response.                                                           *)
Completed ==
    /\ executed # <<>> /\ LastExecuted.call = ctx.call
    /\ EndsWith(LastExecuted.cmd, ctx.call, ctx.tx_len)
    /\ Covers(ctx.rx, ctx.call, LastExecuted.resp)

CallReturned(v) == op = "none" /\ ret = [of |-> "xchg", val |-> v]

(* As long as the two block numbers agree, success means success: the card *)
(* received all of this command (perhaps behind what an interrupted call   *)
(* left in it) and the application all of its response, whatever was lost  *)
(* before.                                                                 *)
SyncedExchange == CallReturned("ok") /\ paired /\ skew = 0 => Completed

(* As long as nothing is lost, for an application that opens first, the    *)
(* exchange is transparent: every call succeeds, the card executes exactly *)
(* the bytes that were passed and the application gets the whole response. *)
EndToEnd ==
    losses = 0 =>
        /\ \A i \in 1..Len(executed) :
              Covers(executed[i].cmd, executed[i].call, executed[i].asked)
        /\ op = "none" /\ ret.of = "xchg" => ret.val = "ok" /\ Completed

(* What the card may take to answer the block on the air: its frame        *)
(* waiting time (FWI 4 when the ATS names none), extended by what it asked *)
(* for in S(WTX).                                                          *)
NamesFwi == card.ats.len = 2 => card.ats.tb
CardFwt == fwi_to_fwt(IF card.ats.len = 2 /\ card.ats.tb THEN card.ats.fwi ELSE 4)
CardDelay == IF air.kind = "WTX" THEN CardFwt * air.inf ELSE CardFwt

WaitsForCard ==
    op = "xchg" /\ air.dir = "down" /\ state = "ESTABLISHED" => timeout >= CardDelay

(* tcl_transceive never gives up on a card that is within its time, unless *)
(* the card's ATS goes on behind TL without TB: tcl_parse_ats then sets no *)
(* frame waiting time (DefaultFwi below).                                  *)
DeadlineMet == NamesFwi => WaitsForCard

(* Every operation returns: no loss, error or chain of blocks keeps a call *)
(* of the protocol handle from coming back to the application.             *)
CallsReturn == (op # "none") ~> (op = "none")

Exchange == INSTANCE CardExchange WITH
    calls <- ctx.call,
    busy  <- op = "xchg",
    log   <- [i \in 1..Len(executed) |-> executed[i].call],
    got   <- [i \in 1..Len(ctx.rx) |-> ctx.rx[i].src]

(* tcl_transceive keeps the promise of CardExchange: a command is executed *)
(* at most once, during its own call, and no byte of an older response is  *)
(* ever delivered, although blocks are lost and cards are left in the      *)
(* middle of a chain.                                                      *)
ExchangeSpec == Exchange!Spec

---------------------------------------------------------------------------
(* What comments of the code say of it and the code does not do.           *)

(* rfid_protocol_tcl.h, ESTABLISHED: "xchg transparent data".  A call that *)
(* succeeds on an ESTABLISHED handle has exchanged its data.               *)
SuccessMeansDone == CallReturned("ok") /\ state = "ESTABLISHED" => Completed

(* tcl_parse_ats: "Section 7.2: fwi default for type A is 4".  A card that *)
(* does not name its FWI is given the time of FWI 4.                       *)
DefaultFwi == ~NamesFwi => WaitsForCard
=============================================================================
